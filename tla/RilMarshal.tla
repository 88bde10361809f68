----------------------------- MODULE RilMarshal -----------------------------
(***************************************************************************)
(* The marshalling half of libril: the tables s_commands and               *)
(* s_unsolResponses, the dispatch functions, which turn a client's parcel   *)
(* into the data handed to onRequest(), and the response functions, which   *)
(* turn what the vendor library hands back into a parcel.  A payload is its *)
(* shape and the number of its elements; the functions look at its length   *)
(* only, so a payload of the wrong shape and a fitting length is garbled.   *)
(***************************************************************************)
EXTENDS RilContract, Integers, Sequences

\* Bytes of one element of each shape, with 32-bit pointers.
SizeOf ==
    [null |-> 0, ints |-> 4, strings |-> 4, string |-> 1, raw |-> 1, calls |-> 4, forwards |-> 4,
     cells |-> 4, gsm_broadcast |-> 4, cdma_broadcast |-> 4, data_calls |-> 20, sms |-> 12,
     sim_io |-> 12, supp_svc |-> 20, cdma_signal |-> 4, call_waiting |-> 16, signal |-> 28,
     card |-> 276, cdma_sms |-> 372, info_records |-> 964]

\* n elements of a shape; NULL, 0; what a function that gives up returns.
Payload(shape, n) == [is |-> shape, n |-> n]
Null == Payload("null", 0)
Invalid == Payload("invalid", 0)

Length(p) == p.n * SizeOf[p.is]
MultipleOf(p, shape) == Length(p) % SizeOf[shape] = 0
One(p, shape) == p # Null /\ Length(p) = SizeOf[shape]

\* What a function that reads p as the given shape puts into the parcel.
Read(p, shape, ok) ==
    IF ~ok THEN "invalid" ELSE IF p.is \in {shape, "null"} THEN shape ELSE "garbled"

-----------------------------------------------------------------------------
(* Dispatch: from a client's parcel to the data of onRequest(). *)
\* A parcel is [n, values]: the count it begins with (-1 for a null array), and which of the
\* values that the function reads are in it: "all", all but the last ("most"), "none".

\* Data with NULL where the parcel had ended.
Holed(shape, n) == [is |-> "holed", of |-> shape, n |-> n]

\* The function notices every value that is missing, or every one but the last.
Checked(parcel, data) == IF parcel.values = "all" THEN data ELSE Invalid
CheckedButLast(parcel, shape, n) ==
    IF parcel.values = "most" THEN Holed(shape, n) ELSE Checked(parcel, Payload(shape, n))

dispatchVoid(parcel) == Null
\* A parcel without its string yields a NULL string.
dispatchString(parcel) ==
    IF parcel.values = "all" THEN Payload("string", 1) ELSE Holed("string", 1)
\* Of no strings "just some non-null pointer"; a null array is NULL.
dispatchStrings(parcel) ==
    IF parcel.values # "none" /\ parcel.n = -1 THEN Null
    ELSE CheckedButLast(parcel, "strings", parcel.n)
\* Mutant: the status of the last readInt32() is not looked at.
dispatchInts_unchecked(parcel) == Payload("ints", parcel.n)

\* At least one integer.
dispatchInts(parcel) ==
    Checked(parcel, IF parcel.n = 0 THEN Invalid ELSE Payload("ints", parcel.n))
\* Without a look at the SMSC, at the bytes of the UUS information, at PIN2.
dispatchSmsWrite(parcel) == CheckedButLast(parcel, "sms_write", 1)
dispatchDial(parcel) == CheckedButLast(parcel, "dial", 1)
dispatchSIM_IO(parcel) == CheckedButLast(parcel, "sim_io", 1)
dispatchCallForward(parcel) == Checked(parcel, Payload("forwards", 1))
\* The NULL of readInplace() goes up with the length; a null array has length 0.
dispatchRaw(parcel) == CheckedButLast(parcel, "raw", IF parcel.n = -1 THEN 0 ELSE parcel.n)
dispatchCdmaSms(parcel) == Checked(parcel, Payload("cdma_sms", 1))
dispatchCdmaSmsAck(parcel) == Checked(parcel, Payload("cdma_ack", 1))
dispatchGsmBrSmsCnf(parcel) == Checked(parcel, Payload("gsm_broadcast", parcel.n))
dispatchCdmaBrSmsCnf(parcel) == Checked(parcel, Payload("cdma_broadcast", parcel.n))
dispatchRilCdmaSmsWriteArgs(parcel) == Checked(parcel, Payload("cdma_sms_write", 1))

-----------------------------------------------------------------------------
(* Response: from the vendor library's payload to the shape in the parcel.   *)

responseInts(p) == Read(p, "ints", MultipleOf(p, "ints"))
responseStrings(p) == Read(p, "strings", MultipleOf(p, "strings"))
responseCallList(p) == Read(p, "calls", MultipleOf(p, "calls"))
responseSMS(p) == Read(p, "sms", One(p, "sms"))
responseDataCallList(p) == Read(p, "data_calls", MultipleOf(p, "data_calls"))
responseRaw(p) == Read(p, "raw", TRUE)
responseSIM_IO(p) == Read(p, "sim_io", One(p, "sim_io"))
responseCallForwards(p) == Read(p, "forwards", MultipleOf(p, "forwards"))
responseSsn(p) == Read(p, "supp_svc", One(p, "supp_svc"))
responseCellList(p) == Read(p, "cells", MultipleOf(p, "cells"))
responseCdmaInformationRecords(p) == Read(p, "info_records", One(p, "info_records"))
responseCdmaSignalInfoRecord(p) == Read(p, "cdma_signal", One(p, "cdma_signal"))
responseCdmaCallWaiting(p) == Read(p, "call_waiting", One(p, "call_waiting"))
responseSimStatus(p) == Read(p, "card", Length(p) % 4 = 0)
responseGsmBrSmsCnf(p) == Read(p, "gsm_broadcast", TRUE)
responseCdmaBrSmsCnf(p) == Read(p, "cdma_broadcast", TRUE)
responseCdmaSms(p) == Read(p, "cdma_sms", One(p, "cdma_sms"))

\* "NULL strings are accepted"; the length is ignored.
responseString(p) == Read(p, "string", TRUE)

\* Nothing is read and nothing is written.
responseVoid(p) == "void"

\* The struct, or the "one or 2 integers" of an old library, filled up with zeros.
responseRilSignalStrength(p) ==
    IF Length(p) = SizeOf["signal"] THEN Read(p, "signal", TRUE)
    ELSE IF MultipleOf(p, "ints") THEN (IF p.is \in {"ints", "null"} THEN "signal" ELSE "garbled")
    ELSE "invalid"

\* Nothing for GSM, the signal record for CDMA.
responseCallRing(p) ==
    IF Length(p) = 0 THEN responseVoid(p) ELSE responseCdmaSignalInfoRecord(p)

-----------------------------------------------------------------------------
(* The tables. *)

Command(dispatch, response) == [dispatch |-> dispatch, response |-> response]

\* ril_commands.h up to OEM_HOOK_RAW.
s_commands_gsm ==
    [GET_SIM_STATUS |-> Command("dispatchVoid", "responseSimStatus"),
     ENTER_SIM_PIN |-> Command("dispatchStrings", "responseInts"),
     ENTER_SIM_PUK |-> Command("dispatchStrings", "responseInts"),
     ENTER_SIM_PIN2 |-> Command("dispatchStrings", "responseInts"),
     ENTER_SIM_PUK2 |-> Command("dispatchStrings", "responseInts"),
     CHANGE_SIM_PIN |-> Command("dispatchStrings", "responseInts"),
     CHANGE_SIM_PIN2 |-> Command("dispatchStrings", "responseInts"),
     ENTER_NETWORK_DEPERSONALIZATION |-> Command("dispatchStrings", "responseInts"),
     GET_CURRENT_CALLS |-> Command("dispatchVoid", "responseCallList"),
     DIAL |-> Command("dispatchDial", "responseVoid"),
     GET_IMSI |-> Command("dispatchVoid", "responseString"),
     HANGUP |-> Command("dispatchInts", "responseVoid"),
     HANGUP_WAITING_OR_BACKGROUND |-> Command("dispatchVoid", "responseVoid"),
     HANGUP_FOREGROUND_RESUME_BACKGROUND |-> Command("dispatchVoid", "responseVoid"),
     SWITCH_WAITING_OR_HOLDING_AND_ACTIVE |-> Command("dispatchVoid", "responseVoid"),
     CONFERENCE |-> Command("dispatchVoid", "responseVoid"),
     UDUB |-> Command("dispatchVoid", "responseVoid"),
     LAST_CALL_FAIL_CAUSE |-> Command("dispatchVoid", "responseInts"),
     SIGNAL_STRENGTH |-> Command("dispatchVoid", "responseRilSignalStrength"),
     REGISTRATION_STATE |-> Command("dispatchVoid", "responseStrings"),
     GPRS_REGISTRATION_STATE |-> Command("dispatchVoid", "responseStrings"),
     OPERATOR |-> Command("dispatchVoid", "responseStrings"),
     RADIO_POWER |-> Command("dispatchInts", "responseVoid"),
     DTMF |-> Command("dispatchString", "responseVoid"),
     SEND_SMS |-> Command("dispatchStrings", "responseSMS"),
     SEND_SMS_EXPECT_MORE |-> Command("dispatchStrings", "responseSMS"),
     SETUP_DATA_CALL |-> Command("dispatchStrings", "responseStrings"),
     SIM_IO |-> Command("dispatchSIM_IO", "responseSIM_IO"),
     SEND_USSD |-> Command("dispatchString", "responseVoid"),
     CANCEL_USSD |-> Command("dispatchVoid", "responseVoid"),
     GET_CLIR |-> Command("dispatchVoid", "responseInts"),
     SET_CLIR |-> Command("dispatchInts", "responseVoid"),
     QUERY_CALL_FORWARD_STATUS |-> Command("dispatchCallForward", "responseCallForwards"),
     SET_CALL_FORWARD |-> Command("dispatchCallForward", "responseVoid"),
     QUERY_CALL_WAITING |-> Command("dispatchInts", "responseInts"),
     SET_CALL_WAITING |-> Command("dispatchInts", "responseVoid"),
     SMS_ACKNOWLEDGE |-> Command("dispatchInts", "responseVoid"),
     GET_IMEI |-> Command("dispatchVoid", "responseString"),
     GET_IMEISV |-> Command("dispatchVoid", "responseString"),
     ANSWER |-> Command("dispatchVoid", "responseVoid"),
     DEACTIVATE_DATA_CALL |-> Command("dispatchStrings", "responseVoid"),
     QUERY_FACILITY_LOCK |-> Command("dispatchStrings", "responseInts"),
     SET_FACILITY_LOCK |-> Command("dispatchStrings", "responseInts"),
     CHANGE_BARRING_PASSWORD |-> Command("dispatchStrings", "responseVoid"),
     QUERY_NETWORK_SELECTION_MODE |-> Command("dispatchVoid", "responseInts"),
     SET_NETWORK_SELECTION_AUTOMATIC |-> Command("dispatchVoid", "responseVoid"),
     SET_NETWORK_SELECTION_MANUAL |-> Command("dispatchString", "responseVoid"),
     QUERY_AVAILABLE_NETWORKS |-> Command("dispatchVoid", "responseStrings"),
     DTMF_START |-> Command("dispatchString", "responseVoid"),
     DTMF_STOP |-> Command("dispatchVoid", "responseVoid"),
     BASEBAND_VERSION |-> Command("dispatchVoid", "responseString"),
     SEPARATE_CONNECTION |-> Command("dispatchInts", "responseVoid"),
     SET_MUTE |-> Command("dispatchInts", "responseVoid"),
     GET_MUTE |-> Command("dispatchVoid", "responseInts"),
     QUERY_CLIP |-> Command("dispatchVoid", "responseInts"),
     LAST_DATA_CALL_FAIL_CAUSE |-> Command("dispatchVoid", "responseInts"),
     DATA_CALL_LIST |-> Command("dispatchVoid", "responseDataCallList"),
     RESET_RADIO |-> Command("dispatchVoid", "responseVoid"),
     OEM_HOOK_RAW |-> Command("dispatchRaw", "responseRaw")]

\* ril_commands.h from OEM_HOOK_STRINGS on.
s_commands_more ==
    [OEM_HOOK_STRINGS |-> Command("dispatchStrings", "responseStrings"),
     SCREEN_STATE |-> Command("dispatchInts", "responseVoid"),
     SET_SUPP_SVC_NOTIFICATION |-> Command("dispatchInts", "responseVoid"),
     WRITE_SMS_TO_SIM |-> Command("dispatchSmsWrite", "responseInts"),
     DELETE_SMS_ON_SIM |-> Command("dispatchInts", "responseVoid"),
     SET_BAND_MODE |-> Command("dispatchInts", "responseVoid"),
     QUERY_AVAILABLE_BAND_MODE |-> Command("dispatchVoid", "responseInts"),
     STK_GET_PROFILE |-> Command("dispatchVoid", "responseString"),
     STK_SET_PROFILE |-> Command("dispatchString", "responseVoid"),
     STK_SEND_ENVELOPE_COMMAND |-> Command("dispatchString", "responseString"),
     STK_SEND_TERMINAL_RESPONSE |-> Command("dispatchString", "responseVoid"),
     STK_HANDLE_CALL_SETUP_REQUESTED_FROM_SIM |-> Command("dispatchInts", "responseVoid"),
     EXPLICIT_CALL_TRANSFER |-> Command("dispatchVoid", "responseVoid"),
     SET_PREFERRED_NETWORK_TYPE |-> Command("dispatchInts", "responseVoid"),
     GET_PREFERRED_NETWORK_TYPE |-> Command("dispatchVoid", "responseInts"),
     GET_NEIGHBORING_CELL_IDS |-> Command("dispatchVoid", "responseCellList"),
     SET_LOCATION_UPDATES |-> Command("dispatchInts", "responseVoid"),
     CDMA_SET_SUBSCRIPTION |-> Command("dispatchInts", "responseVoid"),
     CDMA_SET_ROAMING_PREFERENCE |-> Command("dispatchInts", "responseVoid"),
     CDMA_QUERY_ROAMING_PREFERENCE |-> Command("dispatchVoid", "responseInts"),
     SET_TTY_MODE |-> Command("dispatchInts", "responseVoid"),
     QUERY_TTY_MODE |-> Command("dispatchVoid", "responseInts"),
     CDMA_SET_PREFERRED_VOICE_PRIVACY_MODE |-> Command("dispatchInts", "responseVoid"),
     CDMA_QUERY_PREFERRED_VOICE_PRIVACY_MODE |-> Command("dispatchVoid", "responseInts"),
     CDMA_FLASH |-> Command("dispatchString", "responseVoid"),
     CDMA_BURST_DTMF |-> Command("dispatchStrings", "responseVoid"),
     CDMA_VALIDATE_AND_WRITE_AKEY |-> Command("dispatchString", "responseVoid"),
     CDMA_SEND_SMS |-> Command("dispatchCdmaSms", "responseSMS"),
     CDMA_SMS_ACKNOWLEDGE |-> Command("dispatchCdmaSmsAck", "responseVoid"),
     GSM_GET_BROADCAST_SMS_CONFIG |-> Command("dispatchVoid", "responseGsmBrSmsCnf"),
     GSM_SET_BROADCAST_SMS_CONFIG |-> Command("dispatchGsmBrSmsCnf", "responseVoid"),
     GSM_SMS_BROADCAST_ACTIVATION |-> Command("dispatchInts", "responseVoid"),
     CDMA_GET_BROADCAST_SMS_CONFIG |-> Command("dispatchVoid", "responseCdmaBrSmsCnf"),
     CDMA_SET_BROADCAST_SMS_CONFIG |-> Command("dispatchCdmaBrSmsCnf", "responseVoid"),
     CDMA_SMS_BROADCAST_ACTIVATION |-> Command("dispatchInts", "responseVoid"),
     CDMA_SUBSCRIPTION |-> Command("dispatchVoid", "responseStrings"),
     CDMA_WRITE_SMS_TO_RUIM |-> Command("dispatchRilCdmaSmsWriteArgs", "responseInts"),
     CDMA_DELETE_SMS_ON_RUIM |-> Command("dispatchInts", "responseVoid"),
     DEVICE_IDENTITY |-> Command("dispatchVoid", "responseStrings"),
     EXIT_EMERGENCY_CALLBACK_MODE |-> Command("dispatchVoid", "responseVoid"),
     GET_SMSC_ADDRESS |-> Command("dispatchVoid", "responseString"),
     SET_SMSC_ADDRESS |-> Command("dispatchString", "responseVoid"),
     REPORT_SMS_MEMORY_STATUS |-> Command("dispatchInts", "responseVoid"),
     REPORT_STK_SERVICE_IS_RUNNING |-> Command("dispatchVoid", "responseVoid")]

s_commands == Joined({s_commands_gsm, s_commands_more})

\* ril_unsol_commands.h.
s_unsolResponses ==
    [RESPONSE_RADIO_STATE_CHANGED |-> "responseVoid",
     RESPONSE_CALL_STATE_CHANGED |-> "responseVoid",
     RESPONSE_NETWORK_STATE_CHANGED |-> "responseVoid",
     RESPONSE_NEW_SMS |-> "responseString",
     RESPONSE_NEW_SMS_STATUS_REPORT |-> "responseString",
     RESPONSE_NEW_SMS_ON_SIM |-> "responseInts",
     ON_USSD |-> "responseStrings",
     ON_USSD_REQUEST |-> "responseVoid",
     NITZ_TIME_RECEIVED |-> "responseString",
     SIGNAL_STRENGTH |-> "responseRilSignalStrength",
     DATA_CALL_LIST_CHANGED |-> "responseDataCallList",
     SUPP_SVC_NOTIFICATION |-> "responseSsn",
     STK_SESSION_END |-> "responseVoid",
     STK_PROACTIVE_COMMAND |-> "responseString",
     STK_EVENT_NOTIFY |-> "responseString",
     STK_CALL_SETUP |-> "responseInts",
     SIM_SMS_STORAGE_FULL |-> "responseVoid",
     SIM_REFRESH |-> "responseInts",
     CALL_RING |-> "responseCallRing",
     RESPONSE_SIM_STATUS_CHANGED |-> "responseVoid",
     RESPONSE_CDMA_NEW_SMS |-> "responseCdmaSms",
     RESPONSE_NEW_BROADCAST_SMS |-> "responseString",
     CDMA_RUIM_SMS_STORAGE_FULL |-> "responseVoid",
     RESTRICTED_STATE_CHANGED |-> "responseInts",
     ENTER_EMERGENCY_CALLBACK_MODE |-> "responseVoid",
     CDMA_CALL_WAITING |-> "responseCdmaCallWaiting",
     CDMA_OTA_PROVISION_STATUS |-> "responseInts",
     CDMA_INFO_REC |-> "responseCdmaInformationRecords",
     OEM_HOOK_RAW |-> "responseRaw",
     RINGBACK_TONE |-> "responseInts",
     RESEND_INCALL_MUTE |-> "responseVoid"]

\* pCI->dispatchFunction(p, pRI).
Dispatch(request, parcel) ==
    LET f == s_commands[request].dispatch IN
    CASE f = "dispatchVoid" -> dispatchVoid(parcel)
      [] f = "dispatchString" -> dispatchString(parcel)
      [] f = "dispatchStrings" -> dispatchStrings(parcel)
      [] f = "dispatchInts" -> dispatchInts(parcel)
      [] f = "dispatchSmsWrite" -> dispatchSmsWrite(parcel)
      [] f = "dispatchDial" -> dispatchDial(parcel)
      [] f = "dispatchSIM_IO" -> dispatchSIM_IO(parcel)
      [] f = "dispatchCallForward" -> dispatchCallForward(parcel)
      [] f = "dispatchRaw" -> dispatchRaw(parcel)
      [] f = "dispatchCdmaSms" -> dispatchCdmaSms(parcel)
      [] f = "dispatchCdmaSmsAck" -> dispatchCdmaSmsAck(parcel)
      [] f = "dispatchGsmBrSmsCnf" -> dispatchGsmBrSmsCnf(parcel)
      [] f = "dispatchCdmaBrSmsCnf" -> dispatchCdmaBrSmsCnf(parcel)
      [] f = "dispatchRilCdmaSmsWriteArgs" -> dispatchRilCdmaSmsWriteArgs(parcel)

\* responseFunction(p, response, responselen).
Response(f, p) ==
    CASE f = "responseCallForwards" -> responseCallForwards(p)
      [] f = "responseCallList" -> responseCallList(p)
      [] f = "responseCallRing" -> responseCallRing(p)
      [] f = "responseCdmaBrSmsCnf" -> responseCdmaBrSmsCnf(p)
      [] f = "responseCdmaCallWaiting" -> responseCdmaCallWaiting(p)
      [] f = "responseCdmaInformationRecords" -> responseCdmaInformationRecords(p)
      [] f = "responseCdmaSms" -> responseCdmaSms(p)
      [] f = "responseCellList" -> responseCellList(p)
      [] f = "responseDataCallList" -> responseDataCallList(p)
      [] f = "responseGsmBrSmsCnf" -> responseGsmBrSmsCnf(p)
      [] f = "responseInts" -> responseInts(p)
      [] f = "responseRaw" -> responseRaw(p)
      [] f = "responseRilSignalStrength" -> responseRilSignalStrength(p)
      [] f = "responseSIM_IO" -> responseSIM_IO(p)
      [] f = "responseSMS" -> responseSMS(p)
      [] f = "responseSimStatus" -> responseSimStatus(p)
      [] f = "responseSsn" -> responseSsn(p)
      [] f = "responseString" -> responseString(p)
      [] f = "responseStrings" -> responseStrings(p)
      [] f = "responseVoid" -> responseVoid(p)

\* RIL_onRequestComplete(): a NULL response is not marshalled at all.
Marshal(request, p) == IF p = Null THEN "null" ELSE Response(s_commands[request].response, p)

=============================================================================
