---------------------------- MODULE RilContract ----------------------------
(***************************************************************************)
(* What ril.h promises, request by request and indication by indication:   *)
(* the shape of "data", how many integers or strings it holds at least,     *)
(* the shape of "response", and the error codes the vendor library may      *)
(* complete with.  The telephony framework, libril and the vendor library   *)
(* are written against these rows; ReferenceRil checks the other two.       *)
(***************************************************************************)

\* The rows of tables that have none in common.
Joined(tables) ==
    [row \in UNION {DOMAIN t : t \in tables} |-> (CHOOSE t \in tables : row \in DOMAIN t)[row]]

\* "Valid errors" of most requests.
Usual == {"SUCCESS", "RADIO_NOT_AVAILABLE", "GENERIC_FAILURE"}

\* What the SIM PIN requests may also answer.
PinErrors == Usual \cup {"PASSWORD_INCORRECT"}

\* RIL_Errno: SUCCESS 0, then the failures in the order of their numbers.
RIL_Errno ==
    Usual \cup
    {"PASSWORD_INCORRECT", "SIM_PIN2", "SIM_PUK2", "REQUEST_NOT_SUPPORTED", "CANCELLED",
     "OP_NOT_ALLOWED_DURING_VOICE_CALL", "OP_NOT_ALLOWED_BEFORE_REG_TO_NW",
     "SMS_SEND_FAIL_RETRY", "SIM_ABSENT", "SUBSCRIPTION_NOT_AVAILABLE",
     "MODE_NOT_SUPPORTED", "FDN_CHECK_FAILURE", "ILLEGAL_SIM_OR_ME"}

\* RIL_RadioState.
RIL_RadioState ==
    {"OFF", "UNAVAILABLE", "SIM_NOT_READY", "SIM_LOCKED_OR_ABSENT", "SIM_READY",
     "RUIM_NOT_READY", "RUIM_READY", "RUIM_LOCKED_OR_ABSENT", "NV_NOT_READY", "NV_READY"}

\* A request: shape and least number of its arguments, shape of its response, errors.
Request(data, n, response, errors) ==
    [data |-> data, n |-> n, response |-> response, errors |-> errors]

\* GET_SIM_STATUS and the PIN family.
SimPinRequests ==
    [GET_SIM_STATUS |-> Request("void", 0, "card", {"SUCCESS"}),
     ENTER_SIM_PIN |-> Request("strings", 1, "ints", PinErrors),
     ENTER_SIM_PUK |-> Request("strings", 2, "ints", PinErrors),
     ENTER_SIM_PIN2 |-> Request("strings", 1, "ints", PinErrors),
     ENTER_SIM_PUK2 |-> Request("strings", 2, "ints", PinErrors),
     CHANGE_SIM_PIN |-> Request("strings", 2, "ints", PinErrors),
     CHANGE_SIM_PIN2 |-> Request("strings", 2, "ints", PinErrors)]

\* Depersonalization, calls and the subscriber identity.
CallRequests ==
    [ENTER_NETWORK_DEPERSONALIZATION |-> Request("strings", 1, "ints", PinErrors),
     GET_CURRENT_CALLS |-> Request("void", 0, "calls", Usual),
     DIAL |-> Request("dial", 0, "void", Usual),
     GET_IMSI |-> Request("void", 0, "string", Usual),
     HANGUP |-> Request("ints", 1, "void", Usual),
     HANGUP_WAITING_OR_BACKGROUND |-> Request("void", 0, "void", Usual),
     HANGUP_FOREGROUND_RESUME_BACKGROUND |-> Request("void", 0, "void", Usual),
     SWITCH_WAITING_OR_HOLDING_AND_ACTIVE |-> Request("void", 0, "void", Usual)]

\* Conference, UDUB, fail cause and signal strength.
CallStatusRequests ==
    [CONFERENCE |-> Request("void", 0, "void", Usual),
     UDUB |-> Request("void", 0, "void", Usual),
     LAST_CALL_FAIL_CAUSE |-> Request("void", 0, "ints", Usual),
     SIGNAL_STRENGTH |-> Request("void", 0, "signal", {"SUCCESS", "RADIO_NOT_AVAILABLE"})]

\* Registration and operator.
RegistrationRequests ==
    [REGISTRATION_STATE |-> Request("void", 0, "strings", Usual),
     GPRS_REGISTRATION_STATE |-> Request("void", 0, "strings", Usual),
     OPERATOR |-> Request("void", 0, "strings", Usual)]

\* Radio power, DTMF, SMS and data call set-up.
PowerAndSmsRequests ==
    [RADIO_POWER |-> Request("ints", 1, "void", Usual),
     DTMF |-> Request("string", 0, "void", Usual),
     SEND_SMS |->
         Request("strings", 2, "sms", Usual \cup {"SMS_SEND_FAIL_RETRY", "FDN_CHECK_FAILURE"}),
     SEND_SMS_EXPECT_MORE |->
         Request("strings", 2, "sms", Usual \cup {"SMS_SEND_FAIL_RETRY"}),
     SETUP_DATA_CALL |-> Request("strings", 6, "strings", Usual)]

\* SIM I/O, USSD, CLIR and call forwarding.
SimIoAndUssdRequests ==
    [SIM_IO |-> Request("sim_io", 0, "sim_io", Usual \cup {"SIM_PIN2", "SIM_PUK2"}),
     SEND_USSD |-> Request("string", 0, "void", Usual \cup {"FDN_CHECK_FAILURE"}),
     CANCEL_USSD |-> Request("void", 0, "void", Usual),
     GET_CLIR |-> Request("void", 0, "ints", Usual),
     SET_CLIR |-> Request("ints", 1, "void", Usual),
     QUERY_CALL_FORWARD_STATUS |-> Request("forwards", 0, "forwards", Usual),
     SET_CALL_FORWARD |-> Request("forwards", 0, "void", Usual)]

\* Call waiting, SMS acknowledgement, equipment identity, answer.
WaitingAndIdentityRequests ==
    [QUERY_CALL_WAITING |-> Request("ints", 1, "ints", Usual),
     SET_CALL_WAITING |-> Request("ints", 2, "void", Usual),
     SMS_ACKNOWLEDGE |-> Request("ints", 2, "void", Usual),
     GET_IMEI |-> Request("void", 0, "string", Usual),
     GET_IMEISV |-> Request("void", 0, "string", Usual),
     ANSWER |-> Request("void", 0, "void", Usual)]

\* Data call release, facility locks, network selection.
FacilityRequests ==
    [DEACTIVATE_DATA_CALL |-> Request("strings", 1, "void", Usual),
     QUERY_FACILITY_LOCK |-> Request("strings", 3, "ints", Usual),
     SET_FACILITY_LOCK |-> Request("strings", 4, "ints", Usual),
     CHANGE_BARRING_PASSWORD |-> Request("strings", 3, "void", Usual),
     QUERY_NETWORK_SELECTION_MODE |-> Request("void", 0, "ints", Usual),
     SET_NETWORK_SELECTION_AUTOMATIC |->
         Request("void", 0, "void", Usual \cup {"ILLEGAL_SIM_OR_ME"})]

\* Manual selection, tones, baseband version, separation.
NetworkAndToneRequests ==
    [SET_NETWORK_SELECTION_MANUAL |->
         Request("string", 0, "void", Usual \cup {"ILLEGAL_SIM_OR_ME"}),
     QUERY_AVAILABLE_NETWORKS |-> Request("void", 0, "strings", Usual),
     DTMF_START |-> Request("string", 1, "void", Usual),
     DTMF_STOP |-> Request("void", 0, "void", Usual),
     BASEBAND_VERSION |-> Request("void", 0, "string", Usual),
     SEPARATE_CONNECTION |-> Request("ints", 1, "void", Usual)]

\* Muting, CLIP, data call list, reset.
MuteAndDataRequests ==
    [SET_MUTE |-> Request("ints", 1, "void", Usual),
     GET_MUTE |-> Request("void", 0, "ints", Usual),
     QUERY_CLIP |-> Request("void", 0, "ints", Usual),
     LAST_DATA_CALL_FAIL_CAUSE |-> Request("void", 0, "ints", Usual),
     DATA_CALL_LIST |-> Request("void", 0, "data_calls", Usual),
     RESET_RADIO |-> Request("void", 0, "void", Usual \cup {"REQUEST_NOT_SUPPORTED"})]

\* OEM hooks, screen state, SMS on the SIM.
OemAndSimSmsRequests ==
    [OEM_HOOK_RAW |-> Request("raw", 0, "raw", RIL_Errno),
     OEM_HOOK_STRINGS |-> Request("strings", 0, "strings", RIL_Errno),
     SCREEN_STATE |-> Request("ints", 1, "void", {"SUCCESS", "GENERIC_FAILURE"}),
     SET_SUPP_SVC_NOTIFICATION |-> Request("ints", 1, "void", Usual),
     WRITE_SMS_TO_SIM |-> Request("sms_write", 0, "ints", {"SUCCESS", "GENERIC_FAILURE"}),
     DELETE_SMS_ON_SIM |-> Request("ints", 1, "void", {"SUCCESS", "GENERIC_FAILURE"})]

\* Band modes and SIM toolkit.
BandAndToolkitRequests ==
    [SET_BAND_MODE |-> Request("ints", 1, "void", Usual),
     QUERY_AVAILABLE_BAND_MODE |-> Request("void", 0, "ints", Usual),
     STK_GET_PROFILE |-> Request("void", 0, "string", Usual),
     STK_SET_PROFILE |-> Request("string", 0, "void", Usual),
     STK_SEND_ENVELOPE_COMMAND |-> Request("string", 0, "string", Usual)]

\* SIM toolkit, preferred network, cells.
ToolkitAndPreferenceRequests ==
    [STK_SEND_TERMINAL_RESPONSE |-> Request("string", 0, "void", Usual),
     STK_HANDLE_CALL_SETUP_REQUESTED_FROM_SIM |-> Request("ints", 1, "void", Usual),
     EXPLICIT_CALL_TRANSFER |-> Request("void", 0, "void", Usual),
     SET_PREFERRED_NETWORK_TYPE |->
         Request("ints", 1, "void", Usual \cup {"MODE_NOT_SUPPORTED"}),
     GET_PREFERRED_NETWORK_TYPE |-> Request("void", 0, "ints", Usual),
     GET_NEIGHBORING_CELL_IDS |-> Request("void", 0, "cells", Usual),
     SET_LOCATION_UPDATES |-> Request("ints", 1, "void", Usual)]

\* CDMA subscription, roaming, TTY, voice privacy.
CdmaPreferenceRequests ==
    [CDMA_SET_SUBSCRIPTION |->
         Request("ints", 1, "void", Usual \cup {"SIM_ABSENT", "SUBSCRIPTION_NOT_AVAILABLE"}),
     CDMA_SET_ROAMING_PREFERENCE |-> Request("ints", 1, "void", Usual),
     CDMA_QUERY_ROAMING_PREFERENCE |-> Request("void", 0, "ints", Usual),
     SET_TTY_MODE |-> Request("ints", 1, "void", Usual),
     QUERY_TTY_MODE |-> Request("void", 0, "ints", Usual),
     CDMA_SET_PREFERRED_VOICE_PRIVACY_MODE |-> Request("ints", 1, "void", Usual),
     CDMA_QUERY_PREFERRED_VOICE_PRIVACY_MODE |-> Request("void", 0, "ints", Usual)]

\* CDMA flash, tones, SMS; GSM broadcast configuration.
CdmaSmsRequests ==
    [CDMA_FLASH |-> Request("string", 1, "void", Usual),
     CDMA_BURST_DTMF |-> Request("strings", 3, "void", Usual),
     CDMA_VALIDATE_AND_WRITE_AKEY |-> Request("string", 1, "void", Usual),
     CDMA_SEND_SMS |-> Request("cdma_sms", 0, "sms", Usual \cup {"SMS_SEND_FAIL_RETRY"}),
     CDMA_SMS_ACKNOWLEDGE |-> Request("cdma_ack", 0, "void", Usual),
     GSM_GET_BROADCAST_SMS_CONFIG |-> Request("void", 0, "gsm_broadcast", Usual),
     GSM_SET_BROADCAST_SMS_CONFIG |-> Request("gsm_broadcast", 0, "void", Usual)]

\* Broadcast SMS and R-UIM.
BroadcastRequests ==
    [GSM_SMS_BROADCAST_ACTIVATION |-> Request("ints", 1, "void", Usual),
     CDMA_GET_BROADCAST_SMS_CONFIG |-> Request("void", 0, "cdma_broadcast", Usual),
     CDMA_SET_BROADCAST_SMS_CONFIG |-> Request("cdma_broadcast", 0, "void", Usual),
     CDMA_SMS_BROADCAST_ACTIVATION |-> Request("ints", 1, "void", Usual),
     CDMA_SUBSCRIPTION |->
         Request("void", 0, "strings", {"SUCCESS", "SUBSCRIPTION_NOT_AVAILABLE"}),
     CDMA_WRITE_SMS_TO_RUIM |-> Request("cdma_sms_write", 0, "ints", Usual),
     CDMA_DELETE_SMS_ON_RUIM |-> Request("ints", 1, "void", Usual)]

\* Device identity, SMSC, reports.
IdentityAndReportRequests ==
    [DEVICE_IDENTITY |-> Request("void", 0, "strings", Usual),
     EXIT_EMERGENCY_CALLBACK_MODE |-> Request("void", 0, "void", Usual),
     GET_SMSC_ADDRESS |-> Request("void", 0, "string", Usual),
     SET_SMSC_ADDRESS |-> Request("string", 0, "void", Usual),
     REPORT_SMS_MEMORY_STATUS |-> Request("ints", 1, "void", Usual),
     REPORT_STK_SERVICE_IS_RUNNING |-> Request("void", 0, "void", Usual)]

\* State changes, SMS, USSD and NITZ.
StateIndications ==
    [RESPONSE_RADIO_STATE_CHANGED |-> "void",
     RESPONSE_CALL_STATE_CHANGED |-> "void",
     RESPONSE_NETWORK_STATE_CHANGED |-> "void",
     RESPONSE_NEW_SMS |-> "string",
     RESPONSE_NEW_SMS_STATUS_REPORT |-> "string",
     RESPONSE_NEW_SMS_ON_SIM |-> "ints",
     ON_USSD |-> "strings",
     ON_USSD_REQUEST |-> "void",
     NITZ_TIME_RECEIVED |-> "string"]

\* Signal, data calls, toolkit, ring, SIM status.
ServiceIndications ==
    [SIGNAL_STRENGTH |-> "signal",
     DATA_CALL_LIST_CHANGED |-> "data_calls",
     SUPP_SVC_NOTIFICATION |-> "supp_svc",
     STK_SESSION_END |-> "void",
     STK_PROACTIVE_COMMAND |-> "string",
     STK_EVENT_NOTIFY |-> "string",
     STK_CALL_SETUP |-> "ints",
     SIM_SMS_STORAGE_FULL |-> "void",
     SIM_REFRESH |-> "ints",
     CALL_RING |-> "cdma_signal",
     RESPONSE_SIM_STATUS_CHANGED |-> "void"]

\* CDMA, broadcast SMS, OEM, tones.
CdmaIndications ==
    [RESPONSE_CDMA_NEW_SMS |-> "cdma_sms",
     RESPONSE_NEW_BROADCAST_SMS |-> "raw",
     CDMA_RUIM_SMS_STORAGE_FULL |-> "void",
     RESTRICTED_STATE_CHANGED |-> "ints",
     ENTER_EMERGENCY_CALLBACK_MODE |-> "void",
     CDMA_CALL_WAITING |-> "call_waiting",
     CDMA_OTA_PROVISION_STATUS |-> "ints",
     CDMA_INFO_REC |-> "info_records",
     OEM_HOOK_RAW |-> "raw",
     RINGBACK_TONE |-> "ints",
     RESEND_INCALL_MUTE |-> "void"]

RequestTables ==
    {SimPinRequests, CallRequests, CallStatusRequests, RegistrationRequests,
     PowerAndSmsRequests, SimIoAndUssdRequests, WaitingAndIdentityRequests, FacilityRequests,
     NetworkAndToneRequests, MuteAndDataRequests, OemAndSimSmsRequests, BandAndToolkitRequests,
     ToolkitAndPreferenceRequests, CdmaPreferenceRequests, CdmaSmsRequests, BroadcastRequests,
     IdentityAndReportRequests}

IndicationTables == {StateIndications, ServiceIndications, CdmaIndications}

\* Every RIL_REQUEST_*, every RIL_UNSOL_*.
Requests == Joined(RequestTables)
Indications == Joined(IndicationTables)

\* How many strings the responses consist of that are described string by string.
ResponseStrings ==
    [REGISTRATION_STATE |-> 14, GPRS_REGISTRATION_STATE |-> 4, OPERATOR |-> 3,
     SETUP_DATA_CALL |-> 3]

=============================================================================
