------------------------- MODULE ReferenceRilProofs -------------------------
(***************************************************************************)
(* Proofs about ReferenceRil, for any set of reader threads, any bounds and  *)
(* any retry count: a closed channel leaves the radio unavailable, answers   *)
(* are not mistaken for one another, the SIM keeps being polled, handlers    *)
(* complete their requests, one reader thread has the channel, every         *)
(* variable has its type and every timed callback its bound.  And what is    *)
(* handed to libril is what ril.h declares: the rows of the tables that the  *)
(* handlers use, what libril reads from each payload, and the invariant that *)
(* says for which request a command is under way.                            *)
(***************************************************************************)
EXTENDS ReferenceRil, TLAPS

-----------------------------------------------------------------------------
(* The tables of ril.h and libril, row by row. *)

\* A row of joined tables is that of the one table that has it.
LEMMA JoinedRow ==
  ASSUME NEW tables, NEW t \in tables, NEW r \in DOMAIN t,
         \A u \in tables : r \in DOMAIN u => u = t
  PROVE  Joined(tables)[r] = t[r]
<1>1. (CHOOSE u \in tables : r \in DOMAIN u) = t
  OBVIOUS
<1>2. r \in UNION {DOMAIN u : u \in tables}
  OBVIOUS
<1> QED
  BY <1>1, <1>2 DEF Joined

\* Every request has its row in one table.
LEMMA RequestRow ==
  ASSUME NEW t \in RequestTables, NEW r \in DOMAIN t PROVE Requests[r] = t[r]
<1>1. DOMAIN SimPinRequests =
         {"GET_SIM_STATUS", "ENTER_SIM_PIN", "ENTER_SIM_PUK", "ENTER_SIM_PIN2", "ENTER_SIM_PUK2",
          "CHANGE_SIM_PIN", "CHANGE_SIM_PIN2"}
  BY Zenon DEF SimPinRequests, Request
<1>2. DOMAIN CallRequests =
         {"ENTER_NETWORK_DEPERSONALIZATION", "GET_CURRENT_CALLS", "DIAL", "GET_IMSI", "HANGUP",
          "HANGUP_WAITING_OR_BACKGROUND", "HANGUP_FOREGROUND_RESUME_BACKGROUND",
          "SWITCH_WAITING_OR_HOLDING_AND_ACTIVE"}
  BY Zenon DEF CallRequests, Request
<1>3. DOMAIN CallStatusRequests =
         {"CONFERENCE", "UDUB", "LAST_CALL_FAIL_CAUSE", "SIGNAL_STRENGTH"}
  BY Zenon DEF CallStatusRequests, Request
<1>4. DOMAIN RegistrationRequests =
         {"REGISTRATION_STATE", "GPRS_REGISTRATION_STATE", "OPERATOR"}
  BY Zenon DEF RegistrationRequests, Request
<1>5. DOMAIN PowerAndSmsRequests =
         {"RADIO_POWER", "DTMF", "SEND_SMS", "SEND_SMS_EXPECT_MORE", "SETUP_DATA_CALL"}
  BY Zenon DEF PowerAndSmsRequests, Request
<1>6. DOMAIN SimIoAndUssdRequests =
         {"SIM_IO", "SEND_USSD", "CANCEL_USSD", "GET_CLIR", "SET_CLIR",
          "QUERY_CALL_FORWARD_STATUS", "SET_CALL_FORWARD"}
  BY Zenon DEF SimIoAndUssdRequests, Request
<1>7. DOMAIN WaitingAndIdentityRequests =
         {"QUERY_CALL_WAITING", "SET_CALL_WAITING", "SMS_ACKNOWLEDGE", "GET_IMEI", "GET_IMEISV",
          "ANSWER"}
  BY Zenon DEF WaitingAndIdentityRequests, Request
<1>8. DOMAIN FacilityRequests =
         {"DEACTIVATE_DATA_CALL", "QUERY_FACILITY_LOCK", "SET_FACILITY_LOCK",
          "CHANGE_BARRING_PASSWORD", "QUERY_NETWORK_SELECTION_MODE",
          "SET_NETWORK_SELECTION_AUTOMATIC"}
  BY Zenon DEF FacilityRequests, Request
<1>9. DOMAIN NetworkAndToneRequests =
         {"SET_NETWORK_SELECTION_MANUAL", "QUERY_AVAILABLE_NETWORKS", "DTMF_START", "DTMF_STOP",
          "BASEBAND_VERSION", "SEPARATE_CONNECTION"}
  BY Zenon DEF NetworkAndToneRequests, Request
<1>10. DOMAIN MuteAndDataRequests =
         {"SET_MUTE", "GET_MUTE", "QUERY_CLIP", "LAST_DATA_CALL_FAIL_CAUSE", "DATA_CALL_LIST",
          "RESET_RADIO"}
  BY Zenon DEF MuteAndDataRequests, Request
<1>11. DOMAIN OemAndSimSmsRequests =
         {"OEM_HOOK_RAW", "OEM_HOOK_STRINGS", "SCREEN_STATE", "SET_SUPP_SVC_NOTIFICATION",
          "WRITE_SMS_TO_SIM", "DELETE_SMS_ON_SIM"}
  BY Zenon DEF OemAndSimSmsRequests, Request
<1>12. DOMAIN BandAndToolkitRequests =
         {"SET_BAND_MODE", "QUERY_AVAILABLE_BAND_MODE", "STK_GET_PROFILE", "STK_SET_PROFILE",
          "STK_SEND_ENVELOPE_COMMAND"}
  BY Zenon DEF BandAndToolkitRequests, Request
<1>13. DOMAIN ToolkitAndPreferenceRequests =
         {"STK_SEND_TERMINAL_RESPONSE", "STK_HANDLE_CALL_SETUP_REQUESTED_FROM_SIM",
          "EXPLICIT_CALL_TRANSFER", "SET_PREFERRED_NETWORK_TYPE",
          "GET_PREFERRED_NETWORK_TYPE", "GET_NEIGHBORING_CELL_IDS",
          "SET_LOCATION_UPDATES"}
  BY Zenon DEF ToolkitAndPreferenceRequests, Request
<1>14. DOMAIN CdmaPreferenceRequests =
         {"CDMA_SET_SUBSCRIPTION", "CDMA_SET_ROAMING_PREFERENCE", "CDMA_QUERY_ROAMING_PREFERENCE",
          "SET_TTY_MODE", "QUERY_TTY_MODE", "CDMA_SET_PREFERRED_VOICE_PRIVACY_MODE",
          "CDMA_QUERY_PREFERRED_VOICE_PRIVACY_MODE"}
  BY Zenon DEF CdmaPreferenceRequests, Request
<1>15. DOMAIN CdmaSmsRequests =
         {"CDMA_FLASH", "CDMA_BURST_DTMF", "CDMA_VALIDATE_AND_WRITE_AKEY", "CDMA_SEND_SMS",
          "CDMA_SMS_ACKNOWLEDGE", "GSM_GET_BROADCAST_SMS_CONFIG",
          "GSM_SET_BROADCAST_SMS_CONFIG"}
  BY Zenon DEF CdmaSmsRequests, Request
<1>16. DOMAIN BroadcastRequests =
         {"GSM_SMS_BROADCAST_ACTIVATION", "CDMA_GET_BROADCAST_SMS_CONFIG",
          "CDMA_SET_BROADCAST_SMS_CONFIG", "CDMA_SMS_BROADCAST_ACTIVATION",
          "CDMA_SUBSCRIPTION", "CDMA_WRITE_SMS_TO_RUIM", "CDMA_DELETE_SMS_ON_RUIM"}
  BY Zenon DEF BroadcastRequests, Request
<1>17. DOMAIN IdentityAndReportRequests =
         {"DEVICE_IDENTITY", "EXIT_EMERGENCY_CALLBACK_MODE", "GET_SMSC_ADDRESS",
          "SET_SMSC_ADDRESS", "REPORT_SMS_MEMORY_STATUS",
          "REPORT_STK_SERVICE_IS_RUNNING"}
  BY Zenon DEF IdentityAndReportRequests, Request
<1>18. \A u \in RequestTables : r \in DOMAIN u => u = t
  BY <1>1, <1>2, <1>3, <1>4, <1>5, <1>6, <1>7, <1>8, <1>9, <1>10, <1>11, <1>12, <1>13, <1>14, <1>15,
     <1>16, <1>17, SMTT(60) DEF RequestTables
<1> QED
  BY <1>18, JoinedRow, Zenon DEF Requests

\* The size of the elements that reference-ril hands up.
LEMMA Sizes ==
  /\ SizeOf["null"] = 0 /\ SizeOf["signal"] = 28 /\ SizeOf["card"] = 276
  /\ SizeOf["ints"] = 4 /\ SizeOf["strings"] = 4 /\ SizeOf["calls"] = 4
  /\ SizeOf["sms"] = 12 /\ SizeOf["sim_io"] = 12 /\ SizeOf["data_calls"] = 20
  BY DEF SizeOf

\* The requests that reference-ril serves: the errors it may answer, and the kind of the response.
LEMMA ServedRows ==
  /\ \A r \in (OneCommand \ {"SIGNAL_STRENGTH"}) \cup {"RADIO_POWER", "SETUP_DATA_CALL", "DATA_CALL_LIST"} :
         {"SUCCESS", "GENERIC_FAILURE"} \subseteq Requests[r].errors
  /\ \A r \in {"SIGNAL_STRENGTH", "GET_SIM_STATUS", "OEM_HOOK_RAW", "OEM_HOOK_STRINGS"} :
         "SUCCESS" \in Requests[r].errors
  /\ \A r \in PinRequests : "PASSWORD_INCORRECT" \in Requests[r].errors
  /\ Requests["GET_SIM_STATUS"].response = "card" /\ Requests["GET_CURRENT_CALLS"].response = "calls"
  /\ \A r \in {"GET_IMSI", "GET_IMEI"} : Requests[r].response = "string"
  /\ Requests["CANCEL_USSD"].response = "void" /\ Requests["SIGNAL_STRENGTH"].response = "signal"
  /\ \A r \in {"REGISTRATION_STATE", "GPRS_REGISTRATION_STATE", "OPERATOR", "SETUP_DATA_CALL"} :
         Requests[r].response = "strings"
  /\ Requests["SEND_SMS"].response = "sms" /\ Requests["SIM_IO"].response = "sim_io"
  /\ Requests["QUERY_NETWORK_SELECTION_MODE"].response = "ints"
  /\ Requests["DATA_CALL_LIST"].response = "data_calls"
  /\ Requests["OEM_HOOK_RAW"].response = "raw" /\ Requests["OEM_HOOK_STRINGS"].n = 0
<1> DEFINE Errs == {"SUCCESS", "GENERIC_FAILURE"}
<1>1. Errs \subseteq Usual /\ Usual \subseteq PinErrors /\ "PASSWORD_INCORRECT" \in PinErrors
      /\ "SUCCESS" \in RIL_Errno
  BY DEF Usual, PinErrors, RIL_Errno
<1>2. /\ Requests["GET_SIM_STATUS"].errors = {"SUCCESS"}
      /\ Requests["GET_SIM_STATUS"].response = "card"
      /\ \A r \in PinRequests : Requests[r].errors = PinErrors
  <2>1. \A r \in DOMAIN SimPinRequests : Requests[r] = SimPinRequests[r]
    BY RequestRow, Zenon DEF RequestTables
  <2> QED
    BY <2>1 DEF SimPinRequests, Request, PinRequests
<1>3. /\ \A r \in {"GET_CURRENT_CALLS", "DIAL", "GET_IMSI", "HANGUP", "HANGUP_WAITING_OR_BACKGROUND",
                    "HANGUP_FOREGROUND_RESUME_BACKGROUND", "SWITCH_WAITING_OR_HOLDING_AND_ACTIVE"} : Requests[r].errors = Usual
      /\ Requests["GET_CURRENT_CALLS"].response = "calls"
      /\ Requests["GET_IMSI"].response = "string"
  <2>1. \A r \in DOMAIN CallRequests : Requests[r] = CallRequests[r]
    BY RequestRow, Zenon DEF RequestTables
  <2> QED
    BY <2>1 DEF CallRequests, Request
<1>4. /\ \A r \in {"CONFERENCE", "UDUB"} : Requests[r].errors = Usual
      /\ Requests["SIGNAL_STRENGTH"].response = "signal"
      /\ "SUCCESS" \in Requests["SIGNAL_STRENGTH"].errors
  <2>1. \A r \in DOMAIN CallStatusRequests : Requests[r] = CallStatusRequests[r]
    BY RequestRow, Zenon DEF RequestTables
  <2> QED
    BY <2>1 DEF CallStatusRequests, Request
<1>5. /\ \A r \in {"REGISTRATION_STATE", "GPRS_REGISTRATION_STATE", "OPERATOR"} : Requests[r].errors = Usual
      /\ \A r \in {"REGISTRATION_STATE", "GPRS_REGISTRATION_STATE", "OPERATOR"} : Requests[r].response = "strings"
  <2>1. \A r \in DOMAIN RegistrationRequests : Requests[r] = RegistrationRequests[r]
    BY RequestRow, Zenon DEF RequestTables
  <2> QED
    BY <2>1 DEF RegistrationRequests, Request
<1>6. /\ \A r \in {"RADIO_POWER", "DTMF", "SETUP_DATA_CALL"} : Requests[r].errors = Usual
      /\ Usual \subseteq Requests["SEND_SMS"].errors
      /\ Requests["SEND_SMS"].response = "sms"
      /\ Requests["SETUP_DATA_CALL"].response = "strings"
  <2>1. \A r \in DOMAIN PowerAndSmsRequests : Requests[r] = PowerAndSmsRequests[r]
    BY RequestRow, Zenon DEF RequestTables
  <2> QED
    BY <2>1 DEF PowerAndSmsRequests, Request
<1>7. /\ Usual \subseteq Requests["SIM_IO"].errors
      /\ Requests["SIM_IO"].response = "sim_io"
      /\ Requests["CANCEL_USSD"].errors = Usual
      /\ Requests["CANCEL_USSD"].response = "void"
  <2>1. \A r \in DOMAIN SimIoAndUssdRequests : Requests[r] = SimIoAndUssdRequests[r]
    BY RequestRow, Zenon DEF RequestTables
  <2> QED
    BY <2>1 DEF SimIoAndUssdRequests, Request
<1>8. /\ \A r \in {"SMS_ACKNOWLEDGE", "GET_IMEI", "ANSWER"} : Requests[r].errors = Usual
      /\ Requests["GET_IMEI"].response = "string"
  <2>1. \A r \in DOMAIN WaitingAndIdentityRequests : Requests[r] = WaitingAndIdentityRequests[r]
    BY RequestRow, Zenon DEF RequestTables
  <2> QED
    BY <2>1 DEF WaitingAndIdentityRequests, Request
<1>9. /\ Requests["QUERY_NETWORK_SELECTION_MODE"].errors = Usual
      /\ Requests["QUERY_NETWORK_SELECTION_MODE"].response = "ints"
      /\ Usual \subseteq Requests["SET_NETWORK_SELECTION_AUTOMATIC"].errors
  <2>1. \A r \in DOMAIN FacilityRequests : Requests[r] = FacilityRequests[r]
    BY RequestRow, Zenon DEF RequestTables
  <2> QED
    BY <2>1 DEF FacilityRequests, Request
<1>10. Requests["SEPARATE_CONNECTION"].errors = Usual
  <2>1. \A r \in DOMAIN NetworkAndToneRequests : Requests[r] = NetworkAndToneRequests[r]
    BY RequestRow, Zenon DEF RequestTables
  <2> QED
    BY <2>1 DEF NetworkAndToneRequests, Request
<1>11. /\ Requests["DATA_CALL_LIST"].errors = Usual
       /\ Requests["DATA_CALL_LIST"].response = "data_calls"
  <2>1. \A r \in DOMAIN MuteAndDataRequests : Requests[r] = MuteAndDataRequests[r]
    BY RequestRow, Zenon DEF RequestTables
  <2> QED
    BY <2>1 DEF MuteAndDataRequests, Request
<1>12. /\ \A r \in {"OEM_HOOK_RAW", "OEM_HOOK_STRINGS"} : Requests[r].errors = RIL_Errno
       /\ \A r \in {"WRITE_SMS_TO_SIM", "DELETE_SMS_ON_SIM"} : Requests[r].errors = Errs
       /\ Requests["OEM_HOOK_RAW"].response = "raw"
       /\ Requests["OEM_HOOK_STRINGS"].n = 0
  <2>1. \A r \in DOMAIN OemAndSimSmsRequests : Requests[r] = OemAndSimSmsRequests[r]
    BY RequestRow, Zenon DEF RequestTables
  <2> QED
    BY <2>1 DEF OemAndSimSmsRequests, Request
<1> HIDE DEF Errs
<1>13. \A r \in CallControl \cup PinRequests : Errs \subseteq Requests[r].errors
  BY <1>1, <1>2, <1>3, <1>4, <1>6, <1>8, <1>10 DEF CallControl
<1>14. \A r \in NumericRequests : Errs \subseteq Requests[r].errors
  BY <1>1, <1>3, <1>7, <1>8 DEF NumericRequests
<1>15. \A r \in {"GET_CURRENT_CALLS", "REGISTRATION_STATE", "GPRS_REGISTRATION_STATE", "OPERATOR",
                 "SEND_SMS", "SMS_ACKNOWLEDGE", "SIM_IO", "SET_NETWORK_SELECTION_AUTOMATIC",
                 "QUERY_NETWORK_SELECTION_MODE", "WRITE_SMS_TO_SIM", "DELETE_SMS_ON_SIM",
                 "RADIO_POWER", "SETUP_DATA_CALL", "DATA_CALL_LIST"} : Errs \subseteq Requests[r].errors
  BY <1>1, <1>3, <1>5, <1>6, <1>7, <1>8, <1>9, <1>11, <1>12
<1>16. \A r \in (OneCommand \ {"SIGNAL_STRENGTH"}) \cup {"RADIO_POWER", "SETUP_DATA_CALL", "DATA_CALL_LIST"} :
          Errs \subseteq Requests[r].errors
  BY <1>13, <1>14, <1>15 DEF OneCommand
<1>17. \A r \in {"SIGNAL_STRENGTH", "GET_SIM_STATUS", "OEM_HOOK_RAW", "OEM_HOOK_STRINGS"} :
          "SUCCESS" \in Requests[r].errors
  BY <1>1, <1>2, <1>4, <1>12
<1>18. \A r \in PinRequests : "PASSWORD_INCORRECT" \in Requests[r].errors
  BY <1>1, <1>2
<1>19. /\ \A r \in {"GET_IMSI", "GET_IMEI"} : Requests[r].response = "string"
       /\ \A r \in {"REGISTRATION_STATE", "GPRS_REGISTRATION_STATE", "OPERATOR", "SETUP_DATA_CALL"} :
              Requests[r].response = "strings"
  BY <1>3, <1>5, <1>6, <1>8
<1> QED
  BY <1>2, <1>3, <1>4, <1>6, <1>7, <1>9, <1>11, <1>12, <1>16, <1>17, <1>18, <1>19, Zenon DEF Errs

\* The requests that are answered without data, and the OEM strings.
LEMMA VoidRows ==
  /\ \A r \in CallControl \cup {"RADIO_POWER", "SMS_ACKNOWLEDGE", "DELETE_SMS_ON_SIM"} : Requests[r].response = "void"
  /\ Requests["OEM_HOOK_STRINGS"].response = "strings"
<1>1. \A r \in {"DIAL", "HANGUP", "HANGUP_WAITING_OR_BACKGROUND", "HANGUP_FOREGROUND_RESUME_BACKGROUND",
                "SWITCH_WAITING_OR_HOLDING_AND_ACTIVE"} : Requests[r].response = "void"
  <2>1. \A r \in DOMAIN CallRequests : Requests[r] = CallRequests[r]
    BY RequestRow, Zenon DEF RequestTables
  <2> QED
    BY <2>1 DEF CallRequests, Request
<1>2. \A r \in {"CONFERENCE", "UDUB"} : Requests[r].response = "void"
  <2>1. \A r \in DOMAIN CallStatusRequests : Requests[r] = CallStatusRequests[r]
    BY RequestRow, Zenon DEF RequestTables
  <2> QED
    BY <2>1 DEF CallStatusRequests, Request
<1>3. \A r \in {"DTMF", "RADIO_POWER"} : Requests[r].response = "void"
  <2>1. \A r \in DOMAIN PowerAndSmsRequests : Requests[r] = PowerAndSmsRequests[r]
    BY RequestRow, Zenon DEF RequestTables
  <2> QED
    BY <2>1 DEF PowerAndSmsRequests, Request
<1>4. \A r \in {"ANSWER", "SMS_ACKNOWLEDGE"} : Requests[r].response = "void"
  <2>1. \A r \in DOMAIN WaitingAndIdentityRequests : Requests[r] = WaitingAndIdentityRequests[r]
    BY RequestRow, Zenon DEF RequestTables
  <2> QED
    BY <2>1 DEF WaitingAndIdentityRequests, Request
<1>5. \A r \in {"SEPARATE_CONNECTION"} : Requests[r].response = "void"
  <2>1. \A r \in DOMAIN NetworkAndToneRequests : Requests[r] = NetworkAndToneRequests[r]
    BY RequestRow, Zenon DEF RequestTables
  <2> QED
    BY <2>1 DEF NetworkAndToneRequests, Request
<1>6. Requests["DELETE_SMS_ON_SIM"].response = "void" /\ Requests["OEM_HOOK_STRINGS"].response = "strings"
  <2>1. \A r \in DOMAIN OemAndSimSmsRequests : Requests[r] = OemAndSimSmsRequests[r]
    BY RequestRow, Zenon DEF RequestTables
  <2> QED
    BY <2>1 DEF OemAndSimSmsRequests, Request
<1> QED
  BY <1>1, <1>2, <1>3, <1>4, <1>5, <1>6 DEF CallControl

\* ril.h lists RADIO_NOT_AVAILABLE for every request but GET_SIM_STATUS and the four of Unlisted.
LEMMA RadioRows ==
  ASSUME NEW r \in DOMAIN Requests, r # "GET_SIM_STATUS"
  PROVE  "RADIO_NOT_AVAILABLE" \in Requests[r].errors \cup Unlisted(r)
<1> DEFINE Without == {"GET_SIM_STATUS", "SCREEN_STATE", "WRITE_SMS_TO_SIM", "DELETE_SMS_ON_SIM", "CDMA_SUBSCRIPTION"}
           Lists(t) == \A q \in DOMAIN t \ Without : "RADIO_NOT_AVAILABLE" \in t[q].errors
<1>0. \A e \in {Usual, PinErrors, RIL_Errno} : "RADIO_NOT_AVAILABLE" \in e
  BY DEF Usual, PinErrors, RIL_Errno
<1>1. Lists(SimPinRequests)
  BY <1>0 DEF SimPinRequests, Request
<1>2. Lists(CallRequests)
  BY <1>0 DEF CallRequests, Request
<1>3. Lists(CallStatusRequests)
  BY <1>0 DEF CallStatusRequests, Request
<1>4. Lists(RegistrationRequests)
  BY <1>0 DEF RegistrationRequests, Request
<1>5. Lists(PowerAndSmsRequests)
  BY <1>0 DEF PowerAndSmsRequests, Request
<1>6. Lists(SimIoAndUssdRequests)
  BY <1>0 DEF SimIoAndUssdRequests, Request
<1>7. Lists(WaitingAndIdentityRequests)
  BY <1>0 DEF WaitingAndIdentityRequests, Request
<1>8. Lists(FacilityRequests)
  BY <1>0 DEF FacilityRequests, Request
<1>9. Lists(NetworkAndToneRequests)
  BY <1>0 DEF NetworkAndToneRequests, Request
<1>10. Lists(MuteAndDataRequests)
  BY <1>0 DEF MuteAndDataRequests, Request
<1>11. Lists(OemAndSimSmsRequests)
  BY <1>0 DEF OemAndSimSmsRequests, Request
<1>12. Lists(BandAndToolkitRequests)
  BY <1>0 DEF BandAndToolkitRequests, Request
<1>13. Lists(ToolkitAndPreferenceRequests)
  BY <1>0 DEF ToolkitAndPreferenceRequests, Request
<1>14. Lists(CdmaPreferenceRequests)
  BY <1>0 DEF CdmaPreferenceRequests, Request
<1>15. Lists(CdmaSmsRequests)
  BY <1>0 DEF CdmaSmsRequests, Request
<1>16. Lists(BroadcastRequests)
  BY <1>0 DEF BroadcastRequests, Request
<1>17. Lists(IdentityAndReportRequests)
  BY <1>0 DEF IdentityAndReportRequests, Request
<1> HIDE DEF Lists, Without
<1>18. \A t \in RequestTables : Lists(t)
  BY <1>1, <1>2, <1>3, <1>4, <1>5, <1>6, <1>7, <1>8, <1>9, <1>10, <1>11, <1>12, <1>13, <1>14, <1>15, <1>16, <1>17, Zenon
     DEF RequestTables
<1>19. PICK t \in RequestTables : r \in DOMAIN t
  BY Zenon DEF Requests, Joined
<1>20. Requests[r] = t[r]
  BY <1>19, RequestRow, Zenon
<1>21. CASE r \in Without
  BY <1>21 DEF Without, Unlisted
<1>22. CASE r \notin Without
  BY <1>18, <1>19, <1>20, <1>22, Zenon DEF Lists
<1> QED BY <1>21, <1>22

\* The response functions of the requests that are answered with data.
LEMMA CommandRows ==
  /\ s_commands["GET_SIM_STATUS"].response = "responseSimStatus"
  /\ s_commands["GET_CURRENT_CALLS"].response = "responseCallList"
  /\ s_commands["GET_IMSI"].response = "responseString"
  /\ s_commands["GET_IMEI"].response = "responseString"
  /\ s_commands["CANCEL_USSD"].response = "responseVoid"
  /\ s_commands["SIGNAL_STRENGTH"].response = "responseRilSignalStrength"
  /\ s_commands["REGISTRATION_STATE"].response = "responseStrings"
  /\ s_commands["GPRS_REGISTRATION_STATE"].response = "responseStrings"
  /\ s_commands["OPERATOR"].response = "responseStrings"
  /\ s_commands["SEND_SMS"].response = "responseSMS"
  /\ s_commands["SETUP_DATA_CALL"].response = "responseStrings"
  /\ s_commands["SIM_IO"].response = "responseSIM_IO"
  /\ s_commands["QUERY_NETWORK_SELECTION_MODE"].response = "responseInts"
  /\ s_commands["DATA_CALL_LIST"].response = "responseDataCallList"
  /\ s_commands["OEM_HOOK_RAW"] = Command("dispatchRaw", "responseRaw")
  /\ s_commands["OEM_HOOK_STRINGS"] = Command("dispatchStrings", "responseStrings")
<1> DEFINE identity == {"GET_SIM_STATUS", "GET_CURRENT_CALLS", "GET_IMSI", "GET_IMEI", "CANCEL_USSD"}
           network == {"SIGNAL_STRENGTH", "REGISTRATION_STATE", "GPRS_REGISTRATION_STATE", "OPERATOR",
                       "QUERY_NETWORK_SELECTION_MODE"}
           other == {"SEND_SMS", "SETUP_DATA_CALL", "SIM_IO", "DATA_CALL_LIST", "OEM_HOOK_RAW"}
           rows == identity \cup network \cup other
<1>1. rows \subseteq DOMAIN s_commands_gsm
  <2>1. identity \subseteq DOMAIN s_commands_gsm
    BY DEF s_commands_gsm
  <2>2. network \subseteq DOMAIN s_commands_gsm
    BY DEF s_commands_gsm
  <2>3. other \subseteq DOMAIN s_commands_gsm
    BY DEF s_commands_gsm
  <2> HIDE DEF identity, network, other
  <2> QED BY <2>1, <2>2, <2>3, Zenon
<1>2. (\A r \in rows : r \notin DOMAIN s_commands_more) /\ "OEM_HOOK_STRINGS" \notin DOMAIN s_commands_gsm
  <2>1. \A r \in rows : r \notin DOMAIN s_commands_more
    <3>1. \A r \in identity : r \notin DOMAIN s_commands_more
      BY DEF s_commands_more
    <3>2. \A r \in network : r \notin DOMAIN s_commands_more
      BY DEF s_commands_more
    <3>3. \A r \in other : r \notin DOMAIN s_commands_more
      BY DEF s_commands_more
    <3> HIDE DEF identity, network, other
    <3> QED BY <3>1, <3>2, <3>3, Zenon
  <2>2. "OEM_HOOK_STRINGS" \notin DOMAIN s_commands_gsm
    BY ZenonT(30) DEF s_commands_gsm
  <2> QED BY <2>1, <2>2
<1> HIDE DEF rows
<1>3. \A r \in rows : s_commands[r] = s_commands_gsm[r]
  BY <1>1, <1>2, JoinedRow, Zenon DEF s_commands
<1>4. /\ s_commands_gsm["GET_SIM_STATUS"].response = "responseSimStatus"
      /\ s_commands_gsm["GET_CURRENT_CALLS"].response = "responseCallList"
      /\ s_commands_gsm["GET_IMSI"].response = "responseString"
      /\ s_commands_gsm["GET_IMEI"].response = "responseString"
      /\ s_commands_gsm["CANCEL_USSD"].response = "responseVoid"
      /\ s_commands_gsm["SIGNAL_STRENGTH"].response = "responseRilSignalStrength"
      /\ s_commands_gsm["REGISTRATION_STATE"].response = "responseStrings"
      /\ s_commands_gsm["GPRS_REGISTRATION_STATE"].response = "responseStrings"
  BY Zenon DEF s_commands_gsm, Command
<1>5. /\ s_commands_gsm["OPERATOR"].response = "responseStrings"
      /\ s_commands_gsm["SEND_SMS"].response = "responseSMS"
      /\ s_commands_gsm["SETUP_DATA_CALL"].response = "responseStrings"
      /\ s_commands_gsm["SIM_IO"].response = "responseSIM_IO"
      /\ s_commands_gsm["QUERY_NETWORK_SELECTION_MODE"].response = "responseInts"
      /\ s_commands_gsm["DATA_CALL_LIST"].response = "responseDataCallList"
      /\ s_commands_gsm["OEM_HOOK_RAW"] = Command("dispatchRaw", "responseRaw")
  BY Zenon DEF s_commands_gsm, Command
<1>6. /\ "OEM_HOOK_STRINGS" \in DOMAIN s_commands_more
      /\ s_commands_more["OEM_HOOK_STRINGS"] = Command("dispatchStrings", "responseStrings")
  BY Zenon DEF s_commands_more
<1>7. s_commands["OEM_HOOK_STRINGS"] = s_commands_more["OEM_HOOK_STRINGS"]
  BY <1>2, <1>6, JoinedRow, Zenon DEF s_commands
<1> QED
  BY <1>3, <1>4, <1>5, <1>6, <1>7, ZenonT(60) DEF rows

\* The indications that reference-ril sends: the kind of the payload, and the function that reads it.
LEMMA IndicationRows ==
  /\ \A u \in {"NITZ_TIME_RECEIVED", "RESPONSE_NEW_SMS", "RESPONSE_NEW_SMS_STATUS_REPORT"} :
         Indications[u] = "string" /\ s_unsolResponses[u] = "responseString"
  /\ \A u \in {"RESPONSE_RADIO_STATE_CHANGED", "RESPONSE_CALL_STATE_CHANGED",
               "RESPONSE_NETWORK_STATE_CHANGED"} : s_unsolResponses[u] = "responseVoid"
  /\ Indications["DATA_CALL_LIST_CHANGED"] = "data_calls"
  /\ s_unsolResponses["DATA_CALL_LIST_CHANGED"] = "responseDataCallList"
<1> DEFINE texts == {"NITZ_TIME_RECEIVED", "RESPONSE_NEW_SMS", "RESPONSE_NEW_SMS_STATUS_REPORT"}
<1>1. /\ texts \subseteq DOMAIN StateIndications /\ "DATA_CALL_LIST_CHANGED" \notin DOMAIN StateIndications
      /\ \A u \in texts : StateIndications[u] = "string"
  BY DEF StateIndications
<1>2. /\ texts \cap DOMAIN ServiceIndications = {} /\ "DATA_CALL_LIST_CHANGED" \in DOMAIN ServiceIndications
      /\ ServiceIndications["DATA_CALL_LIST_CHANGED"] = "data_calls"
  BY DEF ServiceIndications
<1>3. texts \cap DOMAIN CdmaIndications = {} /\ "DATA_CALL_LIST_CHANGED" \notin DOMAIN CdmaIndications
  BY DEF CdmaIndications
<1>4. /\ \A u \in texts : s_unsolResponses[u] = "responseString"
      /\ \A u \in {"RESPONSE_RADIO_STATE_CHANGED", "RESPONSE_CALL_STATE_CHANGED",
                   "RESPONSE_NETWORK_STATE_CHANGED"} : s_unsolResponses[u] = "responseVoid"
      /\ s_unsolResponses["DATA_CALL_LIST_CHANGED"] = "responseDataCallList"
  BY DEF s_unsolResponses
<1> HIDE DEF texts
<1>5. \A u \in texts : Indications[u] = StateIndications[u]
  BY <1>1, <1>2, <1>3, JoinedRow, Zenon DEF Indications, IndicationTables
<1>6. Indications["DATA_CALL_LIST_CHANGED"] = ServiceIndications["DATA_CALL_LIST_CHANGED"]
  BY <1>1, <1>2, <1>3, JoinedRow, Zenon DEF Indications, IndicationTables
<1> QED
  BY <1>1, <1>2, <1>4, <1>5, <1>6, Zenon DEF texts

-----------------------------------------------------------------------------
(* What libril reads from the payloads of reference-ril. *)

\* The response functions by name.
LEMMA ResponseNames ==
  ASSUME NEW p
  PROVE  /\ Response("responseSimStatus", p) = responseSimStatus(p)
         /\ Response("responseCallList", p) = responseCallList(p)
         /\ Response("responseString", p) = responseString(p)
         /\ Response("responseVoid", p) = responseVoid(p)
         /\ Response("responseRilSignalStrength", p) = responseRilSignalStrength(p)
         /\ Response("responseStrings", p) = responseStrings(p)
         /\ Response("responseSMS", p) = responseSMS(p)
         /\ Response("responseSIM_IO", p) = responseSIM_IO(p)
         /\ Response("responseInts", p) = responseInts(p)
         /\ Response("responseDataCallList", p) = responseDataCallList(p)
         /\ Response("responseRaw", p) = responseRaw(p)
  BY DEF Response

\* A list of any length, the structs and the strings that the handlers return are read as what they are.
LEMMA PayloadsRead ==
  /\ Response("responseSimStatus", Payload("card", 1)) = "card"
  /\ Response("responseRilSignalStrength", Payload("ints", 2)) = "signal"
  /\ Response("responseSMS", Payload("sms", 1)) = "sms"
  /\ Response("responseSIM_IO", Payload("sim_io", 1)) = "sim_io"
  /\ Response("responseInts", Payload("ints", 1)) = "ints"
  /\ Response("responseDataCallList", Null) = "data_calls"
  /\ \A p : Response("responseVoid", p) = "void"
  /\ \A n : /\ Response("responseString", Payload("string", n)) = "string"
             /\ Response("responseRaw", Payload("raw", n)) = "raw"
  /\ \A n \in Nat : /\ Response("responseCallList", Payload("calls", n)) = "calls"
                    /\ Response("responseStrings", Payload("strings", n)) = "strings"
                    /\ Response("responseDataCallList", Payload("data_calls", n)) = "data_calls"
<1>1. \A shape, n : Payload(shape, n).is = shape /\ Payload(shape, n).n = n
  BY DEF Payload
<1>2. /\ Length(Payload("card", 1)) = 276 /\ Length(Payload("ints", 2)) = 8 /\ Length(Payload("ints", 1)) = 4
      /\ Length(Payload("sms", 1)) = 12 /\ Length(Payload("sim_io", 1)) = 12 /\ Length(Null) = 0
      /\ \A n \in Nat : /\ Length(Payload("calls", n)) = n * 4 /\ Length(Payload("strings", n)) = n * 4
                        /\ Length(Payload("data_calls", n)) = n * 20
  BY <1>1, Sizes DEF Length, Null
<1>3. \A n \in Nat : (n * 4) % 4 = 0 /\ (n * 20) % 20 = 0
  OBVIOUS
<1>4. \A shape, n : shape # "null" => Payload(shape, n) # Null
  BY <1>1 DEF Null
<1>5. One(Payload("sms", 1), "sms") /\ One(Payload("sim_io", 1), "sim_io")
  BY <1>2, <1>4, Sizes DEF One
<1>6. /\ MultipleOf(Payload("ints", 1), "ints") /\ MultipleOf(Payload("ints", 2), "ints")
      /\ MultipleOf(Null, "data_calls")
      /\ \A n \in Nat : /\ MultipleOf(Payload("calls", n), "calls")
                        /\ MultipleOf(Payload("strings", n), "strings")
                        /\ MultipleOf(Payload("data_calls", n), "data_calls")
  BY <1>2, <1>3, Sizes DEF MultipleOf
<1>7. responseSimStatus(Payload("card", 1)) = "card"
  <2>1. Length(Payload("card", 1)) % 4 = 0
    BY <1>2
  <2> QED BY <1>1, <2>1 DEF responseSimStatus, Read
<1>8. responseRilSignalStrength(Payload("ints", 2)) = "signal"
  <2>1. Length(Payload("ints", 2)) # SizeOf["signal"]
    BY <1>2, Sizes
  <2> QED BY <1>1, <1>6, <2>1 DEF responseRilSignalStrength
<1>9. /\ responseSMS(Payload("sms", 1)) = "sms" /\ responseSIM_IO(Payload("sim_io", 1)) = "sim_io"
      /\ responseInts(Payload("ints", 1)) = "ints" /\ responseDataCallList(Null) = "data_calls"
      /\ \A n : responseString(Payload("string", n)) = "string" /\ responseRaw(Payload("raw", n)) = "raw"
  BY <1>1, <1>5, <1>6 DEF Read, Null, responseSMS, responseSIM_IO, responseInts, responseRaw, responseDataCallList,
     responseString
<1>10. \A n \in Nat : /\ responseCallList(Payload("calls", n)) = "calls"
                      /\ responseStrings(Payload("strings", n)) = "strings"
                      /\ responseDataCallList(Payload("data_calls", n)) = "data_calls"
  BY <1>1, <1>6 DEF Read, responseCallList, responseStrings, responseDataCallList
<1>11. \A p : responseVoid(p) = "void"
  BY DEF responseVoid
<1> QED
  BY <1>7, <1>8, <1>9, <1>10, <1>11, ResponseNames

-----------------------------------------------------------------------------
(* The invariants. *)

\* The fields of loop, whatever is in them.
LoopFields == DOMAIN loop = {"st", "at", "req", "k", "old"}

\* Idle, and what a callback or a handler makes of it, have these fields.
LEMMA IdleFields ==
  /\ Idle.st = "idle" /\ DOMAIN Idle = {"st", "at", "req", "k", "old"}
  /\ \A st, at : LET f == [Idle EXCEPT !.st = st, !.at = at] IN
        DOMAIN f = {"st", "at", "req", "k", "old"} /\ f.st = st /\ f.at = at /\ f.req = "none"
  /\ \A st, at, k : LET f == [Idle EXCEPT !.st = st, !.at = at, !.k = k] IN
        DOMAIN f = {"st", "at", "req", "k", "old"} /\ f.st = st /\ f.at = at /\ f.req = "none"
  BY Zenon DEF Idle

-----------------------------------------------------------------------------
(* The close of a channel. *)

\* The claim, and that every reader thread is somewhere.
Closing == reader \in [Reader -> ReaderAt] /\ ClosedIsUnavailable

\* Every step keeps it: only setRadioState(), s_closed = 1 and s_closed = 0 touch what it is about.
LEMMA ClosingStep == Closing /\ [Next]_vars => Closing'
<1> SUFFICES ASSUME Closing, [Next]_vars PROVE Closing'
  OBVIOUS
<1> USE DEF Closing, ClosedIsUnavailable, ReaderAt
<1>1. ASSUME UNCHANGED <<reader, sState, s_closed>> PROVE Closing'
  BY <1>1
<1>2. ASSUME LoopSetsState PROVE Closing'
  BY <1>2 DEF LoopSetsState, setRadioState, chanVars
<1>3. ASSUME NEW r \in Reader, NewSms(r) \/ SmsPdu(r) \/ ChannelEnds(r) PROVE Closing'
  BY <1>3 DEF NewSms, SmsPdu, ChannelEnds, Rest, FirstSmsLine, SecondSmsLine, onReaderClosed
<1>4. ASSUME NEW r \in Reader, ReaderMarksClosed(r) PROVE Closing'
  BY <1>4 DEF ReaderMarksClosed
<1>5. ASSUME NEW r \in Reader, ReaderSetsState(r) PROVE Closing'
  BY <1>5 DEF ReaderSetsState, setRadioState
<1>6. ASSUME NEW r \in Reader, ReaderRereadsState(r) PROVE Closing'
  BY <1>6, Zenon DEF ReaderRereadsState
<1>7. ASSUME MainOpens PROVE Closing'
  BY <1>7 DEF MainOpens, MainRest, chanVars
<1>8. ASSUME NEW r \in Reader, MainResets(r) PROVE Closing'
  BY <1>8, Zenon DEF MainResets, OpenReset, MainRest
<1>9. ASSUME MainSetsFd \/ MainWaits PROVE Closing'
  BY <1>1, <1>9 DEF MainSetsFd, MainWaits, OpenFd, MainRest, chanVars
<1>10. ASSUME NEW r, NEW arg, onRequest(r, arg) PROVE Closing'
  <2>1. UNCHANGED <<chanVars, sState, s_closed>>
    BY <1>10 DEF onRequest
  <2> QED BY <1>1, <2>1 DEF chanVars
<1>11. ASSUME SetupOverQmi \/ \E cb \in Callbacks : TimerFires(cb) PROVE Closing'
  <2>1. UNCHANGED <<chanVars, sState, s_closed>>
    BY <1>11, Zenon DEF SetupOverQmi, TimerFires
  <2> QED BY <1>1, <2>1 DEF chanVars
<1>12. ASSUME CommandSent \/ CommandNotSent \/ CommandDone \/ HandshakeTimesOut
              \/ HandshakeEnds \/ LoopRereadsState PROVE Closing'
  <2>1. UNCHANGED <<reader, sState, s_closed>>
    BY <1>12 DEF CommandSent, CommandNotSent, CommandDone, HandshakeTimesOut, HandshakeEnds,
       LoopRereadsState, at_send_command, CommandReturns, CommandTimesOut, chanVars
  <2> QED BY <1>1, <2>1
<1>13. ASSUME NEW r \in Reader, (\E f \in Finals : FinalLine(r, f)) \/ AnswerLine(r) PROVE Closing'
  <2>1. UNCHANGED <<reader, sState, s_closed>>
    BY <1>13, Zenon DEF FinalLine, AnswerLine, handleFinalResponse, writeCtrlZ, addIntermediate, Rest
  <2> QED BY <1>1, <2>1
<1>14. ASSUME NEW r \in Reader, NEW e, EventLine(r, e) PROVE Closing'
  <2>1. UNCHANGED <<reader, sState, s_closed>>
    BY <1>14 DEF EventLine, processEvent, Rest
  <2> QED BY <1>1, <2>1
<1>15. ASSUME Dead \/ UNCHANGED vars PROVE Closing'
  BY <1>1, <1>15 DEF Dead, vars, chanVars
<1> QED
  BY <1>2, <1>3, <1>4, <1>5, <1>6, <1>7, <1>8, <1>9, <1>10, <1>11, <1>12, <1>13, <1>14, <1>15
     DEF Next, LoopStep, ReaderCloses, MainStep

\* Once the reader thread that saw the channel end is past its setRadioState(), sState is
\* RADIO_STATE_UNAVAILABLE until mainLoop() opens the channel again, whatever the event loop
\* still had to do: setRadioState() looks at s_closed under s_state_mutex.
THEOREM ClosedTheorem == Spec => []ClosedIsUnavailable
<1>1. Init => Closing
  BY DEF Init, ChanInit, Closing, ClosedIsUnavailable, ReaderAt
<1>2. Closing => ClosedIsUnavailable
  BY DEF Closing
<1> QED
  BY <1>1, <1>2, ClosingStep, PTL DEF Spec

-----------------------------------------------------------------------------
(* Commands and their answers. *)

\* The event loop waits exactly while a command is pending.
Waiting == fault = "none" => (sp_response # NoResponse <=> loop.st = "wait")

\* The fields of a pending response.
ResponseFields ==
    sp_response # NoResponse =>
        DOMAIN sp_response = {"type", "prefix", "s_smsPDU", "lines", "final", "stale"}

\* On an open channel nothing slipped on, the modem owes the answer of the pending command only.
Owed ==
    fault = "none" /\ ~slipped /\ ~s_readerClosed =>
        \/ modem = 0
        \/ modem = 1 /\ sp_response # NoResponse /\ sp_response.final = "none"

\* The inductive invariant: what the modem owes, who waits for it, and the claim.
Answers ==
    /\ modem \in Nat /\ slipped \in BOOLEAN /\ s_fd \in BOOLEAN /\ s_readerClosed \in BOOLEAN
    /\ s_fd => ~s_readerClosed
    /\ LoopFields /\ ResponseFields /\ Waiting /\ Owed /\ OwnAnswers

\* A handler whose command returned goes on with something else, or the process is gone.
LEMMA ContinueEnds ==
  ASSUME NEW x, LoopFields, Continue(x)
  PROVE  LoopFields' /\ (loop'.st # "wait" \/ fault' # "none")
<1> USE DEF LoopFields
<1> DEFINE Ends == LoopFields' /\ (loop'.st # "wait" \/ fault' # "none")
<1>1. ASSUME NEW c, Return(c) PROVE Ends
  BY <1>1, IdleFields DEF Return
<1>2. ASSUME NEW st \in {"send", "sleep", "set"}, NEW at, NEW k, Goto(st, at, k) PROVE Ends
  BY <1>2 DEF Goto
<1>3. ASSUME OneCommandReturns(x) PROVE Ends
  BY <1>3, <1>1, Zenon DEF OneCommandReturns
<1>4. ASSUME requestRadioPowerReturns(x) PROVE Ends
  BY <1>4, <1>1, <1>2 DEF requestRadioPowerReturns, SetRadioState, Send
<1>5. ASSUME requestOrSendDataCallListReturns(x) PROVE Ends
  BY <1>5, <1>1, <1>2, IdleFields, Zenon DEF requestOrSendDataCallListReturns, DataCallListIs
<1>6. ASSUME requestSetupDataCallReturns(x) PROVE Ends
  BY <1>6, <1>1, <1>2 DEF requestSetupDataCallReturns, Send
<1>7. ASSUME getCardStatusReturns(x) PROVE Ends
  BY <1>7, <1>1 DEF getCardStatusReturns
<1>8. ASSUME pollSIMStateReturns(x) PROVE Ends
  BY <1>8, <1>1, <1>2 DEF pollSIMStateReturns, SetRadioState, Finish
<1>9. ASSUME onSIMReadyReturns(x) PROVE Ends
  BY <1>9, <1>1, <1>2 DEF onSIMReadyReturns, Send, Finish
<1>10. ASSUME at_handshakeReturns(x) PROVE Ends
  BY <1>10, <1>2 DEF at_handshakeReturns
<1>11. ASSUME initializeCallbackReturns(x) PROVE Ends
  BY <1>11, <1>2, IdleFields DEF initializeCallbackReturns, SetRadioState, Send
<1> QED
  BY <1>3, <1>4, <1>5, <1>6, <1>7, <1>8, <1>9, <1>10, <1>11 DEF Continue

\* Every step keeps what the modem owes and what the command thread waits for in step.
LEMMA AnswersStep == Answers /\ [Next]_vars => Answers'
<1> SUFFICES ASSUME Answers, [Next]_vars PROVE Answers'
  OBVIOUS
<1> USE DEF Answers, Waiting, Owed, OwnAnswers, ResponseFields
<1>1. ASSUME UNCHANGED <<modem, slipped, s_fd, s_readerClosed, sp_response, loop>>,
             fault' = "none" => fault = "none"
      PROVE Answers'
  BY <1>1 DEF LoopFields
<1>2. ASSUME UNCHANGED <<modem, slipped, s_fd, s_readerClosed, sp_response>>, UNCHANGED fault,
             LoopFields', loop.st # "wait", loop'.st # "wait"
      PROVE Answers'
  BY <1>2
<1>3. ASSUME NEW r, NEW arg, onRequest(r, arg) PROVE Answers'
  <2>1. UNCHANGED <<modem, slipped, s_fd, s_readerClosed, sp_response>> /\ loop = Idle
    BY <1>3 DEF onRequest, chanVars
  <2>2. UNCHANGED fault /\ (UNCHANGED loop \/ (LoopFields' /\ loop'.st = "send"))
    BY <1>3, Zenon DEF onRequest, AnswerAt, Quiet, Serve, Idle, LoopFields
  <2> QED BY <1>1, <1>2, <2>1, <2>2 DEF Idle
<1>4. ASSUME SetupOverQmi PROVE Answers'
  BY <1>1, <1>4 DEF SetupOverQmi, AnswerAt, chanVars
<1>5. ASSUME NEW cb \in Callbacks, TimerFires(cb) PROVE Answers'
  <2>1. UNCHANGED <<modem, slipped, s_fd, s_readerClosed, sp_response, fault>> /\ loop = Idle
    BY <1>5 DEF TimerFires, chanVars
  <2>2. CASE cb = "initializeCallback"
    BY <1>2, <1>5, <2>1, <2>2, IdleFields, Zenon DEF TimerFires, LoopFields
  <2>3. CASE cb = "pollSIMState"
    BY <1>2, <1>5, <2>1, <2>3, IdleFields, Zenon DEF TimerFires, LoopFields
  <2>4. CASE cb = "onDataCallListChanged"
    BY <1>2, <1>5, <2>1, <2>4, IdleFields, Zenon DEF TimerFires, LoopFields
  <2>5. CASE cb = "sendCallStateChanged"
    BY <1>1, <1>5, <2>1, <2>5 DEF TimerFires
  <2> QED BY <2>2, <2>3, <2>4, <2>5 DEF Callbacks
<1>6. ASSUME CommandSent PROVE Answers'
  <2>1. /\ sp_response = NoResponse /\ ~s_readerClosed /\ loop.st = "send" /\ modem' = modem + 1
        /\ UNCHANGED <<s_fd, s_readerClosed, slipped, fault>> /\ fault = "none"
    BY <1>6 DEF CommandSent, at_send_command, ChannelClosed, Up
  <2>2. LoopFields' /\ loop'.st = "wait"
    BY <1>6 DEF CommandSent, LoopFields
  <2>3. /\ sp_response' # NoResponse /\ sp_response'.final = "none" /\ sp_response'.stale = FALSE
        /\ DOMAIN sp_response' = {"type", "prefix", "s_smsPDU", "lines", "final", "stale"}
    <3>1. sp_response' = at_response_new(CommandAt(loop.at))
      BY <1>6 DEF CommandSent, at_send_command
    <3> QED BY <3>1 DEF at_response_new, CommandAt, NoResponse
  <2> QED BY <2>1, <2>2, <2>3
<1>7. ASSUME CommandNotSent PROVE Answers'
  <2>1. /\ UNCHANGED <<modem, slipped, s_fd, s_readerClosed, sp_response>>
        /\ loop.st = "send" /\ Continue(Failed) /\ fault = "none"
    BY <1>7 DEF CommandNotSent, Up
  <2> QED BY <2>1, ContinueEnds
<1>8. ASSUME CommandDone PROVE Answers'
  <2>1. /\ UNCHANGED <<modem, slipped, s_fd, s_readerClosed>> /\ sp_response' = NoResponse
        /\ loop.st = "wait" /\ Continue(ResultNow) /\ fault = "none"
        /\ sp_response.final # "none" \/ s_readerClosed
    BY <1>8 DEF CommandDone, CommandReturns, Answered, Up
  <2> QED BY <2>1, ContinueEnds
<1>9. ASSUME HandshakeTimesOut PROVE Answers'
  <2>1. /\ UNCHANGED <<modem, s_fd, s_readerClosed>> /\ sp_response' = NoResponse /\ slipped' = TRUE
        /\ Continue(Failed)
    BY <1>9 DEF HandshakeTimesOut, CommandTimesOut
  <2> QED BY <2>1, ContinueEnds
<1>10. ASSUME HandshakeEnds \/ LoopSetsState \/ LoopRereadsState PROVE Answers'
  <2>1. /\ UNCHANGED <<modem, slipped, s_fd, s_readerClosed, sp_response, fault>>
        /\ loop.st \in {"sleep", "set", "reread"}
    BY <1>10 DEF HandshakeEnds, LoopSetsState, LoopRereadsState, chanVars
  <2>2. CASE HandshakeEnds
    BY <1>2, <2>1, <2>2 DEF HandshakeEnds, Goto, LoopFields
  <2>3. CASE LoopSetsState
    BY <1>2, <2>1, <2>3 DEF LoopSetsState, LoopFields
  <2>4. CASE LoopRereadsState
    <3>1. LoopFields' /\ loop'.st # "wait"
      BY <2>4, IdleFields, Zenon DEF LoopRereadsState, LoopFields
    <3> QED BY <1>2, <2>1, <3>1
  <2> QED BY <1>10, <2>2, <2>3, <2>4
<1>11. ASSUME NEW r \in Reader, NEW f \in Finals, FinalLine(r, f) PROVE Answers'
  <2>1. /\ UNCHANGED <<slipped, s_fd, s_readerClosed, loop, fault>> /\ s_fd /\ fault = "none"
        /\ modem > 0 /\ modem' = modem - 1
        /\ sp_response' = IF ~wired \/ sp_response = NoResponse THEN sp_response
                          ELSE [sp_response EXCEPT !.final = f, !.stale = modem > 1]
    BY <1>11 DEF FinalLine, handleFinalResponse, Reads, Rest, Up
  <2>2. CASE UNCHANGED sp_response
    BY <2>1, <2>2 DEF LoopFields
  <2>3. CASE /\ sp_response # NoResponse
             /\ sp_response' = [sp_response EXCEPT !.final = f, !.stale = modem > 1]
    <3>1. /\ DOMAIN sp_response' = DOMAIN sp_response /\ sp_response'.stale = (modem > 1)
          /\ sp_response'.final = f
      BY <2>3
    <3>2. sp_response' # NoResponse
      BY <2>3, <3>1, Zenon DEF NoResponse
    <3>3. slipped \/ modem = 1
      BY <2>1
    <3>4. sp_response'.stale => slipped
      BY <3>1, <3>3
    <3>5. sp_response'.final # "none"
      BY <3>1, Zenon DEF Finals
    <3> QED BY <2>1, <2>3, <3>1, <3>2, <3>3, <3>4, <3>5 DEF LoopFields
  <2> QED BY <2>1, <2>2, <2>3
<1>12. ASSUME NEW r \in Reader, AnswerLine(r) PROVE Answers'
  <2>1. /\ UNCHANGED <<modem, slipped, s_fd, s_readerClosed, loop, fault>>
        /\ sp_response # NoResponse
        /\ DOMAIN sp_response' = DOMAIN sp_response
        /\ UNCHANGED <<sp_response.final, sp_response.stale>>
    BY <1>12 DEF AnswerLine, addIntermediate, writeCtrlZ, Rest
  <2> QED BY <2>1 DEF LoopFields, NoResponse
<1>13. ASSUME NEW r \in Reader, NEW e, EventLine(r, e) PROVE Answers'
  <2>1. /\ UNCHANGED <<modem, s_fd, s_readerClosed, loop, fault>>
        /\ \/ UNCHANGED <<sp_response, slipped>>
           \/ /\ sp_response # NoResponse /\ DOMAIN sp_response' = DOMAIN sp_response
              /\ slipped' = TRUE
           \/ /\ sp_response # NoResponse /\ DOMAIN sp_response' = DOMAIN sp_response
              /\ UNCHANGED <<sp_response.final, sp_response.stale, slipped>>
    BY <1>13, Zenon DEF EventLine, processEvent, TakenAsFinal, TakenAsLine, Rest
  <2>2. sp_response = NoResponse <=> sp_response' = NoResponse
    BY <2>1 DEF NoResponse
  <2> QED BY <2>1, <2>2, Zenon DEF LoopFields
<1>14. ASSUME NEW r \in Reader, NewSms(r) \/ SmsPdu(r) PROVE Answers'
  BY <1>1, <1>14 DEF NewSms, SmsPdu, FirstSmsLine, SecondSmsLine, Rest
<1>15. ASSUME NEW r \in Reader, ChannelEnds(r) PROVE Answers'
  BY <1>15, Zenon DEF ChannelEnds, onReaderClosed, Rest, LoopFields
<1>16. ASSUME NEW r \in Reader, ReaderCloses(r) PROVE Answers'
  BY <1>1, <1>16, Zenon DEF ReaderCloses, ReaderMarksClosed, ReaderSetsState, ReaderRereadsState, Others, Up
<1>17. ASSUME MainOpens \/ MainWaits PROVE Answers'
  BY <1>1, <1>17 DEF MainOpens, MainWaits, MainRest, chanVars
<1>18. ASSUME MainSetsFd PROVE Answers'
  BY <1>18, Zenon DEF MainSetsFd, OpenFd, MainRest, LoopFields
<1>19. ASSUME NEW r \in Reader, MainResets(r) PROVE Answers'
  BY <1>19, Zenon DEF MainResets, OpenReset, MainRest, LoopFields
<1>20. ASSUME Dead \/ UNCHANGED vars PROVE Answers'
  BY <1>1, <1>20 DEF Dead, vars, chanVars
<1> QED
  BY <1>3, <1>4, <1>5, <1>6, <1>7, <1>8, <1>9, <1>10, <1>11, <1>12, <1>13, <1>14, <1>15, <1>16,
     <1>17, <1>18, <1>19, <1>20, Zenon
     DEF Next, LoopStep, MainStep

\* handleFinalResponse() credits a command with the answer to an earlier one only on a channel
\* on which at_handshake() gave a command up or NO CARRIER was taken for a final response; a
\* channel that is closed and opened again starts clean.
THEOREM AnswersTheorem == Spec => []OwnAnswers
<1>1. Init => Answers
  <2> SUFFICES ASSUME Init PROVE Answers
    OBVIOUS
  <2>1. LoopFields /\ loop.st = "idle"
    BY DEF Init, LoopFields, Idle
  <2>2. /\ modem = 0 /\ slipped = FALSE /\ s_fd = FALSE /\ s_readerClosed = FALSE
        /\ sp_response = NoResponse
    BY DEF Init, ChanInit
  <2> QED BY <2>1, <2>2, Zenon DEF Answers, Waiting, Owed, OwnAnswers, ResponseFields
<1>2. Answers => OwnAnswers
  BY DEF Answers
<1> QED
  BY <1>1, <1>2, AnswersStep, PTL DEF Spec

-----------------------------------------------------------------------------
(* The SIM is polled. *)

\* The radio is not on.
Dark == {"OFF", "UNAVAILABLE"}

\* The commands that lead to setRadioState(RADIO_STATE_SIM_NOT_READY).
BringUp == {"CFUN=1", "CFUN?", "ATE0Q0V1", "ATS0=0", "CREG=2", "CREG=1", "CGREG=1"}

\* The inductive invariant: the radio is dark wherever the event loop is about to turn it on, so
\* that setRadioState() finds a change and onRadioPowerOn() polls.
Polling ==
    /\ LoopFields /\ timers \in [Callbacks -> Nat]
    /\ loop.st \in {"set", "reread"} => loop.req # "GET_SIM_STATUS"
    /\ loop.st = "reread" => sState \in {loop.at, "UNAVAILABLE"}
    /\ loop.st = "reread" /\ loop.at = "SIM_NOT_READY" => loop.old \in Dark
    /\ loop.st = "set" /\ loop.at = "SIM_NOT_READY" => sState \in Dark
    /\ loop.st = "sleep" => loop.at = "ATE0Q0V1"
    /\ loop.st \in {"send", "wait", "sleep"} /\ loop.at \in BringUp => sState \in Dark
    /\ SimPolled

\* RIL_requestTimedCallback() adds one callback and takes none away.
LEMMA AfterCounts ==
  ASSUME timers \in [Callbacks -> Nat], NEW cb \in Callbacks
  PROVE  After(cb) \in [Callbacks -> Nat] /\ After(cb)[cb] > 0
         /\ \A c \in Callbacks : After(cb)[c] >= timers[c]
  BY DEF After

\* What a handler does with the result of its command keeps the SIM polled.
LEMMA PollingContinues ==
  ASSUME NEW x, Polling, loop.st \in {"send", "wait"}, Continue(x), UNCHANGED sState
  PROVE  Polling'
<1> USE DEF Polling, SimPolled, LoopFields
<1> DEFINE Polled == sState = "SIM_NOT_READY" => timers'["pollSIMState"] > 0
<1>1. "pollSIMState" \in Callbacks
  BY DEF Callbacks
<1>2. loop.at # "CPIN?" \/ loop.req = "GET_SIM_STATUS" =>
        (sState = "SIM_NOT_READY" => timers["pollSIMState"] > 0)
  OBVIOUS
<1>3. ASSUME loop' = Idle, timers' \in [Callbacks -> Nat], Polled PROVE Polling'
  BY <1>3, IdleFields
<1>4. ASSUME NEW st \in {"send", "sleep"}, NEW at, NEW k, Goto(st, at, k), UNCHANGED timers, Polled,
             at \in BringUp => sState \in Dark, st = "sleep" => at = "ATE0Q0V1"
      PROVE  Polling'
  BY <1>4 DEF Goto
<1>5. ASSUME NEW new, SetRadioState(new), UNCHANGED timers, loop.req # "GET_SIM_STATUS",
             new = "SIM_NOT_READY" => sState \in Dark
      PROVE  Polling'
  BY <1>5 DEF Goto, SetRadioState
<1>6. ASSUME OneCommandReturns(x) PROVE Polling'
  <2>1. loop.at # "CPIN?"
    BY <1>6, Zenon DEF OneCommandReturns, OneCommand, CallControl, PinRequests, NumericRequests
  <2>2. UNCHANGED <<loop, timers>> \/
        (loop' = Idle /\ (timers' = timers \/ timers' = After("sendCallStateChanged")))
    BY <1>6, Zenon DEF OneCommandReturns, Return
  <2>3. timers' \in [Callbacks -> Nat] /\ timers'["pollSIMState"] >= timers["pollSIMState"]
    BY <1>1, <2>2, AfterCounts DEF Callbacks
  <2> QED BY <1>1, <1>2, <1>3, <2>1, <2>2, <2>3
<1>7. ASSUME requestRadioPowerReturns(x) PROVE Polling'
  <2>1. loop.at \in {"CFUN=0", "CFUN=1", "CFUN?"} /\ loop.req = "RADIO_POWER" /\ UNCHANGED timers
    BY <1>7 DEF requestRadioPowerReturns
  <2>2. loop.at \in {"CFUN=1", "CFUN?"} => sState \in Dark
    BY <2>1 DEF BringUp
  <2>3. \/ loop' = Idle \/ SetRadioState("OFF")
        \/ loop.at \in {"CFUN=1", "CFUN?"} /\ (SetRadioState("SIM_NOT_READY") \/ Send("CFUN?"))
    BY <1>7 DEF requestRadioPowerReturns, Return
  <2>4. CASE loop' = Idle
    BY <1>2, <1>3, <2>1, <2>4
  <2>5. CASE SetRadioState("OFF")
    BY <1>5, <2>1, <2>5
  <2>6. CASE loop.at \in {"CFUN=1", "CFUN?"} /\ SetRadioState("SIM_NOT_READY")
    BY <1>5, <2>1, <2>2, <2>6
  <2>7. CASE loop.at \in {"CFUN=1", "CFUN?"} /\ Send("CFUN?")
    BY <1>2, <1>4, <2>1, <2>2, <2>7, Zenon DEF Send
  <2> QED BY <2>3, <2>4, <2>5, <2>6, <2>7
<1>8. ASSUME requestOrSendDataCallListReturns(x) PROVE Polling'
  <2>1. loop.at # "CPIN?" /\ UNCHANGED timers
    BY <1>8, Zenon DEF requestOrSendDataCallListReturns
  <2>2. loop' = Idle \/ Goto("send", "CGDCONT?", Count(x.lines))
    BY <1>8, Zenon DEF requestOrSendDataCallListReturns, DataCallListIs
  <2> QED BY <1>2, <1>3, <1>4, <2>1, <2>2 DEF BringUp
<1>9. ASSUME requestSetupDataCallReturns(x) PROVE Polling'
  <2>1. loop.at # "CPIN?" /\ UNCHANGED timers
    BY <1>9 DEF requestSetupDataCallReturns
  <2>2. \/ loop' = Idle
        \/ \E at \in {"CGDCONT=1", "ATD*99***1#"} : \E k : Goto("send", at, k)
    BY <1>9, Zenon DEF requestSetupDataCallReturns, Return, Send
  <2> QED BY <1>2, <1>3, <1>4, <2>1, <2>2 DEF BringUp
<1>10. ASSUME getCardStatusReturns(x) PROVE Polling'
  BY <1>2, <1>3, <1>10, Zenon DEF getCardStatusReturns, Return
<1>11. ASSUME pollSIMStateReturns(x) PROVE Polling'
  <2>1. loop.req # "GET_SIM_STATUS"
    BY <1>11 DEF pollSIMStateReturns
  <2>2. \/ loop' = Idle /\ timers' = After("pollSIMState")
        \/ UNCHANGED timers /\ (SetRadioState("SIM_READY") \/ SetRadioState("SIM_LOCKED_OR_ABSENT"))
    BY <1>11, Zenon DEF pollSIMStateReturns, Finish, Return
  <2> QED BY <1>1, <1>3, <1>5, <2>1, <2>2, AfterCounts
<1>12. ASSUME onSIMReadyReturns(x) PROVE Polling'
  <2>1. loop.at # "CPIN?" /\ UNCHANGED timers /\ (loop' = Idle \/ Goto("send", "CNMI", 0))
    BY <1>12, Zenon DEF onSIMReadyReturns, Finish, Return, Send
  <2> QED BY <1>2, <1>3, <1>4, <2>1 DEF BringUp
<1>13. ASSUME at_handshakeReturns(x) PROVE Polling'
  <2>1. loop.at \in BringUp /\ loop.at # "CPIN?" /\ UNCHANGED timers
    BY <1>13, Zenon DEF at_handshakeReturns, Quiet, BringUp
  <2> QED BY <1>2, <1>4, <1>13, <2>1 DEF at_handshakeReturns
<1>14. ASSUME initializeCallbackReturns(x) PROVE Polling'
  <2>1. loop.at \in BringUp /\ loop.at # "CPIN?" /\ UNCHANGED timers /\ loop.req = "none"
    BY <1>14 DEF initializeCallbackReturns, Quiet, BringUp
  <2>2. \/ loop' = Idle \/ SetRadioState("SIM_NOT_READY") \/ \E at, k : Goto("send", at, k)
    BY <1>14 DEF initializeCallbackReturns, Send
  <2> QED BY <1>2, <1>3, <1>4, <1>5, <2>1, <2>2
<1> QED
  BY <1>6, <1>7, <1>8, <1>9, <1>10, <1>11, <1>12, <1>13, <1>14 DEF Continue

\* So does every step.
LEMMA PollingStep == Polling /\ [Next]_vars => Polling'
<1> SUFFICES ASSUME Polling, [Next]_vars PROVE Polling'
  OBVIOUS
<1> USE DEF Polling, SimPolled, LoopFields
<1>1. "pollSIMState" \in Callbacks
  BY DEF Callbacks
<1>2. ASSUME UNCHANGED <<loop, sState>>, timers' \in [Callbacks -> Nat],
             timers'["pollSIMState"] >= timers["pollSIMState"]
      PROVE  Polling'
  BY <1>1, <1>2
<1>3. ASSUME NEW r, NEW arg, onRequest(r, arg) PROVE Polling'
  <2>1. UNCHANGED sState /\ loop = Idle
    BY <1>3 DEF onRequest
  <2>2. sState = "SIM_NOT_READY" => timers["pollSIMState"] > 0
    BY <2>1 DEF Idle
  <2>3. UNCHANGED timers
    BY <1>3, Zenon DEF onRequest, AnswerAt, Quiet
  <2>4. \/ UNCHANGED loop
        \/ \E at, k : /\ loop' = [Serve(r) EXCEPT !.st = "send", !.at = at, !.k = k]
                      /\ at \in BringUp => sState = "OFF"
    <3> DEFINE first(at, k) == loop' = [Serve(r) EXCEPT !.st = "send", !.at = at, !.k = k]
    <3>1. \/ UNCHANGED loop
          \/ first("CPIN?", 0) \/ first("CFUN=0", 0) \/ first("CGACT?", 0)
          \/ first("CGDCONT=1", PDP_COMMANDS)
          \/ sState = "OFF" /\ first("CFUN=1", 0)
          \/ r \in OneCommand /\ first(r, 0)
      BY <1>3, Zenon DEF onRequest, AnswerAt
    <3>2. OneCommand \cap BringUp = {}
      BY DEF OneCommand, CallControl, PinRequests, NumericRequests, BringUp
    <3>3. /\ "CPIN?" \notin BringUp /\ "CFUN=0" \notin BringUp /\ "CGACT?" \notin BringUp
          /\ "CGDCONT=1" \notin BringUp
      BY DEF BringUp
    <3> HIDE DEF first
    <3>4. UNCHANGED loop \/ \E at, k : first(at, k) /\ (at \in BringUp => sState = "OFF")
      BY <3>1, <3>2, <3>3, Zenon
    <3> QED BY <3>4, Zenon DEF first
  <2>5. CASE UNCHANGED loop
    BY <1>2, <2>1, <2>3, <2>5
  <2>6. ASSUME NEW at, NEW k, loop' = [Serve(r) EXCEPT !.st = "send", !.at = at, !.k = k],
               at \in BringUp => sState = "OFF"
        PROVE  Polling'
    <3>1. LoopFields' /\ loop'.st = "send" /\ loop'.at = at
      BY <2>6, Zenon DEF Serve, Idle
    <3> QED BY <2>1, <2>2, <2>3, <2>6, <3>1 DEF Dark
  <2> QED BY <2>4, <2>5, <2>6, Zenon
<1>4. ASSUME SetupOverQmi PROVE Polling'
  BY <1>4, Zenon DEF SetupOverQmi, AnswerAt
<1>5. ASSUME NEW cb \in Callbacks, TimerFires(cb) PROVE Polling'
  <2>1. /\ UNCHANGED sState /\ loop = Idle /\ timers[cb] > 0
        /\ timers' = [timers EXCEPT ![cb] = @ - 1]
    BY <1>5 DEF TimerFires
  <2>2. /\ timers' \in [Callbacks -> Nat]
        /\ cb # "pollSIMState" => timers'["pollSIMState"] = timers["pollSIMState"]
    BY <1>1, <2>1
  <2>3. sState = "SIM_NOT_READY" => timers["pollSIMState"] > 0
    BY <2>1 DEF Idle
  <2>4. CASE cb = "initializeCallback"
    <3>1. loop' = [Idle EXCEPT !.st = "set", !.at = "OFF"]
      BY <1>5, <2>4 DEF TimerFires
    <3> QED BY <2>1, <2>2, <3>1, IdleFields
  <2>5. CASE cb = "pollSIMState"
    <3>1. loop' = IF sState # "SIM_NOT_READY" THEN Idle
                  ELSE [Idle EXCEPT !.st = "send", !.at = "CPIN?"]
      BY <1>5, <2>5 DEF TimerFires
    <3> QED BY <2>1, <2>2, <3>1, IdleFields DEF BringUp
  <2>6. CASE cb = "onDataCallListChanged"
    <3>1. loop' = [Idle EXCEPT !.st = "send", !.at = "CGACT?"]
      BY <1>5, <2>6 DEF TimerFires
    <3> QED BY <2>1, <2>2, <2>3, <2>6, <3>1, IdleFields DEF BringUp
  <2>7. CASE cb = "sendCallStateChanged"
    <3>1. UNCHANGED loop
      BY <1>5, <2>7 DEF TimerFires
    <3> QED BY <1>1, <1>2, <2>1, <2>2, <2>7, <3>1
  <2> QED BY <2>4, <2>5, <2>6, <2>7 DEF Callbacks
<1>6. ASSUME CommandSent PROVE Polling'
  <2>1. UNCHANGED <<sState, timers>> /\ loop.st = "send" /\ loop' = [loop EXCEPT !.st = "wait"]
    BY <1>6 DEF CommandSent
  <2> QED BY <2>1
<1>7. ASSUME CommandNotSent \/ CommandDone \/ HandshakeTimesOut PROVE Polling'
  <2>1. UNCHANGED sState /\ loop.st \in {"send", "wait"} /\ (Continue(Failed) \/ Continue(ResultNow))
    BY <1>7 DEF CommandNotSent, CommandDone, HandshakeTimesOut
  <2> QED BY <2>1, PollingContinues
<1>8. ASSUME HandshakeEnds PROVE Polling'
  <2>1. UNCHANGED <<sState, timers>> /\ loop.st = "sleep" /\ Goto("send", "ATS0=0", SETUP_COMMANDS)
    BY <1>8 DEF HandshakeEnds
  <2> QED BY <2>1 DEF Goto, BringUp
<1>9. ASSUME LoopSetsState PROVE Polling'
  <2>1. /\ UNCHANGED timers /\ loop.st = "set" /\ sState' \in {loop.at, "UNAVAILABLE"}
        /\ loop' = [loop EXCEPT !.st = "reread", !.old = sState]
    BY <1>9 DEF LoopSetsState, setRadioState
  <2>2. LoopFields' /\ loop'.st = "reread" /\ loop'.old = sState /\ UNCHANGED <<loop.at, loop.req>>
    BY <2>1
  <2>3. loop.at = "SIM_NOT_READY" => sState \in Dark
    BY <2>1
  <2> QED BY <2>1, <2>2, <2>3
<1>10. ASSUME LoopRereadsState PROVE Polling'
  <2>1. UNCHANGED <<sState, timers>> /\ loop.st = "reread"
    BY <1>10 DEF LoopRereadsState
  <2>2. sState = "SIM_NOT_READY" => sState # loop.old
    BY <2>1 DEF Dark
  <2>3. \/ sState \in {"SIM_READY", "SIM_NOT_READY"} /\ \E at \in {"CSMS", "CPIN?"} :
              /\ sState = "SIM_NOT_READY" => at = "CPIN?"
              /\ loop' = [loop EXCEPT !.st = "send", !.at = at, !.old = "none"]
        \/ sState # "SIM_NOT_READY" /\ loop' = Idle
        \/ /\ sState # "SIM_NOT_READY" /\ loop.at = "OFF"
           /\ loop' = [Idle EXCEPT !.st = "send", !.at = "ATE0Q0V1", !.k = HANDSHAKE_RETRY_COUNT]
    BY <1>10, <2>2 DEF LoopRereadsState
  <2>4. ASSUME NEW at \in {"CSMS", "CPIN?"}, sState = "SIM_NOT_READY" => at = "CPIN?",
               loop' = [loop EXCEPT !.st = "send", !.at = at, !.old = "none"]
        PROVE  Polling'
    BY <2>1, <2>4 DEF BringUp
  <2>5. CASE sState # "SIM_NOT_READY" /\ loop' = Idle
    BY <2>1, <2>5, IdleFields
  <2>6. CASE /\ sState # "SIM_NOT_READY" /\ loop.at = "OFF"
             /\ loop' = [Idle EXCEPT !.st = "send", !.at = "ATE0Q0V1", !.k = HANDSHAKE_RETRY_COUNT]
    BY <2>1, <2>6, IdleFields, Zenon DEF Dark
  <2> QED BY <2>3, <2>4, <2>5, <2>6
<1>11. ASSUME NEW e \in Events \cup {"+CMT:", "+CDS:"}, onUnsolicited(e),
              UNCHANGED <<loop, sState>>
       PROVE  Polling'
  <2>1. timers' = timers \/ timers' = After("onDataCallListChanged")
    BY <1>11, Zenon DEF onUnsolicited, Events
  <2> QED BY <1>1, <1>2, <1>11, <2>1, AfterCounts DEF Callbacks
<1>12. ASSUME NEW r \in Reader,
              \/ (\E f \in Finals : FinalLine(r, f)) \/ AnswerLine(r) \/ NewSms(r) \/ ChannelEnds(r)
              \/ ReaderMarksClosed(r) \/ ReaderRereadsState(r)
       PROVE  Polling'
  <2>1. UNCHANGED <<loop, sState, timers>>
    BY <1>12, Zenon DEF FinalLine, AnswerLine, NewSms, ChannelEnds, ReaderMarksClosed, ReaderRereadsState,
       Rest, Others
  <2> QED BY <2>1
<1>13. ASSUME NEW r \in Reader, SmsPdu(r) \/ \E e \in Limit.events \cap Events : EventLine(r, e)
       PROVE  Polling'
  <2>1. /\ UNCHANGED <<loop, sState>>
        /\ UNCHANGED timers \/ \E e \in Events \cup {"+CMT:", "+CDS:"} : onUnsolicited(e)
    BY <1>13 DEF SmsPdu, EventLine, Rest
  <2> QED BY <1>11, <2>1, Zenon
<1>14. ASSUME NEW r \in Reader, ReaderSetsState(r) PROVE Polling'
  <2>1. UNCHANGED <<loop, timers>> /\ sState' = "UNAVAILABLE"
    BY <1>14, Zenon DEF ReaderSetsState, setRadioState, Others
  <2> QED BY <2>1 DEF Dark
<1>15. ASSUME MainOpens \/ MainSetsFd \/ MainWaits \/ Dead \/ UNCHANGED vars PROVE Polling'
  BY <1>15, Zenon DEF MainOpens, MainSetsFd, MainWaits, MainRest, Dead, vars
<1>16. ASSUME NEW r \in Reader, MainResets(r) PROVE Polling'
  <2>1. /\ UNCHANGED <<loop, sState>>
        /\ timers' = timers \/ timers' = After("initializeCallback")
    BY <1>16, Zenon DEF MainResets, MainRest
  <2> QED BY <1>1, <1>2, <2>1, AfterCounts DEF Callbacks
<1> QED
  BY <1>3, <1>4, <1>5, <1>6, <1>7, <1>8, <1>9, <1>10, <1>12, <1>13, <1>14, <1>15, <1>16, Zenon
     DEF Next, LoopStep, ReaderCloses, MainStep

\* Nothing is under way when the library is loaded.
LEMMA PollingInit == Init => Polling
<1> SUFFICES ASSUME Init PROVE Polling
  OBVIOUS
<1>1. loop = Idle /\ sState = "UNAVAILABLE" /\ timers = [cb \in Callbacks |-> 0]
  BY DEF Init
<1> QED
  BY <1>1, IdleFields DEF Polling, SimPolled, LoopFields

\* While sState is RADIO_STATE_SIM_NOT_READY a pollSIMState() is scheduled or under way, however
\* power requests, initializeCallback() and closing channels interleave.
THEOREM PollingTheorem == Spec => []SimPolled
<1>1. Init => Polling
  BY PollingInit
<1>2. Polling => SimPolled
  BY DEF Polling
<1> QED
  BY <1>1, <1>2, PollingStep, PTL DEF Spec

-----------------------------------------------------------------------------
(* The handlers complete their requests once, but for the three that do not. *)

\* The completions that request r may get.
Due(r, c) ==
    \/ Len(c) = 1
    \/ Len(c) = 2 /\ r \in {"SMS_ACKNOWLEDGE", "SIGNAL_STRENGTH"}
    \/ c = <<>> /\ r = "SET_NETWORK_SELECTION_AUTOMATIC"

\* A command that only one request sends is sent for that request.
Serving == loop.st \in {"send", "wait"} /\ loop.at \in OneCommand => loop.req = loop.at

\* The inductive invariant.
Completing == LoopFields /\ Serving /\ OneCompletion

\* What a step hands to libril: at most an indication and a request that was completed.
LEMMA OutRange ==
  ASSUME NEW u, NEW p, NEW r, NEW c,
         out' \in {<<>>, <<Unsol(u, p)>>, <<Returned(r, c)>>, Append(<<Unsol(u, p)>>, Returned(r, c))}
  PROVE  Range(out') \subseteq {Unsol(u, p), Returned(r, c)}
<1> DEFINE a == Unsol(u, p)
           b == Returned(r, c)
<1>1. out' \in {<<>>, <<a>>, <<b>>, Append(<<a>>, b)}
  OBVIOUS
<1> HIDE DEF a, b
<1>2. <<a>> \in Seq({a, b}) /\ Len(<<a>>) = 1 /\ <<a>>[1] = a
  OBVIOUS
<1>3. Append(<<a>>, b) \in Seq({a, b})
  BY <1>2
<1>4. Range(Append(<<a>>, b)) \subseteq {a, b}
  BY <1>3 DEF Range
<1>5. Range(<<>>) = {} /\ Range(<<a>>) \subseteq {a, b} /\ Range(<<b>>) \subseteq {a, b}
  BY DEF Range
<1>6. Range(out') \subseteq {a, b}
  BY <1>1, <1>4, <1>5, Zenon
<1> QED BY <1>6 DEF a, b

\* OneCompletion is about the request.
LEMMA OutDue ==
  ASSUME NEW u, NEW p, NEW r, NEW c, Due(r, c),
         out' \in {<<>>, <<Unsol(u, p)>>, <<Returned(r, c)>>, Append(<<Unsol(u, p)>>, Returned(r, c))}
  PROVE  OneCompletion'
<1>1. Unsol(u, p).what = "unsol" /\ Returned(r, c).name = r /\ Returned(r, c).completions = c
  BY DEF Unsol, Returned
<1>2. Range(out') \subseteq {Unsol(u, p), Returned(r, c)}
  BY OutRange
<1> QED BY <1>1, <1>2 DEF OneCompletion, Due

\* Every branch of a handler of one command completes its request as due.
LEMMA CompletionsDue == ASSUME NEW r \in OneCommand, NEW x PROVE Due(r, Completions(r, x))
<1>1. \A e, p : Len(<<Complete(e, p)>>) = 1
  OBVIOUS
<1>2. \A p, ok : Len(Success(p)) = 1 /\ Len(Failure) = 1 /\ Len(SuccessIf(ok, p)) = 1
  BY <1>1 DEF Success, Failure, SuccessIf
<1>3. \A p : Len(Success(p) \o Failure) = 2 /\ Len(Failure \o Failure) = 2
  BY DEF Success, Failure
<1>4. CASE r = "SMS_ACKNOWLEDGE"
  <2>1. Completions(r, x) = Success(Null) \o Failure
    BY <1>4 DEF Completions, CallControl, PinRequests, NumericRequests, requestSMSAcknowledge
  <2> QED BY <1>3, <1>4, <2>1, Zenon DEF Due
<1>5. CASE r = "SIGNAL_STRENGTH"
  <2>1. Completions(r, x) = requestSignalStrength(x)
    BY <1>5 DEF Completions, CallControl, PinRequests, NumericRequests
  <2> QED BY <1>2, <1>3, <1>5, <2>1, Zenon DEF Due, requestSignalStrength
<1>6. CASE r = "SET_NETWORK_SELECTION_AUTOMATIC"
  <2>1. Completions(r, x) = <<>>
    BY <1>6 DEF Completions, CallControl, PinRequests, NumericRequests
  <2> QED BY <1>6, <2>1 DEF Due
<1>7. CASE r \in CallControl
  <2>1. Completions(r, x) = Success(Null)
    BY <1>7 DEF Completions, CallControl, PinRequests, NumericRequests
  <2> QED BY <1>2, <2>1 DEF Due
<1>8. CASE r \in PinRequests
  <2>1. Completions(r, x) = requestEnterSimPin(x)
    BY <1>8 DEF Completions, CallControl, PinRequests, NumericRequests
  <2> QED BY <1>1, <1>2, <2>1 DEF Due, requestEnterSimPin
<1>9. CASE r \in NumericRequests
  <2>1. Completions(r, x) = SuccessIf(Ok(x), Payload("string", 4))
    BY <1>9 DEF Completions, CallControl, PinRequests, NumericRequests
  <2> QED BY <1>2, <2>1 DEF Due
<1>10. CASE r \in {"GET_CURRENT_CALLS", "REGISTRATION_STATE", "GPRS_REGISTRATION_STATE", "OPERATOR",
                   "SEND_SMS", "WRITE_SMS_TO_SIM", "DELETE_SMS_ON_SIM", "SIM_IO",
                   "QUERY_NETWORK_SELECTION_MODE"}
  <2>1. \E ok, p : Completions(r, x) = SuccessIf(ok, p)
    <3> USE DEF Completions, CallControl, PinRequests, NumericRequests
    <3>1. CASE r = "GET_CURRENT_CALLS"
      BY <3>1 DEF requestGetCurrentCalls
    <3>2. CASE r \in {"REGISTRATION_STATE", "GPRS_REGISTRATION_STATE"}
      BY <3>2 DEF requestRegistrationState
    <3>3. CASE r = "OPERATOR"
      BY <3>3 DEF requestOperator
    <3>4. CASE r \in {"SEND_SMS", "WRITE_SMS_TO_SIM", "DELETE_SMS_ON_SIM"}
      BY <3>4, Zenon DEF requestSendSMS, requestWriteSmsToSim
    <3>5. CASE r \in {"SIM_IO", "QUERY_NETWORK_SELECTION_MODE"}
      BY <3>5, Zenon DEF requestSIM_IO, requestQueryNetworkSelectionMode
    <3> QED BY <1>10, <3>1, <3>2, <3>3, <3>4, <3>5
  <2> QED BY <1>2, <2>1 DEF Due
<1> QED BY <1>4, <1>5, <1>6, <1>7, <1>8, <1>9, <1>10 DEF OneCommand

\* So does every handler whose command returned,
LEMMA CompletingContinues ==
  ASSUME NEW x, Completing, loop.st \in {"send", "wait"}, Continue(x) PROVE Completing'
<1> USE DEF Completing, Serving, LoopFields
<1>1. \A r, e, p : Due(r, <<Complete(e, p)>>)
  BY DEF Due
<1>2. \A r, p, ok : Due(r, Success(p)) /\ Due(r, Failure) /\ Due(r, SuccessIf(ok, p))
  BY <1>1 DEF Success, Failure, SuccessIf
<1>3. ASSUME out' = <<>> PROVE OneCompletion'
  BY <1>2, <1>3, OutDue
<1>4. ASSUME NEW c, Return(c), Due(loop.req, c) PROVE Completing'
  BY <1>4, OutDue, IdleFields DEF Return
<1>5. ASSUME NEW st, NEW at, NEW k, Goto(st, at, k), at \notin OneCommand, out' = <<>> PROVE Completing'
  BY <1>3, <1>5 DEF Goto
<1>6. ASSUME NEW new, SetRadioState(new), Silent PROVE Completing'
  BY <1>3, <1>6 DEF SetRadioState, Goto, Silent
<1>7. \A at \in {"CFUN?", "CGDCONT?", "CGDCONT=1", "ATD*99***1#", "CNMI", "ATE0Q0V1", "ATS0=0",
                 "CREG=2", "CREG=1", "CGREG=1"} : at \notin OneCommand
  BY Zenon DEF OneCommand, CallControl, PinRequests, NumericRequests
<1>8. ASSUME OneCommandReturns(x) PROVE Completing'
  <2>1. loop.at \in OneCommand /\ loop.req = loop.at
    BY <1>8, Zenon DEF OneCommandReturns
  <2>2. (Silent /\ UNCHANGED loop) \/ Return(Completions(loop.at, x))
    BY <1>8, Zenon DEF OneCommandReturns
  <2> QED BY <1>3, <1>4, <2>1, <2>2, CompletionsDue DEF Silent
<1>9. ASSUME requestRadioPowerReturns(x) PROVE Completing'
  <2>1. \/ Return(Failure)
        \/ Goto("send", "CFUN?", 0) /\ Silent
        \/ \E new : SetRadioState(new) /\ Silent
    BY <1>9 DEF requestRadioPowerReturns, Send
  <2> QED BY <1>2, <1>4, <1>5, <1>6, <1>7, <2>1 DEF Silent
<1>10. ASSUME requestOrSendDataCallListReturns(x) PROVE Completing'
  <2>1. \/ \E e, p : DataCallListIs(e, p)
        \/ Goto("send", "CGDCONT?", Count(x.lines)) /\ Silent
    BY <1>10, Zenon DEF requestOrSendDataCallListReturns
  <2>2. ASSUME NEW e, NEW p, DataCallListIs(e, p) PROVE Completing'
    BY <1>1, <2>2, OutDue, IdleFields DEF DataCallListIs
  <2> QED BY <1>5, <1>7, <2>1, <2>2 DEF Silent
<1>11. ASSUME requestSetupDataCallReturns(x) PROVE Completing'
  <2>1. \/ \E ok, p : Return(SuccessIf(ok, p))
        \/ Silent /\ \E at \in {"CGDCONT=1", "ATD*99***1#"} : \E k : Goto("send", at, k)
    BY <1>11 DEF requestSetupDataCallReturns, Send
  <2> QED BY <1>2, <1>4, <1>5, <1>7, <2>1 DEF Silent
<1>12. ASSUME getCardStatusReturns(x) PROVE Completing'
  BY <1>2, <1>4, <1>12, Zenon DEF getCardStatusReturns
<1>13. ASSUME pollSIMStateReturns(x) PROVE Completing'
  <2>1. Return(Success(Null)) \/ \E new : SetRadioState(new) /\ Silent
    BY <1>13 DEF pollSIMStateReturns, Finish
  <2> QED BY <1>2, <1>4, <1>6, <2>1
<1>14. ASSUME onSIMReadyReturns(x) PROVE Completing'
  BY <1>2, <1>4, <1>5, <1>7, <1>14 DEF onSIMReadyReturns, Finish, Send, Silent
<1>15. ASSUME at_handshakeReturns(x) PROVE Completing'
  BY <1>5, <1>7, <1>15 DEF at_handshakeReturns, Quiet, Silent
<1>16. ASSUME initializeCallbackReturns(x) PROVE Completing'
  <2>1. /\ out' = <<>>
        /\ \/ loop' = Idle \/ SetRadioState("SIM_NOT_READY")
           \/ \E at \in {"ATS0=0", "CREG=2", "CREG=1", "CGREG=1", "CFUN?"} : \E k : Goto("send", at, k)
    BY <1>16 DEF initializeCallbackReturns, Quiet, Silent, Send
  <2> QED BY <1>3, <1>5, <1>6, <1>7, <2>1, IdleFields DEF Silent
<1> QED
  BY <1>8, <1>9, <1>10, <1>11, <1>12, <1>13, <1>14, <1>15, <1>16 DEF Continue

\* and every step.
LEMMA CompletingStep == Completing /\ [Next]_vars => Completing'
<1> SUFFICES ASSUME Completing, [Next]_vars PROVE Completing'
  OBVIOUS
<1> USE DEF Completing, Serving, LoopFields
<1>1. \A r, e, p : Due(r, <<Complete(e, p)>>)
  BY DEF Due
<1>2. \A r, p, ok : Due(r, Success(p)) /\ Due(r, Failure) /\ Due(r, SuccessIf(ok, p))
  BY <1>1 DEF Success, Failure, SuccessIf
<1>3. ASSUME out' = <<>> \/ \E u, p : out' = <<Unsol(u, p)>> PROVE OneCompletion'
  BY <1>2, <1>3, OutDue, Zenon
<1>4. ASSUME NEW r, NEW c, AnswerAt(r, c), Due(r, c) PROVE Completing'
  BY <1>4, OutDue DEF AnswerAt
<1>5. ASSUME NEW r, NEW arg, onRequest(r, arg) PROVE Completing'
  <2> DEFINE first(at, k) == loop' = [Serve(r) EXCEPT !.st = "send", !.at = at, !.k = k] /\ out' = <<>>
  <2>1. \/ \E e : AnswerAt(r, <<Complete(e, Null)>>)
        \/ AnswerAt(r, OddArgument(r)) \/ \E p : AnswerAt(r, Success(p))
        \/ \E at \in {"CPIN?", "CFUN=0", "CFUN=1", "CGACT?", "CGDCONT=1"} : \E k : first(at, k)
        \/ first(r, 0)
    BY <1>5, Zenon DEF onRequest, Quiet, Silent
  <2>2. Due(r, OddArgument(r))
    BY <1>1, <1>2 DEF OddArgument
  <2>3. ASSUME NEW at, NEW k, first(at, k), at \notin OneCommand \/ at = r PROVE Completing'
    <3>1. DOMAIN loop' = {"st", "at", "req", "k", "old"} /\ loop'.at = at /\ loop'.req = r
      BY <2>3 DEF Serve, Idle
    <3> QED BY <1>3, <2>3, <3>1
  <2>4. \A at \in {"CPIN?", "CFUN=0", "CFUN=1", "CGACT?", "CGDCONT=1"} : at \notin OneCommand
    BY DEF OneCommand, CallControl, PinRequests, NumericRequests
  <2> HIDE DEF first
  <2> QED BY <1>1, <1>2, <1>4, <2>1, <2>2, <2>3, <2>4, Zenon
<1>6. ASSUME SetupOverQmi PROVE Completing'
  <2>1. \E ok, p : AnswerAt("SETUP_DATA_CALL", SuccessIf(ok, p))
    BY <1>6 DEF SetupOverQmi
  <2> QED BY <1>2, <1>4, <2>1
<1>7. ASSUME NEW cb \in Callbacks, TimerFires(cb) PROVE Completing'
  <2>1. \/ out' = <<>> /\ loop' = Idle
        \/ out' = <<>> /\ \E st \in {"set", "send"} : \E at \in {"OFF", "CPIN?", "CGACT?"} :
              loop' = [Idle EXCEPT !.st = st, !.at = at]
        \/ UNCHANGED loop /\ \E u, p : out' = <<Unsol(u, p)>>
    BY <1>7, Zenon DEF TimerFires, Silent, Callbacks
  <2>2. \A at \in {"OFF", "CPIN?", "CGACT?"} : at \notin OneCommand
    BY DEF OneCommand, CallControl, PinRequests, NumericRequests
  <2>3. CASE out' = <<>> /\ loop' = Idle
    BY <1>3, <2>3, IdleFields
  <2>4. ASSUME NEW st, NEW at \in {"OFF", "CPIN?", "CGACT?"}, out' = <<>>,
               loop' = [Idle EXCEPT !.st = st, !.at = at]
        PROVE  Completing'
    BY <1>3, <2>2, <2>4, IdleFields
  <2> QED BY <1>3, <2>1, <2>3, <2>4, Zenon
<1>8. ASSUME CommandSent PROVE Completing'
  BY <1>3, <1>8 DEF CommandSent, Silent
<1>9. ASSUME CommandNotSent \/ CommandDone \/ HandshakeTimesOut PROVE Completing'
  <2>1. loop.st \in {"send", "wait"} /\ (Continue(Failed) \/ Continue(ResultNow))
    BY <1>9 DEF CommandNotSent, CommandDone, HandshakeTimesOut
  <2> QED BY <2>1, CompletingContinues
<1>10. ASSUME HandshakeEnds PROVE Completing'
  BY <1>3, <1>10 DEF HandshakeEnds, Goto, Silent, OneCommand, CallControl, PinRequests, NumericRequests
<1>11. ASSUME LoopSetsState PROVE Completing'
  BY <1>3, <1>11 DEF LoopSetsState, Silent
<1>12. ASSUME LoopRereadsState PROVE Completing'
  <2> DEFINE news == Unsol("RESPONSE_RADIO_STATE_CHANGED", Null)
             done == Returned(loop.req, Success(Null))
  <2> HIDE DEF news, done
  <2>1. Append(<<>>, done) = <<done>>
    OBVIOUS
  <2>2. out' \in {<<>>, <<news>>, <<done>>, Append(<<news>>, done)}
    BY <1>12, <2>1, Zenon DEF LoopRereadsState, news, done
  <2>3. OneCompletion'
    BY <1>2, <2>2, OutDue DEF news, done
  <2>4. \/ loop' = Idle
        \/ \E at \in {"CSMS", "CPIN?"} : loop' = [loop EXCEPT !.st = "send", !.at = at, !.old = "none"]
        \/ loop' = [Idle EXCEPT !.st = "send", !.at = "ATE0Q0V1", !.k = HANDSHAKE_RETRY_COUNT]
    BY <1>12 DEF LoopRereadsState
  <2>5. \A at \in {"CSMS", "CPIN?", "ATE0Q0V1"} : at \notin OneCommand
    BY DEF OneCommand, CallControl, PinRequests, NumericRequests
  <2>6. CASE loop' = Idle
    BY <2>3, <2>6, IdleFields
  <2>7. ASSUME NEW at \in {"CSMS", "CPIN?"},
               loop' = [loop EXCEPT !.st = "send", !.at = at, !.old = "none"]
        PROVE  Completing'
    BY <2>3, <2>5, <2>7
  <2>8. CASE loop' = [Idle EXCEPT !.st = "send", !.at = "ATE0Q0V1", !.k = HANDSHAKE_RETRY_COUNT]
    BY <2>3, <2>5, <2>8, IdleFields
  <2> QED BY <2>4, <2>6, <2>7, <2>8
<1>13. ASSUME NEW e \in Events \cup {"+CMT:", "+CDS:"}, onUnsolicited(e) PROVE OneCompletion'
  <2>1. out' = <<>> \/ \E u, p : out' = <<Unsol(u, p)>>
    BY <1>13, Zenon DEF onUnsolicited, Events, Silent
  <2> QED BY <1>3, <2>1
<1>14. ASSUME NEW r \in Reader,
              \/ (\E f \in Finals : FinalLine(r, f)) \/ AnswerLine(r) \/ NewSms(r) \/ ChannelEnds(r)
              \/ ReaderMarksClosed(r) \/ ReaderSetsState(r)
       PROVE  Completing'
  <2>1. UNCHANGED loop /\ out' = <<>>
    BY <1>14 DEF FinalLine, AnswerLine, NewSms, ChannelEnds, ReaderMarksClosed, ReaderSetsState,
       Rest, Others, Silent
  <2> QED BY <1>3, <2>1, Zenon
<1>15. ASSUME NEW r \in Reader, SmsPdu(r) \/ \E e \in Limit.events \cap Events : EventLine(r, e)
       PROVE  Completing'
  <2>1. /\ UNCHANGED loop
        /\ out' = <<>> \/ \E e \in Events \cup {"+CMT:", "+CDS:"} : onUnsolicited(e)
    BY <1>15 DEF SmsPdu, EventLine, Rest, Silent
  <2> QED BY <1>3, <1>13, <2>1
<1>16. ASSUME NEW r \in Reader, ReaderRereadsState(r) PROVE Completing'
  BY <1>3, <1>16, Zenon DEF ReaderRereadsState, Others
<1>17. ASSUME MainStep PROVE Completing'
  <2>1. UNCHANGED loop /\ out' = <<>>
    BY <1>17, Zenon DEF MainStep, MainOpens, MainSetsFd, MainWaits, MainResets, MainRest, Silent
  <2> QED BY <1>3, <2>1
<1>18. ASSUME Dead \/ UNCHANGED vars PROVE Completing'
  BY <1>18 DEF Dead, vars, OneCompletion
<1> QED
  BY <1>5, <1>6, <1>7, <1>8, <1>9, <1>10, <1>11, <1>12, <1>14, <1>15, <1>16, <1>17, <1>18, Zenon
     DEF Next, LoopStep, ReaderCloses

\* Whatever the modem answers and wherever the channel breaks, a handler that returns has called
\* RIL_onRequestComplete() once, but for requestSMSAcknowledge() and the error path of
\* requestSignalStrength() (twice) and RIL_REQUEST_SET_NETWORK_SELECTION_AUTOMATIC (never).
THEOREM CompletionTheorem == Spec => []OneCompletion
<1>1. Init => Completing
  <2> SUFFICES ASSUME Init PROVE Completing
    OBVIOUS
  <2>1. loop = Idle /\ out = <<>>
    BY DEF Init
  <2>2. OneCompletion
    BY <2>1 DEF OneCompletion, Range
  <2> QED BY <2>1, <2>2, IdleFields DEF Completing, Serving, LoopFields
<1>2. Completing => OneCompletion
  BY DEF Completing
<1> QED
  BY <1>1, <1>2, CompletingStep, PTL DEF Spec

-----------------------------------------------------------------------------
(* One reader thread at a time has the channel. *)

\* Thread r reads the channel; or it found the end and has not yet said so with s_closed.
Reading(r) == reader[r] \in {"reading", "pdu"}
Attached(r) == Reading(r) \/ reader[r] = "closed"

\* mainLoop() opens the channel again only for the close of the one reader that had it.
OneReader ==
    /\ reader \in [Reader -> ReaderAt]
    /\ \A q, r \in Reader : Attached(q) /\ Attached(r) => q = r
    /\ s_closed \/ main \in {"opening", "fd", "reset"} => \A r \in Reader : ~Attached(r)
    /\ main \in {"fd", "reset"} => ~s_closed

-----------------------------------------------------------------------------
(* Types, and the bounds on timed callbacks. *)

\* The event loop is on its way to a poll of the SIM that may have to be repeated.
PollAhead ==
    \/ loop.st \in {"send", "wait", "sleep"} /\ loop.at \in BringUp
    \/ loop.st \in {"send", "wait"} /\ loop.at = "CPIN?" /\ loop.req # "GET_SIM_STATUS"
    \/ loop.st \in {"set", "reread"} /\ (loop.at # "OFF" \/ loop.req = "none")

\* There is room for the callbacks that what is under way may schedule.
Room ==
    /\ (\A r \in Reader : ~Reading(r)) =>
           timers["initializeCallback"] < MaxTimers["initializeCallback"]
    /\ PollAhead => timers["pollSIMState"] < MaxTimers["pollSIMState"]
    /\ loop.at = "GET_CURRENT_CALLS" =>
           timers["sendCallStateChanged"] < MaxTimers["sendCallStateChanged"]

\* The inductive invariant, next to Polling.
Typed ==
    /\ TypeOK /\ OneReader /\ Room
    /\ loop.st = "set" => loop.at \in RIL_RadioState

-----------------------------------------------------------------------------
(* The channel. *)

\* What the bounds of the instance are.
LEMMA LimitIs ==
  ASSUME bound \in DOMAIN Bounds
  PROVE  /\ wired \in BOOLEAN /\ MaxLines \in Nat /\ MaxUnanswered \in Nat
         /\ wired => MaxLines > 0
         /\ Limit.requests \subseteq DOMAIN Requests
         /\ MaxTimers \in [Callbacks -> Nat] /\ MaxTimers["initializeCallback"] > 0
  BY ReferenceRilAssumption, Zenon DEF Limit, wired, MaxLines, MaxUnanswered, MaxTimers

\* A command is sent with an empty response.
LEMMA NewResponse ==
  ASSUME NEW at, MaxLines \in Nat PROVE at_response_new(CommandAt(at)) \in ATResponse
<1>1. NoLines \in [Kinds -> 0..MaxLines]
  BY DEF NoLines
<1> QED
  BY <1>1 DEF at_response_new, CommandAt, ATResponse, Types

\* One more line is kept while there is room for it.
LEMMA LineFits ==
  ASSUME MaxLines \in Nat, MaxLines > 0, sp_response \in ATResponse, Keeps(sp_response),
         NEW kind \in Kinds
  PROVE  [sp_response EXCEPT !.lines[kind] = @ + 1] \in ATResponse
<1> DEFINE lines == sp_response.lines
<1>1. lines \in [Kinds -> 0..MaxLines]
  BY DEF ATResponse
<1>2. lines["good"] \in Nat /\ lines["alt"] \in Nat /\ lines["odd"] \in Nat
  BY <1>1 DEF Kinds
<1>3. lines[kind] < MaxLines
  BY <1>1, <1>2 DEF Keeps, Count, Kinds
<1>4. [lines EXCEPT ![kind] = @ + 1] \in [Kinds -> 0..MaxLines]
  BY <1>1, <1>3
<1>5. [sp_response EXCEPT !.lines[kind] = @ + 1] =
          [sp_response EXCEPT !.lines = [lines EXCEPT ![kind] = @ + 1]]
  OBVIOUS
<1> HIDE DEF lines
<1> QED
  BY <1>4, <1>5 DEF ATResponse

\* The channel keeps its types when nothing, or only the reader threads, move.
LEMMA ChanStep == TypeOK /\ [Next]_vars => ChanTypeOK'
<1> SUFFICES ASSUME TypeOK, [Next]_vars PROVE ChanTypeOK'
  OBVIOUS
<1>1. ChanTypeOK
  BY Zenon DEF TypeOK
<1>2. /\ bound \in DOMAIN Bounds /\ wired \in BOOLEAN /\ MaxLines \in Nat /\ MaxUnanswered \in Nat
      /\ wired => MaxLines > 0
  BY <1>1, LimitIs DEF ChanTypeOK
<1>3. ASSUME UNCHANGED bound PROVE UNCHANGED <<MaxLines, MaxUnanswered, ATResponse>>
  BY <1>3 DEF MaxLines, MaxUnanswered, Limit, ATResponse
<1>4. ASSUME UNCHANGED chanVars PROVE ChanTypeOK'
  BY <1>1, <1>3, <1>4 DEF ChanTypeOK, chanVars
<1>5. ASSUME NEW r \in Reader, NEW to \in ReaderAt, reader' = [reader EXCEPT ![r] = to],
             UNCHANGED <<bound, s_fd, s_readerClosed, s_commandmutex, sp_response, modem, slipped>>
      PROVE  ChanTypeOK'
  BY <1>1, <1>3, <1>5 DEF ChanTypeOK
<1>6. ASSUME s_commandmutex' \in {"free", "handshake"}, sp_response' \in {sp_response, NoResponse},
             slipped' \in BOOLEAN, UNCHANGED <<bound, s_fd, s_readerClosed, reader, modem>>
      PROVE  ChanTypeOK'
  BY <1>1, <1>3, <1>6 DEF ChanTypeOK
<1>7. \A x : MutexAfter(x) => s_commandmutex' \in {"free", "handshake"}
  BY Zenon DEF MutexAfter
<1>8. ASSUME CommandSent PROVE ChanTypeOK'
  <2>1. /\ sp_response' = at_response_new(CommandAt(loop.at)) /\ modem < MaxUnanswered
        /\ modem' = modem + 1 /\ s_commandmutex' = "free"
        /\ UNCHANGED <<bound, s_fd, s_readerClosed, reader, slipped>>
    BY <1>8 DEF CommandSent, at_send_command
  <2>2. sp_response' \in ATResponse
    BY <2>1, <1>2, NewResponse
  <2> QED
    BY <1>1, <1>2, <1>3, <2>1, <2>2 DEF ChanTypeOK
<1>9. ASSUME CommandNotSent \/ HandshakeEnds PROVE ChanTypeOK'
  BY <1>1, <1>6, <1>7, <1>9, Zenon DEF CommandNotSent, HandshakeEnds, ChanTypeOK
<1>10. ASSUME CommandDone \/ HandshakeTimesOut PROVE ChanTypeOK'
  BY <1>1, <1>6, <1>7, <1>10, Zenon
     DEF CommandDone, HandshakeTimesOut, CommandReturns, CommandTimesOut, ChanTypeOK

<1>11. ASSUME NEW resp \in ATResponse \cup {NoResponse}, sp_response' = resp,
             slipped' \in BOOLEAN, modem' \in 0..MaxUnanswered,
             UNCHANGED <<bound, s_fd, s_readerClosed, s_commandmutex, reader>>
      PROVE  ChanTypeOK'
  BY <1>1, <1>3, <1>11 DEF ChanTypeOK
<1>12. ASSUME NEW r \in Reader, NEW f \in Finals, FinalLine(r, f) PROVE ChanTypeOK'
  <2>1. /\ modem > 0 /\ modem' = modem - 1
        /\ \/ sp_response' = sp_response
           \/ /\ sp_response # NoResponse
              /\ sp_response' = [sp_response EXCEPT !.final = f, !.stale = modem > 1]
        /\ UNCHANGED <<bound, s_fd, s_readerClosed, s_commandmutex, reader, slipped>>
    BY <1>12, Zenon DEF FinalLine, handleFinalResponse
  <2>2. \/ sp_response' = sp_response
        \/ /\ sp_response # NoResponse
           /\ \E stale \in BOOLEAN : sp_response' = [sp_response EXCEPT !.final = f, !.stale = stale]
    <3>1. (modem > 1) \in BOOLEAN
      OBVIOUS
    <3> QED
      BY <2>1, <3>1, Zenon
  <2>3. sp_response' \in ATResponse \cup {NoResponse}
    BY <1>1, <2>2, Zenon DEF ChanTypeOK, ATResponse
  <2> QED
    BY <1>1, <1>2, <1>11, <2>1, <2>3 DEF ChanTypeOK
<1>13. ASSUME NEW r \in Reader, AnswerLine(r) PROVE ChanTypeOK'
  <2>1. /\ wired /\ sp_response \in ATResponse
        /\ UNCHANGED <<bound, s_fd, s_readerClosed, s_commandmutex, reader, modem, slipped>>
    BY <1>1, <1>13 DEF AnswerLine, writeCtrlZ, addIntermediate, ChanTypeOK
  <2>2. \/ sp_response' = [sp_response EXCEPT !.s_smsPDU = FALSE]
        \/ \E kind \in Kinds : /\ Keeps(sp_response)
                               /\ sp_response' = [sp_response EXCEPT !.lines[kind] = @ + 1]
    BY <1>13, Zenon DEF AnswerLine, writeCtrlZ, addIntermediate
  <2>3. sp_response' \in ATResponse
    <3>1. CASE sp_response' = [sp_response EXCEPT !.s_smsPDU = FALSE]
      BY <2>1, <3>1, Zenon DEF ATResponse
    <3> QED
      BY <1>2, <2>1, <2>2, <3>1, LineFits
  <2> QED
    BY <1>1, <1>11, <2>1, <2>3 DEF ChanTypeOK
<1>14. ASSUME NEW r \in Reader, NEW e \in Events, EventLine(r, e) PROVE ChanTypeOK'
  <2>1. /\ slipped' \in BOOLEAN
        /\ UNCHANGED <<bound, s_fd, s_readerClosed, s_commandmutex, reader, modem>>
    BY <1>1, <1>2, <1>14, Zenon DEF EventLine, processEvent, ChanTypeOK, TakenAsFinal
  <2>2. \/ sp_response' = sp_response
        \/ /\ sp_response # NoResponse
           /\ sp_response' = [sp_response EXCEPT !.final = "ERROR", !.stale = TRUE]
        \/ /\ wired /\ sp_response # NoResponse /\ Keeps(sp_response)
           /\ sp_response' = [sp_response EXCEPT !.lines["alt"] = @ + 1]
    BY <1>14, Zenon DEF EventLine, processEvent, TakenAsFinal, TakenAsLine
  <2>3. sp_response' \in ATResponse \cup {NoResponse}
    <3>1. CASE /\ sp_response # NoResponse
               /\ sp_response' = [sp_response EXCEPT !.final = "ERROR", !.stale = TRUE]
      BY <1>1, <3>1, Zenon DEF ChanTypeOK, ATResponse, Finals
    <3>2. CASE /\ wired /\ sp_response # NoResponse /\ Keeps(sp_response)
               /\ sp_response' = [sp_response EXCEPT !.lines["alt"] = @ + 1]
      BY <1>1, <1>2, <3>2, LineFits DEF ChanTypeOK, Kinds
    <3> QED
      BY <1>1, <2>2, <3>1, <3>2 DEF ChanTypeOK
  <2> QED
    BY <1>1, <1>11, <2>1, <2>3 DEF ChanTypeOK
<1>15. ASSUME NEW r \in Reader, NewSms(r) \/ SmsPdu(r) PROVE ChanTypeOK'
  BY <1>5, <1>15, Zenon DEF NewSms, SmsPdu, FirstSmsLine, SecondSmsLine, ReaderAt
<1>16. ASSUME NEW r \in Reader, ReaderCloses(r) PROVE ChanTypeOK'
  BY <1>5, <1>16, Zenon
     DEF ReaderCloses, ReaderMarksClosed, ReaderSetsState, ReaderRereadsState, Others, ReaderAt
<1>17. ASSUME NEW r \in Reader, ChannelEnds(r) PROVE ChanTypeOK'
  <2>1. /\ s_readerClosed' = TRUE /\ s_fd' = FALSE /\ reader' = [reader EXCEPT ![r] = "closed"]
        /\ UNCHANGED <<bound, s_commandmutex, sp_response, modem, slipped>>
    BY <1>17 DEF ChannelEnds, onReaderClosed
  <2> QED
    BY <1>1, <1>3, <2>1, Zenon DEF ChanTypeOK, ReaderAt
<1>18. ASSUME MainSetsFd PROVE ChanTypeOK'
  <2>1. /\ s_fd' = TRUE /\ s_readerClosed' = FALSE /\ modem' = 0 /\ slipped' \in BOOLEAN
        /\ UNCHANGED <<bound, s_commandmutex, sp_response, reader>>
    BY <1>1, <1>18 DEF MainSetsFd, OpenFd, ChanTypeOK
  <2>2. UNCHANGED <<MaxUnanswered, ATResponse>>
    BY <1>3, <2>1
  <2>3. modem' \in 0..MaxUnanswered'
    BY <1>2, <2>1, <2>2
  <2> QED
    BY <1>1, <2>1, <2>2, <2>3, Zenon DEF ChanTypeOK
<1>19. ASSUME NEW r \in Reader, MainResets(r) PROVE ChanTypeOK'
  <2>1. /\ sp_response' = NoResponse /\ reader' = [reader EXCEPT ![r] = "reading"]
        /\ UNCHANGED <<bound, s_fd, s_readerClosed, s_commandmutex, modem, slipped>>
    BY <1>19, Zenon DEF MainResets, OpenReset
  <2> QED
    BY <1>1, <1>3, <2>1 DEF ChanTypeOK, ReaderAt
<1>20. ASSUME \/ \E r \in Limit.requests : \E arg \in Args(r) : onRequest(r, arg)
              \/ SetupOverQmi \/ \E cb \in Callbacks : TimerFires(cb)
              \/ LoopSetsState \/ LoopRereadsState \/ MainOpens \/ MainWaits \/ Dead
              \/ UNCHANGED vars
       PROVE  ChanTypeOK'
  <2>1. UNCHANGED chanVars
    BY <1>20, Zenon DEF onRequest, SetupOverQmi, TimerFires, LoopSetsState, LoopRereadsState, MainOpens,
       MainWaits, Dead, vars
  <2> QED
    BY <1>4, <2>1
<1> QED
  BY <1>8, <1>9, <1>10, <1>12, <1>13, <1>14, <1>15, <1>16, <1>17, <1>18, <1>19, <1>20, Zenon
     DEF Next, LoopStep, MainStep

-----------------------------------------------------------------------------
(* The reader threads. *)

\* at_open() starts a reader only when no other is left that will report a close: every step.
LEMMA ReaderStep == OneReader /\ [Next]_vars => OneReader'
<1> SUFFICES ASSUME OneReader, [Next]_vars PROVE OneReader'
  OBVIOUS
<1>1. ASSUME UNCHANGED <<reader, s_closed>>,
             main' = main \/ (main = "asleep" /\ main' = "checking")
      PROVE  OneReader'
  BY <1>1 DEF OneReader, Attached, Reading
<1>2. ASSUME NEW r \in Reader, NEW to \in ReaderAt, reader' = [reader EXCEPT ![r] = to],
             to \in {"reading", "pdu", "closed"} => Attached(r),
             UNCHANGED s_closed,
             main' = main \/ (main = "asleep" /\ main' = "checking")
      PROVE  OneReader'
  <2>1. \A q \in Reader : Attached(q)' => Attached(q)
    BY <1>2 DEF OneReader, Attached, Reading
  <2>2. reader' \in [Reader -> ReaderAt]
    BY <1>2 DEF OneReader
  <2> QED
    BY <1>2, <2>1, <2>2, Zenon DEF OneReader
<1>3. \A new : setRadioState(new) =>
          /\ UNCHANGED s_closed
          /\ main' = main \/ (main = "asleep" /\ main' = "checking")
  BY DEF setRadioState
<1>4. ASSUME NEW r \in Reader, NewSms(r) \/ SmsPdu(r) \/ ChannelEnds(r) PROVE OneReader'
  BY <1>2, <1>4
     DEF NewSms, SmsPdu, ChannelEnds, FirstSmsLine, SecondSmsLine, onReaderClosed, Rest, ReaderAt,
         Attached, Reading
<1>5. ASSUME NEW r \in Reader, ReaderSetsState(r) \/ ReaderRereadsState(r) PROVE OneReader'
  BY <1>2, <1>3, <1>5, Zenon DEF ReaderSetsState, ReaderRereadsState, ReaderAt
<1>6. ASSUME NEW r \in Reader, ReaderMarksClosed(r) PROVE OneReader'
  <2>1. /\ reader[r] = "closed" /\ s_closed' = TRUE /\ UNCHANGED main
        /\ reader' = [reader EXCEPT ![r] = "setting"]
    BY <1>6 DEF ReaderMarksClosed
  <2>2. reader' \in [Reader -> ReaderAt]
    BY <2>1 DEF OneReader, ReaderAt
  <2>3. \A q \in Reader : ~Attached(q)'
    BY <2>1 DEF OneReader, Attached, Reading
  <2>4. main \notin {"opening", "fd", "reset"}
    BY <2>1 DEF OneReader, Attached
  <2> QED
    BY <2>1, <2>2, <2>3, <2>4 DEF OneReader
<1>7. ASSUME MainOpens \/ MainSetsFd \/ MainWaits PROVE OneReader'
  <2>1. /\ UNCHANGED reader
        /\ \/ main = "opening" /\ main' = "fd" /\ s_closed' = FALSE
           \/ main = "fd" /\ main' = "reset" /\ UNCHANGED s_closed
           \/ main = "checking" /\ s_closed /\ main' = "opening" /\ UNCHANGED s_closed
           \/ main = "checking" /\ ~s_closed /\ main' = "asleep" /\ UNCHANGED s_closed
    BY <1>7 DEF MainOpens, MainSetsFd, MainWaits, OpenFd, chanVars
  <2> QED
    BY <2>1 DEF OneReader, Attached, Reading
<1>8. ASSUME NEW r \in Reader, MainResets(r) PROVE OneReader'
  <2>1. /\ main = "reset" /\ main' = "checking" /\ UNCHANGED s_closed
        /\ reader' = [reader EXCEPT ![r] = "reading"]
    BY <1>8, Zenon DEF MainResets, OpenReset
  <2>2. ~s_closed /\ \A q \in Reader : ~Attached(q)
    BY <2>1 DEF OneReader
  <2>3. reader' \in [Reader -> ReaderAt] /\ \A q \in Reader : Attached(q)' => q = r
    BY <2>1, <2>2 DEF OneReader, ReaderAt, Attached, Reading
  <2> QED
    BY <2>1, <2>2, <2>3 DEF OneReader
<1>9. ASSUME NEW r \in Reader,
             \/ (\E f \in Finals : FinalLine(r, f)) \/ AnswerLine(r)
             \/ \E e \in Limit.events \cap Events : EventLine(r, e)
      PROVE  OneReader'
  <2>1. UNCHANGED <<reader, s_closed, main>>
    BY <1>9, Zenon DEF FinalLine, AnswerLine, EventLine, handleFinalResponse, writeCtrlZ, addIntermediate,
       processEvent, Rest
  <2> QED
    BY <1>1, <2>1
<1>10. ASSUME \/ \E r \in Limit.requests : \E arg \in Args(r) : onRequest(r, arg)
              \/ SetupOverQmi \/ \E cb \in Callbacks : TimerFires(cb)
              \/ LoopRereadsState \/ Dead \/ UNCHANGED vars
       PROVE  OneReader'
  <2>1. UNCHANGED <<reader, s_closed, main>>
    BY <1>10, Zenon DEF onRequest, SetupOverQmi, TimerFires, LoopRereadsState, Dead, vars, chanVars
  <2> QED
    BY <1>1, <2>1
<1>11. ASSUME CommandSent \/ CommandNotSent \/ CommandDone \/ HandshakeTimesOut \/ HandshakeEnds
       PROVE  OneReader'
  <2>1. UNCHANGED <<reader, s_closed, main>>
    BY <1>11, Zenon DEF CommandSent, CommandNotSent, CommandDone, HandshakeTimesOut, HandshakeEnds,
       at_send_command, CommandReturns, CommandTimesOut
  <2> QED
    BY <1>1, <2>1
<1>12. ASSUME LoopSetsState PROVE OneReader'
  BY <1>1, <1>3, <1>12, Zenon DEF LoopSetsState, chanVars
<1> QED
  BY <1>4, <1>5, <1>6, <1>7, <1>8, <1>9, <1>10, <1>11, <1>12, Zenon
     DEF Next, LoopStep, MainStep, ReaderCloses

-----------------------------------------------------------------------------
(* The event loop and its timed callbacks. *)

\* What the event loop's steps have to keep.
LoopTyped ==
    /\ LoopTypeOK /\ Room
    /\ loop.st = "set" => loop.at \in RIL_RadioState
    /\ \A cb \in Callbacks : timers[cb] \in 0..MaxTimers[cb]
    /\ Len(out) <= 2
    /\ fault \in {"none", "no line", "response dropped", "reader sends"}

\* What a step hands to libril is short.
LEMMA ShortOut ==
  ASSUME NEW s, s = <<>> \/ (\E x : s = <<x>>) \/ (\E x, y : s = <<x, y>>) PROVE Len(s) <= 2
<1>1. Len(<<>>) <= 2 /\ (\A x : Len(<<x>>) <= 2) /\ (\A x, y : Len(<<x, y>>) <= 2)
  OBVIOUS
<1> QED
  BY <1>1, Zenon

\* A callback that there was room for, and none for which room is still to be kept.
LEMMA AfterFits ==
  ASSUME Typed, Polling, NEW cb \in Callbacks, timers[cb] < MaxTimers[cb]
  PROVE  \A c \in Callbacks : /\ After(cb)[c] \in 0..MaxTimers[c]
                              /\ c # cb => After(cb)[c] = timers[c]
<1>1. timers \in [Callbacks -> Nat] /\ \A c \in Callbacks : timers[c] \in 0..MaxTimers[c]
  BY Zenon DEF Typed, TypeOK, Polling
<1>2. MaxTimers \in [Callbacks -> Nat]
  BY LimitIs, Zenon DEF Typed, TypeOK, ChanTypeOK
<1> QED
  BY <1>1, <1>2 DEF After

\* What a handler does with the result of its command.
LEMMA LoopContinues ==
  ASSUME NEW x, Typed, Polling, loop.st \in {"send", "wait"}, Continue(x), UNCHANGED <<bound, reader>>
  PROVE  LoopTyped'
<1> DEFINE Poll == "pollSIMState"
           Call == "sendCallStateChanged"
           Start == "initializeCallback"
           Faults == {"none", "no line", "response dropped", "reader sends"}
<1>1. /\ LoopFields /\ LoopTypeOK /\ Room /\ Len(out) <= 2 /\ fault \in Faults
      /\ timers \in [Callbacks -> Nat]
      /\ \A cb \in Callbacks : timers[cb] \in 0..MaxTimers[cb]
  BY Zenon DEF Typed, TypeOK, Polling
<1>2. /\ UNCHANGED MaxTimers
      /\ (\A r \in Reader : ~Reading(r))' <=> (\A r \in Reader : ~Reading(r))
  BY DEF MaxTimers, Limit, Reading
<1>3. Poll \in Callbacks /\ Call \in Callbacks /\ Start \in Callbacks
  BY DEF Callbacks
<1>4. ASSUME loop' = Idle, Len(out') <= 2, fault' \in Faults,
             \/ timers' = timers
             \/ timers' = After(Poll) /\ timers[Poll] < MaxTimers[Poll]
             \/ timers' = After(Call) /\ timers[Call] < MaxTimers[Call]
      PROVE  LoopTyped'
  <2>1. /\ \A c \in Callbacks : timers'[c] \in 0..MaxTimers[c]
        /\ timers'[Start] = timers[Start]
    <3>1. ASSUME NEW cb \in {Poll, Call}, timers' = After(cb), timers[cb] < MaxTimers[cb]
          PROVE  /\ \A c \in Callbacks : timers'[c] \in 0..MaxTimers[c]
                 /\ timers'[Start] = timers[Start]
      BY <1>3, <3>1, AfterFits, Zenon
    <3> QED
      BY <1>1, <1>4, <3>1, Zenon
  <2>2. LoopTypeOK' /\ loop'.st = "idle" /\ loop'.at = "none"
    BY <1>4, Zenon DEF Idle, LoopTypeOK
  <2>3. ~PollAhead'
    BY <2>2 DEF PollAhead
  <2> QED
    BY <1>1, <1>2, <1>3, <1>4, <2>1, <2>2, <2>3, Zenon DEF LoopTyped, Room
<1>5. ASSUME NEW c, Return(c), fault' \in Faults,
             \/ timers' = timers
             \/ timers' = After(Poll) /\ timers[Poll] < MaxTimers[Poll]
             \/ timers' = After(Call) /\ timers[Call] < MaxTimers[Call]
      PROVE  LoopTyped'
  <2>1. loop' = Idle /\ (out' = <<>> \/ out' = <<Returned(loop.req, c)>>)
    BY <1>5, Zenon DEF Return
  <2>2. Len(out') <= 2
    BY <2>1, ShortOut, Zenon
  <2> QED
    BY <1>4, <1>5, <2>1, <2>2, Zenon
<1>6. ASSUME NEW st \in {"send", "sleep", "set"}, NEW at, NEW k, Goto(st, at, k),
             Silent, UNCHANGED <<timers, fault>>, at # "GET_CURRENT_CALLS",
             st = "set" => at \in RIL_RadioState,
             \/ PollAhead
             \/ st = "send" /\ at \notin BringUp /\ at # "CPIN?"
             \/ st = "set" /\ at = "OFF" /\ loop.req = "RADIO_POWER"
      PROVE  LoopTyped'
  <2>1. /\ loop'.st = st /\ loop'.at = at /\ loop'.req = loop.req /\ loop'.old = loop.old
    BY <1>1, <1>6, Zenon DEF Goto, LoopFields
  <2>2. LoopTypeOK' /\ (loop'.st = "set" => loop'.at \in RIL_RadioState)
    BY <1>1, <1>6, <2>1, Zenon DEF LoopTypeOK
  <2>3. PollAhead' => PollAhead
    BY <1>6, <2>1 DEF PollAhead
  <2>4. Room'
    BY <1>1, <1>2, <1>6, <2>1, <2>3, Zenon DEF Room
  <2>5. Len(out') <= 2
    BY <1>6 DEF Silent
  <2> QED
    BY <1>1, <1>2, <1>6, <2>2, <2>4, <2>5, Zenon DEF LoopTyped

<1>7. ASSUME OneCommandReturns(x) PROVE LoopTyped'
  <2>1. \/ fault' = "no line" /\ Silent /\ UNCHANGED <<loop, timers>>
        \/ /\ Return(Completions(loop.at, x)) /\ UNCHANGED fault
           /\ timers' = timers \/ (loop.at = "GET_CURRENT_CALLS" /\ timers' = After(Call))
    BY <1>7, Zenon DEF OneCommandReturns
  <2>2. CASE fault' = "no line" /\ Silent /\ UNCHANGED <<loop, timers>>
    <3>1. LoopTypeOK' /\ Room' /\ Len(out') <= 2
      <4>1. Len(out') <= 2
        BY <2>2, ShortOut, Zenon DEF Silent
      <4>2. PollAhead' <=> PollAhead
        BY <2>2, Zenon DEF PollAhead
      <4> QED
        BY <1>1, <1>2, <2>2, <4>1, <4>2, Zenon DEF LoopTypeOK, Room
    <3> QED
      BY <1>1, <1>2, <2>2, <3>1, Zenon DEF LoopTyped
  <2>3. loop.at = "GET_CURRENT_CALLS" => timers[Call] < MaxTimers[Call]
    BY <1>1, Zenon DEF Room
  <2> QED
    BY <1>1, <1>5, <2>1, <2>2, <2>3, Zenon
<1>8. loop.at \in BringUp => PollAhead
  BY DEF PollAhead
<1>9. /\ {"OFF", "SIM_NOT_READY", "SIM_READY", "SIM_LOCKED_OR_ABSENT"} \subseteq RIL_RadioState
      /\ {"CFUN=1", "CFUN?", "ATE0Q0V1", "ATS0=0", "CREG=2", "CREG=1", "CGREG=1"} = BringUp
  BY DEF RIL_RadioState, BringUp
<1>10. ASSUME requestRadioPowerReturns(x) PROVE LoopTyped'
  <2>1. /\ loop.req = "RADIO_POWER" /\ UNCHANGED <<timers, fault>>
        /\ \/ Return(Failure)
           \/ Goto("set", "OFF", 0) /\ Silent
           \/ loop.at \in {"CFUN=1", "CFUN?"} /\ Goto("set", "SIM_NOT_READY", 0) /\ Silent
           \/ loop.at = "CFUN=1" /\ Goto("send", "CFUN?", 0) /\ Silent
    BY <1>10 DEF requestRadioPowerReturns, SetRadioState, Send
  <2>2. CASE Return(Failure)
    BY <1>1, <1>5, <2>1, <2>2, Zenon
  <2>3. CASE Goto("set", "OFF", 0) /\ Silent
    BY <1>6, <1>9, <2>1, <2>3
  <2>4. CASE loop.at \in {"CFUN=1", "CFUN?"} /\ Goto("set", "SIM_NOT_READY", 0) /\ Silent
    BY <1>6, <1>8, <1>9, <2>1, <2>4
  <2>5. CASE loop.at = "CFUN=1" /\ Goto("send", "CFUN?", 0) /\ Silent
    BY <1>6, <1>8, <1>9, <2>1, <2>5
  <2> QED
    BY <2>1, <2>2, <2>3, <2>4, <2>5
<1>11. ASSUME requestOrSendDataCallListReturns(x) PROVE LoopTyped'
  <2>1. /\ UNCHANGED <<timers, fault>>
        /\ \/ \E e, p : DataCallListIs(e, p)
           \/ Goto("send", "CGDCONT?", Count(x.lines)) /\ Silent
    BY <1>11, Zenon DEF requestOrSendDataCallListReturns
  <2>2. ASSUME NEW e, NEW p, DataCallListIs(e, p) PROVE LoopTyped'
    <3>1. loop' = Idle /\ Len(out') <= 2
      BY <2>2 DEF DataCallListIs
    <3> QED
      BY <1>1, <1>4, <2>1, <3>1, Zenon
  <2>3. CASE Goto("send", "CGDCONT?", Count(x.lines)) /\ Silent
    BY <1>6, <2>1, <2>3 DEF BringUp
  <2> QED
    BY <2>1, <2>2, <2>3
<1>12. ASSUME requestSetupDataCallReturns(x) PROVE LoopTyped'
  <2>1. /\ UNCHANGED <<timers, fault>>
        /\ \/ \E ok, p : Return(SuccessIf(ok, p))
           \/ Silent /\ \E at \in {"CGDCONT=1", "ATD*99***1#"} : \E k : Goto("send", at, k)
    BY <1>12 DEF requestSetupDataCallReturns, Send
  <2>2. ASSUME NEW ok, NEW p, Return(SuccessIf(ok, p)) PROVE LoopTyped'
    BY <1>1, <1>5, <2>1, <2>2, Zenon
  <2>3. ASSUME Silent, NEW at \in {"CGDCONT=1", "ATD*99***1#"}, NEW k, Goto("send", at, k)
        PROVE  LoopTyped'
    BY <1>6, <2>1, <2>3 DEF BringUp
  <2> QED
    BY <2>1, <2>2, <2>3
<1>13. ASSUME getCardStatusReturns(x) PROVE LoopTyped'
  BY <1>1, <1>5, <1>13, Zenon DEF getCardStatusReturns
<1>14. ASSUME pollSIMStateReturns(x) PROVE LoopTyped'
  <2>1. /\ loop.at = "CPIN?" /\ loop.req # "GET_SIM_STATUS" /\ UNCHANGED fault
        /\ \/ Return(Success(Null)) /\ timers' = After(Poll)
           \/ /\ UNCHANGED timers /\ Silent
              /\ \E new \in {"SIM_READY", "SIM_LOCKED_OR_ABSENT"} : Goto("set", new, 0)
    BY <1>14 DEF pollSIMStateReturns, SetRadioState, Finish
  <2>2. PollAhead /\ timers[Poll] < MaxTimers[Poll]
    BY <1>1, <2>1, Zenon DEF PollAhead, Room
  <2>3. ASSUME UNCHANGED timers, Silent, NEW new \in {"SIM_READY", "SIM_LOCKED_OR_ABSENT"},
               Goto("set", new, 0)
        PROVE  LoopTyped'
    BY <1>6, <1>9, <2>1, <2>2, <2>3
  <2>4. CASE Return(Success(Null)) /\ timers' = After(Poll)
    BY <1>1, <1>5, <2>1, <2>2, <2>4, Zenon
  <2> QED
    BY <2>1, <2>3, <2>4
<1>15. ASSUME onSIMReadyReturns(x) PROVE LoopTyped'
  <2>1. /\ UNCHANGED <<timers, fault>>
        /\ Return(Success(Null)) \/ (Goto("send", "CNMI", 0) /\ Silent)
    BY <1>15 DEF onSIMReadyReturns, Finish, Send
  <2>2. CASE Return(Success(Null))
    BY <1>1, <1>5, <2>1, <2>2, Zenon
  <2>3. CASE Goto("send", "CNMI", 0) /\ Silent
    BY <1>6, <2>1, <2>3 DEF BringUp
  <2> QED
    BY <2>1, <2>2, <2>3
<1>16. ASSUME at_handshakeReturns(x) PROVE LoopTyped'
  <2>1. /\ loop.at = "ATE0Q0V1" /\ Silent /\ UNCHANGED <<timers, fault>>
        /\ \E st \in {"send", "sleep"}, at \in {"ATE0Q0V1", "ATS0=0"} : \E k : Goto(st, at, k)
    BY <1>16 DEF at_handshakeReturns, Quiet
  <2>2. ASSUME NEW st \in {"send", "sleep"}, NEW at \in {"ATE0Q0V1", "ATS0=0"}, NEW k, Goto(st, at, k)
        PROVE  LoopTyped'
    BY <1>6, <1>8, <1>9, <2>1, <2>2
  <2> QED
    BY <2>1, <2>2
<1>17. ASSUME initializeCallbackReturns(x) PROVE LoopTyped'
  <2>1. /\ loop.at \in BringUp /\ Silent /\ UNCHANGED <<timers, fault>>
        /\ \/ loop' = Idle \/ Goto("set", "SIM_NOT_READY", 0)
           \/ \E at \in BringUp : \E k : Goto("send", at, k)
    BY <1>17 DEF initializeCallbackReturns, Quiet, SetRadioState, Send, BringUp
  <2>2. CASE loop' = Idle
    <3>1. Len(out') <= 2
      BY <2>1, ShortOut, Zenon DEF Silent
    <3> QED
      BY <1>1, <1>4, <2>1, <2>2, <3>1, Zenon
  <2>3. CASE Goto("set", "SIM_NOT_READY", 0)
    BY <1>6, <1>8, <1>9, <2>1, <2>3
  <2>4. ASSUME NEW at \in BringUp, NEW k, Goto("send", at, k) PROVE LoopTyped'
    BY <1>6, <1>8, <2>1, <2>4 DEF BringUp
  <2> QED
    BY <2>1, <2>2, <2>3, <2>4
<1> QED
  BY <1>7, <1>10, <1>11, <1>12, <1>13, <1>14, <1>15, <1>16, <1>17 DEF Continue

\* Every step of the three threads.
LEMMA LoopTypedStep == Typed /\ Polling /\ [Next]_vars => LoopTyped'
<1> SUFFICES ASSUME Typed, Polling, [Next]_vars PROVE LoopTyped'
  OBVIOUS
<1> DEFINE Poll == "pollSIMState"
           Call == "sendCallStateChanged"
           Data == "onDataCallListChanged"
           Start == "initializeCallback"
           Faults == {"none", "no line", "response dropped", "reader sends"}
           Quit == \A r \in Reader : ~Reading(r)
           Kept == LoopTypeOK' /\ Len(out') <= 2 /\ fault' \in Faults
           Counted == \A cb \in Callbacks : timers'[cb] \in 0..MaxTimers[cb]
<1>1. /\ LoopFields /\ LoopTypeOK /\ Room /\ OneReader /\ Len(out) <= 2 /\ fault \in Faults
      /\ timers \in [Callbacks -> Nat]
      /\ \A cb \in Callbacks : timers[cb] \in 0..MaxTimers[cb]
      /\ loop.st = "set" => loop.at \in RIL_RadioState
  BY Zenon DEF Typed, TypeOK, Polling
<1>a. /\ \A f \in {"response dropped", fault} : f \in Faults
      /\ \A f \in {fault, "none", "reader sends"} : f \in Faults
  BY <1>1, Zenon
<1> HIDE DEF Faults
<1>2. Poll \in Callbacks /\ Call \in Callbacks /\ Data \in Callbacks /\ Start \in Callbacks
  BY DEF Callbacks
<1>3. ASSUME UNCHANGED bound PROVE UNCHANGED MaxTimers
  BY <1>3 DEF MaxTimers, Limit
<1>4. MaxTimers \in [Callbacks -> Nat]
  BY LimitIs, Zenon DEF Typed, TypeOK, ChanTypeOK
<1>5. ASSUME UNCHANGED <<bound, loop>>, out' = <<>> \/ \E x : out' = <<x>>, fault' \in Faults,
             Counted, timers'[Poll] <= timers[Poll], timers'[Call] <= timers[Call],
             Quit' => timers'[Start] < MaxTimers[Start]
      PROVE  LoopTyped'
  <2>1. Len(out') <= 2
    BY <1>5, ShortOut, Zenon
  <2>2. LoopTypeOK' /\ (PollAhead' <=> PollAhead) /\ (loop'.st = "set" => loop'.at \in RIL_RadioState)
    BY <1>1, <1>5 DEF LoopTypeOK, PollAhead
  <2>3. Room'
    BY <1>1, <1>2, <1>3, <1>4, <1>5, <2>2, SMTT(30) DEF Room
  <2> QED
    BY <1>3, <1>5, <2>1, <2>2, <2>3, Zenon DEF LoopTyped, Faults
<1>6. ASSUME UNCHANGED <<bound, loop, timers>>, out' = <<>> \/ \E x : out' = <<x>>, fault' \in Faults,
             Quit' => Quit \/ timers[Start] < MaxTimers[Start]
      PROVE  LoopTyped'
  <2>1. Quit' => timers'[Start] < MaxTimers[Start]
    BY <1>1, <1>6 DEF Room
  <2>2. Counted /\ timers'[Poll] <= timers[Poll] /\ timers'[Call] <= timers[Call]
    BY <1>1, <1>2, <1>6
  <2> QED
    BY <1>5, <1>6, <2>1, <2>2, Zenon
<1>7. ASSUME UNCHANGED reader PROVE Quit' <=> Quit
  BY <1>7 DEF Reading
<1>8. ASSUME UNCHANGED <<bound, loop, reader, timers>>, out' = <<>> \/ \E x : out' = <<x>>,
             fault' \in Faults
      PROVE  LoopTyped'
  BY <1>6, <1>7, <1>8, Zenon
<1>9. ASSUME UNCHANGED <<bound, reader, timers, fault>>, LoopTypeOK', Len(out') <= 2,
             loop'.at # "GET_CURRENT_CALLS" \/ loop.at = "GET_CURRENT_CALLS"
                 \/ timers[Call] < MaxTimers[Call],
             loop'.st = "set" => loop'.at \in RIL_RadioState,
             PollAhead' => PollAhead \/ timers[Poll] < MaxTimers[Poll]
      PROVE  LoopTyped'
  <2>1. Room'
    BY <1>1, <1>3, <1>7, <1>9, Zenon DEF Room
  <2> QED
    BY <1>1, <1>3, <1>9, <2>1, Zenon DEF LoopTyped, Faults
<1>10. ASSUME NEW r \in Limit.requests, NEW arg, onRequest(r, arg) PROVE LoopTyped'
  <2>1. UNCHANGED <<bound, reader>> /\ loop = Idle
    BY <1>10 DEF onRequest, chanVars
  <2>2. UNCHANGED <<timers, fault>>
    BY <1>10, Zenon DEF onRequest, AnswerAt, Quiet
  <2>3. r \in DOMAIN Requests
    BY LimitIs, Zenon DEF Typed, TypeOK, ChanTypeOK
  <2> DEFINE first(at, k) == loop' = [Serve(r) EXCEPT !.st = "send", !.at = at, !.k = k]
  <2>4. \/ UNCHANGED loop /\ \E x : out' = <<x>>
        \/ /\ out' = <<>>
           /\ \/ r = "GET_SIM_STATUS" /\ first("CPIN?", 0)
              \/ first("CFUN=0", 0) \/ first("CGACT?", 0) \/ first("CGDCONT=1", PDP_COMMANDS)
              \/ timers[Poll] < MaxTimers[Poll] /\ first("CFUN=1", 0)
              \/ /\ r \in OneCommand /\ first(r, 0)
                 /\ r = "GET_CURRENT_CALLS" => timers[Call] < MaxTimers[Call]
    BY <1>10, ZenonT(30) DEF onRequest, AnswerAt, Quiet, Silent
  <2>5. CASE UNCHANGED loop /\ \E x : out' = <<x>>
    BY <1>1, <1>8, <2>1, <2>2, <2>5
  <2>6. ASSUME out' = <<>>, NEW at, NEW k, first(at, k),
               at = "GET_CURRENT_CALLS" => timers[Call] < MaxTimers[Call],
               at \in BringUp => timers[Poll] < MaxTimers[Poll],
               at = "CPIN?" => r = "GET_SIM_STATUS"
        PROVE  LoopTyped'
    <3>1. loop'.st = "send" /\ loop'.at = at /\ loop'.req = r /\ loop'.old = "none"
      BY <2>6 DEF Serve, Idle
    <3>2. LoopTypeOK' /\ (PollAhead' => timers[Poll] < MaxTimers[Poll])
      BY <2>3, <2>6, <3>1 DEF LoopTypeOK, PollAhead
    <3>3. Len(out') <= 2
      BY <2>6, ShortOut, Zenon
    <3> QED
      BY <1>9, <2>1, <2>2, <2>6, <3>1, <3>2, <3>3
  <2>7. /\ OneCommand \cap BringUp = {} /\ "CPIN?" \notin OneCommand
        /\ "CPIN?" \notin BringUp /\ "CFUN=0" \notin BringUp /\ "CGACT?" \notin BringUp
        /\ "CGDCONT=1" \notin BringUp
    BY DEF OneCommand, CallControl, PinRequests, NumericRequests, BringUp
  <2> HIDE DEF first
  <2> QED
    BY <2>4, <2>5, <2>6, <2>7

<1>11. ASSUME SetupOverQmi PROVE LoopTyped'
  <2>1. UNCHANGED <<bound, loop, reader, timers, fault>> /\ \E x : out' = <<x>>
    BY <1>11, Zenon DEF SetupOverQmi, AnswerAt, chanVars
  <2> QED
    BY <1>1, <1>8, <2>1, Zenon
<1>12. ASSUME NEW cb \in Callbacks, TimerFires(cb) PROVE LoopTyped'
  <2>1. /\ UNCHANGED <<bound, reader, fault>> /\ loop = Idle /\ timers[cb] > 0
        /\ timers' = [timers EXCEPT ![cb] = @ - 1]
    BY <1>12 DEF TimerFires, chanVars
  <2>2. /\ Counted /\ \A c \in Callbacks : timers'[c] <= timers[c]
        /\ timers'[cb] < MaxTimers[cb]
    BY <1>1, <1>4, <2>1
  <2>3. Quit' => timers'[Start] < MaxTimers[Start]
    BY <1>1, <1>2, <1>4, <1>7, <2>1, <2>2 DEF Room
  <2>4. ASSUME LoopTypeOK', out' = <<>>, loop'.at # "GET_CURRENT_CALLS",
               loop'.st = "set" => loop'.at \in RIL_RadioState,
               PollAhead' => timers'[Poll] < MaxTimers[Poll]
        PROVE  LoopTyped'
    <3>1. Len(out') <= 2
      BY <2>4, ShortOut, Zenon
    <3>2. Room'
      BY <1>3, <2>1, <2>3, <2>4 DEF Room
    <3> QED
      BY <1>1, <1>3, <2>1, <2>2, <2>4, <3>1, <3>2, Zenon DEF LoopTyped, Faults
  <2>5. CASE cb = "initializeCallback"
    <3>1. /\ loop' = [Idle EXCEPT !.st = "set", !.at = "OFF"] /\ out' = <<>>
          /\ timers[Poll] < MaxTimers[Poll]
      BY <1>12, <2>5 DEF TimerFires, Silent
    <3>2. LoopTypeOK' /\ loop'.at = "OFF" /\ "OFF" \in RIL_RadioState
      BY <3>1 DEF Idle, LoopTypeOK, RIL_RadioState
    <3> QED
      BY <1>1, <1>2, <1>4, <2>2, <2>4, <3>1, <3>2, SMTT(30)
  <2>6. CASE cb = "pollSIMState"
    <3>1. out' = <<>> /\ (loop' = Idle \/ loop' = [Idle EXCEPT !.st = "send", !.at = "CPIN?"])
      BY <1>12, <2>6 DEF TimerFires, Silent
    <3>2. LoopTypeOK' /\ loop'.at \in {"none", "CPIN?"} /\ loop'.st # "set"
      <4>1. CASE loop' = Idle
        BY <4>1 DEF Idle, LoopTypeOK
      <4>2. CASE loop' = [Idle EXCEPT !.st = "send", !.at = "CPIN?"]
        BY <4>2 DEF Idle, LoopTypeOK
      <4> QED
        BY <3>1, <4>1, <4>2
    <3> QED
      BY <2>2, <2>4, <2>6, <3>1, <3>2
  <2>7. CASE cb = "onDataCallListChanged"
    <3>1. out' = <<>> /\ loop' = [Idle EXCEPT !.st = "send", !.at = "CGACT?"]
      BY <1>12, <2>7 DEF TimerFires, Silent
    <3>2. LoopTypeOK' /\ loop'.at = "CGACT?" /\ loop'.st = "send"
      BY <3>1 DEF Idle, LoopTypeOK
    <3> QED
      BY <2>4, <3>1, <3>2 DEF PollAhead, BringUp
  <2>8. CASE cb = "sendCallStateChanged"
    <3>1. UNCHANGED loop /\ \E x : out' = <<x>>
      BY <1>12, <2>8 DEF TimerFires
    <3> QED
      BY <1>1, <1>2, <1>5, <2>1, <2>2, <2>3, <3>1
  <2> QED
    BY <2>5, <2>6, <2>7, <2>8 DEF Callbacks
<1>13. ASSUME CommandSent PROVE LoopTyped'
  <2>1. /\ UNCHANGED <<bound, reader, timers, fault>> /\ out' = <<>> /\ loop.st = "send"
        /\ loop' = [loop EXCEPT !.st = "wait"]
    BY <1>13 DEF CommandSent, at_send_command, Silent
  <2>2. loop'.st = "wait" /\ loop'.at = loop.at /\ loop'.req = loop.req /\ loop'.old = loop.old
    BY <1>1, <2>1 DEF LoopFields
  <2>3. LoopTypeOK' /\ (PollAhead' => PollAhead)
    BY <1>1, <2>1, <2>2 DEF LoopTypeOK, PollAhead
  <2>4. Len(out') <= 2
    BY <2>1, ShortOut, Zenon
  <2> QED
    BY <1>9, <2>1, <2>2, <2>3, <2>4
<1>14. ASSUME CommandNotSent \/ CommandDone \/ HandshakeTimesOut PROVE LoopTyped'
  <2>1. /\ UNCHANGED <<bound, reader>> /\ loop.st \in {"send", "wait"}
        /\ Continue(Failed) \/ Continue(ResultNow)
    BY <1>14, ZenonT(30) DEF CommandNotSent, CommandDone, HandshakeTimesOut, CommandReturns, CommandTimesOut
  <2> QED
    BY <2>1, LoopContinues
<1>15. ASSUME HandshakeEnds PROVE LoopTyped'
  <2>1. /\ UNCHANGED <<bound, reader, timers, fault>> /\ out' = <<>> /\ loop.st = "sleep"
        /\ loop.at = "ATE0Q0V1" /\ Goto("send", "ATS0=0", SETUP_COMMANDS)
    BY <1>15 DEF HandshakeEnds, Silent, Polling
  <2>2. loop'.st = "send" /\ loop'.at = "ATS0=0" /\ loop'.req = loop.req /\ loop'.old = loop.old
    BY <1>1, <2>1 DEF LoopFields, Goto
  <2>3. LoopTypeOK' /\ PollAhead
    BY <1>1, <2>1, <2>2 DEF LoopTypeOK, PollAhead, BringUp
  <2>4. Len(out') <= 2
    BY <2>1, ShortOut, Zenon
  <2> QED
    BY <1>9, <2>1, <2>2, <2>3, <2>4, Zenon
<1>16. ASSUME LoopSetsState PROVE LoopTyped'
  <2>1. /\ UNCHANGED <<bound, reader, timers, fault>> /\ out' = <<>> /\ loop.st = "set"
        /\ loop' = [loop EXCEPT !.st = "reread", !.old = sState] /\ sState \in RIL_RadioState
    BY <1>16, Zenon DEF LoopSetsState, Silent, chanVars, Typed, TypeOK
  <2>2. loop'.st = "reread" /\ loop'.at = loop.at /\ loop'.req = loop.req /\ loop'.old = sState
    BY <1>1, <2>1 DEF LoopFields
  <2>3. LoopTypeOK' /\ (PollAhead' => PollAhead)
    BY <1>1, <2>1, <2>2 DEF LoopTypeOK, PollAhead
  <2>4. Len(out') <= 2
    BY <2>1, ShortOut, Zenon
  <2> QED
    BY <1>9, <2>1, <2>2, <2>3, <2>4

<1>17. ASSUME LoopRereadsState PROVE LoopTyped'
  <2>1. UNCHANGED <<bound, reader, timers, fault>> /\ loop.st = "reread"
    BY <1>17 DEF LoopRereadsState, chanVars
  <2> DEFINE on(at) == loop' = [loop EXCEPT !.st = "send", !.at = at, !.old = "none"]
             news == IF sState # loop.old THEN <<Unsol("RESPONSE_RADIO_STATE_CHANGED", Null)>> ELSE <<>>
             begin == [Idle EXCEPT !.st = "send", !.at = "ATE0Q0V1", !.k = HANDSHAKE_RETRY_COUNT]
  <2>2. \/ sState = "SIM_READY" /\ on("CSMS") /\ out' = news
        \/ sState = "SIM_NOT_READY" /\ on("CPIN?") /\ out' = news
        \/ loop.req = "none" /\ loop.at = "OFF" /\ loop' = begin /\ out' = news
        \/ /\ loop' = Idle
           /\ out' = news \/ \E x : out' = Append(news, x)
    BY <1>17, Zenon DEF LoopRereadsState
  <2>3. Len(out') <= 2
    <3>1. news = <<>> \/ \E x : news = <<x>>
      BY Zenon
    <3>2. ASSUME NEW x, NEW y PROVE Len(Append(<<x>>, y)) <= 2 /\ Len(Append(<<>>, y)) <= 2
      <4>1. <<x>> \in Seq({x, y}) /\ Len(<<x>>) = 1 /\ <<>> \in Seq({x, y}) /\ Len(<<>>) = 0
        OBVIOUS
      <4>2. \A s \in Seq({x, y}) : Len(Append(s, y)) = Len(s) + 1
        OBVIOUS
      <4> QED
        BY <4>1, <4>2
    <3>3. out' = news \/ \E x : out' = Append(news, x)
      BY <2>2, Zenon
    <3> HIDE DEF news
    <3> QED
      BY <3>1, <3>2, <3>3, ShortOut, Zenon
  <2> HIDE DEF news
  <2>4. sState = "SIM_NOT_READY" => PollAhead
    BY <2>1 DEF Polling, PollAhead
  <2>5. ASSUME NEW at \in {"CSMS", "CPIN?"}, on(at), at = "CPIN?" => PollAhead PROVE LoopTyped'
    <3>1. loop'.st = "send" /\ loop'.at = at /\ loop'.req = loop.req /\ loop'.old = "none"
      BY <1>1, <2>5 DEF LoopFields
    <3>2. LoopTypeOK' /\ (PollAhead' => PollAhead)
      BY <1>1, <2>5, <3>1, Zenon DEF LoopTypeOK, PollAhead, BringUp
    <3> QED
      BY <1>9, <2>1, <2>3, <3>1, <3>2
  <2>6. CASE loop.req = "none" /\ loop.at = "OFF" /\ loop' = begin
    <3>1. loop'.st = "send" /\ loop'.at = "ATE0Q0V1" /\ loop'.req = "none" /\ loop'.old = "none"
      BY <2>6 DEF Idle
    <3>2. LoopTypeOK' /\ PollAhead
      BY <2>1, <2>6, <3>1, Zenon DEF LoopTypeOK, PollAhead
    <3> QED
      BY <1>9, <2>1, <2>3, <3>1, <3>2
  <2>7. CASE loop' = Idle
    <3>1. LoopTypeOK' /\ ~PollAhead' /\ loop'.at = "none" /\ loop'.st = "idle"
      BY <2>7 DEF Idle, LoopTypeOK, PollAhead
    <3> QED
      BY <1>9, <2>1, <2>3, <3>1, Zenon
  <2> HIDE DEF on, begin
  <2> QED
    BY <2>2, <2>4, <2>5, <2>6, <2>7
<1>18. ASSUME NEW e \in Events \cup {"+CMT:", "+CDS:"}, onUnsolicited(e), UNCHANGED <<bound, loop, fault>>, Quit' => Quit
       PROVE  LoopTyped'
  <2>1. /\ out' = <<>> \/ \E x : out' = <<x>>
        /\ timers' = timers \/ (timers[Data] < MaxTimers[Data] /\ timers' = After(Data))
    BY <1>18, Zenon DEF onUnsolicited, Silent, Events
  <2>2. CASE timers' = timers
    BY <1>1, <1>6, <1>18, <2>1, <2>2, Zenon
  <2>3. CASE timers[Data] < MaxTimers[Data] /\ timers' = After(Data)
    <3>1. /\ Counted /\ timers'[Poll] = timers[Poll] /\ timers'[Call] = timers[Call]
          /\ timers'[Start] = timers[Start]
      BY <1>2, <2>3, AfterFits, Zenon
    <3>2. Quit' => timers'[Start] < MaxTimers[Start]
      BY <1>1, <1>18, <3>1, Zenon DEF Room
    <3> QED
      BY <1>1, <1>2, <1>5, <1>18, <2>1, <3>1, <3>2
  <2> QED
    BY <2>1, <2>2, <2>3

<1>19. ASSUME NEW r \in Reader, NEW to, reader[r] \in {"reading", "pdu"}, to \in {"reading", "pdu"},
              reader' = [reader EXCEPT ![r] = to]
       PROVE  Quit' => Quit
  BY <1>1, <1>19 DEF Reading, OneReader
<1>20. ASSUME NEW r \in Reader,
              \/ (\E f \in Finals : FinalLine(r, f)) \/ AnswerLine(r) \/ NewSms(r)
       PROVE  LoopTyped'
  <2>1. UNCHANGED <<bound, loop, timers, fault>> /\ out' = <<>>
    BY <1>20, Zenon DEF FinalLine, AnswerLine, NewSms, handleFinalResponse, writeCtrlZ,
       addIntermediate, FirstSmsLine, Rest, Silent
  <2>2. \/ UNCHANGED reader
        \/ reader[r] = "reading" /\ reader' = [reader EXCEPT ![r] = "pdu"]
    BY <1>20, Zenon DEF FinalLine, AnswerLine, NewSms, handleFinalResponse, writeCtrlZ,
       addIntermediate, FirstSmsLine
  <2>3. Quit' => Quit
    BY <1>7, <1>19, <2>2, Zenon
  <2> QED
    BY <1>1, <1>6, <2>1, <2>3
<1>21. ASSUME NEW r \in Reader, SmsPdu(r) PROVE LoopTyped'
  <2>1. /\ UNCHANGED <<bound, loop, fault>> /\ reader[r] = "pdu"
        /\ reader' = [reader EXCEPT ![r] = "reading"]
        /\ \/ \E e \in {"+CMT:", "+CDS:"} : onUnsolicited(e)
           \/ out' = <<>> /\ UNCHANGED timers
    BY <1>21, Zenon DEF SmsPdu, SecondSmsLine, Rest, Silent
  <2>2. Quit' => Quit
    BY <1>19, <2>1, Zenon
  <2> QED
    BY <1>1, <1>6, <1>18, <2>1, <2>2
<1>22. ASSUME NEW r \in Reader, NEW e \in Events, EventLine(r, e) PROVE LoopTyped'
  <2>1. /\ UNCHANGED <<bound, loop, reader, fault>>
        /\ onUnsolicited(e) \/ (out' = <<>> /\ UNCHANGED timers)
    BY <1>22, Zenon DEF EventLine, processEvent, Rest, Silent
  <2> QED
    BY <1>1, <1>7, <1>8, <1>18, <2>1
<1>23. ASSUME NEW r \in Reader, ChannelEnds(r) PROVE LoopTyped'
  <2>1. /\ UNCHANGED <<bound, loop, timers, fault>> /\ out' = <<>>
        /\ timers[Start] < MaxTimers[Start]
    BY <1>23 DEF ChannelEnds, onReaderClosed, Rest, Silent
  <2> QED
    BY <1>1, <1>6, <2>1, Zenon
<1>24. ASSUME NEW r \in Reader, ReaderCloses(r) PROVE LoopTyped'
  <2>1. /\ UNCHANGED <<bound, loop, timers>> /\ fault' \in {fault, "none", "reader sends"}
        /\ out' = <<>> \/ \E x : out' = <<x>>
        /\ ~Reading(r) /\ \E to : reader' = [reader EXCEPT ![r] = to]
    BY <1>24, Zenon DEF ReaderCloses, ReaderMarksClosed, ReaderSetsState, ReaderRereadsState, Others,
       Silent, Reading
  <2>2. Quit' => Quit
    BY <1>1, <2>1, Zenon DEF Reading, OneReader
  <2>3. fault' \in Faults
    BY <1>a, <2>1, Zenon
  <2> QED
    BY <1>6, <2>1, <2>2, <2>3, Zenon
<1>25. ASSUME MainOpens \/ MainSetsFd \/ MainWaits \/ Dead \/ UNCHANGED vars PROVE LoopTyped'
  <2>1. UNCHANGED <<bound, loop, reader, timers, fault>> /\ (out' = <<>> \/ UNCHANGED out)
    BY <1>25, Zenon DEF MainOpens, MainSetsFd, MainWaits, Dead, vars, chanVars, OpenFd, MainRest, Silent
  <2>2. CASE out' = <<>>
    BY <1>1, <1>8, <2>1, <2>2
  <2>3. CASE UNCHANGED out
    <3>1. LoopTypeOK' /\ (PollAhead' => PollAhead) /\ (loop'.st = "set" => loop'.at \in RIL_RadioState)
      BY <1>1, <2>1 DEF LoopTypeOK, PollAhead
    <3> QED
      BY <1>1, <1>9, <2>1, <2>3, <3>1, Zenon
  <2> QED
    BY <2>1, <2>2, <2>3, Zenon
<1>26. ASSUME NEW r \in Reader, MainResets(r) PROVE LoopTyped'
  <2>1. /\ main = "reset" /\ UNCHANGED <<bound, loop>> /\ out' = <<>>
        /\ reader' = [reader EXCEPT ![r] = "reading"]
        /\ timers' = After(Start) \/ timers' = timers
        /\ fault' \in Faults
    BY <1>a, <1>26, Zenon DEF MainResets, OpenReset, MainRest, Silent
  <2>2. Quit /\ ~Quit'
    BY <1>1, <2>1, Zenon DEF OneReader, Attached, Reading
  <2>3. timers[Start] < MaxTimers[Start]
    BY <1>1, <2>2, Zenon DEF Room
  <2>4. /\ Counted /\ timers'[Poll] = timers[Poll] /\ timers'[Call] = timers[Call]
    BY <1>1, <1>2, <2>1, <2>3, AfterFits, Zenon
  <2>5. timers'[Poll] <= timers[Poll] /\ timers'[Call] <= timers[Call]
    BY <1>1, <1>2, <2>1, <2>4
  <2> QED
    BY <1>5, <2>1, <2>2, <2>4, <2>5, Zenon
<1> HIDE DEF Quit, Kept, Counted
<1> QED
  BY <1>10, <1>11, <1>12, <1>13, <1>14, <1>15, <1>16, <1>17, <1>20, <1>21, <1>22, <1>23, <1>24,
     <1>25, <1>26, Zenon DEF Next, LoopStep, MainStep

-----------------------------------------------------------------------------
(* Every state reached is of the declared types. *)

\* The state of the radio, and where the main thread and the reader threads stand.
LEMMA StateStep ==
  ASSUME TypeOK, [Next]_vars, loop.st = "set" => loop.at \in RIL_RadioState
  PROVE  /\ sState' \in RIL_RadioState /\ s_closed' \in BOOLEAN
         /\ main' \in {"opening", "fd", "reset", "checking", "asleep"}
         /\ seen' \in [Reader -> RIL_RadioState \cup {"none"}]
<1> DEFINE Mains == {"opening", "fd", "reset", "checking", "asleep"}
           Seens == [Reader -> RIL_RadioState \cup {"none"}]
<1>1. sState \in RIL_RadioState /\ s_closed \in BOOLEAN /\ main \in Mains /\ seen \in Seens
  BY Zenon DEF TypeOK
<1>2. \A new \in RIL_RadioState :
          setRadioState(new) => sState' \in RIL_RadioState /\ s_closed' = s_closed /\ main' \in Mains
  BY <1>1 DEF setRadioState, RIL_RadioState
<1>3. LoopSetsState => loop.at \in RIL_RadioState /\ setRadioState(loop.at) /\ seen' = seen
  BY DEF LoopSetsState
<1>4. ASSUME NEW r \in Reader, ReaderCloses(r)
      PROVE  /\ UNCHANGED <<sState, main, s_closed>> \/ setRadioState("UNAVAILABLE")
                \/ (UNCHANGED <<sState, main>> /\ s_closed' = TRUE)
             /\ \/ UNCHANGED seen
                \/ \E v \in RIL_RadioState \cup {"none"} : seen' = [seen EXCEPT ![r] = v]
  BY <1>1, <1>4, Zenon DEF ReaderCloses, ReaderMarksClosed, ReaderSetsState, ReaderRereadsState
<1>5. MainStep => /\ UNCHANGED <<sState, seen>> /\ s_closed' \in {s_closed, FALSE}
                  /\ main' \in Mains
  BY Zenon DEF MainStep, MainOpens, MainSetsFd, MainWaits, MainResets, MainRest
<1>6. ASSUME \/ \E r \in Limit.requests : \E arg \in Args(r) : onRequest(r, arg)
             \/ SetupOverQmi \/ (\E cb \in Callbacks : TimerFires(cb))
             \/ (LoopStep /\ ~LoopSetsState) \/ Dead \/ UNCHANGED vars
      PROVE  UNCHANGED <<sState, s_closed, main, seen>>
  BY <1>6, Zenon DEF onRequest, SetupOverQmi, TimerFires, LoopStep, CommandSent, CommandNotSent, CommandDone,
     HandshakeTimesOut, HandshakeEnds, LoopRereadsState, Dead, vars
<1>7. ASSUME NEW r \in Reader,
             \/ (\E f \in Finals : FinalLine(r, f)) \/ AnswerLine(r) \/ NewSms(r) \/ SmsPdu(r)
             \/ ChannelEnds(r) \/ (\E e \in Limit.events \cap Events : EventLine(r, e))
      PROVE  UNCHANGED <<sState, s_closed, main, seen>>
  BY <1>7, Zenon DEF FinalLine, AnswerLine, NewSms, SmsPdu, ChannelEnds, EventLine, Rest
<1>8. "UNAVAILABLE" \in RIL_RadioState
  BY DEF RIL_RadioState
<1>9. ASSUME NEW r \in Reader, NEW v \in RIL_RadioState \cup {"none"}
      PROVE  [seen EXCEPT ![r] = v] \in Seens
  BY <1>1
<1> HIDE DEF Mains, Seens
<1>10. \/ UNCHANGED <<sState, s_closed, main, seen>>
       \/ LoopSetsState \/ MainStep \/ \E r \in Reader : ReaderCloses(r)
  BY <1>6, <1>7, Zenon DEF Next
<1>11. CASE UNCHANGED <<sState, s_closed, main, seen>>
  BY <1>1, <1>11 DEF Mains, Seens
<1>12. CASE LoopSetsState
  BY <1>1, <1>2, <1>3, <1>12 DEF Mains, Seens
<1>13. CASE MainStep
  BY <1>1, <1>5, <1>13, Zenon DEF Mains, Seens
<1>14. CASE \E r \in Reader : ReaderCloses(r)
  <2>1. PICK r \in Reader : ReaderCloses(r)
    BY <1>14
  <2>2. seen' \in Seens
    BY <1>1, <1>4, <1>9, <2>1, Zenon
  <2>3. sState' \in RIL_RadioState /\ s_closed' \in BOOLEAN /\ main' \in Mains
    BY <1>1, <1>2, <1>4, <1>8, <2>1, Zenon
  <2> QED
    BY <2>2, <2>3 DEF Mains, Seens
<1> QED
  BY <1>10, <1>11, <1>12, <1>13, <1>14

\* The library is loaded in a state of the types.
LEMMA TypedInit == Init => Typed
<1> SUFFICES ASSUME Init PROVE Typed
  OBVIOUS
<1>1. ChanTypeOK
  <2>1. bound \in DOMAIN Bounds /\ MaxUnanswered \in Nat
    BY LimitIs DEF Init, ChanInit
  <2>2. 0 \in 0..MaxUnanswered /\ [r \in Reader |-> "none"] \in [Reader -> ReaderAt]
    BY <2>1 DEF ReaderAt
  <2> QED
    BY <2>1, <2>2, Zenon DEF Init, ChanInit, ChanTypeOK
<1>2. MaxTimers \in [Callbacks -> Nat] /\ MaxTimers["initializeCallback"] > 0
  BY <1>1, LimitIs, Zenon DEF ChanTypeOK
<1>3. /\ loop.st = "idle" /\ loop.at = "none" /\ loop.req = "none" /\ loop.old = "none"
      /\ timers["initializeCallback"] = 0 /\ \A cb \in Callbacks : timers[cb] = 0
  BY DEF Init, Idle, Callbacks
<1>4. LoopTypeOK /\ ~PollAhead
  BY <1>3 DEF LoopTypeOK, PollAhead
<1>5. Len(out) <= 2
  BY ShortOut, Zenon DEF Init
<1>6. \A cb \in Callbacks : timers[cb] \in 0..MaxTimers[cb]
  BY <1>2, <1>3
<1>7. OneReader
  BY DEF Init, ChanInit, OneReader, ReaderAt, Attached, Reading
<1>8. Room
  BY <1>2, <1>3, <1>4 DEF Room
<1>9. /\ sState \in RIL_RadioState /\ s_closed \in BOOLEAN
      /\ main \in {"opening", "fd", "reset", "checking", "asleep"}
      /\ seen \in [Reader -> RIL_RadioState \cup {"none"}]
  BY Zenon DEF Init, RIL_RadioState
<1>10. fault = "none"
  BY DEF Init
<1> QED
  BY <1>1, <1>3, <1>4, <1>5, <1>6, <1>7, <1>8, <1>9, <1>10, Zenon DEF Typed, TypeOK

\* Every step stays in them.
LEMMA TypedStep == Typed /\ Polling /\ [Next]_vars => Typed'
<1> SUFFICES ASSUME Typed, Polling, [Next]_vars PROVE Typed'
  OBVIOUS
<1>1. TypeOK /\ OneReader /\ (loop.st = "set" => loop.at \in RIL_RadioState)
  BY DEF Typed
<1>2. ChanTypeOK' /\ OneReader' /\ LoopTyped'
  BY <1>1, ChanStep, ReaderStep, LoopTypedStep, Zenon
<1> QED
  BY <1>1, <1>2, StateStep, Zenon DEF Typed, TypeOK, LoopTyped

\* The types of ReferenceRil hold in every state of every instance.  Among them are the bounds:
\* no interleaving of power requests, failing handshakes, polls and reopened channels schedules
\* more timed callbacks than the instance names, although only the start of what leads to one
\* is guarded, and a step hands at most two messages to libril.
THEOREM TypesTheorem == Spec => []TypeOK
<1>1. Init => Typed /\ Polling
  BY TypedInit, PollingInit
<1>2. Typed /\ Polling /\ [Next]_vars => (Typed /\ Polling)'
  BY TypedStep, PollingStep
<1>3. Typed => TypeOK
  BY DEF Typed
<1> QED
  BY <1>1, <1>2, <1>3, PTL DEF Spec

\* mainLoop() opens the channel again only after the one reader thread that had it has said
\* with s_closed that it is through with it: at any time at most one thread reads the device or
\* is about to report its end, and at_open() runs while there is none.
THEOREM OneReaderTheorem == Spec => []OneReader
<1>1. Init => OneReader
  BY TypedInit DEF Typed
<1> QED
  BY <1>1, ReaderStep, PTL DEF Spec

-----------------------------------------------------------------------------
(* What a step hands to libril. *)

\* The errors that request r may be completed with.
ErrorsOf(r) == Requests[r].errors \cup Unlisted(r)

\* All of cs are completions that ril.h declares for r.
AllFit(r, cs) == \A c \in Range(cs) : Declared(r, c)

\* A success without data is one of them; a success with p is.
Void(r) == Requests[r].response = "void" \/ r \in NullForInts
Answer(r, p) ==
    /\ p # Null /\ Response(s_commands[r].response, p) = Requests[r].response
    /\ r = "OPERATOR" => p = Payload("strings", 3)

\* And indication u with payload p.
Told(u, p) == Response(s_unsolResponses[u], p) \in {Indications[u], "void"}

\* A step that says nothing conforms.
LEMMA NothingOut == out' = <<>> => Conforms'
<1>1. Range(<<>>) = {}
  BY DEF Range
<1> QED
  BY <1>1, Zenon DEF Conforms

\* Conforms is about these.
LEMMA OutFits ==
  ASSUME NEW u, NEW p, NEW r, NEW cs, Told(u, p), AllFit(r, cs),
         out' \in {<<>>, <<Unsol(u, p)>>, <<Returned(r, cs)>>, Append(<<Unsol(u, p)>>, Returned(r, cs))}
  PROVE  Conforms'
<1> DEFINE told == Unsol(u, p)
           done == Returned(r, cs)
<1>1. /\ told.what = "unsol" /\ told.name = u /\ told.payload = p
      /\ done.what # "unsol" /\ done.name = r /\ done.completions = cs
  BY DEF Unsol, Returned
<1>2. Range(out') \subseteq {told, done}
  BY OutRange
<1> HIDE DEF told, done
<1> QED
  BY <1>1, <1>2, ZenonT(30) DEF Conforms, Told, AllFit

\* The completions of one handler.
LEMMA FitSequences ==
  ASSUME NEW r, NEW a, NEW b, Declared(r, a), Declared(r, b)
  PROVE  AllFit(r, <<>>) /\ AllFit(r, <<a>>) /\ AllFit(r, <<a>> \o <<b>>)
<1>1. Range(<<>>) = {} /\ Range(<<a>>) \subseteq {a}
  BY DEF Range
<1>2. <<a>> \o <<b>> \in Seq({a, b})
  OBVIOUS
<1>3. Range(<<a>> \o <<b>>) \subseteq {a, b}
  BY <1>2 DEF Range
<1> QED
  BY <1>1, <1>3, Zenon DEF AllFit

\* A failure goes without data.
LEMMA FitError == ASSUME NEW r, NEW e \in ErrorsOf(r), e # "SUCCESS" PROVE Declared(r, Complete(e, Null))
<1>1. Complete(e, Null).error = e /\ Complete(e, Null).payload = Null
  BY DEF Complete
<1> QED
  BY <1>1, Zenon DEF Declared, ErrorsOf

\* A success without data.
LEMMA FitVoid == ASSUME NEW r, "SUCCESS" \in Requests[r].errors, Void(r) PROVE Declared(r, Complete("SUCCESS", Null))
<1>1. Complete("SUCCESS", Null).error = "SUCCESS" /\ Complete("SUCCESS", Null).payload = Null
  BY DEF Complete
<1> QED
  BY <1>1, Zenon DEF Declared, Void

\* The response that libril reads from the payload of r is the one ril.h declares, so that a success with it conforms.
LEMMA FitPayload ==
  ASSUME NEW r, NEW p, "SUCCESS" \in Requests[r].errors, Answer(r, p)
  PROVE  Declared(r, Complete("SUCCESS", p))
<1>1. Complete("SUCCESS", p).error = "SUCCESS" /\ Complete("SUCCESS", p).payload = p
  BY Zenon DEF Complete
<1>2. r \in DOMAIN ResponseStrings \ FewerStrings => r = "OPERATOR"
  BY DEF ResponseStrings, FewerStrings
<1>3. r = "OPERATOR" => p.n >= ResponseStrings[r]
  <2>1. ResponseStrings["OPERATOR"] = 3 /\ Payload("strings", 3).n = 3
    BY DEF ResponseStrings, Payload
  <2> QED BY <2>1 DEF Answer
<1> QED
  BY <1>1, <1>2, <1>3, ZenonT(30) DEF Declared, Answer

\* The answers that the handlers are made of.
LEMMA FitAnswers ==
  ASSUME NEW r, {"SUCCESS", "GENERIC_FAILURE"} \subseteq Requests[r].errors
  PROVE  /\ AllFit(r, Failure)
         /\ Void(r) => AllFit(r, Success(Null)) /\ AllFit(r, Success(Null) \o Failure)
         /\ \A ok, p : Answer(r, p) \/ (p = Null /\ Void(r)) => AllFit(r, SuccessIf(ok, p))
<1>1. "GENERIC_FAILURE" \in ErrorsOf(r) /\ "SUCCESS" \in Requests[r].errors
  BY DEF ErrorsOf
<1>2. Declared(r, Complete("GENERIC_FAILURE", Null))
  BY <1>1, FitError
<1>3. AllFit(r, Failure)
  BY <1>2, FitSequences, Zenon DEF Failure
<1>4. ASSUME Void(r) PROVE AllFit(r, Success(Null)) /\ AllFit(r, Success(Null) \o Failure)
  <2>1. Declared(r, Complete("SUCCESS", Null))
    BY <1>1, <1>4, FitVoid, Zenon
  <2> QED BY <1>2, <2>1, FitSequences, Zenon DEF Failure, Success
<1>5. ASSUME NEW p, Answer(r, p) PROVE AllFit(r, Success(p))
  BY <1>1, <1>5, FitPayload, FitSequences, Zenon DEF Success
<1> QED
  BY <1>3, <1>4, <1>5, Zenon DEF SuccessIf

\* What the handlers hand up is not NULL.
LEMMA NotNull ==
  /\ \A n : \A shape \in {"calls", "string", "strings", "data_calls", "raw"} : Payload(shape, n) # Null
  /\ Payload("ints", 1) # Null /\ Payload("ints", 2) # Null /\ Payload("card", 1) # Null
  /\ Payload("sms", 1) # Null /\ Payload("sim_io", 1) # Null
<1>1. \A shape, n : Payload(shape, n).is = shape
  BY DEF Payload
<1>2. \A shape, n : shape # "null" => Payload(shape, n) # Null
  BY <1>1 DEF Null
<1> QED
  BY <1>2

\* Every branch of a handler of one command answers with what ril.h declares for its request.
LEMMA CompletionsFit ==
  ASSUME NEW r \in OneCommand, NEW x, x.lines \in [Kinds -> Nat]
  PROVE  AllFit(r, Completions(r, x))
<1> DEFINE Usually(s) == {"SUCCESS", "GENERIC_FAILURE"} \subseteq Requests[s].errors
<1>1. \A s \in OneCommand \ {"SIGNAL_STRENGTH"} : Usually(s)
  BY ServedRows, Zenon
<1>2. /\ \A n \in Nat : Answer("GET_CURRENT_CALLS", Payload("calls", n))
      /\ \A s \in NumericRequests : Answer(s, Payload("string", 4))
      /\ Answer("SIGNAL_STRENGTH", Payload("ints", 2))
      /\ \A s \in {"REGISTRATION_STATE", "GPRS_REGISTRATION_STATE"}, n \in Nat :
             Answer(s, Payload("strings", n))
      /\ Answer("OPERATOR", Payload("strings", 3))
      /\ Answer("SEND_SMS", Payload("sms", 1)) /\ Answer("SIM_IO", Payload("sim_io", 1))
      /\ Answer("QUERY_NETWORK_SELECTION_MODE", Payload("ints", 1))
  <2> DEFINE Row(s, response, shape) == s_commands[s].response = response /\ Requests[s].response = shape
  <2>0. /\ Row("GET_CURRENT_CALLS", "responseCallList", "calls") /\ Row("GET_IMSI", "responseString", "string")
        /\ Row("GET_IMEI", "responseString", "string") /\ Row("CANCEL_USSD", "responseVoid", "void")
        /\ Row("SIGNAL_STRENGTH", "responseRilSignalStrength", "signal")
        /\ Row("REGISTRATION_STATE", "responseStrings", "strings") /\ Row("OPERATOR", "responseStrings", "strings")
        /\ Row("GPRS_REGISTRATION_STATE", "responseStrings", "strings") /\ Row("SEND_SMS", "responseSMS", "sms")
        /\ Row("SIM_IO", "responseSIM_IO", "sim_io") /\ Row("QUERY_NETWORK_SELECTION_MODE", "responseInts", "ints")
    BY ServedRows, CommandRows, Zenon
  <2>1. \A n \in Nat : Answer("GET_CURRENT_CALLS", Payload("calls", n))
    <3>1. \A n \in Nat : Response("responseCallList", Payload("calls", n)) = "calls"
      BY PayloadsRead, ZenonT(30)
    <3> QED BY <2>0, <3>1, NotNull, Zenon DEF Answer
  <2>2. \A s \in NumericRequests : Answer(s, Payload("string", 4))
    <3>1. /\ Response("responseString", Payload("string", 4)) = "string"
          /\ Response("responseVoid", Payload("string", 4)) = "void"
      BY PayloadsRead, ZenonT(30)
    <3> QED BY <2>0, <3>1, NotNull, Zenon DEF NumericRequests, Answer
  <2>3. Answer("SIGNAL_STRENGTH", Payload("ints", 2))
    BY <2>0, PayloadsRead, NotNull, Zenon DEF Answer
  <2>4. \A s \in {"REGISTRATION_STATE", "GPRS_REGISTRATION_STATE"}, n \in Nat :
            Answer(s, Payload("strings", n))
    <3>1. \A n \in Nat : Response("responseStrings", Payload("strings", n)) = "strings"
      BY PayloadsRead, Zenon
    <3> QED BY <2>0, <3>1, NotNull DEF Answer
  <2>7. Answer("OPERATOR", Payload("strings", 3))
    <3>1. Response("responseStrings", Payload("strings", 3)) = "strings"
      BY PayloadsRead
    <3> QED BY <2>0, <3>1, NotNull, Zenon DEF Answer
  <2>5. Answer("SEND_SMS", Payload("sms", 1)) /\ Answer("SIM_IO", Payload("sim_io", 1))
    <3>1. /\ Response("responseSMS", Payload("sms", 1)) = "sms"
          /\ Response("responseSIM_IO", Payload("sim_io", 1)) = "sim_io"
      BY PayloadsRead, Zenon
    <3> QED BY <2>0, <3>1, NotNull, Zenon DEF Answer
  <2>6. Answer("QUERY_NETWORK_SELECTION_MODE", Payload("ints", 1))
    BY <2>0, PayloadsRead, NotNull, Zenon DEF Answer
  <2> QED BY <2>1, <2>2, <2>3, <2>4, <2>5, <2>6, <2>7, Zenon
<1> HIDE DEF Usually
<1>3. ASSUME r # "SIGNAL_STRENGTH"
      PROVE  /\ AllFit(r, Failure)
             /\ Void(r) => AllFit(r, Success(Null)) /\ AllFit(r, Success(Null) \o Failure)
             /\ \A ok, p : Answer(r, p) \/ (p = Null /\ Void(r)) => AllFit(r, SuccessIf(ok, p))
  BY <1>1, <1>3, FitAnswers, Zenon DEF Usually
<1>4. CASE r = "SMS_ACKNOWLEDGE"
  <2>1. Completions(r, x) = Success(Null) \o Failure
    BY <1>4 DEF Completions, CallControl, PinRequests, NumericRequests, requestSMSAcknowledge
  <2>2. Void(r)
    BY <1>4, VoidRows, Zenon DEF Void
  <2> QED BY <1>3, <1>4, <2>1, <2>2, Zenon
<1>5. CASE r = "SIGNAL_STRENGTH"
  <2>1. Completions(r, x) = requestSignalStrength(x)
    BY <1>5 DEF Completions, CallControl, PinRequests, NumericRequests
  <2>2. Declared(r, Complete("GENERIC_FAILURE", Null))
    <3>1. "GENERIC_FAILURE" \in Unlisted(r)
      BY <1>5 DEF Unlisted
    <3> QED BY <3>1, FitError DEF ErrorsOf
  <2>3. Declared(r, Complete("SUCCESS", Payload("ints", 2)))
    BY <1>2, <1>5, FitPayload, ServedRows, Zenon
  <2>4. AllFit(r, Failure \o Failure) /\ AllFit(r, Failure) /\ AllFit(r, Success(Payload("ints", 2)))
    BY <2>2, <2>3, FitSequences, Zenon DEF Failure, Success
  <2> QED BY <2>1, <2>4, Zenon DEF requestSignalStrength, SuccessIf
<1>6. CASE r = "SET_NETWORK_SELECTION_AUTOMATIC"
  <2>1. Completions(r, x) = <<>>
    BY <1>6, Zenon DEF Completions, CallControl, PinRequests, NumericRequests
  <2> QED BY <2>1 DEF AllFit, Range
<1>7. CASE r \in CallControl
  <2>1. Completions(r, x) = Success(Null) /\ r # "SIGNAL_STRENGTH"
    BY <1>7 DEF Completions, CallControl, PinRequests, NumericRequests
  <2>2. Void(r)
    BY <1>7, VoidRows, Zenon DEF Void
  <2> QED BY <1>3, <2>1, <2>2, Zenon
<1>8. CASE r \in PinRequests
  <2>1. Completions(r, x) = requestEnterSimPin(x) /\ r # "SIGNAL_STRENGTH"
    BY <1>8 DEF Completions, CallControl, PinRequests, NumericRequests
  <2>2. Declared(r, Complete("PASSWORD_INCORRECT", Null))
    BY <1>8, FitError, ServedRows, Zenon DEF ErrorsOf
  <2>3. AllFit(r, <<Complete("PASSWORD_INCORRECT", Null)>>)
    BY <2>2, FitSequences, Zenon
  <2>4. Void(r)
    BY <1>8, Zenon DEF Void, NullForInts
  <2> QED BY <1>3, <2>1, <2>3, <2>4, Zenon DEF requestEnterSimPin
<1>9. CASE r \in NumericRequests
  <2>1. Completions(r, x) = SuccessIf(Ok(x), Payload("string", 4)) /\ r # "SIGNAL_STRENGTH"
    BY <1>9 DEF Completions, CallControl, PinRequests, NumericRequests
  <2> QED BY <1>2, <1>3, <1>9, <2>1, Zenon
<1>10. CASE r \in {"GET_CURRENT_CALLS", "REGISTRATION_STATE", "GPRS_REGISTRATION_STATE", "OPERATOR",
                   "SEND_SMS", "WRITE_SMS_TO_SIM", "DELETE_SMS_ON_SIM", "SIM_IO",
                   "QUERY_NETWORK_SELECTION_MODE"}
  <2>1. \E ok, p : Completions(r, x) = SuccessIf(ok, p) /\ (Answer(r, p) \/ (p = Null /\ Void(r)))
    <3> USE DEF Completions, CallControl, PinRequests, NumericRequests
    <3>1. CASE r = "GET_CURRENT_CALLS"
      <4>1. Count(x.lines) - x.lines["odd"] \in Nat
        BY DEF Count, Kinds
      <4>2. Completions(r, x) = SuccessIf(Ok(x), Payload("calls", Count(x.lines) - x.lines["odd"]))
        BY <3>1 DEF requestGetCurrentCalls
      <4> QED BY <1>2, <3>1, <4>1, <4>2, Zenon
    <3>2. CASE r \in {"REGISTRATION_STATE", "GPRS_REGISTRATION_STATE"}
      <4>1. \E ok : \E n \in {3, 4} : Completions(r, x) = SuccessIf(ok, Payload("strings", n))
        BY <3>2, Zenon DEF requestRegistrationState
      <4>2. \A n \in {3, 4} : Answer(r, Payload("strings", n))
        BY <1>2, <3>2
      <4> QED BY <4>1, <4>2, Zenon
    <3>3. CASE r = "OPERATOR"
      <4>1. \E ok : Completions(r, x) = SuccessIf(ok, Payload("strings", 3))
        BY <3>3, ZenonT(30) DEF requestOperator
      <4>2. Answer(r, Payload("strings", 3))
        BY <1>2, <3>3
      <4> QED BY <4>1, <4>2, Zenon
    <3>4. CASE r \in {"WRITE_SMS_TO_SIM", "DELETE_SMS_ON_SIM"}
      <4>1. Void(r)
        BY <3>4, VoidRows, Zenon DEF Void, NullForInts
      <4>2. Completions(r, x) = SuccessIf(Ok(x), Null)
        BY <3>4, Zenon DEF requestWriteSmsToSim
      <4> QED BY <4>1, <4>2, Zenon
    <3>5. CASE r = "SEND_SMS"
      BY <1>2, <3>5 DEF requestSendSMS
    <3>6. CASE r = "SIM_IO"
      <4>1. Completions(r, x) = SuccessIf(Ok(x) /\ Parsed(x), Payload("sim_io", 1))
        BY <3>6 DEF requestSIM_IO
      <4>2. Answer(r, Payload("sim_io", 1))
        BY <1>2, <3>6, Zenon
      <4> QED BY <4>1, <4>2, Zenon
    <3>7. CASE r = "QUERY_NETWORK_SELECTION_MODE"
      <4>1. Completions(r, x) = SuccessIf(Ok(x) /\ Parsed(x), Payload("ints", 1))
        BY <3>7 DEF requestQueryNetworkSelectionMode
      <4>2. Answer(r, Payload("ints", 1))
        BY <1>2, <3>7, Zenon
      <4> QED BY <4>1, <4>2, Zenon
    <3> QED BY <1>10, <3>1, <3>2, <3>3, <3>4, <3>5, <3>6, <3>7
  <2> QED BY <1>3, <1>10, <2>1, ZenonT(30)
<1> QED BY <1>4, <1>5, <1>6, <1>7, <1>8, <1>9, <1>10 DEF OneCommand

-----------------------------------------------------------------------------
(* Every step. *)

\* The requests for which a command, or setRadioState(), is under way; "none" for a callback.
Callers(at) ==
    CASE at \in OneCommand -> {at}
      [] at \in {"CGACT?", "CGDCONT?"} -> {"none", "DATA_CALL_LIST"}
      [] at \in {"CGDCONT=1", "ATD*99***1#"} -> {"SETUP_DATA_CALL"}
      [] at = "CPIN?" -> {"none", "RADIO_POWER", "GET_SIM_STATUS"}
      [] OTHER -> {"none", "RADIO_POWER"}

Called ==
    /\ loop.req \in Callers(loop.at)
    /\ loop.st \in {"sleep", "set", "reread"} => loop.req \in {"none", "RADIO_POWER"}
    /\ loop.at = "CGDCONT?" => loop.k \in Nat

\* The inductive invariant.
Conforming == LoopFields /\ Called /\ Conforms

\* What sends what.
LEMMA CallersOf ==
  /\ \A at \in OneCommand : Callers(at) = {at}
  /\ \A at \in {"CGACT?", "CGDCONT?"} : Callers(at) = {"none", "DATA_CALL_LIST"}
  /\ \A at \in {"CGDCONT=1", "ATD*99***1#"} : Callers(at) = {"SETUP_DATA_CALL"}
  /\ Callers("CPIN?") = {"none", "RADIO_POWER", "GET_SIM_STATUS"}
  /\ \A at \in {"CFUN=0", "CFUN=1", "CFUN?", "CSMS", "CNMI", "ATE0Q0V1", "ATS0=0", "CREG=2", "CREG=1", "CGREG=1",
                "none", "OFF", "SIM_NOT_READY", "SIM_READY", "SIM_LOCKED_OR_ABSENT"} :
         Callers(at) = {"none", "RADIO_POWER"}
<1>1. \A at \in {"CGACT?", "CGDCONT?", "CGDCONT=1", "ATD*99***1#", "CPIN?", "CFUN=0", "CFUN=1", "CFUN?", "CSMS",
                 "CNMI", "ATE0Q0V1", "ATS0=0", "CREG=2", "CREG=1", "CGREG=1",
                 "none", "OFF", "SIM_NOT_READY", "SIM_READY", "SIM_LOCKED_OR_ABSENT"} : at \notin OneCommand
  BY DEF OneCommand, CallControl, PinRequests, NumericRequests
<1>2. \A at \in OneCommand : Callers(at) = {at}
  BY <1>1 DEF Callers
<1> QED
  BY <1>1, <1>2 DEF Callers

\* The answers of the requests that take more than one command.
LEMMA MoreAnswers ==
  /\ AllFit("RADIO_POWER", Failure) /\ AllFit("RADIO_POWER", Success(Null))
  /\ AllFit("GET_SIM_STATUS", Success(Payload("card", 1)))
  /\ AllFit("DATA_CALL_LIST", <<Complete("GENERIC_FAILURE", Null)>>)
  /\ \A n \in Nat : AllFit("DATA_CALL_LIST", <<Complete("SUCCESS", Payload("data_calls", n))>>)
  /\ \A ok : AllFit("SETUP_DATA_CALL", SuccessIf(ok, Payload("strings", 2)))
<1>1. \A r \in {"RADIO_POWER", "SETUP_DATA_CALL", "DATA_CALL_LIST"} :
         {"SUCCESS", "GENERIC_FAILURE"} \subseteq Requests[r].errors
  BY ServedRows, Zenon
<1>2. AllFit("RADIO_POWER", Failure) /\ AllFit("RADIO_POWER", Success(Null)) /\ AllFit("DATA_CALL_LIST", Failure)
  <2>1. Void("RADIO_POWER")
    BY VoidRows, Zenon DEF Void
  <2> QED BY <1>1, <2>1, FitAnswers, Zenon
<1>3. AllFit("GET_SIM_STATUS", Success(Payload("card", 1)))
  <2>1. Answer("GET_SIM_STATUS", Payload("card", 1))
    BY ServedRows, CommandRows, PayloadsRead, NotNull, Zenon DEF Answer
  <2> QED BY <2>1, ServedRows, FitPayload, FitSequences, Zenon DEF Success
<1>4. \A n \in Nat : AllFit("DATA_CALL_LIST", <<Complete("SUCCESS", Payload("data_calls", n))>>)
  <2>1. \A n \in Nat : Answer("DATA_CALL_LIST", Payload("data_calls", n))
    <3>1. /\ s_commands["DATA_CALL_LIST"].response = "responseDataCallList"
          /\ Requests["DATA_CALL_LIST"].response = "data_calls"
      BY ServedRows, CommandRows, Zenon
    <3>2. \A n \in Nat : Response("responseDataCallList", Payload("data_calls", n)) = "data_calls"
      BY PayloadsRead, Zenon
    <3> QED BY <3>1, <3>2, NotNull, Zenon DEF Answer
  <2> QED BY <1>1, <2>1, FitPayload, FitSequences, Zenon
<1>5. \A ok : AllFit("SETUP_DATA_CALL", SuccessIf(ok, Payload("strings", 2)))
  <2>1. \A n \in Nat : Answer("SETUP_DATA_CALL", Payload("strings", n))
    <3>1. /\ s_commands["SETUP_DATA_CALL"].response = "responseStrings"
          /\ Requests["SETUP_DATA_CALL"].response = "strings"
      BY ServedRows, CommandRows, Zenon
    <3>2. \A n \in Nat : Response("responseStrings", Payload("strings", n)) = "strings"
      BY PayloadsRead, Zenon
    <3> QED BY <3>1, <3>2, NotNull, Zenon DEF Answer
  <2>2. Answer("SETUP_DATA_CALL", Payload("strings", 2))
    BY <2>1
  <2> QED BY <1>1, <2>2, FitAnswers, Zenon
<1> QED
  BY <1>2, <1>3, <1>4, <1>5, Zenon DEF Failure

\* The indications.
LEMMA IndicationsTold ==
  /\ \A u \in {"NITZ_TIME_RECEIVED", "RESPONSE_NEW_SMS", "RESPONSE_NEW_SMS_STATUS_REPORT"} :
         Told(u, Payload("string", 1))
  /\ \A u \in {"RESPONSE_RADIO_STATE_CHANGED", "RESPONSE_CALL_STATE_CHANGED",
               "RESPONSE_NETWORK_STATE_CHANGED"} : Told(u, Null)
  /\ Told("DATA_CALL_LIST_CHANGED", Null)
  /\ \A n \in Nat : Told("DATA_CALL_LIST_CHANGED", Payload("data_calls", n))
<1>1. \A u \in {"NITZ_TIME_RECEIVED", "RESPONSE_NEW_SMS", "RESPONSE_NEW_SMS_STATUS_REPORT"} :
         Told(u, Payload("string", 1))
  <2>1. Response("responseString", Payload("string", 1)) = "string"
    BY PayloadsRead, Zenon
  <2> QED BY <2>1, IndicationRows, Zenon DEF Told
<1>2. \A u \in {"RESPONSE_RADIO_STATE_CHANGED", "RESPONSE_CALL_STATE_CHANGED",
                "RESPONSE_NETWORK_STATE_CHANGED"} : Told(u, Null)
  <2>1. Response("responseVoid", Null) = "void"
    BY PayloadsRead, Zenon
  <2> QED BY <2>1, IndicationRows, Zenon DEF Told
<1>3. /\ Told("DATA_CALL_LIST_CHANGED", Null)
      /\ \A n \in Nat : Told("DATA_CALL_LIST_CHANGED", Payload("data_calls", n))
  <2>1. /\ Response("responseDataCallList", Null) = "data_calls"
        /\ \A n \in Nat : Response("responseDataCallList", Payload("data_calls", n)) = "data_calls"
    BY PayloadsRead, ZenonT(30)
  <2>2. /\ Indications["DATA_CALL_LIST_CHANGED"] = "data_calls"
        /\ s_unsolResponses["DATA_CALL_LIST_CHANGED"] = "responseDataCallList"
    BY IndicationRows, Zenon
  <2> QED BY <2>1, <2>2, Zenon DEF Told
<1> QED
  BY <1>1, <1>2, <1>3, Zenon

\* A handler whose command returned x answers with what is declared, or goes on for the same request.
LEMMA ConformingContinues ==
  ASSUME NEW x, x.lines \in [Kinds -> Nat], Conforming, Continue(x)
  PROVE  Conforming'
<1> USE DEF Conforming, Called, LoopFields
<1>1. ASSUME out' = <<>> PROVE Conforms'
  BY <1>1, NothingOut, Zenon
<1>2. ASSUME NEW cs, Return(cs), loop.req = "none" \/ AllFit(loop.req, cs) PROVE Conforming'
  <2>1. loop' = Idle /\ Idle.at = "none" /\ Idle.req = "none"
    BY <1>2, Zenon DEF Return, Idle
  <2>2. Conforms'
    BY <1>1, <1>2, OutFits, IndicationsTold, Zenon DEF Return
  <2> QED BY <2>1, <2>2, CallersOf, IdleFields
<1>3. ASSUME NEW st, NEW at, NEW k, Goto(st, at, k), loop.req \in Callers(at), out' = <<>>,
             st = "send" \/ loop.req \in {"none", "RADIO_POWER"}, at = "CGDCONT?" => k \in Nat
      PROVE  Conforming'
  BY <1>1, <1>3 DEF Goto
<1>4. ASSUME NEW new \in {"OFF", "SIM_NOT_READY", "SIM_READY", "SIM_LOCKED_OR_ABSENT"}, SetRadioState(new), Silent,
             loop.req \in {"none", "RADIO_POWER"}
      PROVE  Conforming'
  <2>1. Goto("set", new, 0) /\ out' = <<>>
    BY <1>4, Zenon DEF SetRadioState, Silent
  <2> QED BY <1>3, <1>4, <2>1, CallersOf, ZenonT(30)
<1>5. ASSUME OneCommandReturns(x) PROVE Conforming'
  <2>1. loop.at \in OneCommand
    BY <1>5, Zenon DEF OneCommandReturns
  <2>2. loop.req = loop.at
    BY <2>1, CallersOf
  <2>3. (Silent /\ UNCHANGED loop) \/ Return(Completions(loop.at, x))
    BY <1>5, Zenon DEF OneCommandReturns
  <2>4. CASE Silent /\ UNCHANGED loop
    BY <1>1, <2>4, Zenon DEF Silent
  <2>5. CASE Return(Completions(loop.at, x))
    BY <1>2, <2>1, <2>2, <2>5, CompletionsFit, Zenon
  <2> QED BY <2>3, <2>4, <2>5, Zenon
<1>6. ASSUME requestRadioPowerReturns(x) PROVE Conforming'
  <2>1. loop.req = "RADIO_POWER"
    BY <1>6, Zenon DEF requestRadioPowerReturns
  <2>2. \/ Return(Failure)
        \/ Goto("send", "CFUN?", 0) /\ Silent
        \/ \E new \in {"OFF", "SIM_NOT_READY"} : SetRadioState(new) /\ Silent
    BY <1>6, Zenon DEF requestRadioPowerReturns, Send
  <2>3. CASE Return(Failure)
    BY <1>2, <2>1, <2>3, MoreAnswers, Zenon
  <2>4. CASE Goto("send", "CFUN?", 0) /\ Silent
    BY <1>3, <2>1, <2>4, CallersOf, Zenon DEF Silent
  <2> QED BY <1>4, <2>1, <2>2, <2>3, <2>4
<1>7. ASSUME requestOrSendDataCallListReturns(x) PROVE Conforming'
  <2>1. loop.at \in {"CGACT?", "CGDCONT?"}
    BY <1>7, Zenon DEF requestOrSendDataCallListReturns
  <2>2. loop.req \in {"none", "DATA_CALL_LIST"}
    BY <2>1, CallersOf
  <2>3. \/ DataCallListIs("GENERIC_FAILURE", Null)
        \/ Goto("send", "CGDCONT?", Count(x.lines)) /\ Silent
        \/ loop.at = "CGDCONT?" /\ DataCallListIs("SUCCESS", Payload("data_calls", loop.k))
    BY <1>7, ZenonT(30) DEF requestOrSendDataCallListReturns
  <2>4. ASSUME NEW e, NEW p, DataCallListIs(e, p), Told("DATA_CALL_LIST_CHANGED", p),
               AllFit("DATA_CALL_LIST", <<Complete(e, p)>>)
        PROVE  Conforming'
    <3>1. loop' = Idle /\ Idle.at = "none" /\ Idle.req = "none"
      BY <2>4, Zenon DEF DataCallListIs, Idle
    <3>2. out' \in {<<Unsol("DATA_CALL_LIST_CHANGED", p)>>, <<Returned("DATA_CALL_LIST", <<Complete(e, p)>>)>>}
      BY <2>2, <2>4, Zenon DEF DataCallListIs
    <3>3. Conforms'
      BY <2>4, <3>2, OutFits, Zenon
    <3> QED BY <3>1, <3>3, CallersOf, IdleFields
  <2>5. CASE DataCallListIs("GENERIC_FAILURE", Null)
    BY <2>4, <2>5, MoreAnswers, IndicationsTold, ZenonT(30)
  <2>6. CASE Goto("send", "CGDCONT?", Count(x.lines)) /\ Silent
    <3>1. Count(x.lines) \in Nat
      BY DEF Count, Kinds
    <3> QED BY <1>3, <2>2, <2>6, <3>1, CallersOf DEF Silent
  <2>7. CASE loop.at = "CGDCONT?" /\ DataCallListIs("SUCCESS", Payload("data_calls", loop.k))
    BY <2>4, <2>7, MoreAnswers, IndicationsTold, ZenonT(30)
  <2> QED BY <2>3, <2>5, <2>6, <2>7, Zenon
<1>8. ASSUME requestSetupDataCallReturns(x) PROVE Conforming'
  <2>1. loop.at \in {"CGDCONT=1", "ATD*99***1#"}
    BY <1>8, Zenon DEF requestSetupDataCallReturns
  <2>2. loop.req = "SETUP_DATA_CALL"
    BY <2>1, CallersOf
  <2>3. \/ Return(SuccessIf(Ok(x), Payload("strings", 2)))
        \/ Silent /\ \E at \in {"CGDCONT=1", "ATD*99***1#"} : \E k : Goto("send", at, k)
    BY <1>8, Zenon DEF requestSetupDataCallReturns, Send
  <2>4. CASE Return(SuccessIf(Ok(x), Payload("strings", 2)))
    BY <1>2, <2>2, <2>4, MoreAnswers, ZenonT(30)
  <2>5. CASE Silent /\ \E at \in {"CGDCONT=1", "ATD*99***1#"} : \E k : Goto("send", at, k)
    BY <1>3, <2>2, <2>5, CallersOf, ZenonT(30) DEF Silent
  <2> QED BY <2>3, <2>4, <2>5, ZenonT(30)
<1>9. ASSUME getCardStatusReturns(x) PROVE Conforming'
  BY <1>2, <1>9, MoreAnswers, Zenon DEF getCardStatusReturns
<1>10. ASSUME pollSIMStateReturns(x) PROVE Conforming'
  <2>1. loop.at = "CPIN?" /\ loop.req # "GET_SIM_STATUS"
    BY <1>10 DEF pollSIMStateReturns
  <2>2. loop.req \in {"none", "RADIO_POWER"}
    BY <2>1, CallersOf
  <2>3. \/ Return(Success(Null))
        \/ \E new \in {"SIM_READY", "SIM_LOCKED_OR_ABSENT"} : SetRadioState(new) /\ Silent
    BY <1>10 DEF pollSIMStateReturns, Finish
  <2>4. CASE Return(Success(Null))
    BY <1>2, <2>2, <2>4, MoreAnswers, ZenonT(30)
  <2> QED BY <1>4, <2>2, <2>3, <2>4, Zenon
<1>11. ASSUME onSIMReadyReturns(x) PROVE Conforming'
  <2>1. loop.at \in {"CSMS", "CNMI"} /\ (Return(Success(Null)) \/ (Goto("send", "CNMI", 0) /\ out' = <<>>))
    BY <1>11, ZenonT(30) DEF onSIMReadyReturns, Finish, Send, Silent
  <2>2. loop.req \in {"none", "RADIO_POWER"}
    BY <2>1, CallersOf, ZenonT(30)
  <2>3. CASE Return(Success(Null))
    BY <1>2, <2>2, <2>3, MoreAnswers, ZenonT(30)
  <2> QED BY <1>3, <2>1, <2>2, <2>3, CallersOf, ZenonT(30)
<1>12. ASSUME at_handshakeReturns(x) PROVE Conforming'
  <2>1. /\ loop.at = "ATE0Q0V1" /\ out' = <<>>
        /\ \E st, k : \E at \in {"ATE0Q0V1", "ATS0=0"} : Goto(st, at, k)
    BY <1>12 DEF at_handshakeReturns, Quiet, Silent
  <2> QED BY <1>3, <2>1, CallersOf, Zenon
<1>13. ASSUME initializeCallbackReturns(x) PROVE Conforming'
  <2>1. /\ out' = <<>> /\ loop.req = "none"
        /\ \/ loop' = Idle \/ SetRadioState("SIM_NOT_READY")
           \/ \E at \in {"ATS0=0", "CREG=2", "CREG=1", "CGREG=1", "CFUN?"} : \E k : Goto("send", at, k)
    BY <1>13, Zenon DEF initializeCallbackReturns, Quiet, Silent, Send
  <2>2. CASE loop' = Idle
    <3>1. Idle.at = "none" /\ Idle.req = "none"
      BY ZenonT(30) DEF Idle
    <3> QED BY <1>1, <2>1, <2>2, <3>1, CallersOf, IdleFields
  <2>3. CASE SetRadioState("SIM_NOT_READY")
    BY <1>4, <2>1, <2>3, Zenon DEF Silent
  <2> QED BY <1>3, <2>1, <2>2, <2>3, CallersOf, ZenonT(30)
<1> QED
  BY <1>5, <1>6, <1>7, <1>8, <1>9, <1>10, <1>11, <1>12, <1>13, Zenon DEF Continue

\* The counts of lines in a result are numbers.
LEMMA ResultLines ==
  ASSUME ChanTypeOK
  PROVE  /\ Failed.lines \in [Kinds -> Nat]
         /\ sp_response # NoResponse => ResultNow.lines \in [Kinds -> Nat]
<1>1. NoLines \in [Kinds -> Nat]
  BY Zenon DEF NoLines
<1>2. \A resp : Result(TRUE, resp).lines = NoLines
  BY Zenon DEF Result
<1>3. \A err, resp : Result(err, resp).lines \in {NoLines, resp.lines}
  BY Zenon DEF Result
<1>4. ASSUME sp_response # NoResponse PROVE sp_response.lines \in [Kinds -> Nat]
  <2>1. MaxLines \in Nat
    BY LimitIs DEF ChanTypeOK
  <2>2. sp_response.lines \in [Kinds -> 0..MaxLines]
    BY <1>4 DEF ChanTypeOK, ATResponse
  <2> QED BY <2>1, <2>2
<1>5. ResultNow.lines \in {NoLines, sp_response.lines}
  BY <1>3, Zenon DEF ResultNow
<1> QED
  BY <1>1, <1>2, <1>4, <1>5, ZenonT(30) DEF Failed

\* onRequest() answers at once with what is declared, or begins with a command of the handler.
LEMMA ConformingRequest ==
  ASSUME Conforming, NEW r \in DOMAIN Requests, NEW arg \in Args(r), onRequest(r, arg)
  PROVE  Conforming'
<1> DEFINE first(at, k) == loop' = [Serve(r) EXCEPT !.st = "send", !.at = at, !.k = k] /\ out' = <<>>
           data == Dispatch(r, ClientParcel(r))
<1>1. \/ NotAvailable(r) /\ AnswerAt(r, <<Complete("RADIO_NOT_AVAILABLE", Null)>>)
      \/ arg = "odd" /\ AnswerAt(r, OddArgument(r))
      \/ r = "GET_SIM_STATUS" /\ first("CPIN?", 0)
      \/ r = "RADIO_POWER" /\ (first("CFUN=0", 0) \/ first("CFUN=1", 0) \/ AnswerAt(r, Success(Null)))
      \/ r = "DATA_CALL_LIST" /\ first("CGACT?", 0)
      \/ r = "SETUP_DATA_CALL" /\ first("CGDCONT=1", PDP_COMMANDS)
      \/ r \in OneCommand /\ first(r, 0)
      \/ r \in {"OEM_HOOK_RAW", "OEM_HOOK_STRINGS"} /\ AnswerAt(r, Success(data))
      \/ r \notin Handled /\ AnswerAt(r, <<Complete("REQUEST_NOT_SUPPORTED", Null)>>)
  BY Zenon DEF onRequest, Quiet, Silent, Handled
<1>2. ASSUME NEW cs, AnswerAt(r, cs), AllFit(r, cs) PROVE Conforming'
  <2>1. Conforms'
    BY <1>2, OutFits, IndicationsTold, Zenon DEF AnswerAt
  <2> QED BY <1>2, <2>1 DEF AnswerAt, Conforming, Called, LoopFields
<1>3. ASSUME NEW at, NEW k, first(at, k), r \in Callers(at), at # "CGDCONT?" PROVE Conforming'
  <2>1. DOMAIN loop' = {"st", "at", "req", "k", "old"} /\ loop'.at = at /\ loop'.req = r
    BY <1>3 DEF Serve, Idle
  <2>2. Conforms'
    BY <1>3 DEF Conforms, Range
  <2> QED BY <1>3, <2>1, <2>2 DEF Conforming, Called, LoopFields
<1>4. ASSUME NEW e \in ErrorsOf(r), e # "SUCCESS" PROVE AllFit(r, <<Complete(e, Null)>>)
  BY <1>4, FitError, FitSequences, Zenon
<1>5. ASSUME arg = "odd" PROVE AllFit(r, OddArgument(r))
  <2>1. r \in {"SMS_ACKNOWLEDGE", "SEPARATE_CONNECTION"} \cup PinRequests
    BY <1>5 DEF Args
  <2>2. r \in OneCommand \ {"SIGNAL_STRENGTH"}
    BY <2>1 DEF OneCommand, CallControl, PinRequests
  <2>3. "GENERIC_FAILURE" \in ErrorsOf(r) /\ (r \in PinRequests => "PASSWORD_INCORRECT" \in ErrorsOf(r))
    BY <2>2, ServedRows, Zenon DEF ErrorsOf
  <2> QED BY <1>4, <2>3 DEF OddArgument, Failure
<1>6. ASSUME r \in {"OEM_HOOK_RAW", "OEM_HOOK_STRINGS"} PROVE AllFit(r, Success(data))
  <2>1. "SUCCESS" \in Requests[r].errors
    BY <1>6, ServedRows, Zenon
  <2>2. CASE r = "OEM_HOOK_RAW"
    <3>1. data = dispatchRaw(ClientParcel(r))
      BY <2>2, CommandRows DEF Dispatch, Command
    <3>2. \E n : data = Payload("raw", n)
      <4>1. ClientParcel(r).values = "all"
        BY DEF ClientParcel
      <4> QED BY <3>1, <4>1 DEF dispatchRaw, CheckedButLast, Checked
    <3>3. Answer(r, data)
      <4>1. s_commands[r].response = "responseRaw"
        BY <2>2, CommandRows DEF Command
      <4>2. Requests["OEM_HOOK_RAW"].response = "raw"
        BY ServedRows, Zenon
      <4>3. \A n : Response("responseRaw", Payload("raw", n)) = "raw"
        BY PayloadsRead, Zenon
      <4> QED BY <2>2, <3>2, <4>1, <4>2, <4>3, NotNull, Zenon DEF Answer
    <3> QED BY <2>1, <3>3, FitPayload, FitSequences, Zenon DEF Success
  <2>3. CASE r = "OEM_HOOK_STRINGS"
    <3>1. data = dispatchStrings(ClientParcel(r))
      BY <2>3, CommandRows DEF Dispatch, Command
    <3>2. ClientParcel(r).n = 0 /\ ClientParcel(r).values = "all"
      BY <2>3, ServedRows DEF ClientParcel
    <3>3. data = Payload("strings", 0)
      BY <3>1, <3>2 DEF dispatchStrings, CheckedButLast, Checked
    <3>4. Answer(r, data)
      <4>1. s_commands[r].response = "responseStrings"
        BY <2>3, CommandRows DEF Command
      <4>2. Requests["OEM_HOOK_STRINGS"].response = "strings"
        BY VoidRows, Zenon
      <4>3. Response("responseStrings", Payload("strings", 0)) = "strings"
        BY PayloadsRead
      <4> QED BY <2>3, <3>3, <4>1, <4>2, <4>3, NotNull, Zenon DEF Answer
    <3> QED BY <2>1, <3>4, FitPayload, FitSequences, Zenon DEF Success
  <2> QED BY <1>6, <2>2, <2>3
<1>7. /\ NotAvailable(r) => "RADIO_NOT_AVAILABLE" \in ErrorsOf(r)
      /\ r \notin Handled => "REQUEST_NOT_SUPPORTED" \in ErrorsOf(r)
  <2>1. NotAvailable(r) => r # "GET_SIM_STATUS"
    BY Zenon DEF NotAvailable
  <2>2. r \notin Handled => "REQUEST_NOT_SUPPORTED" \in Unlisted(r)
    BY Zenon DEF Unlisted
  <2> QED BY <2>1, <2>2, RadioRows, Zenon DEF ErrorsOf
<1>8. /\ "GET_SIM_STATUS" \in Callers("CPIN?") /\ "RADIO_POWER" \in Callers("CFUN=0")
      /\ "RADIO_POWER" \in Callers("CFUN=1") /\ "DATA_CALL_LIST" \in Callers("CGACT?")
      /\ "SETUP_DATA_CALL" \in Callers("CGDCONT=1") /\ \A s \in OneCommand : s \in Callers(s) /\ s # "CGDCONT?"
  BY CallersOf DEF OneCommand, CallControl, PinRequests, NumericRequests
<1> HIDE DEF first, data
<1>9. CASE \E at, k : first(at, k) /\ r \in Callers(at) /\ at # "CGDCONT?"
  BY <1>3, <1>9
<1>10. CASE \E cs : AnswerAt(r, cs) /\ AllFit(r, cs)
  BY <1>2, <1>10
<1>11. CASE NotAvailable(r) /\ AnswerAt(r, <<Complete("RADIO_NOT_AVAILABLE", Null)>>)
  BY <1>4, <1>7, <1>10, <1>11, Zenon
<1>12. CASE r \notin Handled /\ AnswerAt(r, <<Complete("REQUEST_NOT_SUPPORTED", Null)>>)
  BY <1>4, <1>7, <1>10, <1>12, Zenon
<1>13. CASE r = "RADIO_POWER" /\ AnswerAt(r, Success(Null))
  BY <1>10, <1>13, MoreAnswers, Zenon
<1> QED
  BY <1>1, <1>5, <1>6, <1>8, <1>9, <1>10, <1>11, <1>12, <1>13, Zenon

\* And so does every step.
LEMMA ConformingStep == Conforming /\ ChanTypeOK /\ [Next]_vars => Conforming'
<1> SUFFICES ASSUME Conforming, ChanTypeOK, [Next]_vars PROVE Conforming'
  OBVIOUS
<1> USE DEF Conforming, Called, LoopFields
<1>1. ASSUME out' = <<>> PROVE Conforms'
  BY <1>1, NothingOut, Zenon
<1>2. ASSUME NEW u, NEW p, Told(u, p), out' = <<Unsol(u, p)>> PROVE Conforms'
  BY <1>2, OutFits, MoreAnswers, Zenon
<1>3. ASSUME Conforms', UNCHANGED loop PROVE Conforming'
  BY <1>3
<1>4. Idle.at = "none" /\ Idle.req = "none"
  BY DEF Idle
<1>5. ASSUME Conforms', loop' = Idle PROVE Conforming'
  BY <1>4, <1>5, CallersOf, IdleFields, Zenon
<1>6. ASSUME SetupOverQmi PROVE Conforming'
  <2>1. \E ok : AnswerAt("SETUP_DATA_CALL", SuccessIf(ok, Payload("strings", 2)))
    BY <1>6 DEF SetupOverQmi
  <2>2. UNCHANGED loop /\ \E ok : out' = <<Returned("SETUP_DATA_CALL", SuccessIf(ok, Payload("strings", 2)))>>
    BY <2>1 DEF AnswerAt
  <2>3. Conforms'
    BY <2>2, OutFits, MoreAnswers, IndicationsTold, Zenon
  <2> QED BY <1>3, <2>2, <2>3, Zenon
<1>7. ASSUME NEW cb \in Callbacks, TimerFires(cb) PROVE Conforming'
  <2>1. \/ out' = <<>> /\ loop' = Idle
        \/ out' = <<>> /\ \E st : \E at \in {"OFF", "CPIN?", "CGACT?"} : loop' = [Idle EXCEPT !.st = st, !.at = at]
        \/ UNCHANGED loop /\ out' = <<Unsol("RESPONSE_CALL_STATE_CHANGED", Null)>>
    BY <1>7, Zenon DEF TimerFires, Silent, Callbacks
  <2>2. ASSUME NEW st, NEW at \in {"OFF", "CPIN?", "CGACT?"}, out' = <<>>,
               loop' = [Idle EXCEPT !.st = st, !.at = at]
        PROVE  Conforming'
    BY <1>1, <2>2, IdleFields, CallersOf
  <2>3. CASE UNCHANGED loop /\ out' = <<Unsol("RESPONSE_CALL_STATE_CHANGED", Null)>>
    BY <1>2, <1>3, <2>3, IndicationsTold
  <2> QED BY <1>1, <1>5, <2>1, <2>2, <2>3, Zenon
<1>8. ASSUME CommandSent PROVE Conforming'
  BY <1>1, <1>8, Zenon DEF CommandSent, Silent
<1>9. ASSUME CommandNotSent \/ CommandDone \/ HandshakeTimesOut PROVE Conforming'
  <2>1. Continue(Failed) \/ (Continue(ResultNow) /\ sp_response # NoResponse)
    BY <1>9 DEF CommandNotSent, CommandDone, HandshakeTimesOut, CommandReturns
  <2> QED BY <2>1, ConformingContinues, ResultLines, Zenon
<1>10. ASSUME HandshakeEnds PROVE Conforming'
  <2>1. Goto("send", "ATS0=0", SETUP_COMMANDS) /\ out' = <<>> /\ loop.st = "sleep"
    BY <1>10 DEF HandshakeEnds, Silent
  <2> QED BY <1>1, <2>1, CallersOf, Zenon DEF Goto
<1>11. ASSUME LoopSetsState PROVE Conforming'
  BY <1>1, <1>11 DEF LoopSetsState, Silent
<1>12. ASSUME LoopRereadsState PROVE Conforming'
  <2> DEFINE u == "RESPONSE_RADIO_STATE_CHANGED"
             news == Unsol(u, Null)
             done == Returned("RADIO_POWER", Success(Null))
  <2>1. loop.st = "reread" /\ loop.req \in {"none", "RADIO_POWER"}
    BY <1>12 DEF LoopRereadsState
  <2> HIDE DEF news, done
  <2>2. Append(<<>>, done) = <<done>>
    OBVIOUS
  <2>3. out' \in {<<>>, <<news>>, <<done>>, Append(<<news>>, done)}
    BY <1>12, <2>1, <2>2, Zenon DEF LoopRereadsState, news, done
  <2>4. Told(u, Null) /\ AllFit("RADIO_POWER", Success(Null))
    BY IndicationsTold, MoreAnswers, Zenon
  <2>5. Conforms'
    BY <2>3, <2>4, OutFits DEF news, done
  <2>6. \/ loop' = Idle
        \/ \E at \in {"CSMS", "CPIN?"} : loop' = [loop EXCEPT !.st = "send", !.at = at, !.old = "none"]
        \/ loop' = [Idle EXCEPT !.st = "send", !.at = "ATE0Q0V1", !.k = HANDSHAKE_RETRY_COUNT]
    BY <1>12 DEF LoopRereadsState
  <2>7. ASSUME NEW at \in {"CSMS", "CPIN?"},
               loop' = [loop EXCEPT !.st = "send", !.at = at, !.old = "none"]
        PROVE  Conforming'
    BY <2>1, <2>5, <2>7, CallersOf
  <2>8. CASE loop' = [Idle EXCEPT !.st = "send", !.at = "ATE0Q0V1", !.k = HANDSHAKE_RETRY_COUNT]
    BY <2>5, <2>8, CallersOf, IdleFields
  <2> QED BY <1>5, <2>5, <2>6, <2>7, <2>8
<1>13. ASSUME NEW e \in Events \cup {"+CMT:", "+CDS:"}, onUnsolicited(e) PROVE Conforms'
  <2>1. \/ out' = <<>>
        \/ \E u \in {"RESPONSE_CALL_STATE_CHANGED", "RESPONSE_NETWORK_STATE_CHANGED"} : out' = <<Unsol(u, Null)>>
        \/ \E u \in {"NITZ_TIME_RECEIVED", "RESPONSE_NEW_SMS", "RESPONSE_NEW_SMS_STATUS_REPORT"} :
              out' = <<Unsol(u, Payload("string", 1))>>
    BY <1>13, Zenon DEF onUnsolicited, Events, Silent
  <2> QED BY <1>1, <1>2, <2>1, IndicationsTold
<1>14. ASSUME NEW r \in Reader,
              \/ (\E f \in Finals : FinalLine(r, f)) \/ AnswerLine(r) \/ NewSms(r) \/ ChannelEnds(r)
              \/ ReaderMarksClosed(r) \/ ReaderSetsState(r)
       PROVE  Conforming'
  <2>1. UNCHANGED loop /\ out' = <<>>
    BY <1>14, Zenon DEF FinalLine, AnswerLine, NewSms, ChannelEnds, ReaderMarksClosed, ReaderSetsState,
       Rest, Others, Silent
  <2> QED BY <1>1, <1>3, <2>1
<1>15. ASSUME NEW r \in Reader, SmsPdu(r) \/ \E e \in Limit.events \cap Events : EventLine(r, e)
       PROVE  Conforming'
  <2>1. /\ UNCHANGED loop
        /\ out' = <<>> \/ \E e \in Events \cup {"+CMT:", "+CDS:"} : onUnsolicited(e)
    BY <1>15, Zenon DEF SmsPdu, EventLine, Rest, Silent
  <2> QED BY <1>1, <1>3, <1>13, <2>1, Zenon
<1>16. ASSUME NEW r \in Reader, ReaderRereadsState(r) PROVE Conforming'
  <2>1. UNCHANGED loop /\ (out' = <<>> \/ out' = <<Unsol("RESPONSE_RADIO_STATE_CHANGED", Null)>>)
    BY <1>16, Zenon DEF ReaderRereadsState, Others
  <2> QED BY <1>1, <1>2, <1>3, <2>1, IndicationsTold
<1>17. ASSUME MainStep PROVE Conforming'
  <2>1. UNCHANGED loop /\ out' = <<>>
    BY <1>17, ZenonT(30) DEF MainStep, MainOpens, MainSetsFd, MainWaits, MainResets, MainRest, Silent
  <2> QED BY <1>1, <1>3, <2>1
<1>18. ASSUME Dead \/ UNCHANGED vars PROVE Conforming'
  BY <1>18, ZenonT(30) DEF Dead, vars, Conforms
<1>19. ASSUME NEW r \in Limit.requests, NEW arg \in Args(r), onRequest(r, arg) PROVE Conforming'
  <2>1. r \in DOMAIN Requests
    BY LimitIs, Zenon DEF ChanTypeOK
  <2> QED BY <1>19, <2>1, ConformingRequest, Zenon
<1> QED
  BY <1>6, <1>7, <1>8, <1>9, <1>10, <1>11, <1>12, <1>14, <1>15, <1>16, <1>17, <1>18, <1>19, Zenon
     DEF Next, LoopStep, ReaderCloses

\* Whatever the modem answers and however many lines it takes, every completion and every indication
\* that reference-ril hands to libril is what ril.h declares: a listed error without data, or success with the
\* declared kind of data and as many strings as it has, but for the departures that Conforms names.
THEOREM ConformsTheorem == Spec => []Conforms
<1>1. Init => Conforming
  <2> SUFFICES ASSUME Init PROVE Conforming
    OBVIOUS
  <2>1. loop = Idle /\ out = <<>> /\ Idle.at = "none" /\ Idle.req = "none"
    BY DEF Init, Idle
  <2>2. Conforms
    <3>1. Range(out) = {}
      BY <2>1 DEF Range
    <3> QED BY <3>1, Zenon DEF Conforms
  <2> QED BY <2>1, <2>2, IdleFields, CallersOf, Zenon DEF Conforming, Called, LoopFields
<1>2. Conforming => Conforms
  BY DEF Conforming
<1>3. TypeOK => ChanTypeOK
  BY Zenon DEF TypeOK
<1> QED
  BY <1>1, <1>2, <1>3, ConformingStep, TypesTheorem, PTL DEF Spec
=============================================================================
