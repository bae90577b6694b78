---------------------------- MODULE RilRequests ----------------------------
(***************************************************************************)
(* The tables of the radio service: for each method of the client's        *)
(* interface, the request it adds to the list and how it is handed to the  *)
(* vendor (hardware/ril/libril/ril_service.cpp); for each request, the     *)
(* function that answers it (ril_commands.h); for each of those and for    *)
(* each indication, what it makes of the payload (RilAnswers).             *)
(*                                                                         *)
(* Each table follows the order of the file.  The methods of the OEM hook  *)
(* have a client and a counter of their own and are left out.              *)
(***************************************************************************)
EXTENDS RilAnswers, Naturals

(* One table of several that have no row in common.                         *)
Joined(tables) ==
  [x \in UNION {DOMAIN f : f \in tables} |->
     (CHOOSE f \in tables : x \in DOMAIN f)[x]]

-----------------------------------------------------------------------------
(* Requests: method |-> <<request, the way it is dispatched>>.  "fixed" and *)
(* "copies" are methods that fill a structure themselves, without and with  *)
(* allocations that may fail; "arguments", "dataCall", "profile", "imsSms",  *)
(* "deviceState" and "filter" also refuse arguments or versions of the      *)
(* vendor's RIL.                                                            *)

SimAndCallRequests == [
   getIccCardStatus |-> <<"GET_SIM_STATUS", "void">>,
   supplyIccPinForApp |-> <<"ENTER_SIM_PIN", "strings">>,
   supplyIccPukForApp |-> <<"ENTER_SIM_PUK", "strings">>,
   supplyIccPin2ForApp |-> <<"ENTER_SIM_PIN2", "strings">>,
   supplyIccPuk2ForApp |-> <<"ENTER_SIM_PUK2", "strings">>,
   changeIccPinForApp |-> <<"CHANGE_SIM_PIN", "strings">>,
   changeIccPin2ForApp |-> <<"CHANGE_SIM_PIN2", "strings">>,
   supplyNetworkDepersonalization |->
     <<"ENTER_NETWORK_DEPERSONALIZATION", "strings">>,
   getCurrentCalls |-> <<"GET_CURRENT_CALLS", "void">>,
   dial |-> <<"DIAL", "copies">>, getImsiForApp |-> <<"GET_IMSI", "strings">>,
   hangup |-> <<"HANGUP", "ints">>]

NetworkAndSmsRequests == [
   hangupWaitingOrBackground |-> <<"HANGUP_WAITING_OR_BACKGROUND", "void">>,
   hangupForegroundResumeBackground |->
     <<"HANGUP_FOREGROUND_RESUME_BACKGROUND", "void">>,
   switchWaitingOrHoldingAndActive |->
     <<"SWITCH_WAITING_OR_HOLDING_AND_ACTIVE", "void">>,
   conference |-> <<"CONFERENCE", "void">>, rejectCall |-> <<"UDUB", "void">>,
   getLastCallFailCause |-> <<"LAST_CALL_FAIL_CAUSE", "void">>,
   getSignalStrength |-> <<"SIGNAL_STRENGTH", "void">>,
   getVoiceRegistrationState |-> <<"VOICE_REGISTRATION_STATE", "void">>,
   getDataRegistrationState |-> <<"DATA_REGISTRATION_STATE", "void">>,
   getOperator |-> <<"OPERATOR", "void">>,
   setRadioPower |-> <<"RADIO_POWER", "ints">>,
   sendDtmf |-> <<"DTMF", "string">>, sendSms |-> <<"SEND_SMS", "strings">>,
   sendSMSExpectMore |-> <<"SEND_SMS_EXPECT_MORE", "strings">>]

DataCallAndUssdRequests == [
   setupDataCall |-> <<"SETUP_DATA_CALL", "dataCall">>,
   iccIOForApp |-> <<"SIM_IO", "copies">>,
   sendUssd |-> <<"SEND_USSD", "string">>,
   cancelPendingUssd |-> <<"CANCEL_USSD", "void">>,
   getClir |-> <<"GET_CLIR", "void">>, setClir |-> <<"SET_CLIR", "ints">>,
   getCallForwardStatus |-> <<"QUERY_CALL_FORWARD_STATUS", "callForward">>,
   setCallForward |-> <<"SET_CALL_FORWARD", "callForward">>]

CallSettingRequests == [
   getCallWaiting |-> <<"QUERY_CALL_WAITING", "ints">>,
   setCallWaiting |-> <<"SET_CALL_WAITING", "ints">>,
   acknowledgeLastIncomingGsmSms |-> <<"SMS_ACKNOWLEDGE", "ints">>,
   acceptCall |-> <<"ANSWER", "void">>,
   deactivateDataCall |-> <<"DEACTIVATE_DATA_CALL", "strings">>,
   getFacilityLockForApp |-> <<"QUERY_FACILITY_LOCK", "strings">>,
   setFacilityLockForApp |-> <<"SET_FACILITY_LOCK", "strings">>,
   setBarringPassword |-> <<"CHANGE_BARRING_PASSWORD", "strings">>,
   getNetworkSelectionMode |-> <<"QUERY_NETWORK_SELECTION_MODE", "void">>,
   setNetworkSelectionModeAutomatic |->
     <<"SET_NETWORK_SELECTION_AUTOMATIC", "void">>,
   setNetworkSelectionModeManual |->
     <<"SET_NETWORK_SELECTION_MANUAL", "string">>,
   getAvailableNetworks |-> <<"QUERY_AVAILABLE_NETWORKS", "void">>]

ScanAndToneRequests == [
   startNetworkScan |-> <<"START_NETWORK_SCAN", "arguments">>,
   stopNetworkScan |-> <<"STOP_NETWORK_SCAN", "void">>,
   startDtmf |-> <<"DTMF_START", "string">>,
   stopDtmf |-> <<"DTMF_STOP", "void">>,
   getBasebandVersion |-> <<"BASEBAND_VERSION", "void">>,
   separateConnection |-> <<"SEPARATE_CONNECTION", "ints">>,
   setMute |-> <<"SET_MUTE", "ints">>, getMute |-> <<"GET_MUTE", "void">>,
   getClip |-> <<"QUERY_CLIP", "void">>,
   getDataCallList |-> <<"DATA_CALL_LIST", "void">>,
   setSuppServiceNotifications |-> <<"SET_SUPP_SVC_NOTIFICATION", "ints">>]

ToolkitAndModeRequests == [
   writeSmsToSim |-> <<"WRITE_SMS_TO_SIM", "copies">>,
   deleteSmsOnSim |-> <<"DELETE_SMS_ON_SIM", "ints">>,
   setBandMode |-> <<"SET_BAND_MODE", "ints">>,
   getAvailableBandModes |-> <<"QUERY_AVAILABLE_BAND_MODE", "void">>,
   sendEnvelope |-> <<"STK_SEND_ENVELOPE_COMMAND", "string">>,
   sendTerminalResponseToSim |-> <<"STK_SEND_TERMINAL_RESPONSE", "string">>,
   handleStkCallSetupRequestFromSim |->
     <<"STK_HANDLE_CALL_SETUP_REQUESTED_FROM_SIM", "ints">>,
   explicitCallTransfer |-> <<"EXPLICIT_CALL_TRANSFER", "void">>,
   setPreferredNetworkType |-> <<"SET_PREFERRED_NETWORK_TYPE", "ints">>,
   getPreferredNetworkType |-> <<"GET_PREFERRED_NETWORK_TYPE", "void">>,
   getNeighboringCids |-> <<"GET_NEIGHBORING_CELL_IDS", "void">>,
   setLocationUpdates |-> <<"SET_LOCATION_UPDATES", "ints">>,
   setCdmaSubscriptionSource |-> <<"CDMA_SET_SUBSCRIPTION_SOURCE", "ints">>,
   setCdmaRoamingPreference |-> <<"CDMA_SET_ROAMING_PREFERENCE", "ints">>,
   getCdmaRoamingPreference |-> <<"CDMA_QUERY_ROAMING_PREFERENCE", "void">>]

CdmaRequests == [
   setTTYMode |-> <<"SET_TTY_MODE", "ints">>,
   getTTYMode |-> <<"QUERY_TTY_MODE", "void">>,
   setPreferredVoicePrivacy |->
     <<"CDMA_SET_PREFERRED_VOICE_PRIVACY_MODE", "ints">>,
   getPreferredVoicePrivacy |->
     <<"CDMA_QUERY_PREFERRED_VOICE_PRIVACY_MODE", "void">>,
   sendCDMAFeatureCode |-> <<"CDMA_FLASH", "string">>,
   sendBurstDtmf |-> <<"CDMA_BURST_DTMF", "strings">>,
   sendCdmaSms |-> <<"CDMA_SEND_SMS", "fixed">>,
   acknowledgeLastIncomingCdmaSms |-> <<"CDMA_SMS_ACKNOWLEDGE", "fixed">>,
   getGsmBroadcastConfig |-> <<"GSM_GET_BROADCAST_SMS_CONFIG", "void">>]

BroadcastRequests == [
   setGsmBroadcastConfig |-> <<"GSM_SET_BROADCAST_SMS_CONFIG", "fixed">>,
   setGsmBroadcastActivation |-> <<"GSM_SMS_BROADCAST_ACTIVATION", "ints">>,
   getCdmaBroadcastConfig |-> <<"CDMA_GET_BROADCAST_SMS_CONFIG", "void">>,
   setCdmaBroadcastConfig |-> <<"CDMA_SET_BROADCAST_SMS_CONFIG", "fixed">>,
   setCdmaBroadcastActivation |-> <<"CDMA_SMS_BROADCAST_ACTIVATION", "ints">>,
   getCDMASubscription |-> <<"CDMA_SUBSCRIPTION", "void">>,
   writeSmsToRuim |-> <<"CDMA_WRITE_SMS_TO_RUIM", "fixed">>,
   deleteSmsOnRuim |-> <<"CDMA_DELETE_SMS_ON_RUIM", "ints">>,
   getDeviceIdentity |-> <<"GET_IMEI", "void">>,
   exitEmergencyCallbackMode |-> <<"EXIT_EMERGENCY_CALLBACK_MODE", "void">>,
   getSmscAddress |-> <<"GET_SMSC_ADDRESS", "void">>]

SmscAndCellRequests == [
   setSmscAddress |-> <<"SET_SMSC_ADDRESS", "string">>,
   reportSmsMemoryStatus |-> <<"REPORT_SMS_MEMORY_STATUS", "ints">>,
   reportStkServiceIsRunning |-> <<"REPORT_STK_SERVICE_IS_RUNNING", "void">>,
   getCdmaSubscriptionSource |-> <<"CDMA_GET_SUBSCRIPTION_SOURCE", "void">>,
   requestIsimAuthentication |-> <<"ISIM_AUTHENTICATION", "string">>,
   acknowledgeIncomingGsmSmsWithPdu |->
     <<"ACKNOWLEDGE_INCOMING_GSM_SMS_WITH_PDU", "strings">>,
   sendEnvelopeWithStatus |-> <<"STK_SEND_ENVELOPE_WITH_STATUS", "string">>,
   getVoiceRadioTechnology |-> <<"VOICE_RADIO_TECH", "void">>,
   getCellInfoList |-> <<"GET_CELL_INFO_LIST", "void">>,
   setCellInfoListRate |-> <<"SET_UNSOL_CELL_INFO_LIST_RATE", "ints">>]

AttachRequests == [
   setInitialAttachApn |-> <<"SET_INITIAL_ATTACH_APN", "profile">>,
   getImsRegistrationState |-> <<"IMS_REGISTRATION_STATE", "void">>]

ImsAndChannelRequests == [
   sendImsSms |-> <<"IMS_SEND_SMS", "imsSms">>,
   iccTransmitApduBasicChannel |-> <<"SIM_TRANSMIT_APDU_BASIC", "apdu">>,
   iccOpenLogicalChannel |-> <<"SIM_OPEN_CHANNEL", "string">>,
   iccCloseLogicalChannel |-> <<"SIM_CLOSE_CHANNEL", "ints">>,
   iccTransmitApduLogicalChannel |-> <<"SIM_TRANSMIT_APDU_CHANNEL", "apdu">>,
   nvReadItem |-> <<"NV_READ_ITEM", "fixed">>,
   nvWriteItem |-> <<"NV_WRITE_ITEM", "copies">>,
   nvWriteCdmaPrl |-> <<"NV_WRITE_CDMA_PRL", "raw">>,
   nvResetConfig |-> <<"NV_RESET_CONFIG", "ints">>]

SubscriptionRequests == [
   setUiccSubscription |-> <<"SET_UICC_SUBSCRIPTION", "fixed">>,
   setDataAllowed |-> <<"ALLOW_DATA", "ints">>,
   getHardwareConfig |-> <<"GET_HARDWARE_CONFIG", "void">>,
   requestIccSimAuthentication |-> <<"SIM_AUTHENTICATION", "copies">>]

DataProfileRequest == [
   setDataProfile |-> <<"SET_DATA_PROFILE", "profile">>]

CapabilityRequests == [
   requestShutdown |-> <<"SHUTDOWN", "void">>,
   getRadioCapability |-> <<"GET_RADIO_CAPABILITY", "void">>,
   setRadioCapability |-> <<"SET_RADIO_CAPABILITY", "fixed">>,
   startLceService |-> <<"START_LCE", "ints">>,
   stopLceService |-> <<"STOP_LCE", "void">>,
   pullLceData |-> <<"PULL_LCEDATA", "void">>,
   getModemActivityInfo |-> <<"GET_ACTIVITY_INFO", "void">>,
   setAllowedCarriers |-> <<"SET_CARRIER_RESTRICTIONS", "copies">>,
   getAllowedCarriers |-> <<"GET_CARRIER_RESTRICTIONS", "void">>]

StateAndKeepaliveRequests == [
   sendDeviceState |-> <<"SEND_DEVICE_STATE", "deviceState">>,
   setIndicationFilter |-> <<"SET_UNSOLICITED_RESPONSE_FILTER", "filter">>,
   setSimCardPower |-> <<"SET_SIM_CARD_POWER", "ints">>,
   setSimCardPower_1_1 |-> <<"SET_SIM_CARD_POWER", "ints">>,
   setCarrierInfoForImsiEncryption |->
     <<"SET_CARRIER_INFO_IMSI_ENCRYPTION", "copies">>,
   startKeepalive |-> <<"START_KEEPALIVE", "arguments">>,
   stopKeepalive |-> <<"STOP_KEEPALIVE", "fixed">>]

Requests ==
  Joined({SimAndCallRequests, NetworkAndSmsRequests,
          DataCallAndUssdRequests, CallSettingRequests, ScanAndToneRequests,
          ToolkitAndModeRequests, CdmaRequests, BroadcastRequests,
          SmscAndCellRequests, AttachRequests, ImsAndChannelRequests,
          SubscriptionRequests, DataProfileRequest, CapabilityRequests,
          StateAndKeepaliveRequests})

Methods == DOMAIN Requests

(* Methods that only the 1.1 interface of the service has.                  *)
Methods11 == {"startNetworkScan", "stopNetworkScan", "startKeepalive",
              "stopKeepalive", "setCarrierInfoForImsiEncryption",
              "setSimCardPower_1_1"}

(* sendDeviceState asks an older vendor's RIL for the state of the screen.  *)
RequestOf(m, version) ==
  IF m = "sendDeviceState" /\ version < 15 THEN "SCREEN_STATE"
                                           ELSE Requests[m][1]

(* Why a method may answer by itself instead of asking the vendor, by the   *)
(* way it is dispatched and the version of the vendor's RIL.                *)
RefusesFor(via, version) ==
  CASE via \in {"void", "raw", "fixed"} -> {}
    [] via = "arguments" -> {"INVALID_ARGUMENTS"}
    [] via = "imsSms"    -> {"NO_MEMORY", "INVALID_ARGUMENTS"}
    [] via = "profile" /\ version >= 15 -> {"NO_MEMORY", "INVALID_ARGUMENTS"}
    [] via = "dataCall" /\ version < 4 -> {"REQUEST_NOT_SUPPORTED"}
    [] via = "dataCall" /\ version >= 15 -> {"NO_MEMORY", "INVALID_ARGUMENTS"}
    [] via = "deviceState" /\ version < 15 ->
         {"NO_MEMORY", "REQUEST_NOT_SUPPORTED"}
    [] via = "filter" /\ version < 15 -> {"REQUEST_NOT_SUPPORTED"}
    [] OTHER -> {"NO_MEMORY"}

(* setIndicationFilter never asks a vendor's RIL older than version 15, nor *)
(* setupDataCall one older than 4.                                          *)
AlwaysRefused(m, version) ==
  \/ Requests[m][2] = "filter" /\ version < 15
  \/ Requests[m][2] = "dataCall" /\ version < 4

-----------------------------------------------------------------------------
(* ril_commands.h: request |-> the function that answers it.                *)

SimAndNetworkCommands == [
   GET_SIM_STATUS |-> "getIccCardStatus",
   ENTER_SIM_PIN |-> "supplyIccPinForApp",
   ENTER_SIM_PUK |-> "supplyIccPukForApp",
   ENTER_SIM_PIN2 |-> "supplyIccPin2ForApp",
   ENTER_SIM_PUK2 |-> "supplyIccPuk2ForApp",
   CHANGE_SIM_PIN |-> "changeIccPinForApp",
   CHANGE_SIM_PIN2 |-> "changeIccPin2ForApp",
   ENTER_NETWORK_DEPERSONALIZATION |-> "supplyNetworkDepersonalization",
   GET_CURRENT_CALLS |-> "getCurrentCalls", DIAL |-> "dial",
   GET_IMSI |-> "getIMSIForApp", HANGUP |-> "hangupConnection",
   HANGUP_WAITING_OR_BACKGROUND |-> "hangupWaitingOrBackground",
   HANGUP_FOREGROUND_RESUME_BACKGROUND |-> "hangupForegroundResumeBackground",
   SWITCH_WAITING_OR_HOLDING_AND_ACTIVE |-> "switchWaitingOrHoldingAndActive",
   CONFERENCE |-> "conference", UDUB |-> "rejectCall",
   LAST_CALL_FAIL_CAUSE |-> "getLastCallFailCause",
   SIGNAL_STRENGTH |-> "getSignalStrength",
   VOICE_REGISTRATION_STATE |-> "getVoiceRegistrationState",
   DATA_REGISTRATION_STATE |-> "getDataRegistrationState",
   OPERATOR |-> "getOperator", RADIO_POWER |-> "setRadioPower",
   DTMF |-> "sendDtmf", SEND_SMS |-> "sendSms",
   SEND_SMS_EXPECT_MORE |-> "sendSMSExpectMore",
   SETUP_DATA_CALL |-> "setupDataCall", SIM_IO |-> "iccIOForApp",
   SEND_USSD |-> "sendUssd", CANCEL_USSD |-> "cancelPendingUssd",
   GET_CLIR |-> "getClir", SET_CLIR |-> "setClir",
   QUERY_CALL_FORWARD_STATUS |-> "getCallForwardStatus",
   SET_CALL_FORWARD |-> "setCallForward",
   QUERY_CALL_WAITING |-> "getCallWaiting",
   SET_CALL_WAITING |-> "setCallWaiting",
   SMS_ACKNOWLEDGE |-> "acknowledgeLastIncomingGsmSms",
   GET_IMEI |-> "getDeviceIdentity", ANSWER |-> "acceptCall",
   DEACTIVATE_DATA_CALL |-> "deactivateDataCall",
   QUERY_FACILITY_LOCK |-> "getFacilityLockForApp",
   SET_FACILITY_LOCK |-> "setFacilityLockForApp",
   CHANGE_BARRING_PASSWORD |-> "setBarringPassword",
   QUERY_NETWORK_SELECTION_MODE |-> "getNetworkSelectionMode",
   SET_NETWORK_SELECTION_AUTOMATIC |-> "setNetworkSelectionModeAutomatic",
   SET_NETWORK_SELECTION_MANUAL |-> "setNetworkSelectionModeManual"]

SettingsCommands == [
   QUERY_AVAILABLE_NETWORKS |-> "getAvailableNetworks",
   DTMF_START |-> "startDtmf", DTMF_STOP |-> "stopDtmf",
   BASEBAND_VERSION |-> "getBasebandVersion",
   SEPARATE_CONNECTION |-> "separateConnection", SET_MUTE |-> "setMute",
   GET_MUTE |-> "getMute", QUERY_CLIP |-> "getClip",
   DATA_CALL_LIST |-> "getDataCallList", SCREEN_STATE |-> "sendDeviceState",
   SET_SUPP_SVC_NOTIFICATION |-> "setSuppServiceNotifications",
   WRITE_SMS_TO_SIM |-> "writeSmsToSim",
   DELETE_SMS_ON_SIM |-> "deleteSmsOnSim", SET_BAND_MODE |-> "setBandMode",
   QUERY_AVAILABLE_BAND_MODE |-> "getAvailableBandModes",
   STK_SEND_ENVELOPE_COMMAND |-> "sendEnvelope",
   STK_SEND_TERMINAL_RESPONSE |-> "sendTerminalResponseToSim",
   STK_HANDLE_CALL_SETUP_REQUESTED_FROM_SIM |->
     "handleStkCallSetupRequestFromSim",
   EXPLICIT_CALL_TRANSFER |-> "explicitCallTransfer",
   SET_PREFERRED_NETWORK_TYPE |-> "setPreferredNetworkType",
   GET_PREFERRED_NETWORK_TYPE |-> "getPreferredNetworkType",
   GET_NEIGHBORING_CELL_IDS |-> "getNeighboringCids",
   SET_LOCATION_UPDATES |-> "setLocationUpdates",
   CDMA_SET_SUBSCRIPTION_SOURCE |-> "setCdmaSubscriptionSource",
   CDMA_SET_ROAMING_PREFERENCE |-> "setCdmaRoamingPreference",
   CDMA_QUERY_ROAMING_PREFERENCE |-> "getCdmaRoamingPreference",
   SET_TTY_MODE |-> "setTTYMode", QUERY_TTY_MODE |-> "getTTYMode",
   CDMA_SET_PREFERRED_VOICE_PRIVACY_MODE |-> "setPreferredVoicePrivacy",
   CDMA_QUERY_PREFERRED_VOICE_PRIVACY_MODE |-> "getPreferredVoicePrivacy",
   CDMA_FLASH |-> "sendCDMAFeatureCode", CDMA_BURST_DTMF |-> "sendBurstDtmf",
   CDMA_SEND_SMS |-> "sendCdmaSms",
   CDMA_SMS_ACKNOWLEDGE |-> "acknowledgeLastIncomingCdmaSms",
   GSM_GET_BROADCAST_SMS_CONFIG |-> "getGsmBroadcastConfig",
   GSM_SET_BROADCAST_SMS_CONFIG |-> "setGsmBroadcastConfig",
   GSM_SMS_BROADCAST_ACTIVATION |-> "setGsmBroadcastActivation",
   CDMA_GET_BROADCAST_SMS_CONFIG |-> "getCdmaBroadcastConfig",
   CDMA_SET_BROADCAST_SMS_CONFIG |-> "setCdmaBroadcastConfig",
   CDMA_SMS_BROADCAST_ACTIVATION |-> "setCdmaBroadcastActivation",
   CDMA_SUBSCRIPTION |-> "getCDMASubscription",
   CDMA_WRITE_SMS_TO_RUIM |-> "writeSmsToRuim",
   CDMA_DELETE_SMS_ON_RUIM |-> "deleteSmsOnRuim",
   DEVICE_IDENTITY |-> "getDeviceIdentity"]

LaterCommands == [
   EXIT_EMERGENCY_CALLBACK_MODE |-> "exitEmergencyCallbackMode",
   GET_SMSC_ADDRESS |-> "getSmscAddress",
   SET_SMSC_ADDRESS |-> "setSmscAddress",
   REPORT_SMS_MEMORY_STATUS |-> "reportSmsMemoryStatus",
   REPORT_STK_SERVICE_IS_RUNNING |-> "reportStkServiceIsRunning",
   CDMA_GET_SUBSCRIPTION_SOURCE |-> "getCdmaSubscriptionSource",
   ISIM_AUTHENTICATION |-> "requestIsimAuthentication",
   ACKNOWLEDGE_INCOMING_GSM_SMS_WITH_PDU |-> "acknowledgeIncomingGsmSmsWithPdu",
   STK_SEND_ENVELOPE_WITH_STATUS |-> "sendEnvelopeWithStatus",
   VOICE_RADIO_TECH |-> "getVoiceRadioTechnology",
   GET_CELL_INFO_LIST |-> "getCellInfoList",
   SET_UNSOL_CELL_INFO_LIST_RATE |-> "setCellInfoListRate",
   SET_INITIAL_ATTACH_APN |-> "setInitialAttachApn",
   IMS_REGISTRATION_STATE |-> "getImsRegistrationState",
   IMS_SEND_SMS |-> "sendImsSms",
   SIM_TRANSMIT_APDU_BASIC |-> "iccTransmitApduBasicChannel",
   SIM_OPEN_CHANNEL |-> "iccOpenLogicalChannel",
   SIM_CLOSE_CHANNEL |-> "iccCloseLogicalChannel",
   SIM_TRANSMIT_APDU_CHANNEL |-> "iccTransmitApduLogicalChannel",
   NV_READ_ITEM |-> "nvReadItem", NV_WRITE_ITEM |-> "nvWriteItem",
   NV_WRITE_CDMA_PRL |-> "nvWriteCdmaPrl",
   NV_RESET_CONFIG |-> "nvResetConfig",
   SET_UICC_SUBSCRIPTION |-> "setUiccSubscription",
   ALLOW_DATA |-> "setDataAllowed",
   GET_HARDWARE_CONFIG |-> "getHardwareConfig",
   SIM_AUTHENTICATION |-> "requestIccSimAuthentication",
   SET_DATA_PROFILE |-> "setDataProfile", SHUTDOWN |-> "requestShutdown",
   GET_RADIO_CAPABILITY |-> "getRadioCapability",
   SET_RADIO_CAPABILITY |-> "setRadioCapability",
   START_LCE |-> "startLceService", STOP_LCE |-> "stopLceService",
   PULL_LCEDATA |-> "pullLceData",
   GET_ACTIVITY_INFO |-> "getModemActivityInfo",
   SET_CARRIER_RESTRICTIONS |-> "setAllowedCarriers",
   GET_CARRIER_RESTRICTIONS |-> "getAllowedCarriers",
   SEND_DEVICE_STATE |-> "sendDeviceState",
   SET_UNSOLICITED_RESPONSE_FILTER |-> "setIndicationFilter",
   SET_SIM_CARD_POWER |-> "setSimCardPower",
   SET_CARRIER_INFO_IMSI_ENCRYPTION |-> "setCarrierInfoForImsiEncryption",
   START_NETWORK_SCAN |-> "startNetworkScan",
   STOP_NETWORK_SCAN |-> "stopNetworkScan",
   START_KEEPALIVE |-> "startKeepalive", STOP_KEEPALIVE |-> "stopKeepalive"]

Commands ==
  Joined({SimAndNetworkCommands, SettingsCommands, LaterCommands})

-----------------------------------------------------------------------------
(* Response functions: name |-> what it makes of the payload.               *)

CardAnswers == [
   getIccCardStatus |-> "struct", supplyIccPinForApp |-> "intOrEmpty",
   supplyIccPukForApp |-> "intOrEmpty", supplyIccPin2ForApp |-> "intOrEmpty"]

PinChangeAnswers == [
   supplyIccPuk2ForApp |-> "intOrEmpty", changeIccPinForApp |-> "intOrEmpty",
   changeIccPin2ForApp |-> "intOrEmpty",
   supplyNetworkDepersonalization |-> "intOrEmpty", getCurrentCalls |-> "list"]

CallAnswers == [
   dial |-> "plain", getIMSIForApp |-> "text", hangupConnection |-> "plain",
   hangupWaitingOrBackground |-> "plain",
   hangupForegroundResumeBackground |-> "plain",
   switchWaitingOrHoldingAndActive |-> "plain", conference |-> "plain"]

SignalAnswers == [
   rejectCall |-> "plain", getLastCallFailCause |-> "either",
   getSignalStrength |-> "atLeast"]

RegistrationAnswers == [
   getVoiceRegistrationState |-> "registration",
   getDataRegistrationState |-> "registration"]

OperatorAndSmsAnswers == [
   getOperator |-> "counted", setRadioPower |-> "plain", sendDtmf |-> "plain",
   sendSms |-> "struct", sendSMSExpectMore |-> "struct"]

DataCallAndUssdAnswers == [
   setupDataCall |-> "dataCall", iccIOForApp |-> "struct",
   sendUssd |-> "plain", cancelPendingUssd |-> "plain"]

ForwardingAnswers == [
   getClir |-> "counted", setClir |-> "plain",
   getCallForwardStatus |-> "list", setCallForward |-> "plain",
   getCallWaiting |-> "counted"]

LockAnswers == [
   setCallWaiting |-> "plain", acknowledgeLastIncomingGsmSms |-> "plain",
   acceptCall |-> "plain", deactivateDataCall |-> "plain",
   getFacilityLockForApp |-> "int", setFacilityLockForApp |-> "intOrEmpty",
   setBarringPassword |-> "plain"]

NetworkSelectionAnswers == [
   getNetworkSelectionMode |-> "struct",
   setNetworkSelectionModeAutomatic |-> "plain",
   setNetworkSelectionModeManual |-> "plain", getAvailableNetworks |-> "list"]

ToneAndMuteAnswers == [
   startDtmf |-> "plain", stopDtmf |-> "plain", getBasebandVersion |-> "text",
   separateConnection |-> "plain", setMute |-> "plain", getMute |-> "struct",
   getClip |-> "int"]

BandAndSimSmsAnswers == [
   getDataCallList |-> "list", setSuppServiceNotifications |-> "plain",
   deleteSmsOnSim |-> "plain", setBandMode |-> "plain",
   writeSmsToSim |-> "int", getAvailableBandModes |-> "list"]

ToolkitAnswers == [
   sendEnvelope |-> "text", sendTerminalResponseToSim |-> "plain",
   handleStkCallSetupRequestFromSim |-> "plain",
   explicitCallTransfer |-> "plain", setPreferredNetworkType |-> "plain",
   getPreferredNetworkType |-> "int"]

CellAndRoamingAnswers == [
   getNeighboringCids |-> "list", setLocationUpdates |-> "plain",
   setCdmaSubscriptionSource |-> "plain",
   setCdmaRoamingPreference |-> "plain", getCdmaRoamingPreference |-> "int",
   setTTYMode |-> "plain"]

TtyAndPrivacyAnswers == [
   getTTYMode |-> "int", setPreferredVoicePrivacy |-> "plain",
   getPreferredVoicePrivacy |-> "counted", sendCDMAFeatureCode |-> "plain",
   sendBurstDtmf |-> "plain", sendCdmaSms |-> "struct"]

BroadcastAnswers == [
   acknowledgeLastIncomingCdmaSms |-> "plain",
   getGsmBroadcastConfig |-> "list", setGsmBroadcastConfig |-> "plain",
   setGsmBroadcastActivation |-> "plain", getCdmaBroadcastConfig |-> "list"]

RuimAnswers == [
   setCdmaBroadcastConfig |-> "plain", setCdmaBroadcastActivation |-> "plain",
   getCDMASubscription |-> "counted", writeSmsToRuim |-> "int",
   deleteSmsOnRuim |-> "plain"]

IdentityAnswers == [
   getDeviceIdentity |-> "identity", exitEmergencyCallbackMode |-> "plain",
   getSmscAddress |-> "text", setSmscAddress |-> "plain"]

MemoryAndAuthAnswers == [
   reportSmsMemoryStatus |-> "plain", reportStkServiceIsRunning |-> "plain",
   getCdmaSubscriptionSource |-> "int", requestIsimAuthentication |-> "text",
   acknowledgeIncomingGsmSmsWithPdu |-> "plain",
   sendEnvelopeWithStatus |-> "struct"]

CellInfoAndImsAnswers == [
   getVoiceRadioTechnology |-> "int", getCellInfoList |-> "list",
   setCellInfoListRate |-> "plain", setInitialAttachApn |-> "plain",
   getImsRegistrationState |-> "counted", sendImsSms |-> "struct"]

ChannelAnswers == [
   iccTransmitApduBasicChannel |-> "struct",
   iccOpenLogicalChannel |-> "channel", iccCloseLogicalChannel |-> "plain",
   iccTransmitApduLogicalChannel |-> "struct", nvReadItem |-> "text",
   nvWriteItem |-> "plain"]

NvAndHardwareAnswers == [
   nvWriteCdmaPrl |-> "plain", nvResetConfig |-> "plain",
   setUiccSubscription |-> "plain", setDataAllowed |-> "plain",
   getHardwareConfig |-> "list", requestIccSimAuthentication |-> "struct"]

CapabilityAnswers == [
   setDataProfile |-> "plain", requestShutdown |-> "plain",
   getRadioCapability |-> "struct", setRadioCapability |-> "struct",
   startLceService |-> "struct"]

LceAnswers == [
   stopLceService |-> "struct", pullLceData |-> "struct",
   getModemActivityInfo |-> "struct", setAllowedCarriers |-> "int"]

CarrierAnswers == [
   getAllowedCarriers |-> "carriers", sendDeviceState |-> "plain",
   setCarrierInfoForImsiEncryption |-> "plain",
   setIndicationFilter |-> "plain", setSimCardPower |-> "plain"]

ScanAndKeepaliveAnswers == [
   startNetworkScan |-> "plain", stopNetworkScan |-> "plain",
   startKeepalive |-> "struct", stopKeepalive |-> "plain"]

Answers ==
  Joined({CardAnswers, PinChangeAnswers, CallAnswers, SignalAnswers,
          RegistrationAnswers, OperatorAndSmsAnswers,
          DataCallAndUssdAnswers, ForwardingAnswers, LockAnswers,
          NetworkSelectionAnswers, ToneAndMuteAnswers, BandAndSimSmsAnswers,
          ToolkitAnswers, CellAndRoamingAnswers, TtyAndPrivacyAnswers,
          BroadcastAnswers, RuimAnswers, IdentityAnswers,
          MemoryAndAuthAnswers, CellInfoAndImsAnswers, ChannelAnswers,
          NvAndHardwareAnswers, CapabilityAnswers, LceAnswers,
          CarrierAnswers, ScanAndKeepaliveAnswers})

(* Functions that answer a client of the 1.1 interface only.                *)
Only11 == {"startNetworkScan", "stopNetworkScan", "startKeepalive",
           "stopKeepalive", "setCarrierInfoForImsiEncryption"}

(* The method of the client's callback that a response function calls.      *)
TellsBy(f, v11) ==
  CASE f = "hangupForegroundResumeBackground" -> "hangupWaitingOrBackground"
    [] f = "setSimCardPower" /\ v11 -> "setSimCardPower_1_1"
    [] OTHER -> f

-----------------------------------------------------------------------------
(* Indication functions: name |-> what it makes of the payload.             *)

StateAndSmsNews == [
   radioStateChanged |-> "bare", callStateChanged |-> "bare",
   networkStateChanged |-> "bare", newSms |-> "hex",
   newSmsStatusReport |-> "hex"]

UssdAndTimeNews == [
   newSmsOnSim |-> "struct", onUssd |-> "struct", nitzTimeReceived |-> "text"]

SignalAndDataNews == [
   currentSignalStrength |-> "atLeast", dataCallListChanged |-> "emptyOrList"]

ToolkitNews == [
   suppSvcNotify |-> "struct", stkSessionEnd |-> "bare",
   stkProactiveCommand |-> "text", stkEventNotify |-> "text",
   stkCallSetup |-> "struct", simSmsStorageFull |-> "bare"]

RefreshAndRingNews == [
   simRefresh |-> "struct", callRing |-> "ring", simStatusChanged |-> "bare",
   cdmaNewSms |-> "struct"]

CdmaNews == [
   newBroadcastSms |-> "text", cdmaRuimSmsStorageFull |-> "bare",
   restrictedStateChanged |-> "struct", enterEmergencyCallbackMode |-> "bare",
   cdmaCallWaiting |-> "struct", cdmaOtaProvisionStatus |-> "struct"]

CdmaRecordNews == [
   cdmaInfoRec |-> "records"]

ToneAndTechNews == [
   indicateRingbackTone |-> "struct", resendIncallMute |-> "bare",
   cdmaSubscriptionSourceChanged |-> "struct", cdmaPrlChanged |-> "struct",
   exitEmergencyCallbackMode |-> "bare", rilConnected |-> "bare",
   voiceRadioTechChanged |-> "struct"]

CellAndImsNews == [
   cellInfoList |-> "emptyOrList", imsNetworkStateChanged |-> "bare",
   subscriptionStatusChanged |-> "struct", srvccStateNotify |-> "struct",
   hardwareConfigChanged |-> "emptyOrList"]

ServiceNews == [
   radioCapabilityIndication |-> "struct",
   onSupplementaryServiceIndication |-> "struct",
   stkCallControlAlphaNotify |-> "text"]

LinkAndScanNews == [
   lceData |-> "struct", pcoData |-> "struct", modemReset |-> "text",
   networkScanResult |-> "unsized", carrierInfoForImsiEncryption |-> "text"]

KeepaliveNews == [
   keepaliveStatus |-> "struct"]

Indications ==
  Joined({StateAndSmsNews, UssdAndTimeNews, SignalAndDataNews, ToolkitNews,
          RefreshAndRingNews, CdmaNews, CdmaRecordNews, ToneAndTechNews,
          CellAndImsNews, ServiceNews, LinkAndScanNews, KeepaliveNews})

(* Indications that test the client's 1.1 callback, and those that use it.  *)
Tests11 == {"networkScanResult", "carrierInfoForImsiEncryption"}
Uses11 == Tests11 \cup {"keepaliveStatus"}
=============================================================================
