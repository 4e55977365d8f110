------------------------------ MODULE EdgeNode ------------------------------
(***************************************************************************)
(* The edge node from power-on (main.cpp, wifi_manager.cpp and the         *)
(* constructor and event handler of mqtt_manager.cpp): app_main and the    *)
(* default event loop's task share the bits of WifiManager; app_main and   *)
(* the MQTT client's task share is_connected_.  ESP_ERROR_CHECK of an      *)
(* error resets the chip; so does a loss of power.  The flash survives.    *)
(*                                                                         *)
(* External, as this code uses them: NVS, the Wi-Fi driver, which reports  *)
(* through the event loop in order, the access point, and the MQTT client. *)
(***************************************************************************)
EXTENDS Naturals, Sequences, SequencesExt, FiniteSetsExt

CONSTANTS SsidLength, PasswordLength, \* of what the access point uses
          FlashStates,                \* the flash a node may be delivered with
          MaxReadings, MaxDrops, MaxResets \* bounds

VARIABLES flash,     \* the NVS partition
          at,        \* where app_main is
          bits,      \* wifi_event_group_
          sta,       \* the driver: "off", "idle", "connecting", "address"
          events,    \* posted to the event loop, not yet handled
          config,    \* the lengths of ssid and password in wifi_config
          mqtt,      \* the client: "off", "offline", "online"
          notices,   \* events of the client's task, not yet handled
          is_connected, counter,
          drops, resets  \* bounds

nodeVars == <<flash, at, bits, sta, events, config, mqtt, notices, is_connected,
              counter, drops, resets>>
wifiVars == <<bits, sta, events, config>>
mqttVars == <<mqtt, notices, is_connected>>
boundVars == <<drops, resets>>

NodeInit == /\ flash \in FlashStates
            /\ at = "boot" /\ bits = {} /\ sta = "off" /\ events = <<>> /\ config = <<0, 0>>
            /\ mqtt = "off" /\ notices = <<>> /\ is_connected = FALSE
            /\ counter = 0 /\ drops = 0 /\ resets = 0

(* The chip restarts: everything but the flash is as at power-on.          *)
Restarted == /\ at' = "boot" /\ bits' = {} /\ sta' = "off" /\ events' = <<>> /\ config' = <<0, 0>>
             /\ mqtt' = "off" /\ notices' = <<>> /\ is_connected' = FALSE
             /\ counter' = 0

PowerLoss == /\ resets < MaxResets /\ resets' = resets + 1
             /\ Restarted /\ UNCHANGED <<flash, drops>>

-----------------------------------------------------------------------------
(* WifiManager's constructor                                               *)

(* Mutant: any error of nvs_flash_init is fatal.                           *)
nvs_flash_initNoErase == /\ at = "boot"
                         /\ IF flash = "ready"
                            THEN at' = "netif" /\ UNCHANGED <<wifiVars, mqttVars, counter>>
                            ELSE Restarted
                         /\ UNCHANGED <<flash, boundVars>>

(* nvs_flash_init: a partition without free pages or of another version    *)
(* is to be erased; an erased one is formatted.                            *)
nvs_flash_init == /\ at \in {"boot", "retry"}
                  /\ IF flash \in {"ready", "erased"}
                     THEN flash' = "ready" /\ at' = "netif"
                     ELSE flash' = flash /\ at' = "erase"
                  /\ UNCHANGED <<wifiVars, mqttVars, counter, boundVars>>

nvs_flash_erase == /\ at = "erase" /\ flash' = "erased" /\ at' = "retry"
                   /\ UNCHANGED <<wifiVars, mqttVars, counter, boundVars>>

(* The network interface, the event loop, the driver and the handlers;     *)
(* then MqttManager's constructor, which only makes the client.            *)
Construct == /\ at = "netif" /\ at' = "connect"
             /\ UNCHANGED <<flash, wifiVars, mqttVars, counter, boundVars>>

(* WifiManager::connect up to the wait: what fits of ssid and password,    *)
(* with room for a terminator, and esp_wifi_start.                         *)
connect == /\ at = "connect" /\ at' = "wait"
           /\ config' = <<Min({SsidLength, 32 - 1}), Min({PasswordLength, 64 - 1})>>
           /\ sta' = "idle" /\ events' = Append(events, "STA_START")
           /\ UNCHANGED <<flash, bits, mqttVars, counter, boundVars>>

(* xEventGroupWaitBits returns; app_main goes on when it is CONNECTED_BIT. *)
connected == /\ at = "wait" /\ bits # {}
             /\ at' = IF "CONNECTED" \in bits THEN "start" ELSE "returned"
             /\ UNCHANGED <<flash, wifiVars, mqttVars, counter, boundVars>>

(* Mutant: a lost connection is only reported.                             *)
event_handlerNoRetry ==
    /\ events # <<>> /\ events' = Tail(events)
    /\ sta' = IF Head(events) = "STA_START" THEN "connecting" ELSE sta
    /\ bits' = IF Head(events) = "GOT_IP" THEN bits \cup {"CONNECTED"} ELSE bits
    /\ UNCHANGED <<flash, at, config, mqttVars, counter, boundVars>>

(* WifiManager::event_handler, in the event loop's task.                   *)
event_handler ==
    /\ events # <<>> /\ events' = Tail(events)
    /\ sta' = IF Head(events) \in {"STA_START", "STA_DISCONNECTED"} THEN "connecting" ELSE sta
    /\ bits' = IF Head(events) = "GOT_IP" THEN bits \cup {"CONNECTED"} ELSE bits
    /\ UNCHANGED <<flash, at, config, mqttVars, counter, boundVars>>

-----------------------------------------------------------------------------
(* The driver and the access point                                         *)
Associate == /\ sta = "connecting" /\ config = <<SsidLength, PasswordLength>>
             /\ sta' = "address" /\ events' = Append(events, "GOT_IP")
             /\ UNCHANGED <<flash, at, bits, config, mqttVars, counter, boundVars>>

(* The attempt fails, or an established connection is lost: the client     *)
(* notices the latter.                                                     *)
Refuse == /\ sta = "connecting" /\ (config = <<SsidLength, PasswordLength>> => drops < MaxDrops)
          /\ drops' = Min({drops + 1, MaxDrops})
          /\ sta' = "idle" /\ events' = Append(events, "STA_DISCONNECTED")
          /\ UNCHANGED <<flash, at, bits, config, mqttVars, counter, resets>>

Lose == /\ sta = "address" /\ drops < MaxDrops /\ drops' = drops + 1
        /\ sta' = "idle" /\ events' = Append(events, "STA_DISCONNECTED")
        /\ UNCHANGED <<flash, at, bits, config, mqttVars, counter, resets>>

-----------------------------------------------------------------------------
(* app_main and MqttManager                                                *)
start == /\ at = "start" /\ at' = "loop" /\ mqtt' = "offline"
         /\ UNCHANGED <<flash, wifiVars, notices, is_connected, counter, boundVars>>

(* esp_mqtt_task connects by itself while there is an address, and finds   *)
(* out when there is none.                                                 *)
ClientOnline == /\ mqtt = "offline" /\ sta = "address"
                /\ mqtt' = "online" /\ notices' = Append(notices, "CONNECTED")
                /\ UNCHANGED <<flash, at, wifiVars, is_connected, counter, boundVars>>

(* esp_mqtt_abort_connection: the task ends the connection and reports it. *)
Disconnected == /\ mqtt = "online"
                /\ mqtt' = "offline" /\ notices' = Append(notices, "DISCONNECTED")
                /\ UNCHANGED <<flash, at, wifiVars, is_connected, counter, resets>>

(* A read, a write or a ping without an answer shows that the radio is     *)
(* gone; or the broker has closed, or is silent, with the radio there.     *)
ClientOffline == sta # "address" /\ Disconnected /\ UNCHANGED drops
ClientDropped == /\ sta = "address" /\ drops < MaxDrops /\ drops' = drops + 1
                 /\ Disconnected

(* MqttManager::mqtt_event_handler.                                        *)
mqtt_event_handler ==
    /\ notices # <<>> /\ notices' = Tail(notices)
    /\ is_connected' = (Head(notices) = "CONNECTED")
    /\ UNCHANGED <<flash, at, wifiVars, mqtt, counter, boundVars>>

(* One pass of the loop: the reading is counted, and published if the flag *)
(* says so (Pipeline follows it from there).                               *)
read ==
    /\ at = "loop" /\ counter < MaxReadings
    /\ counter' = counter + 1
    /\ UNCHANGED <<flash, at, wifiVars, mqttVars, boundVars>>

NodeNext == \/ PowerLoss
            \/ nvs_flash_init \/ nvs_flash_erase \/ Construct \/ connect \/ connected
            \/ event_handler \/ Associate \/ Refuse \/ Lose
            \/ start \/ ClientOnline \/ ClientOffline \/ ClientDropped
            \/ mqtt_event_handler \/ read

NodeSpec == NodeInit /\ [][NodeNext]_nodeVars

(* The tasks are scheduled, and an access point that is there lets the     *)
(* node in: it refuses and drops it, or the broker does, MaxDrops times at *)
(* most.                                                                   *)
NodeFairness == /\ WF_nodeVars(nvs_flash_init) /\ WF_nodeVars(nvs_flash_erase)
                /\ WF_nodeVars(Construct) /\ WF_nodeVars(connect) /\ WF_nodeVars(connected)
                /\ WF_nodeVars(event_handler) /\ WF_nodeVars(Associate)
                /\ WF_nodeVars(start) /\ WF_nodeVars(read)
                /\ WF_nodeVars(ClientOnline) /\ WF_nodeVars(ClientOffline)
                /\ WF_nodeVars(mqtt_event_handler)

FairNodeSpec == NodeSpec /\ NodeFairness

-----------------------------------------------------------------------------
(* Properties                                                              *)

(* Whatever state the flash was delivered in, wherever a reset cuts the    *)
(* recovery short and however often the access point refuses, the node     *)
(* ends up in its loop, with is_connected_ what the client's connection is *)
(* whenever the client has nothing more to report, whoever ended it.       *)
NodeComesUp == <>[](at = "loop" /\ (notices = <<>> => is_connected = (mqtt = "online")))

(* A node that has lost the access point joins it again without a restart. *)
RadioRecovers == [](sta = "idle" => <>(sta = "address"))
=============================================================================
