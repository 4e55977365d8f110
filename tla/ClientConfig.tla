---------------------------- MODULE ClientConfig ----------------------------
(***************************************************************************)
(* The configuration of the MQTT client (mqtt_client.c): made by           *)
(* esp_mqtt_client_init, changed by esp_mqtt_set_config and                *)
(* esp_mqtt_client_set_uri at any time, read by the client's task at every *)
(* connection attempt.  Each call holds the client's lock throughout, so   *)
(* each is one step; a call that fails destroys the configuration.         *)
(*                                                                         *)
(* Absent and 0 stand for a field the application leaves out; a URI is the *)
(* record of its parsed parts (external: http_parser).                     *)
(***************************************************************************)
EXTENDS Naturals, Sequences, FiniteSets

CONSTANTS Configs,        \* esp_mqtt_client_config_t the application passes
          Uris,           \* what it passes to esp_mqtt_client_set_uri
          Malformed,      \* whether a URI may not parse
          OutOfMemory,    \* of {"buffers", "strings"}: allocations that may fail
          Unsupported     \* TLS options this build does not have

VARIABLES client,    \* is there a client?
          config,    \* <<>> when NULL
          outcome,   \* of the last call
          given,     \* history: what the application's calls gave, field by field
          first,     \* history: the scheme first dialled with this configuration
          dialled    \* the connection attempt made last, if no call came after it, with
                     \* given and first as they were then

configVars == <<client, config, outcome, given, first, dialled>>

(* A text that is left out.                                                *)
Absent == ""

MQTT_KEEPALIVE_TICK == 120
Schemes == {"mqtt", "mqtts", "ws", "wss"}
Secured == {"mqtts", "wss"}
DefaultPort(scheme) == [mqtt |-> 1883, mqtts |-> 8883, ws |-> 80, wss |-> 443][scheme]

(* The TLS options in the order in which they are applied.                 *)
TlsOptions == <<"ca", "ciphersuites", "psk", "alpn", "skip_common_name", "common_name",
                "secure_element", "ds_data", "ecdsa", "client_cert", "client_key", "key_password">>

UriType == [scheme : STRING, host : STRING, port : Nat, path : STRING, username : STRING,
            password : STRING]
ConfigType == [uri : Seq(UriType), hostname : STRING, transport : STRING, port : Nat, path : STRING,
               username : STRING, password : STRING, client_id : STRING, keepalive : Nat,
               disable_keepalive : BOOLEAN, tls : SUBSET {TlsOptions[i] : i \in DOMAIN TlsOptions}]

ASSUME ConfigAssumption == Configs \subseteq ConfigType /\ Uris \subseteq UriType

(* calloc of the configuration: everything empty.                          *)
Blank == [uri |-> <<>>, scheme |-> Absent, host |-> Absent, port |-> 0, path |-> Absent,
          username |-> Absent, password |-> Absent, client_id |-> Absent, keepalive |-> 0, tls |-> {}]

(* esp_mqtt_set_if_config.                                                 *)
set_if_config(new, old) == IF new = Absent THEN old ELSE new

(* esp_mqtt_client_set_uri of a URI that parses.                           *)
set_uri(c, u) == [c EXCEPT !.scheme = u.scheme, !.host = u.host, !.path = u.path,
                           !.port = IF u.port # 0 THEN u.port ELSE @,
                           !.username = IF u.username # Absent THEN u.username ELSE @,
                           !.password = IF u.password # Absent THEN u.password ELSE @]

(* TLS options that stay when a new configuration leaves them out: the     *)
(* application's other pointers are taken over, null or not.               *)
Kept == {"alpn", "key_password"}

tls_configured(old, new) == new \cup (old \cap Kept)

(* The fields of esp_mqtt_set_config that are given one by one.            *)
fields(c, new) ==
    LET ticks == IF new.keepalive # 0 THEN new.keepalive ELSE c.keepalive
    IN  [c EXCEPT !.host = set_if_config(new.hostname, @), !.path = set_if_config(new.path, @),
                  !.username = set_if_config(new.username, @),
                  !.password = set_if_config(new.password, @),
                  !.client_id = IF new.client_id # Absent THEN new.client_id
                                ELSE IF @ = Absent THEN "generated" ELSE @,
                  !.port = IF new.port # 0 THEN new.port ELSE @,
                  !.uri = IF new.uri # <<>> THEN new.uri ELSE @,
                  !.keepalive = IF new.disable_keepalive THEN 0
                                ELSE IF ticks = 0 THEN MQTT_KEEPALIVE_TICK ELSE ticks,
                  !.tls = tls_configured(@, new.tls),
                  !.scheme = IF new.transport # Absent THEN new.transport ELSE @]

(* Mutant: the elements given separately override the URI.                 *)
configuredUriFirst(c, new) ==
    fields(IF new.uri = <<>> THEN c ELSE set_uri(c, new.uri[1]), new)

(* "Set uri at the end of config to override separately configured uri     *)
(* elements".                                                              *)
configured(c, new) ==
    IF new.uri = <<>> THEN fields(c, new) ELSE set_uri(fields(c, new), new.uri[1])

(* esp_mqtt_check_cfg_conflict.                                            *)
conflict(c, new) == \/ c.scheme \notin Secured /\ c.tls \cap {"ca", "client_cert", "psk", "alpn"} # {}
                    \/ c.uri # <<>> /\ new.transport # Absent

(* What a call gives, said without the client: for each field the value,   *)
(* or <<>> when it leaves the field out.  The parts of a URI come before    *)
(* what is given separately; one without a path asks for none.             *)
Named == {"scheme", "host", "port", "path", "username", "password", "client_id", "keepalive"}
NothingGiven == [f \in Named \cup {"tls"} |-> IF f = "tls" THEN {} ELSE <<>>]

Unless(nothing, v) == IF v = nothing THEN <<>> ELSE <<v>>

SaysUri(u) == [scheme |-> <<u.scheme>>, host |-> <<u.host>>, path |-> <<u.path>>,
               port |-> Unless(0, u.port), username |-> Unless(Absent, u.username),
               password |-> Unless(Absent, u.password), client_id |-> <<>>, keepalive |-> <<>>]

SaysApart(new) ==
    [scheme |-> Unless(Absent, new.transport), host |-> Unless(Absent, new.hostname),
     path |-> Unless(Absent, new.path), port |-> Unless(0, new.port),
     username |-> Unless(Absent, new.username), password |-> Unless(Absent, new.password),
     client_id |-> Unless(Absent, new.client_id),
     keepalive |-> IF new.disable_keepalive THEN <<0>> ELSE Unless(0, new.keepalive)]

(* What has been given when, of said and held, said came last.             *)
Latest(said, held) == [f \in Named |-> IF said[f] # <<>> THEN said[f] ELSE held[f]]

Says(new) == IF new.uri = <<>> THEN SaysApart(new) ELSE Latest(SaysUri(new.uri[1]), SaysApart(new))

(* Given so far: a keepalive switched off is not remembered, and the TLS   *)
(* options are those of the last configuration.                            *)
GivenAfter(new) ==
    LET held == [given EXCEPT !.keepalive = IF @ = <<0>> THEN <<>> ELSE @]
        now == Latest(Says(new), held)
    IN  [f \in Named \cup {"tls"} |-> IF f = "tls" THEN new.tls ELSE now[f]]

GivenAfterUri(u) ==
    LET now == Latest(SaysUri(u), given)
    IN  [f \in Named \cup {"tls"} |-> IF f = "tls" THEN given.tls ELSE now[f]]

-----------------------------------------------------------------------------
ConfigInit == /\ client = FALSE /\ config = <<>> /\ outcome = "none"
              /\ given = NothingGiven /\ first = Absent /\ dialled = <<>>

Current == IF config = <<>> THEN Blank ELSE config[1]

(* esp_mqtt_set_config goes through; the conflict is only reported.        *)
Succeeds(new) == /\ config' = <<configured(Current, new)>>
                 /\ given' = GivenAfter(new) /\ first' = first
                 /\ outcome' = IF conflict(configured(Current, new), new) THEN "conflict" ELSE "ok"

(* What it can fail with.  The two buffers are allocated before err is set *)
(* to ESP_ERR_NO_MEM.                                                      *)
Failures(new) == (IF "buffers" \in OutOfMemory THEN {"ok"} ELSE {})
                 \cup (IF "strings" \in OutOfMemory THEN {"no memory"} ELSE {})
                 \cup (IF Malformed /\ new.uri # <<>> THEN {"fail"} ELSE {})

(* esp_mqtt_destroy_config: nothing that was given is left.                *)
Forgotten == config' = <<>> /\ given' = NothingGiven /\ first' = Absent

(* A call that fails destroys the whole configuration.                     *)
Fails(new) == /\ Forgotten
              /\ \E err \in Failures(new) : outcome' = err

set_config(new) == /\ client
                   /\ Succeeds(new) \/ Fails(new)
                   /\ dialled' = <<>> /\ UNCHANGED client

(* esp_mqtt_client_init: any result but ESP_OK, a conflict too, ends in    *)
(* esp_mqtt_client_destroy and no client.                                  *)
init(new) == /\ ~client
             /\ \/ Fails(new)
                \/ IF conflict(configured(Blank, new), new)
                   THEN Forgotten /\ outcome' = "conflict"
                   ELSE Succeeds(new)
             /\ client' = (outcome' = "ok")
             /\ dialled' = <<>>

(* esp_mqtt_client_set_uri by the application.                             *)
SetUri(u) == /\ client /\ config # <<>>
             /\ config' = <<set_uri(config[1], u)>>
             /\ given' = GivenAfterUri(u)
             /\ outcome' = "ok"
             /\ dialled' = <<>> /\ UNCHANGED <<client, first>>

(* esp_mqtt_set_ssl_transport_properties stops at the first option the     *)
(* build lacks; its result is not looked at.                               *)
tls_applied(options) ==
    LET cut == {i \in DOMAIN TlsOptions : TlsOptions[i] \in options \cap Unsupported}
    IN  {TlsOptions[i] : i \in {j \in DOMAIN TlsOptions : TlsOptions[j] \in options
                                                           /\ \A k \in cut : j < k}}

(* The task in MQTT_STATE_INIT: a transport for the scheme, the default    *)
(* port stored where there is none, the TLS options; then CONNECT.         *)
Dial == /\ client /\ config # <<>> /\ config[1].scheme \in Schemes
        /\ LET c == config[1]
               port == IF c.port = 0 THEN DefaultPort(c.scheme) ELSE c.port
               from == IF first = Absent THEN c.scheme ELSE first
               applied == IF c.scheme \in Secured THEN tls_applied(c.tls) ELSE {}
           IN  /\ config' = <<[c EXCEPT !.port = port]>> /\ first' = from
               /\ dialled' = <<[to |-> [c EXCEPT !.port = port], tls |-> applied,
                                given |-> given, first |-> from]>>
        /\ UNCHANGED <<client, outcome, given>>

(* esp_mqtt_client_destroy.                                                *)
Destroy == /\ client /\ client' = FALSE /\ Forgotten
           /\ outcome' = "none" /\ dialled' = <<>>

ConfigNext == \/ \E new \in Configs : init(new) \/ set_config(new)
              \/ \E u \in Uris : SetUri(u)
              \/ Dial \/ Destroy

ConfigSpec == ConfigInit /\ [][ConfigNext]_configVars

-----------------------------------------------------------------------------
(* Properties                                                              *)

OrElse(told, default) == IF told = <<>> THEN default ELSE told[1]

(* A connection goes to what the application gave last, field by field,    *)
(* through every order of calls that configure the client, change its URI, *)
(* fail, and dial: a URI's parts before those given separately, a field    *)
(* left out as some earlier call gave it, and one never given as the       *)
(* default.  The default port is that of the scheme first dialled with     *)
(* this configuration, also where the scheme has changed since: the task   *)
(* stores it like one that was given.  A TLS connection checks the CA      *)
(* certificate last configured, and has all the TLS options if the build   *)
(* lacks none of those held: applying them stops at the first it lacks,    *)
(* and nobody looks at the result.                                         *)
DialsAsAsked ==
    dialled # <<>> =>
        LET d == dialled[1]
        IN  /\ \A f \in {"scheme", "host", "path", "username", "password"} :
                  d.to[f] = OrElse(d.given[f], Absent)
            /\ d.to.client_id = OrElse(d.given.client_id, "generated")
            /\ d.to.keepalive = OrElse(d.given.keepalive, MQTT_KEEPALIVE_TICK)
            /\ d.to.port = OrElse(d.given.port, DefaultPort(d.first))
            /\ (d.to.scheme \in Secured /\ "ca" \in d.given.tls \ Unsupported) => "ca" \in d.tls
            /\ (d.to.scheme \in Secured /\ d.to.tls \cap Unsupported = {}) => d.given.tls \subseteq d.tls

(* "When calling this function make sure to have all the intendend         *)
(* configurations set, otherwise default values are set": a configuration  *)
(* that is taken leaves the client as a new client with it would be.       *)
OmittedAreDefault ==
    [][\A new \in Configs :
         (set_config(new) /\ outcome' = "ok") => config' \in {<<>>, <<configured(Blank, new)>>}]_configVars
=============================================================================
