-------------------------- MODULE MCClientControl --------------------------
(* Instances of the parts of the client the application steers it by: its  *)
(* life, its configuration, its MQTT 5 properties and their lists.  They   *)
(* share nothing, so a behaviour is one of one instance, which setting     *)
(* names, and the variables of the others stay as they are initially.      *)
EXTENDS ClientLifecycle, ClientConfig, Mqtt5Properties, UserProperty

CONSTANTS t1, t2

VARIABLE setting

-----------------------------------------------------------------------------
(* Two careful applications, and one that calls at any time, over a        *)
(* transport that may not be created.                                      *)
Hasty == {"starts_again", "stops_early", "auto_reconnect", "transport_may_fail"}
SomeManners == {{}, {"auto_reconnect"}, Hasty}

(* What the firmware configures: a URI, the CA and no check of the name;   *)
(* and configurations that give more, less or other things: no URI, a URI  *)
(* without a port over separately given elements, another scheme, users,   *)
(* no keepalive, and a TLS option the build lacks.                         *)
Uri(scheme, host, port) ==
    [scheme |-> scheme, host |-> host, port |-> port, path |-> "", username |-> "", password |-> ""]
Only(uri) == [uri |-> uri, hostname |-> "", transport |-> "", port |-> 0, path |-> "", username |-> "",
              password |-> "", client_id |-> "", keepalive |-> 0, disable_keepalive |-> FALSE, tls |-> {}]
Firmware == [Only(<<Uri("mqtts", "a", 8883)>>) EXCEPT !.tls = {"ca", "skip_common_name"}]
SomeConfigs ==
    {Firmware,
     [Only(<<>>) EXCEPT !.username = "u", !.password = "p", !.client_id = "node", !.tls = {"key_password"}],
     [Only(<<>>) EXCEPT !.transport = "mqtts", !.hostname = "c", !.path = "/x", !.tls = {"ca", "alpn"}],
     [Only(<<[Uri("mqtt", "b", 0) EXCEPT !.username = "v", !.password = "q"]>>)
        EXCEPT !.hostname = "c", !.port = 99, !.path = "/x", !.username = "u", !.keepalive = 30],
     [Only(<<Uri("wss", "b", 0)>>) EXCEPT !.disable_keepalive = TRUE, !.tls = {"ca", "ecdsa", "client_cert"}]}
UriChanges == {Uri("mqtts", "b", 8885), Uri("mqtt", "c", 0)}

(* One task of the application, with a limited broker; two that take turns *)
(* at setting properties; and one that receives under topic aliases.       *)
AllProperties ==
    [publish |-> {[topic_alias |-> 0]},
     subscribe |-> {[id |-> 1, shared |-> TRUE, no_local |-> n, named |-> TRUE] : n \in BOOLEAN},
     unsubscribe |-> {[shared |-> TRUE, named |-> n] : n \in BOOLEAN},
     disconnect |-> {[field |-> "reason"]}]
QosLimits == {<<>>, [max_qos |-> 1], [retain_available |-> FALSE]}
AllLimits == QosLimits \cup {[shared_subscribe_available |-> FALSE]}
SomeMessages == {[qos |-> 0, retain |-> TRUE, fits |-> TRUE], [qos |-> 2, retain |-> FALSE, fits |-> TRUE],
                 [qos |-> 0, retain |-> FALSE, fits |-> FALSE]}
TwoTasks == INSTANCE Mqtt5Properties WITH
    Callers <- Tasks, MaxConnects <- 1, Announcements <- {<<>>},
    Properties <- [publish |-> {[topic_alias |-> 0, response |-> r] : r \in {"a", "b"}},
                   disconnect |-> {[field |-> f] : f \in {"reason", "user"}}],
    Messages <- {[qos |-> 1, retain |-> FALSE, fits |-> f] : f \in BOOLEAN}
Aliases == INSTANCE Mqtt5Properties WITH
    Properties <- [publish |-> {[topic_alias |-> 0], [topic_alias |-> 1]}], Announcements <- QosLimits,
    Topics <- {"x", "y", "z"}, AliasMaxima <- {2}, MaxConnects <- 3

(* Arrays with nothing, an item, and items beside one that is incomplete.  *)
SomeArrays == {<<"a">>, <<"b", "null", "c">>, <<>>}

(* The hypotheses of the theorems about these modules hold here.           *)
ASSUME HypothesesMet == OneMaximum /\ Aliases!OneMaximum /\ CopiedForConnect

-----------------------------------------------------------------------------
otherVars == <<configVars, p5Vars, upVars>>
mcVars == <<setting, lifecycleVars, otherVars>>

MCInit == /\ LifecycleInit /\ ConfigInit /\ UpInit
          /\ \/ setting \in {"life", "config", "one task", "lists"} /\ P5Init
             \/ setting = "two tasks" /\ TwoTasks!P5Init
             \/ setting = "aliases" /\ Aliases!P5Init
          /\ setting # "life" => manner = {}

Life == UNCHANGED lifecycleVars
MCNext == /\ UNCHANGED setting
          /\ \/ setting = "life" /\ LifecycleNext /\ UNCHANGED otherVars
             \/ setting = "config" /\ ConfigNext /\ Life /\ UNCHANGED <<p5Vars, upVars>>
             \/ setting = "one task" /\ P5Next /\ Life /\ UNCHANGED <<configVars, upVars>>
             \/ setting = "two tasks" /\ TwoTasks!P5Next /\ Life /\ UNCHANGED <<configVars, upVars>>
             \/ setting = "aliases" /\ Aliases!P5Next /\ Life /\ UNCHANGED <<configVars, upVars>>
             \/ setting = "lists" /\ UpNext /\ Life /\ UNCHANGED <<configVars, p5Vars>>

(* LifecycleFairness; the properties that need it are of the careful       *)
(* applications.                                                           *)
CarefulStep(step) == setting = "life" /\ Careful /\ step /\ UNCHANGED <<setting, otherVars>>
MCSpec == /\ MCInit /\ [][MCNext]_mcVars
          /\ SF_mcVars(CarefulStep(AppStep))
          /\ \A t \in Tasks : /\ WF_mcVars(CarefulStep(TaskStep(t)))
                              /\ SF_mcVars(CarefulStep(TaskLocks(t)))
=============================================================================
