------------------------------ MODULE MqttBridge ------------------------------
(***************************************************************************)
(* The MQTT side of bridge_server.py: main connects once, _run_bridge      *)
(* publishes every sample it has read, retained, with Home Assistant's     *)
(* discovery message in front of a zone's first, and _mqtt_command_loop    *)
(* hands what arrives under set/ to _send_command, in whose drain it may   *)
(* stay.                                                                   *)
(*                                                                         *)
(* The broker keeps retained messages over restarts of the add-on.  What   *)
(* becomes of a line in the bridge's stdin is BridgeServer's subject.      *)
(***************************************************************************)
EXTENDS Naturals, Sequences

CONSTANTS
    Zones,
    MaxVersion,    \* bound: samples of a zone that differ
    MaxCommands,   \* bound: messages sent to set/ topics
    MaxFaults      \* bound: restarts, lost connections, failing requests

ASSUME MqttAssumption ==
    /\ MaxVersion \in Nat \ {0} /\ MaxCommands \in Nat /\ MaxFaults \in Nat

VARIABLES
    up,        \* the broker runs
    config,    \* config[z]: the broker retains a discovery message of z
    state,     \* state[z]: version in the retained state of z, 0 if there is none
    running,   \* bridge_server.py is past main's connect
    discovery, \* MQTT_DISCOVERY
    client,    \* _mqtt: none, ok, or connected once and lost
    loop,      \* _mqtt_command_loop: off, listening, drain (in _send_command), deaf
               \* (not subscribed), ended
    inbox,     \* messages it has not taken
    device,    \* device[z]: version the device reports
    sent,      \* _discovery_sent
    pub,       \* the publication _run_bridge waits for: <<>>, or zone, version, what
    failed,    \* history: zones whose discovery message failed in this run
    commands, faults

broker == <<up, config, state>>
server == <<running, discovery, client, loop, sent, pub>>
vars   == <<broker, server, inbox, device, failed, commands, faults>>

\* Kinds of messages: one with a meaning, one whose payload float() or decode()
\* refuses.
Messages == {"command", "bad"}

Faulty    == faults < MaxFaults /\ faults' = faults + 1
Faultless == UNCHANGED faults

-----------------------------------------------------------------------------
(* Start and end of the server.                                            *)

\* The command loop is started, and a subscription that fails is not noticed.
Subscribes == \/ loop' = "listening" /\ Faultless
              \/ loop' = "deaf" /\ Faulty

\* With a broker that does not answer main raises, and there is no server at all.
Connects == up /\ client' = "ok" /\ Subscribes

\* No host configured, or none from the Supervisor when it was asked.
NoHost == client' = "none" /\ loop' = "off" /\ Faulty

M_SentKept ==
    /\ ~running
    /\ discovery' \in BOOLEAN /\ running' = TRUE
    /\ failed' = {} /\ UNCHANGED sent /\ pub' = <<>>
    /\ Connects \/ NoHost
    /\ UNCHANGED <<broker, inbox, device, commands>>

\* The options may have changed.
Start ==
    /\ ~running
    /\ discovery' \in BOOLEAN /\ running' = TRUE
    /\ failed' = {} /\ sent' = {} /\ pub' = <<>>
    /\ Connects \/ NoHost
    /\ UNCHANGED <<broker, inbox, device, commands>>

Stop ==
    /\ running /\ Faulty
    /\ running' = FALSE /\ client' = "none" /\ loop' = "off" /\ inbox' = <<>> /\ pub' = <<>>
    /\ UNCHANGED <<broker, discovery, device, sent, failed, commands>>

-----------------------------------------------------------------------------
(* Samples.                                                                *)

Report(z) ==
    /\ device[z] < MaxVersion
    /\ device' = [device EXCEPT ![z] = @ + 1]
    /\ UNCHANGED <<broker, server, inbox, failed, commands, faults>>

\* _run_bridge has a line, of a change or of the device's periodic report.
Read(z) ==
    /\ running /\ pub = <<>> /\ device[z] > 0
    /\ pub' = IF client = "none" THEN <<>>
              ELSE <<z, device[z], IF z \in sent THEN "state" ELSE "config">>
    /\ UNCHANGED <<broker, running, discovery, client, loop, sent, inbox, device, failed, commands, faults>>

\* publish raises on a lost connection, and may time out on another.
Published == client = "ok" /\ Faultless
Refused   == IF client = "ok" THEN Faulty ELSE Faultless

M_RemovesState ==
    /\ pub # <<>> /\ pub[3] = "config"
    /\ \/ /\ Published /\ UNCHANGED failed
          /\ config' = IF discovery THEN [config EXCEPT ![pub[1]] = TRUE] ELSE config
          /\ state' = IF discovery THEN state ELSE [state EXCEPT ![pub[1]] = 0]
       \/ Refused /\ failed' = failed \cup {pub[1]} /\ UNCHANGED <<config, state>>
    /\ sent' = sent \cup {pub[1]} /\ pub' = <<pub[1], pub[2], "state">>
    /\ UNCHANGED <<up, running, discovery, client, loop, inbox, device, commands>>

\* The discovery message, or an empty one that removes the entity; the zone is
\* marked as done in either case.
PublishConfig ==
    /\ pub # <<>> /\ pub[3] = "config"
    /\ \/ Published /\ config' = [config EXCEPT ![pub[1]] = discovery] /\ UNCHANGED failed
       \/ Refused /\ failed' = failed \cup {pub[1]} /\ UNCHANGED config
    /\ sent' = sent \cup {pub[1]} /\ pub' = <<pub[1], pub[2], "state">>
    /\ UNCHANGED <<up, state, running, discovery, client, loop, inbox, device, commands>>

PublishState ==
    /\ pub # <<>> /\ pub[3] = "state"
    /\ \/ Published /\ state' = [state EXCEPT ![pub[1]] = pub[2]]
       \/ Refused /\ UNCHANGED state
    /\ pub' = <<>>
    /\ UNCHANGED <<up, config, running, discovery, client, loop, sent, inbox, device, failed, commands>>

-----------------------------------------------------------------------------
(* Commands.                                                               *)

\* The broker passes messages on.
Subscribed == client = "ok" /\ loop \in {"listening", "drain"}

\* A message to a set/ topic, at most once: nobody keeps it for a server that
\* does not listen.
Send(m) ==
    /\ up /\ commands < MaxCommands
    /\ commands' = commands + 1
    /\ inbox' = IF Subscribed THEN Append(inbox, m) ELSE inbox
    /\ UNCHANGED <<broker, server, device, failed, faults>>

M_BadEndsLoop ==
    /\ loop = "listening" /\ inbox # <<>>
    /\ inbox' = IF Head(inbox) = "bad" THEN <<>> ELSE Tail(inbox)
    /\ loop' \in IF Head(inbox) = "command" THEN {"listening", "drain"} ELSE {"ended"}
    /\ UNCHANGED <<broker, running, discovery, client, sent, pub, device, failed, commands, faults>>

\* _handle_mqtt_command: what has no meaning is dropped, and the drain behind a
\* line for the bridge suspends the loop while the pipe is full.
Handle ==
    /\ loop = "listening" /\ inbox # <<>>
    /\ inbox' = Tail(inbox)
    /\ loop' \in IF Head(inbox) = "command" THEN {"listening", "drain"} ELSE {"listening"}
    /\ UNCHANGED <<broker, running, discovery, client, sent, pub, device, failed, commands, faults>>

\* The bridge reads its stdin, or ends.  It may do neither: see BridgeServer.
DrainOver ==
    /\ loop = "drain"
    /\ loop' = "listening"
    /\ UNCHANGED <<broker, running, discovery, client, sent, pub, inbox, device, failed,
                   commands, faults>>

\* The iteration over messages notices that the connection is lost.
LoopEnds ==
    /\ client = "lost" /\ loop \in {"listening", "deaf"}
    /\ loop' = "ended" /\ inbox' = <<>>
    /\ UNCHANGED <<broker, running, discovery, client, sent, pub, device, failed, commands, faults>>

-----------------------------------------------------------------------------
(* The broker and the network.                                             *)

\* The publications go on and fail; nothing connects again.
Lose ==
    /\ client = "ok" /\ Faulty
    /\ client' = "lost"
    /\ up' \in {up, FALSE}
    /\ UNCHANGED <<config, state, running, discovery, loop, sent, pub, inbox, device, failed,
                   commands>>

\* The broker goes while nobody is connected, and comes back.
BrokerDown ==
    /\ up /\ client # "ok" /\ Faulty
    /\ up' = FALSE
    /\ UNCHANGED <<config, state, server, inbox, device, failed, commands>>

BrokerUp ==
    /\ ~up /\ up' = TRUE
    /\ UNCHANGED <<config, state, server, inbox, device, failed, commands, faults>>

-----------------------------------------------------------------------------
\* A broker that may hold the discovery messages of an earlier installation.
Init ==
    /\ up \in BOOLEAN /\ config \in [Zones -> BOOLEAN]
    /\ state = [z \in Zones |-> 0] /\ device = [z \in Zones |-> 0]
    /\ running = FALSE /\ discovery = FALSE /\ client = "none" /\ loop = "off"
    /\ inbox = <<>> /\ sent = {} /\ pub = <<>> /\ failed = {}
    /\ commands = 0 /\ faults = 0

Publish == PublishConfig \/ PublishState

Next == \/ Start \/ Stop \/ Publish \/ Handle \/ DrainOver \/ LoopEnds \/ Lose \/ BrokerDown \/ BrokerUp
        \/ \E z \in Zones : Report(z) \/ Read(z)
        \/ \E m \in Messages : Send(m)

Spec == Init /\ [][Next]_vars

\* The add-on is restarted, the task of _run_bridge runs on, the broker comes back,
\* and the device reports every zone again and again (healthcheck.sh 15-17).  The
\* command loop may stay in a drain for ever.
FairSpec == /\ Spec /\ WF_vars(Start) /\ WF_vars(Publish) /\ WF_vars(BrokerUp)
            /\ \A z \in Zones : SF_vars(Read(z)) /\ WF_vars(Report(z))

-----------------------------------------------------------------------------
Versions == 0..MaxVersion

\* Values of the right kinds; as long as the connection holds the command loop is
\* alive, whatever a message contained, and messages wait only for a loop that
\* subscribed; discovery goes in front of a zone's first state.
TypeOK ==
    /\ up \in BOOLEAN /\ running \in BOOLEAN /\ discovery \in BOOLEAN
    /\ config \in [Zones -> BOOLEAN] /\ state \in [Zones -> Versions]
    /\ device \in [Zones -> Versions]
    /\ client \in {"none", "ok", "lost"} /\ (client # "none" => running)
    /\ loop \in {"off", "listening", "drain", "deaf", "ended"}
    /\ client = "ok" => loop \in {"listening", "drain", "deaf"}
    /\ client = "none" <=> loop = "off"
    /\ inbox \in Seq(Messages) /\ (inbox # <<>> => loop \in {"listening", "drain"})
    /\ sent \subseteq Zones /\ failed \subseteq sent
    /\ pub # <<>> => /\ client # "none" /\ pub \in Zones \X (1..MaxVersion) \X {"config", "state"}
                     /\ pub[3] = "config" <=> pub[1] \notin sent
    /\ Len(inbox) <= commands
    /\ commands \in 0..MaxCommands /\ faults \in 0..MaxFaults

\* The retained state of a zone never returns to an older sample, over
\* publications that fail, broken connections and restarts (_run_bridge awaits
\* one publication after another).
RetainedMovesForward == [][\A z \in Zones : state'[z] >= state[z]]_vars

\* Once nothing fails any more, the add-on runs, and unless its connection is
\* lost or was never made, the retained state of every zone is the device's and
\* its entity is there exactly if mqtt_discovery is on - or stays as it was for
\* the rest of the run, because the one discovery message failed
\* (_mqtt_publish 489-549).  A command loop that hangs in a drain holds up none of it.
SettlesWithBroker ==
    <>[](running /\ (client = "ok" =>
            \A z \in Zones : state[z] = device[z] /\ (config[z] = discovery \/ z \in failed)))
=============================================================================
