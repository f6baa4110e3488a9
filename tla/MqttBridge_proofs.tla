--------------------------- MODULE MqttBridge_proofs ---------------------------
(***************************************************************************)
(* For any zones and bounds: no retained state goes back, and the types,   *)
(* which tie the queues of the server to its connection.                   *)
(***************************************************************************)
EXTENDS MqttBridge, TLAPS

\* RetainedMovesForward is about one step; it holds since the one publication that
\* is under way lies between what the broker retains and what the device reports.
Publications == Zones \X Nat \X {"config", "state"}

ForwardInv ==
    /\ state \in [Zones -> Nat] /\ device \in [Zones -> Nat]
    /\ pub = <<>> \/ pub \in Publications
    /\ \A z \in Zones : state[z] <= device[z]
    /\ pub # <<>> => state[pub[1]] <= pub[2] /\ pub[2] <= device[pub[1]]

\* Nothing but a new report of a zone moves the device, which only moves it on.
LEMMA ReportForward ==
    ASSUME ForwardInv, NEW z \in Zones, Report(z)
    PROVE  ForwardInv' /\ state' = state
<1>1. /\ device' = [device EXCEPT ![z] = device[z] + 1] /\ pub' = pub /\ state' = state
      /\ device \in [Zones -> Nat]
  BY DEF Report, broker, server, ForwardInv
<1>2. device' \in [Zones -> Nat] /\ \A y \in Zones : device[y] <= device'[y]
  BY <1>1
<1>3. \A y \in Zones : state'[y] <= device'[y]
  BY <1>1, <1>2 DEF ForwardInv
<1>4. ASSUME pub # <<>>
      PROVE  pub \in Publications /\ state[pub[1]] <= pub[2] /\ pub[2] <= device'[pub[1]]
  <2>1. pub \in Publications /\ state[pub[1]] <= pub[2] /\ pub[2] <= device[pub[1]]
    BY <1>4 DEF ForwardInv
  <2>2. pub[1] \in Zones /\ pub[2] \in Nat
    BY <2>1 DEF Publications
  <2> QED
    BY <1>1, <1>2, <2>1, <2>2
<1> QED
  BY <1>1, <1>2, <1>3, <1>4 DEF ForwardInv

\* A line that was read carries what the device had reported by then.
LEMMA ReadForward ==
    ASSUME ForwardInv, NEW z \in Zones, Read(z)
    PROVE  ForwardInv' /\ state' = state
<1>1. /\ pub' = <<>> \/ \E w \in {"config", "state"} : pub' = <<z, device[z], w>>
      /\ device' = device /\ state' = state
  BY DEF Read, broker
<1>2. CASE pub' = <<>>
  BY <1>1, <1>2 DEF ForwardInv
<1>3. ASSUME NEW w \in {"config", "state"}, pub' = <<z, device[z], w>> PROVE ForwardInv'
  <2>1. /\ device[z] \in Nat /\ state[z] <= device[z]
        /\ pub'[1] = z /\ pub'[2] = device[z]
    BY <1>3 DEF ForwardInv
  <2>2. pub' \in Publications /\ state'[pub'[1]] <= pub'[2] /\ pub'[2] <= device'[pub'[1]]
    BY <1>1, <1>3, <2>1 DEF Publications
  <2> QED
    BY <1>1, <2>2 DEF ForwardInv
<1> QED
  BY <1>1, <1>2, <1>3

\* The discovery message goes in front of the state and leaves it alone.
LEMMA ConfigForward ==
    ASSUME ForwardInv, PublishConfig
    PROVE  ForwardInv' /\ state' = state
<1>1. /\ pub \in Publications /\ pub' = <<pub[1], pub[2], "state">>
      /\ device' = device /\ state' = state
      /\ state[pub[1]] <= pub[2] /\ pub[2] <= device[pub[1]]
  BY DEF PublishConfig, ForwardInv
<1>2. pub[1] \in Zones /\ pub[2] \in Nat
  BY <1>1 DEF Publications
<1>3. pub' \in Publications /\ pub'[1] = pub[1] /\ pub'[2] = pub[2]
  BY <1>1, <1>2 DEF Publications
<1> QED
  BY <1>1, <1>3 DEF ForwardInv

\* A state that is published is no older than the one it replaces.
LEMMA StateForward ==
    ASSUME ForwardInv, PublishState
    PROVE  ForwardInv' /\ \A z \in Zones : state'[z] >= state[z]
<1>1. /\ pub \in Publications /\ pub' = <<>> /\ device' = device
      /\ state[pub[1]] <= pub[2] /\ pub[2] <= device[pub[1]]
      /\ state' = state \/ state' = [state EXCEPT ![pub[1]] = pub[2]]
  BY DEF PublishState, ForwardInv
<1>2. pub[1] \in Zones /\ pub[2] \in Nat
  BY <1>1 DEF Publications
<1>3. state \in [Zones -> Nat] /\ \A z \in Zones : state[z] <= device[z]
  BY DEF ForwardInv
<1>4. /\ state' \in [Zones -> Nat]
      /\ \A z \in Zones : state'[z] >= state[z] /\ state'[z] <= device[z]
  BY <1>1, <1>2, <1>3
<1> QED
  BY <1>1, <1>4 DEF ForwardInv

LEMMA ForwardStep ==
    ASSUME ForwardInv, [Next]_vars
    PROVE  ForwardInv' /\ \A z \in Zones : state'[z] >= state[z]
<1>1. ASSUME state' = state PROVE \A z \in Zones : state'[z] >= state[z]
  BY <1>1 DEF ForwardInv
<1>2. CASE Start \/ Stop \/ Handle \/ DrainOver \/ LoopEnds \/ Lose \/ BrokerDown \/ BrokerUp \/ UNCHANGED vars
            \/ \E m \in Messages : Send(m)
  <2>1. state' = state /\ device' = device /\ (pub' = pub \/ pub' = <<>>)
    BY <1>2 DEF Start, Stop, Handle, DrainOver, LoopEnds, Lose, BrokerDown, BrokerUp, Send, vars, broker, server
  <2> QED
    BY <1>1, <2>1 DEF ForwardInv
<1>3. CASE \E z \in Zones : Report(z) \/ Read(z)
  BY <1>1, <1>3, ReportForward, ReadForward
<1>4. CASE Publish
  BY <1>1, <1>4, ConfigForward, StateForward DEF Publish
<1> QED
  BY <1>2, <1>3, <1>4 DEF Next

\* The retained state of a zone never returns to an older sample, over failing
\* publications, lost connections and restarts (_run_bridge, _mqtt_publish).
THEOREM RetainedForward == Spec => RetainedMovesForward
<1>1. Init => ForwardInv
  BY DEF Init, ForwardInv
<1>2. ForwardInv /\ [Next]_vars => ForwardInv'
  BY ForwardStep
<1>3. ForwardInv /\ [Next]_vars => [\A z \in Zones : state'[z] >= state[z]]_vars
  BY ForwardStep
<1> QED
  BY <1>1, <1>2, <1>3, PTL DEF Spec, RetainedMovesForward

-----------------------------------------------------------------------------
(* The types.                                                              *)

Retained ==
    /\ up \in BOOLEAN /\ config \in [Zones -> BOOLEAN] /\ state \in [Zones -> Versions]
    /\ device \in [Zones -> Versions]

\* Messages wait for the command loop only as long as it is at work.
Loop ==
    /\ running \in BOOLEAN /\ discovery \in BOOLEAN
    /\ client \in {"none", "ok", "lost"} /\ (client # "none" => running)
    /\ loop \in {"off", "listening", "drain", "deaf", "ended"}
    /\ client = "ok" => loop \in {"listening", "drain", "deaf"}
    /\ client = "none" <=> loop = "off"
    /\ inbox \in Seq(Messages) /\ (inbox # <<>> => loop \in {"listening", "drain"})
    /\ Len(inbox) <= commands /\ commands \in 0..MaxCommands /\ faults \in 0..MaxFaults

\* What is published is of a zone that was read, and discovery goes first.
Pending(p) ==
    /\ p \in Zones \X (1..MaxVersion) \X {"config", "state"}
    /\ p[3] = "config" <=> p[1] \notin sent

Publishing ==
    /\ sent \subseteq Zones /\ failed \subseteq sent
    /\ pub # <<>> => client # "none" /\ Pending(pub)

LEMMA TypeParts == TypeOK <=> Retained /\ Loop /\ Publishing
  BY DEF TypeOK, Retained, Loop, Publishing, Pending

LEMMA Counted == Loop /\ (Faulty \/ Faultless) => faults' \in 0..MaxFaults
  BY MqttAssumption DEF Loop, Faulty, Faultless

LEMMA RetainedStep == Retained /\ Loop /\ Publishing /\ [Next]_vars => Retained'
<1>. SUFFICES ASSUME Retained, Loop, Publishing, [Next]_vars PROVE Retained'
  OBVIOUS
<1>1. CASE Start \/ Stop \/ Handle \/ DrainOver \/ LoopEnds \/ UNCHANGED vars
            \/ (\E m \in Messages : Send(m)) \/ (\E z \in Zones : Read(z))
  <2>1. UNCHANGED <<up, config, state, device>>
    BY <1>1 DEF Start, Stop, Handle, DrainOver, LoopEnds, Send, Read, vars, broker
  <2>. QED
    BY <2>1 DEF Retained
<1>2. CASE Lose \/ BrokerDown \/ BrokerUp
  <2>1. UNCHANGED <<config, state, device>> /\ (up' = up \/ up' = FALSE \/ up' = TRUE)
    BY <1>2 DEF Lose, BrokerDown, BrokerUp
  <2>2. up' \in BOOLEAN
    BY <2>1, Zenon DEF Retained
  <2>. QED
    BY <2>1, <2>2 DEF Retained
<1>3. ASSUME NEW z \in Zones, Report(z) PROVE Retained'
  <2>1. device' = [device EXCEPT ![z] = device[z] + 1] /\ device[z] < MaxVersion
        /\ UNCHANGED <<up, config, state>>
    BY <1>3 DEF Report, broker
  <2>2. device' \in [Zones -> Versions]
    BY <2>1, MqttAssumption DEF Retained, Versions
  <2>. QED
    BY <2>1, <2>2 DEF Retained
<1>4. CASE PublishConfig
  <2>1. /\ UNCHANGED <<up, state, device>>
        /\ config' = config \/ config' = [config EXCEPT ![pub[1]] = discovery]
    BY <1>4 DEF PublishConfig
  <2>2. config' \in [Zones -> BOOLEAN]
    BY <2>1 DEF Retained, Loop
  <2>. QED
    BY <2>1, <2>2 DEF Retained
<1>5. CASE PublishState
  <2>1. /\ UNCHANGED <<up, config, device>> /\ Pending(pub)
        /\ state' = state \/ state' = [state EXCEPT ![pub[1]] = pub[2]]
    BY <1>5 DEF PublishState, Publishing
  <2>2. pub[2] \in Versions
    BY <2>1, MqttAssumption DEF Pending, Versions
  <2>3. state' \in [Zones -> Versions]
    BY <2>1, <2>2 DEF Retained
  <2>. QED
    BY <2>1, <2>3 DEF Retained
<1>. QED
  BY <1>1, <1>2, <1>3, <1>4, <1>5 DEF Next, Publish

LEMMA LoopStep == Loop /\ [Next]_vars => Loop'
<1>. SUFFICES ASSUME Loop, [Next]_vars PROVE Loop'
  OBVIOUS
<1>0. commands \in Nat /\ Len(inbox) \in Nat
  BY MqttAssumption DEF Loop
<1>1. CASE Start
  <2>1. inbox = <<>>
    BY <1>1 DEF Start, Loop
  <2>2. /\ discovery' \in BOOLEAN /\ running' = TRUE /\ inbox' = inbox /\ commands' = commands
        /\ client' \in {"none", "ok"} /\ loop' \in {"off", "listening", "deaf"}
        /\ client' = "none" <=> loop' = "off"
        /\ Faulty \/ Faultless
    BY <1>1 DEF Start, Connects, Subscribes, NoHost
  <2>3. faults' \in 0..MaxFaults
    BY <2>2, Counted
  <2>. QED
    BY <2>1, <2>2, <2>3 DEF Loop
<1>2. CASE Stop
  <2>1. /\ running' = FALSE /\ client' = "none" /\ loop' = "off" /\ inbox' = <<>>
        /\ discovery' = discovery /\ commands' = commands /\ Faulty
    BY <1>2 DEF Stop
  <2>2. faults' \in 0..MaxFaults
    BY <2>1, Counted
  <2>3. inbox' \in Seq(Messages) /\ Len(inbox') = 0
    BY <2>1
  <2>4. running' \in BOOLEAN /\ discovery' \in BOOLEAN
    BY <2>1 DEF Loop
  <2>5. commands' \in 0..MaxCommands /\ 0 <= commands'
    BY <1>0, <2>1 DEF Loop
  <2>. QED
    BY <2>1, <2>2, <2>3, <2>4, <2>5 DEF Loop
<1>3. CASE Publish
  <2>1. UNCHANGED <<running, discovery, client, loop, inbox, commands>> /\ (Faulty \/ Faultless)
    BY <1>3 DEF Publish, PublishConfig, PublishState, Published, Refused
  <2>2. faults' \in 0..MaxFaults
    BY <2>1, Counted
  <2>. QED
    BY <2>1, <2>2 DEF Loop
<1>4. CASE Handle
  <2>1. /\ UNCHANGED <<running, discovery, client, commands, faults>>
        /\ inbox # <<>> /\ inbox' = Tail(inbox) /\ loop = "listening"
        /\ loop' \in {"listening", "drain"}
    BY <1>4 DEF Handle
  <2>2. inbox' \in Seq(Messages) /\ Len(inbox') = Len(inbox) - 1
    BY <2>1 DEF Loop
  <2>3. Len(inbox') <= commands
    BY <1>0, <2>2 DEF Loop
  <2>. QED
    BY <2>1, <2>2, <2>3 DEF Loop
<1>5. CASE DrainOver
  BY <1>5 DEF DrainOver, Loop
<1>8. CASE LoopEnds
  <2>1. /\ client = "lost" /\ loop' = "ended" /\ inbox' = <<>>
        /\ UNCHANGED <<running, discovery, client, commands, faults>>
    BY <1>8 DEF LoopEnds
  <2>2. inbox' \in Seq(Messages) /\ Len(inbox') = 0
    BY <2>1
  <2>. QED
    BY <1>0, <2>1, <2>2 DEF Loop
<1>9. CASE Lose
  <2>1. /\ client = "ok" /\ client' = "lost" /\ Faulty
        /\ UNCHANGED <<running, discovery, loop, inbox, commands>>
    BY <1>9 DEF Lose
  <2>2. faults' \in 0..MaxFaults
    BY <2>1, Counted
  <2>. QED
    BY <2>1, <2>2 DEF Loop
<1>6. CASE BrokerDown \/ BrokerUp \/ UNCHANGED vars \/ \E z \in Zones : Report(z) \/ Read(z)
  <2>1. /\ UNCHANGED <<running, discovery, client, loop, inbox, commands>>
        /\ Faulty \/ Faultless
    BY <1>6 DEF BrokerDown, BrokerUp, Report, Read, vars, server, Faultless
  <2>2. faults' \in 0..MaxFaults
    BY <2>1, Counted
  <2>. QED
    BY <2>1, <2>2 DEF Loop
<1>7. ASSUME NEW m \in Messages, Send(m)
      PROVE  Loop'
  <2>1. /\ UNCHANGED <<running, discovery, client, loop, faults>>
        /\ commands' = commands + 1 /\ commands < MaxCommands
        /\ inbox' = IF Subscribed THEN Append(inbox, m) ELSE inbox
    BY <1>7 DEF Send, server
  <2>2. commands' \in 0..MaxCommands
    BY <1>0, <2>1, MqttAssumption
  <2>3. CASE Subscribed
    <3>1. inbox' \in Seq(Messages) /\ Len(inbox') = Len(inbox) + 1
      BY <2>1, <2>3 DEF Loop
    <3>2. Len(inbox') <= commands'
      BY <1>0, <2>1, <3>1 DEF Loop
    <3>. QED
      BY <2>1, <2>2, <2>3, <3>1, <3>2 DEF Loop, Subscribed
  <2>4. CASE ~Subscribed
    <3>1. Len(inbox') <= commands'
      BY <1>0, <2>1, <2>4 DEF Loop
    <3>. QED
      BY <2>1, <2>2, <2>4, <3>1 DEF Loop
  <2>. QED
    BY <2>3, <2>4
<1>. QED
  BY <1>1, <1>2, <1>3, <1>4, <1>5, <1>6, <1>7, <1>8, <1>9 DEF Next

LEMMA PublishingStep == Retained /\ Loop /\ Publishing /\ [Next]_vars => Publishing'
<1>. SUFFICES ASSUME Retained, Loop, Publishing, [Next]_vars PROVE Publishing'
  OBVIOUS
<1>1. CASE Start
  BY <1>1 DEF Start, Publishing
<1>2. CASE Stop
  BY <1>2 DEF Stop, Publishing
<1>3. CASE PublishConfig
  <2>1. /\ pub # <<>> /\ Pending(pub) /\ client # "none" /\ client' = client
        /\ failed' = failed \/ failed' = failed \cup {pub[1]}
        /\ sent' = sent \cup {pub[1]} /\ pub' = <<pub[1], pub[2], "state">>
    BY <1>3 DEF PublishConfig, Publishing
  <2>2. pub[1] \in Zones /\ pub[2] \in 1..MaxVersion
    BY <2>1 DEF Pending
  <2>3. Pending(pub)'
    BY <2>1, <2>2 DEF Pending
  <2>. QED
    BY <2>1, <2>2, <2>3 DEF Publishing
<1>4. CASE PublishState
  BY <1>4 DEF PublishState, Publishing
<1>5. CASE Handle \/ DrainOver \/ LoopEnds \/ Lose \/ BrokerDown \/ BrokerUp \/ UNCHANGED vars
           \/ (\E z \in Zones : Report(z)) \/ (\E m \in Messages : Send(m))
  <2>1. UNCHANGED <<sent, failed, pub>> /\ (client' = client \/ client' = "lost")
    BY <1>5 DEF Handle, DrainOver, LoopEnds, Lose, BrokerDown, BrokerUp, vars, Report, Send, server
  <2>. QED
    BY <2>1 DEF Publishing, Pending
<1>6. ASSUME NEW z \in Zones, Read(z)
      PROVE  Publishing'
  <2>1. /\ UNCHANGED <<sent, failed, client>> /\ device[z] > 0
        /\ pub' = IF client = "none" THEN <<>>
                  ELSE <<z, device[z], IF z \in sent THEN "state" ELSE "config">>
    BY <1>6 DEF Read
  <2>2. device[z] \in 1..MaxVersion
    BY <2>1, MqttAssumption DEF Retained, Versions
  <2>3. CASE client = "none"
    BY <2>1, <2>3 DEF Publishing
  <2>4. CASE client # "none"
    <3>1. Pending(pub)'
      BY <2>1, <2>2, <2>4 DEF Pending
    <3>. QED
      BY <2>1, <2>4, <3>1 DEF Publishing
  <2>. QED
    BY <2>3, <2>4
<1>. QED
  BY <1>1, <1>2, <1>3, <1>4, <1>5, <1>6 DEF Next, Publish

\* The server stays typed: the command loop lives as long as its connection holds,
\* messages wait only for a loop at work, and discovery goes in front of a zone's
\* first state.
THEOREM MqttTyped == Spec => []TypeOK
<1>1. Init => TypeOK
  <2>. SUFFICES ASSUME Init PROVE Retained /\ Loop /\ Publishing
    BY TypeParts
  <2>1. 0 \in Versions /\ 0 \in 0..MaxCommands /\ 0 \in 0..MaxFaults
    BY MqttAssumption DEF Versions
  <2>2. Retained
    BY <2>1 DEF Init, Retained
  <2>3. inbox = <<>> /\ inbox \in Seq(Messages) /\ Len(inbox) = 0 /\ commands = 0
    BY DEF Init
  <2>4. Loop
    <3>1. running \in BOOLEAN /\ discovery \in BOOLEAN
      BY DEF Init
    <3>2. client = "none" /\ loop = "off" /\ faults = 0
      BY DEF Init
    <3>. QED
      BY <2>1, <2>3, <3>1, <3>2 DEF Loop
  <2>. QED
    BY <2>2, <2>4 DEF Init, Publishing
<1>2. TypeOK /\ [Next]_vars => TypeOK'
  <2>1. Retained /\ Loop /\ Publishing /\ [Next]_vars => (Retained /\ Loop /\ Publishing)'
    BY RetainedStep, LoopStep, PublishingStep
  <2>. QED
    BY <2>1, TypeParts, PTL
<1>. QED
  BY <1>1, <1>2, PTL DEF Spec

=============================================================================
