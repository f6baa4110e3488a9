----------------------------- MODULE HomeAssistant -----------------------------
(***************************************************************************)
(* A config entry of the integration around its coordinator: __init__.py   *)
(* sets it up and unloads it, each platform's _discover creates entities   *)
(* from what the samples hold, and the entities are views of the           *)
(* coordinator's data.                                                     *)
(*                                                                         *)
(* The device has one status per system - is it away, is there a fault -   *)
(* but every zone's sample carries what the C++ bridge had heard of it     *)
(* when that sample was printed: nothing at all, after a restart of the    *)
(* add-on.  Views of a system look for it in the samples of its zones.     *)
(***************************************************************************)
EXTENDS Coordinator

CONSTANTS
    SysOf,         \* SysOf[k]: the sysID of key k
    Platforms,     \* those of a run
    Valid,         \* <<k, v>>: version v of k has the flag's bit and humidity setpoints
    MaxStatus      \* bound: changes of a system's status

Systems == {SysOf[k] : k \in Keys}

ASSUME HomeAssumption ==
    /\ DOMAIN SysOf = Keys
    /\ Platforms \subseteq {"climate", "sensor", "binary_sensor", "switch", "number"}
    /\ Valid \subseteq Keys \X (1..MaxVersion)
    /\ MaxStatus \in Nat

VARIABLES
    status,     \* status[s]: number of the status of s; see Away
    heard,      \* heard[s]: the status in the g_* maps, which StatusMerge models
    printed,    \* printed[k]: the status in the sample of k in latest
    moving,     \* the statuses in the samples in wire
    greeting,   \* how many of these are still of the server's snapshot
    held,       \* held[k]: the status in the sample of k in data
    order,      \* keys of data, in the order of their insertion
    listening,  \* platforms set up: their _discover is a listener
    entities    \* <<kind, key or sysID>> that were added

bridge == <<status, heard>>
inside == <<order, held, listening, entities>>
sent   == <<moving, greeting>>
home   == <<bridge, printed, sent, inside>>
hvars  == <<vars, home>>

Zones(s) == {k \in Keys : SysOf[k] = s}

\* Status 0: no sample of the status topics yet; then the system is at home,
\* away with an alert, at home, and so on.
Away(n) == n # 0 /\ n % 2 = 0

-----------------------------------------------------------------------------
(* Views.  d are the data, h the statuses in them and o their order.       *)

Seen(d) == {k \in Keys : d[k] # 0}

\* "identical across zones, so take the first zone's": _alerts, _first_sample_for
\* and M30SystemSensor._sample.
FirstZone(o, s) ==
    LET places == {i \in DOMAIN o : SysOf[o[i]] = s}
    IN  o[CHOOSE i \in places : \A j \in places : i <= j]

\* Status behind the alert sensor and the other views of that kind.
AlertStatus(d, h, o, s) == IF Zones(s) \cap Seen(d) = {} THEN 0 ELSE h[FirstZone(o, s)]

\* manualAway in the samples of a system: null in none of these.
Said(d, h, s) == {Away(h[k]) : k \in {z \in Zones(s) \cap Seen(d) : h[z] # 0}}

M_AllAway(d, h, s) ==
    IF FALSE \in Said(d, h, s) THEN "off" ELSE IF TRUE \in Said(d, h, s) THEN "on" ELSE "unknown"

\* is_on of M30AwaySwitch: any zone's word for away, then any zone's against it.
AwayShown(d, h, s) ==
    IF TRUE \in Said(d, h, s) THEN "on" ELSE IF FALSE \in Said(d, h, s) THEN "off" ELSE "unknown"

-----------------------------------------------------------------------------
(* _discover of each platform.                                             *)

ZoneEntities(kind, ks) == {<<kind, k>> : k \in ks}
SystemEntities(kind, ks) == {<<kind, SysOf[k]>> : k \in ks}

Informed(d, h) == {k \in Seen(d) : h[k] # 0}
Able(d)        == {k \in Seen(d) : <<k, d[k]>> \in Valid}

\* What the samples call for: entities of every zone, fields that are marked valid
\* or not None, objects of a system in any of its zones.
ClimateOf(d)  == ZoneEntities("climate", Seen(d))
SensorsOf(d, h) ==
    ZoneEntities("reading", Seen(d)) \cup SystemEntities("weather", Informed(d, h))
BinarySensorsOf(d, h) ==
    ZoneEntities("flag", Able(d)) \cup SystemEntities("alert", Seen(d))
        \cup SystemEntities("smartaway", Informed(d, h))
SwitchesOf(d) == SystemEntities("away", Seen(d))
NumbersOf(d)  == ZoneEntities("setpoint", Able(d))

Wanted(p, d, h) ==
    CASE p = "climate"       -> ClimateOf(d)
      [] p = "sensor"        -> SensorsOf(d, h)
      [] p = "binary_sensor" -> BinarySensorsOf(d, h)
      [] p = "switch"        -> SwitchesOf(d)
      [] p = "number"        -> NumbersOf(d)

\* The entities after the _discover of the platforms ps.
Discovered(ps, d, h) == entities \cup UNION {Wanted(p, d, h) : p \in ps}

-----------------------------------------------------------------------------
(* The system behind the bridge, and the server.                           *)

StatusChanges(s) ==
    /\ status[s] < MaxStatus
    /\ status' = [status EXCEPT ![s] = @ + 1]
    /\ UNCHANGED <<vars, heard, printed, sent, inside>>

\* The bridge takes the status topics.
Hear(s) ==
    /\ up /\ heard[s] # status[s]
    /\ heard' = [heard EXCEPT ![s] = status[s]]
    /\ UNCHANGED <<vars, status, printed, sent, inside>>

\* A line of zone k - print_sample_json, _latest and the broadcast - with a new
\* reading, or again, which is of interest if something has changed around it.
PrintZone(k) ==
    /\ \/ Publish(k)
       \/ Republish(k) /\ (latest[k] # device[k] \/ printed[k] # heard[SysOf[k]])
    /\ printed' = [printed EXCEPT ![k] = heard[SysOf[k]]]
    /\ moving'  = IF link = "open" THEN Append(moving, printed'[k]) ELSE moving
    /\ UNCHANGED <<bridge, greeting, inside>>

\* The add-on goes, and with it what its bridge had heard.
Restarted == [s \in Systems |-> 0]

AddOnDown ==
    /\ ServerDown
    /\ heard' = Restarted /\ printed' = Nothing
    /\ moving' = IF link' = "broken" THEN <<>> ELSE moving
    /\ greeting' = IF link' = "broken" THEN 0 ELSE greeting
    /\ UNCHANGED <<status, inside>>

-----------------------------------------------------------------------------
(* The connection.                                                         *)

Cut ==
    /\ LinkBreaks /\ moving' = <<>> /\ greeting' = 0
    /\ UNCHANGED <<bridge, printed, inside>>

Connected ==
    /\ Connect /\ moving' = [i \in DOMAIN wire' |-> printed[wire'[i][1]]]
    /\ greeting' = Len(wire')
    /\ UNCHANGED <<bridge, printed, inside>>

Elsewhere ==
    /\ ServerUp \/ ConnectFails \/ StreamEnds \/ StreamRaises \/ Retry
    /\ UNCHANGED home

-----------------------------------------------------------------------------
(* The entry.                                                              *)

\* async_setup_entry starts the coordinator, whose task may run before and
\* between the platforms.
SetupEntry == Start /\ UNCHANGED home

M_WaitsForUpdate(p) ==
    /\ rpc \notin {"unloaded", "stopped"} /\ p \notin listening
    /\ listening' = listening \cup {p}
    /\ UNCHANGED <<vars, bridge, printed, sent, order, held, entities>>

\* async_setup_entry of a platform: its listener is added and called once.
SetupPlatform(p) ==
    /\ rpc \notin {"unloaded", "stopped"} /\ p \notin listening
    /\ listening' = listening \cup {p}
    /\ entities' = Discovered({p}, data, held)
    /\ UNCHANGED <<vars, bridge, printed, sent, order, held>>

M_Reinserted(k) ==
    /\ Process(k)
    /\ order' = Append(SelectSeq(order, LAMBDA j : j # k), k)
    /\ held' = [held EXCEPT ![k] = Head(moving)] /\ moving' = Tail(moving)
    /\ greeting' = IF greeting = 0 THEN 0 ELSE greeting - 1
    /\ entities' = Discovered(listening, data', held')
    /\ UNCHANGED <<bridge, printed, listening>>

\* async_set_updated_data calls the listeners; a key that is there stays in place.
Update(k) ==
    /\ Process(k)
    /\ order' = IF data[k] # 0 THEN order ELSE Append(order, k)
    /\ held' = [held EXCEPT ![k] = Head(moving)] /\ moving' = Tail(moving)
    /\ greeting' = IF greeting = 0 THEN 0 ELSE greeting - 1
    /\ entities' = Discovered(listening, data', held')
    /\ UNCHANGED <<bridge, printed, listening>>

\* async_unload_entry of an entry that is loaded: platforms first, then async_stop.
Unload ==
    /\ listening = Platforms /\ Stop
    /\ listening' = {} /\ entities' = {} /\ moving' = <<>> /\ greeting' = 0
    /\ UNCHANGED <<bridge, printed, order, held>>

-----------------------------------------------------------------------------
HomeInit ==
    /\ Init
    /\ status = Restarted /\ heard = Restarted
    /\ printed = Nothing /\ moving = <<>> /\ greeting = 0 /\ held = Nothing
    /\ order = <<>> /\ listening = {} /\ entities = {}

HomeNext ==
    \/ AddOnDown \/ Cut \/ Connected \/ Elsewhere \/ SetupEntry \/ Unload
    \/ \E p \in Platforms : SetupPlatform(p)
    \/ \E s \in Systems : StatusChanges(s) \/ Hear(s)
    \/ \E k \in Keys : PrintZone(k) \/ Update(k)

HomeSpec == HomeInit /\ [][HomeNext]_hvars

\* Besides, the bridge hears of the status, and the thermostat publishes every
\* zone again and again.
HomeFairSpec ==
    /\ HomeSpec /\ Fairness
    /\ \A s \in Systems : WF_hvars(Hear(s))
    /\ \A k \in Keys : WF_hvars(PrintZone(k))

-----------------------------------------------------------------------------
Statuses == 0..MaxStatus
Kinds == {"climate", "reading", "weather", "flag", "alert", "smartaway", "away", "setpoint"}

\* Values of the right kinds; no zone holds or waits for a status its system never
\* had, and every zone seen has its one place in the data (_run 70-77).
HomeTypeOK ==
    /\ TypeOK
    /\ status \in [Systems -> Statuses] /\ \A s \in Systems : heard[s] \in 0..status[s]
    /\ \A k \in Keys :
          /\ printed[k] \in 0..heard[SysOf[k]] /\ held[k] \in 0..status[SysOf[k]]
          /\ latest[k] = 0 => printed[k] = 0
          /\ data[k] = 0 => held[k] = 0
    /\ Len(moving) = Len(wire) /\ greeting \in 0..Len(wire)
    /\ \A i \in DOMAIN wire : moving[i] \in 0..status[SysOf[wire[i][1]]]
    /\ order \in Seq(Seen(data)) /\ Len(order) = Cardinality(Seen(data))
    /\ listening \subseteq Platforms
    /\ entities \subseteq Kinds \X (Keys \cup Systems)

\* Whatever came before, between or after the platforms of the entry, there is
\* an entity for every zone, flag and object of the samples held (_discover).
NothingUndiscovered == \A p \in listening : Wanted(p, data, held) \subseteq entities

\* The alert sensor never shows an earlier status of the system again, over lost
\* connections and restarts, although the zones disagree - but it may show none,
\* from a bridge that printed before it had heard (_alerts, binary_sensor.py 98-103).
AlertMovesForward ==
    [][\A s \in Systems :
          \/ AlertStatus(data', held', order', s) = 0
          \/ AlertStatus(data', held', order', s) >= AlertStatus(data, held, order, s)]_hvars

\* But for the snapshot of a new connection, a switch that is off comes on only by
\* a sample with a later status than all the zones had.  In a snapshot it may be a
\* zone's word from before the system came home (is_on, switch.py 60-70).
AwayTurnsOnForNews ==
    [][\A s \in Systems :
          AwayShown(data, held, s) = "off" /\ AwayShown(data', held', s) = "on" /\ greeting = 0 =>
          \E k \in Zones(s) : \A j \in Zones(s) : held'[k] > held[j]]_hvars

\* Once the system stays as it is and its zones were published since, whatever was
\* lost on the way, the entities have the last sample of every zone, and the alert
\* sensor and the Away switch show the system's status; unless they are unloaded.
ViewsSettle ==
    <>[](rpc \in {"unloaded", "stopped"} \/
         /\ data = device
         /\ \A s \in Systems :
               /\ AlertStatus(data, held, order, s) = status[s]
               /\ status[s] # 0 => AwayShown(data, held, s) = IF Away(status[s]) THEN "on" ELSE "off")
=============================================================================
