------------------------ MODULE ControlPromise_proofs ------------------------
(***************************************************************************)
(* Proofs about the order and the effect of commands, for every home and   *)
(* every interleaving: the last command sent to a zone is the one that     *)
(* holds, and with changes made one at a time the control path implements  *)
(* ControlPromise.                                                         *)
(***************************************************************************)
EXTENDS ScheduleControl_proofs

\* What write_period can honour in full: it drops a setpoint that is not
\* positive, and the single setpoint of a command that names another one.
WellFormed ==
    \A c \in Commands : ~IsAway(c) =>
        /\ \A f \in c.asked \cap Setpoints : c.val[f] > 0
        /\ "sp" \in c.asked => c.asked \cap Setpoints = {}

\* Away is a property of the system: only one zone of each is used to set it.
AwayFromOneZone ==
    \A c, d \in Commands :
        IsAway(c) /\ IsAway(d) /\ c.zone.sys = d.zone.sys => c.zone = d.zone

\* The cache has an entry per system: with one zone in each it is the zone's.
OneZonePerSystem == \A y, z \in Zones : y.sys = z.sys => y = z

\* An update built for a well-formed schedule command carries, marked valid,
\* every field the command asks for with the value asked for.
LEMMA BuiltInFull ==
    ASSUME WellFormed, NEW c \in Commands, ~IsAway(c), NEW s \in Snapshot,
           NEW f \in c.asked
    PROVE  f \in BuildUpdate(c, s).valid /\ BuildUpdate(c, s).val[f] = c.val[f]
<1>1. f \in PeriodFields
  BY ConstantsAssumption DEF IsAway, Command
<1>2. CASE f \in {"mode", "fan", "husp", "desp"}
  BY <1>1, <1>2 DEF BuildUpdate, ValidFields, PeriodValues, Effective, Setpoints
<1>3. CASE f \in Setpoints
  <2>1. c.val[f] > 0 /\ ~SinglePoint(c)
    BY <1>3 DEF WellFormed, SinglePoint
  <2>. QED
    BY <1>1, <1>3, <2>1 DEF BuildUpdate, ValidFields, PeriodValues, Effective, Setpoints
<1>4. CASE f = "sp"
  <2>1. SinglePoint(c)
    BY <1>4 DEF WellFormed, SinglePoint
  <2>. QED
    BY <1>1, <1>4, <2>1 DEF BuildUpdate, ValidFields, PeriodValues, Setpoints
<1>. QED
  BY <1>1, <1>2, <1>3, <1>4 DEF PeriodFields, Setpoints

-----------------------------------------------------------------------------
(* The last command wins.  It is at one of three places: still in the pipe  *)
(* with nothing for its zone behind it, in the hands of the command thread, *)
(* or past both, on the wire or in the device.                             *)

InPipe(z) == \E i \in 1..Len(stdin) : stdin[i].zone = z
InHand(z) == pc \in {"match", "copy"} /\ cur.zone = z
LastInPipe(z) ==
    \E i \in 1..Len(stdin) :
        stdin[i] = issued[z] /\ \A j \in 1..Len(stdin) : j > i => stdin[j].zone # z
\* The wire carries what the command asks for, or else the device has it.
AwayReached(z) ==
    LET on == issued[z].val["away"] # 0
    IN  IF awayFlight[z.sys] # None THEN awayFlight[z.sys].on = on
                                    ELSE devAway[z.sys] = on
ScheduleReached(z) ==
    LET m == flight[z.zid]
    IN  \A f \in issued[z].asked :
           IF m # None /\ m.cmd.zone = z
           THEN f \in m.valid /\ m.val[f] = issued[z].val[f]
           ELSE dev[z][f] = issued[z].val[f]
Reached(z) == IF IsAway(issued[z]) THEN AwayReached(z) ELSE ScheduleReached(z)

Tracked(z) ==
    (issued[z] # None /\ z \notin upset) =>
        \/ LastInPipe(z)
        \/ ~InPipe(z) /\ InHand(z) /\ cur = issued[z]
        \/ ~InPipe(z) /\ ~InHand(z) /\ Reached(z)

IssuedToZone == \A z \in Zones : issued[z] # None => issued[z].zone = z
CopyIsSchedule == pc = "copy" => ~IsAway(cur)
\* What waits on the away writer is an AWAY command for its system.
AwayOnWire ==
    \A s \in Systems : awayFlight[s] # None =>
        /\ awayFlight[s].cmd \in Commands /\ IsAway(awayFlight[s].cmd)
        /\ awayFlight[s].cmd.zone.sys = s

OrderFacts == IssuedToZone /\ CopyIsSchedule /\ AwayOnWire
OrderInv   == OrderFacts /\ \A z \in Zones : Tracked(z)

LEMMA ZoneTypes ==
    ASSUME NEW z \in Zones
    PROVE  z.sys \in Systems /\ z.zid \in Slots
  BY DEF Systems, Slots

\* Every step keeps the three supporting facts.
LEMMA OrderFactsStep == TypeOK /\ OrderFacts /\ [Next]_vars => OrderFacts'
<1> SUFFICES ASSUME TypeOK, OrderFacts, [Next]_vars PROVE OrderFacts'
  OBVIOUS
<1>. USE DEF device, bridge, wire
<1>1. IssuedToZone'
  <2>1. ASSUME NEW c \in Commands, SendCommand(c)
        PROVE  IssuedToZone'
    <3>1. c.zone \in Zones
      BY ConstantsAssumption DEF Command
    <3>. QED
      BY <2>1, <3>1 DEF SendCommand, OrderFacts, IssuedToZone, TypeOK
  <2>2. (\E c \in Commands : SendCommand(c)) \/ UNCHANGED issued
    BY DEF Next, MainThread, CommandThread, Environment, Process, vars,
           TakeSamples, PrintSample, GetLine, DropCommand, StartCopy, SendUpdate,
           SendAway, Acknowledged, EditDevice, Publish, Match, Unmatch, Deliver,
           DeliverAway, Crash, Launch
  <2>. QED
    BY <2>1, <2>2 DEF OrderFacts, IssuedToZone
<1>2. CopyIsSchedule'
  <2>1. \/ UNCHANGED <<pc, cur>>
        \/ pc' # "copy"
        \/ cur' = cur /\ ~IsAway(cur)
    BY DEF Next, MainThread, CommandThread, Environment, Process, vars,
           TakeSamples, PrintSample, GetLine, DropCommand, StartCopy, SendUpdate,
           SendAway, Acknowledged, SendCommand, EditDevice, Publish, Match, Unmatch,
           Deliver, DeliverAway, Crash, Launch
  <2>. QED
    BY <2>1 DEF OrderFacts, CopyIsSchedule, IsAway
<1>3. AwayOnWire'
  <2>1. CASE SendAway
    <3>1. cur \in Commands /\ cur.zone.sys \in Systems
      BY <2>1, ConstantsAssumption DEF SendAway, TypeOK, Command, Systems
    <3>2. awayFlight' = [awayFlight EXCEPT ![cur.zone.sys] =
                            [cmd |-> cur, on |-> cur.val["away"] # 0]]
      BY <2>1 DEF SendAway
    <3>. QED
      BY <2>1, <3>1, <3>2 DEF SendAway, OrderFacts, AwayOnWire, TypeOK
  <2>2. ASSUME NEW s \in Systems, DeliverAway(s)
        PROVE  AwayOnWire'
    BY <2>2 DEF DeliverAway, OrderFacts, AwayOnWire, TypeOK
  <2>3. \/ SendAway \/ \E s \in Systems : DeliverAway(s)
        \/ UNCHANGED awayFlight
        \/ awayFlight' = [s \in Systems |-> None]
    BY DEF Next, MainThread, CommandThread, Environment, Process, vars,
           TakeSamples, PrintSample, GetLine, DropCommand, StartCopy, SendUpdate,
           Acknowledged, SendCommand, EditDevice, Publish, Match, Unmatch,
           Deliver, Crash, Launch
  <2>. QED
    BY <2>1, <2>2, <2>3 DEF OrderFacts, AwayOnWire
<1>. QED
  BY <1>1, <1>2, <1>3 DEF OrderFacts

\* Steps that move no command and leave the device alone keep Tracked.
LEMMA TrackedFrame ==
    ASSUME NEW z \in Zones, Tracked(z),
           UNCHANGED <<dev, devAway, stdin, flight, awayFlight, issued, upset>>,
           InHand(z)' = InHand(z),
           InHand(z) => cur' = cur
    PROVE  Tracked(z)'
<1>1. /\ LastInPipe(z)' = LastInPipe(z) /\ InPipe(z)' = InPipe(z)
      /\ Reached(z)' = Reached(z)
  BY DEF LastInPipe, InPipe, Reached, AwayReached, ScheduleReached
<1>. QED
  BY <1>1 DEF Tracked

\* A zone overtaken by a loss or an edit is not followed.
LEMMA UpsetTracked == ASSUME NEW z \in Zones, z \in upset' PROVE Tracked(z)'
  BY DEF Tracked

LEMMA SendTracked ==
    ASSUME TypeOK, OrderFacts, NEW z \in Zones, Tracked(z),
           NEW c \in Commands, SendCommand(c)
    PROVE  Tracked(z)'
<1>. USE DEF device, bridge, wire
<1>1. /\ stdin' = Append(stdin, c) /\ stdin \in Seq(Commands) /\ c.zone \in Zones
      /\ Len(stdin') = Len(stdin) + 1 /\ stdin'[Len(stdin) + 1] = c
      /\ \A i \in 1..Len(stdin) : stdin'[i] = stdin[i]
  BY ConstantsAssumption DEF SendCommand, TypeOK, Command
<1>2. Len(stdin) \in Nat
  BY <1>1
<1>3. CASE z = c.zone
  <2>1. issued'[z] = c
    BY <1>1, <1>3 DEF SendCommand, TypeOK
  <2>2. LastInPipe(z)'
    BY <1>1, <1>2, <2>1 DEF LastInPipe
  <2>. QED
    BY <2>2 DEF Tracked
<1>4. CASE z # c.zone
  <2>1. issued'[z] = issued[z] /\ (z \in upset' <=> z \in upset)
    BY <1>1, <1>4 DEF SendCommand, TypeOK
  <2>2. LastInPipe(z) => LastInPipe(z)'
    BY <1>1, <1>2, <1>4, <2>1 DEF LastInPipe
  <2>3. InPipe(z)' = InPipe(z)
    BY <1>1, <1>2, <1>4 DEF InPipe
  <2>4. InHand(z)' = InHand(z) /\ cur' = cur /\ Reached(z)' = Reached(z)
    BY <2>1 DEF SendCommand, InHand, Reached, AwayReached, ScheduleReached
  <2>. QED
    BY <2>1, <2>2, <2>3, <2>4 DEF Tracked
<1>. QED
  BY <1>3, <1>4

LEMMA GetLineTracked ==
    ASSUME TypeOK, OrderFacts, NEW z \in Zones, Tracked(z), GetLine
    PROVE  Tracked(z)'
<1>. USE DEF device, bridge, wire
<1>1. /\ stdin \in Seq(Commands) /\ stdin # <<>> /\ stdin' = Tail(stdin)
      /\ Len(stdin) \in Nat /\ Len(stdin) > 0 /\ Len(stdin') = Len(stdin) - 1
      /\ cur' = stdin[1] /\ pc' = "match" /\ pc = "getline"
  BY DEF GetLine, TypeOK
<1>2. \A i \in 1..Len(stdin') : i + 1 \in 1..Len(stdin) /\ stdin'[i] = stdin[i + 1]
  BY <1>1
<1>3. \A i \in 1..Len(stdin) : i # 1 => i - 1 \in 1..Len(stdin') /\ stdin'[i - 1] = stdin[i]
  BY <1>1, <1>2
<1>4. InPipe(z)' => InPipe(z)
  BY <1>1, <1>2 DEF InPipe
<1>5. InHand(z)' <=> stdin[1].zone = z
  BY <1>1 DEF InHand
<1>6. UNCHANGED <<issued, upset>> /\ Reached(z)' = Reached(z)
  BY DEF GetLine, Reached, AwayReached, ScheduleReached
<1> SUFFICES ASSUME issued[z] # None, z \notin upset
             PROVE  \/ LastInPipe(z)'
                    \/ ~InPipe(z)' /\ InHand(z)' /\ cur' = issued[z]
                    \/ ~InPipe(z)' /\ ~InHand(z)' /\ Reached(z)
  BY <1>6 DEF Tracked
<1>7. issued[z].zone = z
  BY DEF OrderFacts, IssuedToZone
<1>8. CASE LastInPipe(z)
  <2> PICK i \in 1..Len(stdin) :
           stdin[i] = issued[z] /\ \A j \in 1..Len(stdin) : j > i => stdin[j].zone # z
    BY <1>8 DEF LastInPipe
  <2>1. CASE i = 1
    <3>1. ~InPipe(z)'
      BY <1>1, <1>2, <2>1 DEF InPipe
    <3>. QED
      BY <1>5, <1>7, <1>1, <2>1, <3>1
  <2>2. CASE i # 1
    <3>1. i - 1 \in 1..Len(stdin') /\ stdin'[i - 1] = issued[z]
      BY <1>3, <2>2
    <3>2. ASSUME NEW j \in 1..Len(stdin'), j > i - 1
          PROVE  stdin'[j].zone # z
      BY <1>1, <1>2, <3>2
    <3>3. LastInPipe(z)'
      BY <1>6, <3>1, <3>2 DEF LastInPipe
    <3>. QED
      BY <3>3
  <2>. QED
    BY <2>1, <2>2
<1>9. CASE ~LastInPipe(z)
  <2>1. ~InPipe(z) /\ ~InHand(z) /\ Reached(z)
    BY <1>1, <1>9 DEF Tracked, InHand
  <2>2. stdin[1].zone # z
    BY <1>1, <2>1 DEF InPipe
  <2>. QED
    BY <1>4, <1>5, <2>1, <2>2
<1>. QED
  BY <1>8, <1>9

\* A write replaces an update of another zone only by overtaking that zone; one
\* of the same zone is older.
LEMMA SendUpdateTracked ==
    ASSUME WellFormed, TypeOK, OrderFacts, NEW z \in Zones, Tracked(z), SendUpdate
    PROVE  Tracked(z)'
<1>. USE DEF device, bridge, wire
<1> DEFINE k == cur.zone.zid
           u == BuildUpdate(cur, ps)
<1>1. /\ cur \in Commands /\ cur.zone \in Zones /\ k \in Slots /\ ps \in Snapshot
      /\ ~IsAway(cur) /\ pc = "copy"
  BY ConstantsAssumption DEF SendUpdate, TypeOK, Command, Slots, OrderFacts, CopyIsSchedule
<1>2. u.cmd = cur
  BY DEF BuildUpdate
<1>3. /\ pc' = "settle" /\ UNCHANGED <<stdin, cur, dev, devAway, awayFlight, issued>>
      /\ upset \subseteq upset' /\ ~InHand(z)'
      /\ LastInPipe(z)' = LastInPipe(z) /\ InPipe(z)' = InPipe(z)
  BY DEF SendUpdate, InHand, LastInPipe, InPipe
<1> SUFFICES ASSUME issued[z] # None, z \notin upset', ~LastInPipe(z)
             PROVE  ~InPipe(z) /\ Reached(z)'
  BY <1>3 DEF Tracked
<1>4. z \notin upset
  BY <1>3
<1>5. CASE "schedule" \notin matched
  <2>1. z # cur.zone /\ UNCHANGED flight
    BY <1>5 DEF SendUpdate, Missed
  <2>2. ~InPipe(z) /\ Reached(z)
    BY <1>4, <2>1 DEF Tracked, InHand
  <2>3. Reached(z)' = Reached(z)
    BY <1>3, <2>1 DEF Reached, AwayReached, ScheduleReached
  <2>. QED
    BY <2>2, <2>3
<1>6. CASE "schedule" \in matched
  <2>1. flight' = [flight EXCEPT ![k] = u]
    BY <1>6 DEF SendUpdate
  <2>2. CASE cur.zone = z
    <3>1. ~InPipe(z) /\ cur = issued[z]
      BY <1>1, <1>4, <2>2 DEF Tracked, InHand
    <3>2. flight'[z.zid] = u
      BY <1>1, <2>1, <2>2 DEF TypeOK
    <3>3. \A f \in cur.asked : f \in u.valid /\ u.val[f] = cur.val[f]
      BY <1>1, BuiltInFull
    <3>4. u # None
      BY DEF BuildUpdate, None
    <3>. QED
      BY <1>1, <1>2, <1>3, <2>2, <3>1, <3>2, <3>3, <3>4 DEF Reached, ScheduleReached
  <2>3. CASE cur.zone # z
    <3>1. ~InPipe(z) /\ Reached(z)
      BY <1>4, <2>3 DEF Tracked, InHand
    <3>2. CASE z.zid # k
      <4>1. flight'[z.zid] = flight[z.zid]
        BY <2>1, <3>2, ZoneTypes DEF TypeOK
      <4>2. Reached(z)' = Reached(z)
        BY <1>3, <4>1 DEF Reached, AwayReached, ScheduleReached
      <4>. QED
        BY <3>1, <4>2
    <3>3. CASE z.zid = k
      <4>1. flight'[z.zid] = u
        BY <1>1, <2>1, <3>3 DEF TypeOK
      <4>2. ~(flight[z.zid] # None /\ flight[z.zid].cmd.zone = z)
        BY <1>6, <2>3, <3>3 DEF SendUpdate, Missed
      <4>3. ScheduleReached(z) => ScheduleReached(z)'
        BY <1>2, <1>3, <2>3, <4>1, <4>2 DEF ScheduleReached
      <4>4. AwayReached(z)' = AwayReached(z)
        BY <1>3 DEF AwayReached
      <4>. QED
        BY <1>3, <3>1, <4>3, <4>4 DEF Reached
    <3>. QED
      BY <3>2, <3>3
  <2>. QED
    BY <2>2, <2>3
<1>. QED
  BY <1>5, <1>6

LEMMA SendAwayTracked ==
    ASSUME AwayFromOneZone, TypeOK, OrderFacts, NEW z \in Zones, Tracked(z), SendAway
    PROVE  Tracked(z)'
<1>. USE DEF device, bridge, wire
<1>1. /\ cur \in Commands /\ cur.zone.sys \in Systems /\ IsAway(cur) /\ pc = "match"
  BY ConstantsAssumption DEF SendAway, TypeOK, Command, Systems
<1>2. awayFlight' = [awayFlight EXCEPT ![cur.zone.sys] =
                        [cmd |-> cur, on |-> cur.val["away"] # 0]]
  BY DEF SendAway
<1>3. /\ pc' = "settle" /\ UNCHANGED <<stdin, cur, dev, devAway, flight, issued, upset>>
      /\ ~InHand(z)' /\ LastInPipe(z)' = LastInPipe(z) /\ InPipe(z)' = InPipe(z)
  BY DEF SendAway, InHand, LastInPipe, InPipe
<1> SUFFICES ASSUME issued[z] # None, z \notin upset, ~LastInPipe(z)
             PROVE  ~InPipe(z) /\ Reached(z)'
  BY <1>3 DEF Tracked
<1>4. issued[z] \in Commands /\ issued[z].zone = z
  BY DEF OrderFacts, IssuedToZone, TypeOK
<1>5. CASE cur.zone = z
  <2>1. ~InPipe(z) /\ cur = issued[z]
    BY <1>1, <1>5 DEF Tracked, InHand
  <2>2. awayFlight'[z.sys] = [cmd |-> cur, on |-> cur.val["away"] # 0]
    BY <1>1, <1>2, <1>5 DEF TypeOK
  <2>3. awayFlight'[z.sys] # None /\ awayFlight'[z.sys].on = (issued[z].val["away"] # 0)
    BY <2>1, <2>2 DEF None
  <2>. QED
    BY <1>1, <1>3, <2>1, <2>3 DEF Reached, AwayReached
<1>6. CASE cur.zone # z
  <2>1. ~InPipe(z) /\ Reached(z)
    BY <1>6 DEF Tracked, InHand
  <2>2. IsAway(issued[z]) => cur.zone.sys # z.sys
    BY <1>1, <1>4, <1>6 DEF AwayFromOneZone
  <2>3. IsAway(issued[z]) => awayFlight'[z.sys] = awayFlight[z.sys]
    BY <1>2, <2>2, ZoneTypes DEF TypeOK
  <2>4. Reached(z)' = Reached(z)
    BY <1>3, <2>3 DEF Reached, AwayReached, ScheduleReached
  <2>. QED
    BY <2>1, <2>4
<1>. QED
  BY <1>5, <1>6

\* The device adopts what the wire carries.
LEMMA DeliverTracked ==
    ASSUME TypeOK, OrderFacts, NEW z \in Zones, Tracked(z), NEW k \in Slots, Deliver(k)
    PROVE  Tracked(z)'
<1>. USE DEF device, bridge, wire
<1> DEFINE m == flight[k]
<1>1. /\ m # None /\ m.cmd.zone \in Zones /\ m.cmd.zone.zid = k
  BY DEF Deliver, TypeOK, Update, Command
<1>2. /\ flight' = [flight EXCEPT ![k] = None]
      /\ dev' = [dev EXCEPT ![m.cmd.zone] =
                    [f \in PeriodFields |-> IF f \in m.valid THEN m.val[f]
                                            ELSE dev[m.cmd.zone][f]]]
      /\ UNCHANGED <<devAway, stdin, pc, cur, awayFlight, issued, upset>>
  BY <1>1 DEF Deliver, TypeOK
<1>3. /\ LastInPipe(z)' = LastInPipe(z) /\ InPipe(z)' = InPipe(z)
      /\ InHand(z)' = InHand(z) /\ AwayReached(z)' = AwayReached(z)
  BY <1>2 DEF LastInPipe, InPipe, InHand, AwayReached
<1>4. ASSUME issued[z] # None, ~IsAway(issued[z]), ScheduleReached(z)
      PROVE  ScheduleReached(z)'
  <2>1. issued[z].asked \subseteq PeriodFields
    BY <1>4, ConstantsAssumption DEF TypeOK, Command, IsAway
  <2>2. CASE m.cmd.zone = z
    <3>1. flight'[z.zid] = None
      BY <1>1, <1>2, <2>2 DEF TypeOK
    <3>2. \A f \in issued[z].asked : f \in m.valid /\ m.val[f] = issued[z].val[f]
      BY <1>1, <1>4, <2>2 DEF ScheduleReached
    <3>3. \A f \in issued[z].asked : dev'[z][f] = issued[z].val[f]
      BY <1>2, <2>1, <2>2, <3>2 DEF TypeOK
    <3>. QED
      BY <1>2, <3>1, <3>3 DEF ScheduleReached
  <2>3. CASE m.cmd.zone # z
    <3>1. dev'[z] = dev[z]
      BY <1>2, <2>3 DEF TypeOK
    <3>2. CASE z.zid = k
      <4>1. flight'[z.zid] = None
        BY <1>2, <3>2 DEF TypeOK
      <4>. QED
        BY <1>2, <1>4, <2>3, <3>1, <3>2, <4>1 DEF ScheduleReached
    <3>3. CASE z.zid # k
      <4>1. flight'[z.zid] = flight[z.zid]
        BY <1>2, <3>3, ZoneTypes DEF TypeOK
      <4>. QED
        BY <1>2, <1>4, <3>1, <4>1 DEF ScheduleReached
    <3>. QED
      BY <3>2, <3>3
  <2>. QED
    BY <2>2, <2>3
<1>. QED
  BY <1>2, <1>3, <1>4 DEF Tracked, Reached

LEMMA DeliverAwayTracked ==
    ASSUME TypeOK, OrderFacts, NEW z \in Zones, Tracked(z),
           NEW s \in Systems, DeliverAway(s)
    PROVE  Tracked(z)'
<1>. USE DEF device, bridge, wire
<1>1. /\ awayFlight[s] # None
      /\ awayFlight' = [awayFlight EXCEPT ![s] = None]
      /\ devAway' = [devAway EXCEPT ![s] = awayFlight[s].on]
      /\ UNCHANGED <<dev, stdin, pc, cur, flight, issued, upset>>
  BY DEF DeliverAway
<1>2. /\ LastInPipe(z)' = LastInPipe(z) /\ InPipe(z)' = InPipe(z)
      /\ InHand(z)' = InHand(z) /\ ScheduleReached(z)' = ScheduleReached(z)
  BY <1>1 DEF LastInPipe, InPipe, InHand, ScheduleReached
<1>3. AwayReached(z) => AwayReached(z)'
  BY <1>1, ZoneTypes DEF AwayReached, TypeOK
<1>. QED
  BY <1>1, <1>2, <1>3 DEF Tracked, Reached

\* When no command is under way for a zone, the last one sent to it reached the
\* device: what LastCommandWins says.
LEMMA NothingUnderWay ==
    ASSUME AwayFromOneZone, TypeOK, OrderFacts, NEW z \in Zones, Tracked(z),
           issued[z] # None, z \notin upset, \A c \in Outstanding : c.zone # z
    PROVE  /\ ~InPipe(z) /\ ~InHand(z)
           /\ flight[z.zid] # None => flight[z.zid].cmd.zone # z
           /\ IsAway(issued[z]) => awayFlight[z.sys] = None
           /\ IF IsAway(issued[z])
              THEN devAway[z.sys] = (issued[z].val["away"] # 0)
              ELSE \A f \in issued[z].asked : dev[z][f] = issued[z].val[f]
<1>1. issued[z] \in Commands /\ issued[z].zone = z
  BY DEF OrderFacts, IssuedToZone, TypeOK
<1>2. ~InPipe(z)
  BY DEF InPipe, Outstanding
<1>3. ~InHand(z)
  BY DEF InHand, Outstanding
<1>4. flight[z.zid] # None => flight[z.zid].cmd.zone # z
  BY ZoneTypes DEF Outstanding
<1>5. ASSUME IsAway(issued[z]), awayFlight[z.sys] # None
      PROVE  FALSE
  <2>1. /\ awayFlight[z.sys].cmd \in Commands /\ IsAway(awayFlight[z.sys].cmd)
        /\ awayFlight[z.sys].cmd.zone.sys = z.sys
    BY <1>5, ZoneTypes DEF OrderFacts, AwayOnWire
  <2>2. awayFlight[z.sys].cmd.zone = z
    BY <1>1, <1>5, <2>1 DEF AwayFromOneZone
  <2>. QED
    BY <1>5, <2>2, ZoneTypes DEF Outstanding
<1>6. ~LastInPipe(z)
  BY <1>1, <1>2 DEF LastInPipe, InPipe
<1>7. Reached(z)
  BY <1>2, <1>3, <1>6 DEF Tracked
<1>. QED
  BY <1>2, <1>3, <1>4, <1>5, <1>7 DEF Reached, AwayReached, ScheduleReached

LEMMA CrashTracked ==
    ASSUME AwayFromOneZone, TypeOK, OrderFacts, NEW z \in Zones, Tracked(z), Crash
    PROVE  Tracked(z)'
<1>. USE DEF device
<1> SUFFICES ASSUME issued[z] # None, z \notin upset'
             PROVE  ~InPipe(z)' /\ ~InHand(z)' /\ Reached(z)'
  BY DEF Tracked, Crash
<1>1. z \notin upset /\ \A c \in Outstanding : c.zone # z
  BY DEF Crash
<1>2. IF IsAway(issued[z])
      THEN devAway[z.sys] = (issued[z].val["away"] # 0)
      ELSE \A f \in issued[z].asked : dev[z][f] = issued[z].val[f]
  BY <1>1, NothingUnderWay
<1>3. stdin' = <<>> /\ pc' = "getline" /\ UNCHANGED <<dev, devAway, issued>>
  BY DEF Crash
<1>4. flight'[z.zid] = None /\ awayFlight'[z.sys] = None
  BY ZoneTypes DEF Crash
<1>. QED
  BY <1>2, <1>3, <1>4
     DEF InPipe, InHand, Reached, AwayReached, ScheduleReached

LEMMA UnmatchTracked ==
    ASSUME AwayFromOneZone, TypeOK, OrderFacts, NEW z \in Zones, Tracked(z),
           NEW t \in Topics, Unmatch(t)
    PROVE  Tracked(z)'
<1>. USE DEF device, bridge
<1>1. /\ UNCHANGED <<dev, devAway, stdin, pc, cur, issued>>
      /\ upset' = upset \cup ZonesOnWire(t)
  BY DEF Unmatch
<1>2. /\ LastInPipe(z)' = LastInPipe(z) /\ InPipe(z)' = InPipe(z)
      /\ InHand(z)' = InHand(z)
  BY <1>1 DEF LastInPipe, InPipe, InHand
<1> SUFFICES ASSUME issued[z] # None, z \notin upset, z \notin ZonesOnWire(t), Reached(z)
             PROVE  Reached(z)'
  BY <1>1, <1>2 DEF Tracked
<1>3. issued[z] \in Commands /\ issued[z].zone = z
  BY DEF OrderFacts, IssuedToZone, TypeOK
<1>4. CASE t = "schedule"
  <2>1. flight'[z.zid] = None /\ UNCHANGED awayFlight
    BY <1>4, ZoneTypes DEF Unmatch
  <2>2. flight[z.zid] # None => flight[z.zid].cmd.zone # z
    BY <1>4, ZoneTypes DEF ZonesOnWire
  <2>. QED
    BY <1>1, <2>1, <2>2 DEF Reached, AwayReached, ScheduleReached
<1>5. CASE t = "away"
  <2>1. awayFlight'[z.sys] = None /\ UNCHANGED flight
    BY <1>5, ZoneTypes DEF Unmatch
  <2>2. awayFlight[z.sys] # None => awayFlight[z.sys].cmd.zone # z
    BY <1>5, ZoneTypes DEF ZonesOnWire
  <2>3. IsAway(issued[z]) => awayFlight[z.sys] = None
    BY <1>3, <2>2, ZoneTypes DEF OrderFacts, AwayOnWire, AwayFromOneZone
  <2>. QED
    BY <1>1, <2>1, <2>3 DEF Reached, AwayReached, ScheduleReached
<1>. QED
  BY <1>4, <1>5 DEF Topics

LEMMA DropTracked ==
    ASSUME TypeOK, OrderFacts, NEW z \in Zones, Tracked(z), DropCommand
    PROVE  Tracked(z)'
<1>. USE DEF device, bridge, wire
<1>1. CASE cur.zone = z
  BY <1>1, UpsetTracked DEF DropCommand
<1>2. CASE cur.zone # z
  <2>1. ~InHand(z) /\ ~InHand(z)'
    BY <1>2 DEF DropCommand, InHand
  <2>2. z \in upset' <=> z \in upset
    BY <1>2 DEF DropCommand
  <2>3. /\ LastInPipe(z)' = LastInPipe(z) /\ InPipe(z)' = InPipe(z)
        /\ Reached(z)' = Reached(z) /\ UNCHANGED issued
    BY DEF DropCommand, LastInPipe, InPipe, Reached, AwayReached, ScheduleReached
  <2>. QED
    BY <2>1, <2>2, <2>3 DEF Tracked
<1>. QED
  BY <1>1, <1>2

LEMMA EditTracked ==
    ASSUME TypeOK, NEW z \in Zones, Tracked(z),
           NEW y \in Zones, NEW f \in Editable, NEW v \in Values, EditDevice(y, f, v)
    PROVE  Tracked(z)'
<1>. USE DEF device, bridge, wire
<1>1. CASE y = z
  BY <1>1, UpsetTracked DEF EditDevice
<1>2. CASE y # z
  <2>1. dev'[z] = dev[z] /\ UNCHANGED <<devAway, stdin, pc, cur, flight, awayFlight, issued>>
    BY <1>2 DEF EditDevice, TypeOK
  <2>2. z \in upset' <=> z \in upset
    BY <1>2 DEF EditDevice
  <2>3. /\ LastInPipe(z)' = LastInPipe(z) /\ InPipe(z)' = InPipe(z)
        /\ InHand(z)' = InHand(z) /\ Reached(z)' = Reached(z)
    BY <2>1 DEF LastInPipe, InPipe, InHand, Reached, AwayReached, ScheduleReached
  <2>. QED
    BY <2>1, <2>2, <2>3 DEF Tracked
<1>. QED
  BY <1>1, <1>2

\* Every step keeps track of the last command of every zone.
LEMMA TrackedStep ==
    ASSUME WellFormed, AwayFromOneZone, TypeOK, OrderFacts,
           NEW z \in Zones, Tracked(z), [Next]_vars
    PROVE  Tracked(z)'
<1>. USE DEF device, bridge, wire
<1>1. CASE \/ TakeSamples \/ \E m \in batch : PrintSample(m)
           \/ StartCopy \/ Acknowledged
           \/ \E y \in Zones : Publish(y)
           \/ \E t \in Topics : Match(t)
           \/ \E ok \in SUBSET Topics : Launch(ok)
           \/ UNCHANGED vars
  <2>1. /\ UNCHANGED <<dev, devAway, stdin, flight, awayFlight, issued, upset>>
        /\ InHand(z)' = InHand(z)
        /\ InHand(z) => cur' = cur
    BY <1>1 DEF TakeSamples, PrintSample, StartCopy, Acknowledged, Publish, Match,
                Launch, vars, InHand
  <2>. QED
    BY <2>1, TrackedFrame
<1>2. CASE GetLine
  BY <1>2, GetLineTracked
<1>3. CASE DropCommand
  BY <1>3, DropTracked
<1>4. CASE SendUpdate
  BY <1>4, SendUpdateTracked
<1>5. CASE SendAway
  BY <1>5, SendAwayTracked
<1>6. ASSUME NEW c \in Commands, SendCommand(c)
      PROVE  Tracked(z)'
  BY <1>6, SendTracked
<1>7. ASSUME NEW y \in Zones, NEW f \in Editable, NEW v \in Values, EditDevice(y, f, v)
      PROVE  Tracked(z)'
  BY <1>7, EditTracked
<1>8. ASSUME NEW t \in Topics, Unmatch(t)
      PROVE  Tracked(z)'
  BY <1>8, UnmatchTracked
<1>9. ASSUME NEW k \in Slots, Deliver(k)
      PROVE  Tracked(z)'
  BY <1>9, DeliverTracked
<1>10. ASSUME NEW s \in Systems, DeliverAway(s)
       PROVE  Tracked(z)'
  BY <1>10, DeliverAwayTracked
<1>11. CASE Crash
  BY <1>11, CrashTracked
<1>. QED
  BY <1>1, <1>2, <1>3, <1>4, <1>5, <1>6, <1>7, <1>8, <1>9, <1>10, <1>11
     DEF Next, MainThread, CommandThread, Environment, Process

\* Once nothing is under way for a zone it shows the last command sent to it,
\* unless a loss or an edit came after it: for every home, with any number of
\* commands, edits, crashes and lost matches in any order.
THEOREM LastCommandHolds ==
    ASSUME WellFormed, AwayFromOneZone
    PROVE  Spec => []LastCommandWins
<1>1. Init => OrderInv
  BY DEF Init, OrderInv, OrderFacts, IssuedToZone, CopyIsSchedule, AwayOnWire, Tracked
<1>2. TypeOK /\ OrderInv /\ [Next]_vars => OrderInv'
  <2> SUFFICES ASSUME TypeOK, OrderInv, [Next]_vars PROVE OrderInv'
    OBVIOUS
  <2>1. OrderFacts'
    BY OrderFactsStep DEF OrderInv
  <2>2. ASSUME NEW z \in Zones
        PROVE  Tracked(z)'
    BY TrackedStep DEF OrderInv
  <2>. QED
    BY <2>1, <2>2 DEF OrderInv
<1>3. TypeOK /\ OrderInv => LastCommandWins
  BY NothingUnderWay DEF OrderInv, LastCommandWins
<1>. QED
  BY <1>1, <1>2, <1>3, TypeCorrect, PTL DEF Spec

-----------------------------------------------------------------------------
(* Changes made one at a time: the bridge implements ControlPromise.  A     *)
(* command is at one place only, and until it is on the wire all that the   *)
(* bridge knows agrees with the device.                                     *)

Queued  == stdin # <<>>
Working == pc \in {"match", "copy"}
Waiting(k) == flight[k] # None
AwayWaiting(s) == awayFlight[s] # None

OneAtATime ==
    /\ Len(stdin) <= 1
    /\ Queued => ~Working
    /\ Queued \/ Working =>
          (\A k \in Slots : ~Waiting(k)) /\ (\A s \in Systems : ~AwayWaiting(s))
    /\ \A k, j \in Slots : Waiting(k) /\ Waiting(j) => k = j
    /\ \A k \in Slots, s \in Systems : ~(Waiting(k) /\ AwayWaiting(s))
    /\ \A s, t \in Systems : AwayWaiting(s) /\ AwayWaiting(t) => s = t

SamplesAgree == \A m \in unread \cup batch : m.period = dev[m.zone]
CacheAgrees  == \A z \in Zones : cache[z.sys] \in {EmptySnapshot, SnapshotOf(dev[z])}
CopyAgrees   == pc = "copy" =>
                   \A f \in CachedFields : ps[f] = 0 \/ ps[f] = dev[cur.zone][f]
Agrees == pub = dev /\ SamplesAgree /\ CacheAgrees /\ CopyAgrees

\* A write changes exactly what its command asks for.
Exact(m) ==
    \A f \in PeriodFields :
        IF f \in m.cmd.asked THEN f \in m.valid /\ m.val[f] = m.cmd.val[f]
                             ELSE f \in m.valid => m.val[f] = dev[m.cmd.zone][f]
WireExact ==
    \A k \in Slots : Waiting(k) => flight[k].cmd \in Commands /\ Exact(flight[k])

PromiseInv ==
    /\ OneAtATime
    /\ Queued \/ Working => Agrees
    /\ CopyIsSchedule
    /\ WireExact

\* With nothing in the pipe, in the hands of the thread or on the wire.
Idle == /\ ~Queued /\ ~Working
        /\ \A k \in Slots : ~Waiting(k)
        /\ \A s \in Systems : ~AwayWaiting(s)

LEMMA IdleOutstanding ==
    ASSUME TypeOK
    PROVE  Outstanding = {} <=> Idle
<1>1. Outstanding = {} => Idle
  <2> SUFFICES ASSUME Outstanding = {} PROVE Idle
    OBVIOUS
  <2>1. ~Queued
    <3>1. Queued => stdin[1] \in {stdin[i] : i \in 1..Len(stdin)}
      BY DEF Queued, TypeOK
    <3>. QED
      BY <3>1 DEF Outstanding
  <2>2. ~Working
    BY DEF Working, Outstanding
  <2>3. \A k \in Slots : ~Waiting(k)
    BY DEF Waiting, Outstanding
  <2>4. \A s \in Systems : ~AwayWaiting(s)
    BY DEF AwayWaiting, Outstanding
  <2>. QED
    BY <2>1, <2>2, <2>3, <2>4 DEF Idle
<1>2. Idle => Outstanding = {}
  <2> SUFFICES ASSUME Idle PROVE Outstanding = {}
    OBVIOUS
  <2>1. {stdin[i] : i \in 1..Len(stdin)} = {}
    BY DEF Idle, Queued
  <2>. QED
    BY <2>1 DEF Outstanding, Idle, Working, Waiting, AwayWaiting
<1>. QED
  BY <1>1, <1>2

\* A settled bridge agrees with the device.
LEMMA SettledAgrees ==
    ASSUME OneZonePerSystem, TypeOK, Settled
    PROVE  Idle /\ Agrees
<1>1. Idle
  BY IdleOutstanding DEF Settled
<1>2. CacheAgrees
  BY ZoneTypes DEF Settled, CacheAgrees, OneZonePerSystem
<1>3. CopyAgrees
  BY <1>1 DEF Idle, Working, CopyAgrees
<1>. QED
  BY <1>1, <1>2, <1>3 DEF Settled, Agrees, SamplesAgree

\* An update completed from a copy that agrees with the device changes exactly
\* what its command asks for.
LEMMA BuiltExact ==
    ASSUME WellFormed, NEW c \in Commands, ~IsAway(c), NEW s \in Snapshot,
           \A f \in CachedFields : s[f] = 0 \/ s[f] = dev[c.zone][f]
    PROVE  Exact(BuildUpdate(c, s))
<1>1. BuildUpdate(c, s).cmd = c
  BY DEF BuildUpdate
<1> SUFFICES ASSUME NEW f \in PeriodFields, f \notin c.asked, f \in BuildUpdate(c, s).valid
             PROVE  BuildUpdate(c, s).val[f] = dev[c.zone][f]
  BY <1>1, BuiltInFull DEF Exact
<1>2. f \in Setpoints /\ ~SinglePoint(c) /\ s[f] > 0
  BY DEF BuildUpdate, ValidFields, Effective, SinglePoint
<1>3. BuildUpdate(c, s).val[f] = s[f]
  BY <1>2 DEF BuildUpdate, PeriodValues, Effective, Setpoints, PeriodFields
<1>4. s[f] = dev[c.zone][f]
  BY <1>2 DEF Setpoints, CachedFields
<1>. QED
  BY <1>3, <1>4

\* What the steps do to the four places a command can be at.
LEMMA OneAtATimeStep ==
    ASSUME Patient, TypeOK, OneAtATime, [Next]_vars
    PROVE  OneAtATime'
<1>. USE DEF device, bridge, wire
<1>1. ASSUME NEW c \in Commands, SendCommand(c)
      PROVE  OneAtATime'
  <2>1. Idle
    BY <1>1, IdleOutstanding DEF SendCommand, Settled
  <2>2. Len(stdin') = 1
    BY <1>1, <2>1 DEF SendCommand, TypeOK, Idle, Queued
  <2>3. UNCHANGED <<pc, flight, awayFlight>>
    BY <1>1 DEF SendCommand
  <2>. QED
    BY <2>1, <2>2, <2>3 DEF OneAtATime, Idle, Working, Waiting, AwayWaiting
<1>2. CASE GetLine
  <2>1. stdin' = <<>>
    <3>1. /\ stdin \in Seq(Commands) /\ stdin # <<>> /\ Len(stdin) <= 1
          /\ stdin' = Tail(stdin)
      BY <1>2 DEF GetLine, TypeOK, OneAtATime
    <3>2. Len(stdin) \in Nat /\ Len(stdin) # 0
      BY <3>1
    <3>3. stdin' \in Seq(Commands) /\ Len(stdin') = Len(stdin) - 1
      BY <3>1
    <3>4. Len(stdin') = 0
      BY <3>1, <3>2, <3>3
    <3>. QED
      BY <3>3, <3>4
  <2>2. Queued
    BY <1>2 DEF GetLine, Queued
  <2>3. UNCHANGED <<flight, awayFlight>>
    BY <1>2 DEF GetLine
  <2>. QED
    BY <2>1, <2>2, <2>3 DEF OneAtATime, Queued, Waiting, AwayWaiting
<1>3. CASE SendUpdate
  <2>1. Working /\ ~Working' /\ UNCHANGED <<stdin, awayFlight>>
    BY <1>3 DEF SendUpdate, Working
  <2>2. \A k \in Slots : Waiting(k)' => k = cur.zone.zid
    BY <1>3, <2>1 DEF SendUpdate, TypeOK, OneAtATime, Waiting
  <2>. QED
    BY <2>1, <2>2 DEF OneAtATime, Queued, AwayWaiting
<1>4. CASE SendAway
  <2>1. Working /\ ~Working' /\ UNCHANGED <<stdin, flight>>
    BY <1>4 DEF SendAway, Working
  <2>2. \A s \in Systems : AwayWaiting(s)' => s = cur.zone.sys
    BY <1>4, <2>1 DEF SendAway, TypeOK, OneAtATime, AwayWaiting
  <2>. QED
    BY <2>1, <2>2 DEF OneAtATime, Queued, Waiting
<1>5. ASSUME \/ DropCommand \/ Acknowledged \/ Crash
             \/ \E t \in Topics : Unmatch(t)
             \/ \E k \in Slots : Deliver(k)
             \/ \E s \in Systems : DeliverAway(s)
      PROVE  OneAtATime'
  <2>1. stdin' \in {stdin, <<>>}
    BY <1>5 DEF DropCommand, Acknowledged, Crash, Unmatch, Deliver, DeliverAway
  <2>2. Working' => Working
    BY <1>5 DEF DropCommand, Acknowledged, Crash, Unmatch, Deliver, DeliverAway, Working
  <2>3. ASSUME NEW k \in Slots
        PROVE  Waiting(k)' => Waiting(k)
    <3>1. CASE DropCommand \/ Acknowledged \/ \E s \in Systems : DeliverAway(s)
      BY <3>1 DEF DropCommand, Acknowledged, DeliverAway, Waiting, wire
    <3>2. CASE Crash \/ \E t \in Topics : Unmatch(t)
      BY <3>2 DEF Crash, Unmatch, Waiting
    <3>3. CASE \E j \in Slots : Deliver(j)
      BY <3>3 DEF Deliver, TypeOK, Waiting
    <3>. QED
      BY <1>5, <3>1, <3>2, <3>3
  <2>4. ASSUME NEW s \in Systems
        PROVE  AwayWaiting(s)' => AwayWaiting(s)
    BY <1>5 DEF DropCommand, Acknowledged, Crash, Unmatch, Deliver, DeliverAway, TypeOK,
                AwayWaiting
  <2>5. Len(stdin') <= 1 /\ (Queued' => Queued)
    BY <2>1 DEF OneAtATime, Queued
  <2>. QED
    BY <2>2, <2>3, <2>4, <2>5 DEF OneAtATime
<1>6. ASSUME \/ TakeSamples \/ StartCopy \/ \E m \in batch : PrintSample(m)
             \/ \E z \in Zones, f \in Editable, v \in Values : EditDevice(z, f, v)
             \/ \E z \in Zones : Publish(z)
             \/ \E t \in Topics : Match(t)
             \/ \E ok \in SUBSET Topics : Launch(ok)
             \/ UNCHANGED vars
      PROVE  OneAtATime'
  <2>1. UNCHANGED <<stdin, flight, awayFlight>> /\ Working' = Working
    BY <1>6 DEF TakeSamples, PrintSample, StartCopy, EditDevice, Publish, Match, Launch,
                vars, Working
  <2>. QED
    BY <2>1 DEF OneAtATime, Queued, Waiting, AwayWaiting
<1>. QED
  BY <1>1, <1>2, <1>3, <1>4, <1>5, <1>6
     DEF Next, MainThread, CommandThread, Environment, Process

\* Printing a sample that agrees with the device keeps cache and copy agreeing,
\* also when it tears the copy.
LEMMA PrintAgrees ==
    ASSUME OneZonePerSystem, TypeOK, Agrees, NEW m \in batch, PrintSample(m)
    PROVE  Agrees'
<1>. USE DEF device, bridge, wire
<1> DEFINE new == SnapshotOf(dev[m.zone])
<1>1. /\ m.zone \in Zones /\ m.zone.sys \in Systems /\ m.period = dev[m.zone]
      /\ new \in Snapshot /\ SnapshotOf(m.period) = new
  BY SnapshotType DEF TypeOK, Sample, Systems, Agrees, SamplesAgree
<1>2. /\ cache' = [cache EXCEPT ![m.zone.sys] = new]
      /\ UNCHANGED <<dev, pub, unread, pc, cur>> /\ batch' \subseteq batch
  BY <1>1 DEF PrintSample, CacheAfter
<1>3. CacheAgrees'
  BY <1>1, <1>2, ZoneTypes DEF CacheAgrees, Agrees, OneZonePerSystem, TypeOK
<1>4. CopyAgrees'
  <2> SUFFICES ASSUME pc = "copy", NEW f \in CachedFields
               PROVE  ps'[f] = 0 \/ ps'[f] = dev[cur.zone][f]
    BY <1>2 DEF CopyAgrees
  <2>1. cur.zone \in Zones
    BY ConstantsAssumption DEF TypeOK, Command
  <2>2. CASE cur.zone.sys = m.zone.sys
    <3>1. cur.zone = m.zone
      BY <1>1, <2>1, <2>2 DEF OneZonePerSystem
    <3>2. ps' \in Torn(ps, new)
      BY <1>1, <2>2 DEF PrintSample
    <3>3. ps'[f] = ps[f] \/ ps'[f] = dev[cur.zone][f]
      BY <1>1, <3>1, <3>2, TornField DEF TypeOK, SnapshotOf
    <3>. QED
      BY <3>3 DEF Agrees, CopyAgrees
  <2>3. CASE cur.zone.sys # m.zone.sys
    BY <2>3 DEF PrintSample, Agrees, CopyAgrees
  <2>. QED
    BY <2>2, <2>3
<1>. QED
  BY <1>2, <1>3, <1>4 DEF Agrees, SamplesAgree

\* Until a command is on the wire, everything the bridge holds agrees with the
\* device.
LEMMA AgreesStep ==
    ASSUME Patient, OneZonePerSystem, TypeOK, PromiseInv, [Next]_vars, Queued' \/ Working'
    PROVE  Agrees'
<1>. USE DEF device, bridge, wire
<1>1. ASSUME NEW c \in Commands, SendCommand(c)
      PROVE  Agrees'
  <2>1. Agrees
    BY <1>1, SettledAgrees DEF SendCommand
  <2>. QED
    BY <1>1, <2>1 DEF SendCommand, Agrees, SamplesAgree, CacheAgrees, CopyAgrees
<1>2. ASSUME NEW m \in batch, PrintSample(m)
      PROVE  Agrees'
  <2>1. Queued \/ Working
    BY <1>2 DEF PrintSample, Queued, Working
  <2>. QED
    BY <1>2, <2>1, PrintAgrees DEF PromiseInv
<1>3. CASE TakeSamples
  BY <1>3 DEF TakeSamples, PromiseInv, Queued, Working, Agrees, SamplesAgree, CacheAgrees,
              CopyAgrees
<1>4. ASSUME NEW z \in Zones, Publish(z)
      PROVE  Agrees'
  <2>1. Agrees
    BY <1>4 DEF Publish, PromiseInv, Queued, Working
  <2>2. dev' = dev /\ pub' = pub /\ UNCHANGED <<batch, cache, pc, cur, ps>>
    BY <1>4, <2>1 DEF Publish, Agrees, TypeOK
  <2>3. \A m \in unread' : m \in unread \/ m = [zone |-> z, period |-> dev[z]]
    BY <1>4 DEF Publish
  <2>. QED
    BY <2>1, <2>2, <2>3 DEF Agrees, SamplesAgree, CacheAgrees, CopyAgrees
<1>5. CASE GetLine
  <2>1. Queued
    BY <1>5 DEF GetLine, Queued
  <2>. QED
    BY <1>5, <2>1 DEF GetLine, PromiseInv, Agrees, SamplesAgree, CacheAgrees, CopyAgrees
<1>6. CASE StartCopy
  <2>1. Working /\ cur.zone \in Zones
    BY <1>6, ConstantsAssumption DEF StartCopy, Working, TypeOK, Command
  <2>2. Agrees
    BY <2>1 DEF PromiseInv
  <2>3. CopyAgrees'
    <3>1. cache[cur.zone.sys] \in {EmptySnapshot, SnapshotOf(dev[cur.zone])}
      BY <2>1, <2>2 DEF Agrees, CacheAgrees
    <3>2. ps' = cache[cur.zone.sys] /\ UNCHANGED <<dev, cur>>
      BY <1>6 DEF StartCopy
    <3>. QED
      BY <3>1, <3>2 DEF CopyAgrees, EmptySnapshot, SnapshotOf
  <2>. QED
    BY <1>6, <2>2, <2>3 DEF StartCopy, Agrees, SamplesAgree, CacheAgrees
<1>7. CASE DropCommand \/ SendUpdate \/ SendAway
  \* The thread had the only command, so none is left.
  <2>1. Working /\ ~Working' /\ UNCHANGED stdin
    BY <1>7 DEF DropCommand, SendUpdate, SendAway, Working
  <2>. QED
    BY <2>1 DEF PromiseInv, OneAtATime, Queued
<1>8. CASE Acknowledged
  <2>1. Queued
    BY <1>8 DEF Acknowledged, Queued, Working
  <2>2. UNCHANGED <<dev, pub, unread, batch, cache>> /\ pc' = "getline"
    BY <1>8 DEF Acknowledged
  <2>. QED
    BY <2>1, <2>2 DEF PromiseInv, Agrees, SamplesAgree, CacheAgrees, CopyAgrees
<1>9. ASSUME NEW z \in Zones, NEW f \in Editable, NEW v \in Values, EditDevice(z, f, v)
      PROVE  Agrees'
  \* Somebody who waits edits the device only when no command is under way.
  <2>1. Idle
    BY <1>9, IdleOutstanding DEF EditDevice, Settled
  <2>. QED
    BY <1>9, <2>1 DEF EditDevice, Idle, Queued, Working
<1>10. ASSUME NEW k \in Slots, Deliver(k)
       PROVE  Agrees'
  BY <1>10 DEF Deliver, PromiseInv, OneAtATime, Queued, Working, Waiting
<1>11. CASE \/ \E t \in Topics : Match(t) \/ Unmatch(t)
            \/ \E s \in Systems : DeliverAway(s)
            \/ UNCHANGED vars
  BY <1>11 DEF Match, Unmatch, DeliverAway, vars, PromiseInv, Queued, Working, Agrees,
               SamplesAgree, CacheAgrees, CopyAgrees
<1>12. ASSUME NEW ok \in SUBSET Topics, Launch(ok)
       PROVE  Agrees'
  <2>1. Agrees
    BY <1>12 DEF Launch, PromiseInv, Queued, Working
  <2>2. UNCHANGED <<dev, pub, batch, cache, pc, cur, ps>>
    BY <1>12 DEF Launch
  <2>3. \A m \in unread' : m.period = dev[m.zone]
    BY <1>12, <2>1 DEF Launch, Agrees
  <2>. QED
    BY <2>1, <2>2, <2>3 DEF Agrees, SamplesAgree, CacheAgrees, CopyAgrees
<1>13. CASE Crash
  BY <1>13 DEF Crash, Queued, Working
<1>. QED
  BY <1>1, <1>2, <1>3, <1>4, <1>5, <1>6, <1>7, <1>8, <1>9, <1>10, <1>11, <1>12, <1>13
     DEF Next, MainThread, CommandThread, Environment, Process

\* A write is exact when it is made, and stays so: nothing else moves the device
\* while it waits.
LEMMA WireExactStep ==
    ASSUME Patient, WellFormed, TypeOK, PromiseInv, [Next]_vars
    PROVE  WireExact'
<1>. USE DEF device, bridge, wire
<1> SUFFICES ASSUME NEW k \in Slots, Waiting(k)'
             PROVE  flight'[k].cmd \in Commands /\ Exact(flight[k])'
  BY DEF WireExact
<1>1. ASSUME flight'[k] = flight[k], UNCHANGED dev
      PROVE  flight'[k].cmd \in Commands /\ Exact(flight[k])'
  BY <1>1 DEF PromiseInv, WireExact, Exact, Waiting
<1>2. CASE SendUpdate
  <2>1. /\ cur \in Commands /\ cur.zone \in Zones /\ ps \in Snapshot /\ ~IsAway(cur)
        /\ pc = "copy" /\ UNCHANGED dev
    BY <1>2, ConstantsAssumption
       DEF SendUpdate, TypeOK, Command, PromiseInv, CopyIsSchedule
  <2>2. \A f \in CachedFields : ps[f] = 0 \/ ps[f] = dev[cur.zone][f]
    BY <2>1 DEF PromiseInv, Working, Agrees, CopyAgrees
  <2>3. flight'[k] = BuildUpdate(cur, ps) \/ flight'[k] = flight[k]
    BY <1>2 DEF SendUpdate, TypeOK
  <2>4. Exact(BuildUpdate(cur, ps)) /\ BuildUpdate(cur, ps).cmd = cur
    BY <2>1, <2>2, BuiltExact DEF BuildUpdate
  <2>5. CASE flight'[k] = BuildUpdate(cur, ps)
    BY <2>1, <2>4, <2>5 DEF Exact
  <2>. QED
    BY <1>1, <2>1, <2>3, <2>5
<1>3. ASSUME NEW j \in Slots, Deliver(j)
      PROVE  FALSE
  <2>1. Waiting(j) /\ Waiting(k) /\ k # j
    BY <1>3 DEF Deliver, Waiting, TypeOK
  <2>. QED
    BY <2>1 DEF PromiseInv, OneAtATime
<1>4. ASSUME NEW z \in Zones, NEW f \in Editable, NEW v \in Values, EditDevice(z, f, v)
      PROVE  FALSE
  <2>1. Idle
    BY <1>4, IdleOutstanding DEF EditDevice, Settled
  <2>2. Waiting(k)
    BY <1>4 DEF EditDevice, Waiting
  <2>. QED
    BY <2>1, <2>2 DEF Idle
<1>5. \/ SendUpdate \/ \E j \in Slots : Deliver(j)
      \/ \E z \in Zones, f \in Editable, v \in Values : EditDevice(z, f, v)
      \/ flight'[k] = flight[k] /\ UNCHANGED dev
  <2>1. CASE MainThread \/ UNCHANGED vars
    BY <2>1 DEF MainThread, TakeSamples, PrintSample, vars
  <2>2. CASE CommandThread
    BY <2>2 DEF CommandThread, GetLine, DropCommand, StartCopy, SendAway, Acknowledged
  <2>3. CASE Environment
    <3>1. ASSUME NEW t \in Topics, Unmatch(t)
          PROVE  flight'[k] = flight[k] /\ UNCHANGED dev
      BY <3>1 DEF Unmatch, Waiting
    <3>. QED
      BY <2>3, <3>1 DEF Environment, SendCommand, Publish, Match, DeliverAway
  <2>4. CASE Process
    BY <2>4 DEF Process, Crash, Launch, Waiting
  <2>. QED
    BY <2>1, <2>2, <2>3, <2>4 DEF Next
<1>. QED
  BY <1>1, <1>2, <1>3, <1>4, <1>5

LEMMA PromiseInvStep ==
    ASSUME Patient, WellFormed, OneZonePerSystem, TypeOK, OrderFacts, PromiseInv,
           [Next]_vars
    PROVE  PromiseInv'
  BY OneAtATimeStep, AgreesStep, WireExactStep, OrderFactsStep DEF PromiseInv, OrderFacts

\* A command that stays at one place stays outstanding; one that leaves the last
\* place is no longer.
LEMMA FewerOutstanding ==
    ASSUME TypeOK, Len(stdin') \in Nat,
           \A i \in 1..Len(stdin') : stdin'[i] \in Outstanding,
           Working' => cur' \in Outstanding,
           \A k \in Slots : Waiting(k)' => flight'[k].cmd \in Outstanding,
           \A s \in Systems : AwayWaiting(s)' => awayFlight'[s].cmd \in Outstanding
    PROVE  Outstanding' \subseteq Outstanding
<1> SUFFICES ASSUME NEW c \in Outstanding' PROVE c \in Outstanding
  OBVIOUS
<1>1. \/ \E i \in 1..Len(stdin') : c = stdin'[i]
      \/ Working' /\ c = cur'
      \/ \E k \in Slots : Waiting(k)' /\ c = flight'[k].cmd
      \/ \E s \in Systems : AwayWaiting(s)' /\ c = awayFlight'[s].cmd
  BY DEF Outstanding, Working, Waiting, AwayWaiting
<1>. QED
  BY <1>1

LEMMA IsOutstanding ==
    ASSUME TypeOK
    PROVE  /\ \A i \in 1..Len(stdin) : stdin[i] \in Outstanding
           /\ Working => cur \in Outstanding
           /\ \A k \in Slots : Waiting(k) => flight[k].cmd \in Outstanding
           /\ \A s \in Systems : AwayWaiting(s) => awayFlight[s].cmd \in Outstanding
  BY DEF Outstanding, Working, Waiting, AwayWaiting

\* SendCommand is Send: nothing else was outstanding.
LEMMA SendIsSend ==
    ASSUME Patient, TypeOK, NEW c \in Commands, SendCommand(c)
    PROVE  Promise!Send(c)
<1>. USE DEF device, bridge, wire
<1>1. Idle /\ Outstanding = {}
  BY IdleOutstanding DEF SendCommand, Settled
<1>2. stdin' = Append(<<>>, c) /\ UNCHANGED <<dev, pc, flight, awayFlight>>
  BY <1>1 DEF SendCommand, Idle, Queued
<1>3. Len(stdin') = 1 /\ stdin'[1] = c
  BY <1>2
<1>4. {stdin'[i] : i \in 1..Len(stdin')} = {c}
  BY <1>3
<1>5. Outstanding' = {c}
  BY <1>1, <1>2, <1>4 DEF Outstanding, Idle, Working, Waiting, AwayWaiting
<1>. QED
  BY <1>1, <1>2, <1>5 DEF Promise!Send

\* Deliver is Land: the update is exact and was the only one outstanding.
LEMMA DeliverIsLand ==
    ASSUME TypeOK, TypeOK', PromiseInv, NEW k \in Slots, Deliver(k)
    PROVE  flight[k].cmd \in Outstanding /\ Promise!Land(flight[k].cmd)
<1>. USE DEF device, bridge, wire
<1> DEFINE m == flight[k]
           c == m.cmd
           z == c.zone
<1>1. Waiting(k) /\ c \in Commands /\ z \in Zones /\ Exact(m)
  BY ConstantsAssumption DEF Deliver, Waiting, PromiseInv, WireExact, Command
<1>2. /\ ~Queued /\ ~Working /\ \A j \in Slots : Waiting(j) => j = k
      /\ \A s \in Systems : ~AwayWaiting(s)
  BY <1>1 DEF PromiseInv, OneAtATime
<1>3. c \in Outstanding
  BY <1>1, IsOutstanding
<1>4. Outstanding \subseteq {c}
  <2>1. {stdin[i] : i \in 1..Len(stdin)} = {}
    BY <1>2 DEF Queued
  <2>. QED
    BY <1>2, <2>1 DEF Outstanding, Working, Waiting, AwayWaiting
<1>5. Outstanding' = {}
  <2>1. /\ UNCHANGED <<stdin, pc, awayFlight>>
        /\ \A j \in Slots : flight'[j] = IF j = k THEN None ELSE flight[j]
    BY DEF Deliver, TypeOK
  <2>2. Idle'
    BY <1>2, <2>1 DEF Idle, Queued, Working, Waiting, AwayWaiting
  <2>3. (Outstanding = {} <=> Idle)'
    BY IdleOutstanding, PTL
  <2>. QED
    BY <2>2, <2>3
<1>6. dev[z] \in Period /\ DOMAIN dev[z] = PeriodFields
  BY <1>1 DEF TypeOK, Period
<1>7. [f \in PeriodFields |-> IF f \in m.valid THEN m.val[f] ELSE dev[z][f]]
        = [f \in DOMAIN dev[z] |-> IF f \in c.asked THEN c.val[f] ELSE dev[z][f]]
  BY <1>1, <1>6 DEF Exact
<1>8. dev' = [dev EXCEPT ![z] =
                 [f \in PeriodFields |-> IF f \in m.valid THEN m.val[f] ELSE dev[z][f]]]
  BY <1>1 DEF Deliver, TypeOK
<1>9. dev' = [dev EXCEPT ![z] =
                 [f \in DOMAIN dev[z] |-> IF f \in c.asked THEN c.val[f] ELSE dev[z][f]]]
  BY <1>7, <1>8
<1>. QED
  BY <1>3, <1>4, <1>5, <1>9 DEF Promise!Land

\* An edit happens while nothing is outstanding.
LEMMA EditIsDeviceChange ==
    ASSUME Patient, TypeOK, TypeOK',
           NEW z \in Zones, NEW f \in Editable, NEW v \in Values, EditDevice(z, f, v)
    PROVE  Outstanding = {} /\ Promise!DeviceChanges(z)
<1>. USE DEF device, bridge, wire
<1>1. Outstanding = {}
  BY DEF EditDevice, Settled
<1>2. Outstanding' = Outstanding
  BY DEF EditDevice, Outstanding
<1>3. \A y \in Zones \ {z} : dev'[y] = dev[y]
  BY DEF EditDevice, TypeOK
<1>4. DOMAIN dev' = Zones
  BY DEF TypeOK
<1>. QED
  BY <1>1, <1>2, <1>3, <1>4 DEF Promise!DeviceChanges

\* Every other step leaves the device alone and moves or forgets commands.
LEMMA OtherwiseForget ==
    ASSUME TypeOK, TypeOK',
           \/ MainThread \/ CommandThread \/ Process \/ UNCHANGED vars
           \/ \E z \in Zones : Publish(z)
           \/ \E t \in Topics : Match(t) \/ Unmatch(t)
           \/ \E s \in Systems : DeliverAway(s)
    PROVE  Promise!Forget
<1>. USE DEF device, bridge, wire
<1>1. UNCHANGED dev
  BY DEF MainThread, TakeSamples, PrintSample, CommandThread, GetLine, DropCommand,
         StartCopy, SendUpdate, SendAway, Acknowledged, Process, Crash, Launch, Publish,
         Match, Unmatch, DeliverAway, vars
<1>2. Len(stdin') \in Nat
  BY DEF TypeOK
<1>3. ASSUME NEW i \in 1..Len(stdin')
      PROVE  stdin'[i] \in Outstanding
  <2>1. CASE GetLine
    <3>1. stdin \in Seq(Commands) /\ stdin # <<>> /\ stdin' = Tail(stdin)
      BY <2>1 DEF GetLine, TypeOK
    <3>2. i + 1 \in 1..Len(stdin) /\ stdin'[i] = stdin[i + 1]
      BY <3>1
    <3>. QED
      BY <3>2, IsOutstanding
  <2>2. CASE ~GetLine
    <3>1. stdin' = stdin \/ stdin' = <<>>
      BY <2>2 DEF MainThread, TakeSamples, PrintSample, CommandThread, DropCommand,
                  StartCopy, SendUpdate, SendAway, Acknowledged, Process, Crash, Launch,
                  Publish, Match, Unmatch, DeliverAway, vars
    <3>2. CASE stdin' = <<>>
      BY <3>2
    <3>3. CASE stdin' = stdin
      BY <3>3, IsOutstanding
    <3>. QED
      BY <3>1, <3>2, <3>3
  <2>. QED
    BY <2>1, <2>2
<1>4. ASSUME Working'
      PROVE  cur' \in Outstanding
  <2>1. CASE GetLine
    <3>1. 1 \in 1..Len(stdin) /\ cur' = stdin[1]
      BY <2>1 DEF GetLine, TypeOK
    <3>. QED
      BY <3>1, IsOutstanding
  <2>2. CASE ~GetLine
    <3>1. Working /\ cur' = cur
      BY <1>4, <2>2 DEF MainThread, TakeSamples, PrintSample, CommandThread, DropCommand,
                  StartCopy, SendUpdate, SendAway, Acknowledged, Process, Crash, Launch,
                  Publish, Match, Unmatch, DeliverAway, vars, Working
    <3>. QED
      BY <3>1, IsOutstanding
  <2>. QED
    BY <2>1, <2>2
<1>5. ASSUME NEW k \in Slots, Waiting(k)'
      PROVE  flight'[k].cmd \in Outstanding
  <2>1. \/ Waiting(k) /\ flight'[k] = flight[k]
        \/ Working /\ flight'[k].cmd = cur
    <3>1. CASE SendUpdate
      BY <1>5, <3>1 DEF SendUpdate, Working, Waiting, TypeOK, BuildUpdate
    <3>2. CASE ~SendUpdate
      BY <1>5, <3>2 DEF MainThread, TakeSamples, PrintSample, CommandThread, GetLine,
                  DropCommand, StartCopy, SendAway, Acknowledged, Process, Crash, Launch,
                  Publish, Match, Unmatch, DeliverAway, vars, Waiting
    <3>. QED
      BY <3>1, <3>2
  <2>. QED
    BY <2>1, IsOutstanding
<1>6. ASSUME NEW s \in Systems, AwayWaiting(s)'
      PROVE  awayFlight'[s].cmd \in Outstanding
  <2>1. \/ AwayWaiting(s) /\ awayFlight'[s] = awayFlight[s]
        \/ Working /\ awayFlight'[s].cmd = cur
    <3>1. CASE SendAway
      BY <1>6, <3>1 DEF SendAway, Working, AwayWaiting, TypeOK
    <3>2. ASSUME NEW t \in Systems, DeliverAway(t)
          PROVE  AwayWaiting(s) /\ awayFlight'[s] = awayFlight[s]
      BY <1>6, <3>2 DEF DeliverAway, AwayWaiting, TypeOK
    <3>3. CASE ~SendAway /\ ~\E t \in Systems : DeliverAway(t)
      BY <1>6, <3>3 DEF MainThread, TakeSamples, PrintSample, CommandThread, GetLine,
                  DropCommand, StartCopy, SendUpdate, Acknowledged, Process, Crash, Launch,
                  Publish, Match, Unmatch, vars, AwayWaiting
    <3>. QED
      BY <3>1, <3>2, <3>3
  <2>. QED
    BY <2>1, IsOutstanding
<1>7. Outstanding' \subseteq Outstanding
  BY <1>2, <1>3, <1>4, <1>5, <1>6, FewerOutstanding
<1>. QED
  BY <1>1, <1>7 DEF Promise!Forget

\* Every step of the bridge is a step of the promise, or changes nothing in it.
LEMMA PromiseStep ==
    ASSUME Patient, TypeOK, TypeOK', PromiseInv, [Next]_vars
    PROVE  Promise!Next
<1>1. ASSUME NEW c \in Commands, SendCommand(c)
      PROVE  Promise!Next
  BY <1>1, SendIsSend DEF Promise!Next
<1>2. ASSUME NEW k \in Slots, Deliver(k)
      PROVE  Promise!Next
  BY <1>2, DeliverIsLand DEF Promise!Next
<1>3. ASSUME NEW z \in Zones, NEW f \in Editable, NEW v \in Values, EditDevice(z, f, v)
      PROVE  Promise!Next
  BY <1>3, EditIsDeviceChange DEF Promise!Next
<1>4. ASSUME \/ MainThread \/ CommandThread \/ Process \/ UNCHANGED vars
             \/ \E z \in Zones : Publish(z)
             \/ \E t \in Topics : Match(t) \/ Unmatch(t)
             \/ \E s \in Systems : DeliverAway(s)
      PROVE  Promise!Next
  BY <1>4, OtherwiseForget DEF Promise!Next
<1>. QED
  BY <1>1, <1>2, <1>3, <1>4 DEF Next, Environment

\* With one zone in each system and changes made one at a time, the control path
\* implements ControlPromise: a command changes exactly the fields it asks for,
\* or is forgotten, whatever samples, crashes and lost matches come in between.
THEOREM PromiseKept ==
    ASSUME Patient, WellFormed, OneZonePerSystem
    PROVE  Spec => KeepsPromise
<1>1. Init => OrderFacts /\ PromiseInv
  <2> SUFFICES ASSUME Init PROVE OrderFacts /\ PromiseInv
    OBVIOUS
  <2>1. ~Queued /\ ~Working /\ Len(stdin) = 0
    BY DEF Init, Queued, Working
  <2>2. (\A k \in Slots : ~Waiting(k)) /\ (\A s \in Systems : ~AwayWaiting(s))
    BY DEF Init, Waiting, AwayWaiting
  <2>3. OrderFacts
    BY DEF Init, OrderFacts, IssuedToZone, CopyIsSchedule, AwayOnWire
  <2>. QED
    BY <2>1, <2>2, <2>3 DEF PromiseInv, OneAtATime, WireExact, OrderFacts
<1>2. TypeOK /\ OrderFacts /\ PromiseInv /\ [Next]_vars => OrderFacts' /\ PromiseInv'
  BY OrderFactsStep, PromiseInvStep
<1>3. Init => Promise!Init
  <2> SUFFICES ASSUME Init PROVE Outstanding = {} /\ dev = Start
    BY DEF Promise!Init
  <2>1. {stdin[i] : i \in 1..Len(stdin)} = {}
    BY DEF Init
  <2>. QED
    BY <2>1 DEF Init, Outstanding
<1>4. TypeOK /\ TypeOK' /\ PromiseInv /\ [Next]_vars => [Promise!Next]_<<dev, Outstanding>>
  BY PromiseStep
<1>. QED
  BY <1>1, <1>2, <1>3, <1>4, TypeCorrect, PTL DEF Spec, KeepsPromise, Promise!Spec

=============================================================================
