------------------------ MODULE ScheduleControl_proofs ------------------------
(***************************************************************************)
(* Proofs about ScheduleControl for every home, every set of commands and  *)
(* every bound: types, where the values of a write come from, and that     *)
(* only setpoints can change without having been asked for.                *)
(***************************************************************************)
EXTENDS ScheduleControl, TLAPS

\* A copy torn by a concurrent overwrite has in each field one of the two values.
LEMMA TornField ==
    ASSUME NEW old \in Snapshot, NEW new \in Snapshot, NEW p \in Torn(old, new)
    PROVE  /\ p \in Snapshot
           /\ \A f \in CachedFields : p[f] = old[f] \/ p[f] = new[f]
  BY DEF Torn, Snapshot

LEMMA SnapshotType ==
    ASSUME NEW p \in Period
    PROVE  SnapshotOf(p) \in Snapshot
  BY DEF Period, Snapshot, SnapshotOf, CachedFields, PeriodFields

LEMMA EmptyType == EmptySnapshot \in Snapshot
  BY ConstantsAssumption DEF EmptySnapshot, Snapshot

\* What write_period builds is an update: a set of period fields and a period.
LEMMA BuildUpdateType ==
    ASSUME NEW c \in Command, NEW s \in Snapshot
    PROVE  BuildUpdate(c, s) \in Update
<1>1. ASSUME NEW f \in CachedFields
      PROVE  Effective(c, s, f) \in Values
  BY <1>1 DEF Effective, Command, Snapshot, CachedFields, PeriodFields
<1>2. ValidFields(c, s) \in SUBSET PeriodFields
  BY DEF ValidFields, PeriodFields, Setpoints
<1>3. ASSUME NEW f \in PeriodFields
      PROVE  c.val[f] \in Values
  BY <1>3 DEF Command
<1>4. PeriodValues(c, s) \in Period
  BY <1>1, <1>3, ConstantsAssumption
     DEF PeriodValues, Period, PeriodFields, CachedFields, Setpoints
<1>. QED
  BY <1>2, <1>4 DEF BuildUpdate, Update

\* Each counter of counts may be incremented.
Counters == [sent : Nat, edits : Nat, crashes : Nat]
LEMMA CountsType ==
    ASSUME NEW c \in Counters
    PROVE  /\ [c EXCEPT !.sent = @ + 1] \in Counters
           /\ [c EXCEPT !.edits = @ + 1] \in Counters
           /\ [c EXCEPT !.crashes = @ + 1] \in Counters
  BY DEF Counters

-----------------------------------------------------------------------------
\* Every reachable state is well typed: an update waits on the instance of its own
\* zone, and the command thread works only where the schedule writer initialised.
THEOREM TypeCorrect == Spec => []TypeOK
<1>1. Init => TypeOK
  <2> SUFFICES ASSUME Init PROVE TypeOK
    OBVIOUS
  <2>1. cache \in [Systems -> Snapshot] /\ ps \in Snapshot
    BY EmptyType DEF Init
  <2>2. flight \in [Slots -> {None}] /\ awayFlight \in [Systems -> {None}]
    BY DEF Init
  <2>3. reported \in [Systems -> SUBSET Snapshot]
    BY DEF Init
  <2>4. issued \in [Zones -> {None}] /\ devAway \in [Systems -> BOOLEAN]
    BY DEF Init
  <2>5. /\ flight \in [Slots -> Update \cup {None}]
        /\ \A k \in Slots : flight[k] # None => flight[k].cmd.zone.zid = k
        /\ awayFlight \in [Systems -> AwayUpdate \cup {None}]
    BY <2>2
  <2>6. counts \in [sent : Nat, edits : Nat, crashes : Nat]
    BY DEF Init
  <2>7. dev \in [Zones -> Period] /\ pub \in [Zones -> Period] /\ stdin \in Seq(Commands)
    BY ConstantsAssumption DEF Init
  <2>. QED
    BY <2>1, <2>3, <2>4, <2>5, <2>6, <2>7 DEF Init, TypeOK, PCs
<1>2. TypeOK /\ [Next]_vars => TypeOK'
  <2> SUFFICES ASSUME TypeOK, [Next]_vars PROVE TypeOK'
    OBVIOUS
  <2>. USE DEF TypeOK, device, bridge, wire
  <2>1. CASE TakeSamples
    BY <2>1 DEF TakeSamples
  <2>2. ASSUME NEW m \in batch, PrintSample(m)
        PROVE  TypeOK'
    <3>1. m \in Sample /\ m.zone \in Zones /\ m.zone.sys \in Systems
      BY DEF Sample, Systems
    <3>2. SnapshotOf(m.period) \in Snapshot
      BY <3>1, SnapshotType DEF Sample
    <3>3. ps' \in Snapshot
      BY <2>2, <3>2, TornField DEF PrintSample
    <3>4. cache' \in [Systems -> Snapshot]
      BY <2>2, <3>1, <3>2 DEF PrintSample, CacheAfter
    <3>5. reported' \in [Systems -> SUBSET Snapshot]
      BY <2>2, <3>1, <3>2 DEF PrintSample
    <3>. QED
      BY <2>2, <3>3, <3>4, <3>5 DEF PrintSample
  <2>3. CASE GetLine
    BY <2>3 DEF GetLine, PCs
  <2>4. CASE DropCommand
    <3>1. cur.zone \in Zones
      BY <2>4, ConstantsAssumption DEF DropCommand, Command
    <3>. QED
      BY <2>4, <3>1 DEF DropCommand, PCs
  <2>5. CASE StartCopy
    <3>1. cur.zone.sys \in Systems
      BY <2>5, ConstantsAssumption DEF StartCopy, Command, Systems
    <3>. QED
      BY <2>5, <3>1 DEF StartCopy, PCs
  <2>6. CASE SendUpdate
    <3>1. cur \in Command /\ cur.zone \in Zones /\ cur.zone.zid \in Slots
      BY <2>6, ConstantsAssumption DEF SendUpdate, Command, Slots
    <3>2. BuildUpdate(cur, ps) \in Update /\ BuildUpdate(cur, ps).cmd = cur
      BY <3>1, BuildUpdateType DEF BuildUpdate
    <3>3. flight' \in [Slots -> Update \cup {None}]
      BY <2>6, <3>1, <3>2 DEF SendUpdate
    <3>4. \A k \in Slots : flight'[k] # None => flight'[k].cmd.zone.zid = k
      BY <2>6, <3>1, <3>2 DEF SendUpdate
    <3>5. upset' \in SUBSET Zones
      <4>1. flight[cur.zone.zid] # None => flight[cur.zone.zid].cmd.zone \in Zones
        BY <3>1 DEF Update, Command
      <4>2. Missed(cur.zone.zid, cur.zone) \subseteq Zones
        BY <3>1, <4>1 DEF Missed
      <4>. QED
        BY <2>6, <4>2 DEF SendUpdate
    <3>. QED
      BY <2>6, <3>3, <3>4, <3>5 DEF SendUpdate, PCs
  <2>7. CASE SendAway
    <3>1. cur \in Command /\ cur.zone.sys \in Systems
      BY <2>7, ConstantsAssumption DEF SendAway, Command, Systems
    <3>2. [cmd |-> cur, on |-> cur.val["away"] # 0] \in AwayUpdate
      BY <3>1 DEF AwayUpdate
    <3>. QED
      BY <2>7, <3>1, <3>2 DEF SendAway, PCs
  <2>8. CASE Acknowledged
    BY <2>8, EmptyType DEF Acknowledged, PCs
  <2>9. ASSUME NEW c \in Commands, SendCommand(c)
        PROVE  TypeOK'
    <3>1. c.zone \in Zones
      BY ConstantsAssumption DEF Command
    <3>2. counts' \in [sent : Nat, edits : Nat, crashes : Nat]
      BY <2>9, CountsType DEF SendCommand, Counters
    <3>3. stdin' \in Seq(Commands) /\ issued' \in [Zones -> Commands \cup {None}]
      BY <2>9, <3>1 DEF SendCommand
    <3>. QED
      BY <2>9, <3>1, <3>2, <3>3 DEF SendCommand
  <2>10. ASSUME NEW z \in Zones, NEW f \in Editable, NEW v \in Values, EditDevice(z, f, v)
         PROVE  TypeOK'
    <3>1. dev' \in [Zones -> Period]
      BY <2>10, ConstantsAssumption DEF EditDevice, Period
    <3>2. counts' \in [sent : Nat, edits : Nat, crashes : Nat]
      BY <2>10, CountsType DEF EditDevice, Counters
    <3>3. upset' \in SUBSET Zones
      BY <2>10 DEF EditDevice
    <3>4. UNCHANGED <<devAway, pub, up, writers, matched, unread, batch, cache, stdin, pc,
                      cur, ps, flight, awayFlight, issued, reported>>
      BY <2>10 DEF EditDevice
    <3>. QED
      BY <3>1, <3>2, <3>3, <3>4
  <2>11. ASSUME NEW z \in Zones, Publish(z)
         PROVE  TypeOK'
    <3>1. [zone |-> z, period |-> dev[z]] \in Sample
      BY DEF Sample
    <3>. QED
      BY <2>11, <3>1 DEF Publish
  <2>12. ASSUME NEW t \in Topics, Match(t)
         PROVE  TypeOK'
    BY <2>12 DEF Match
  <2>13. ASSUME NEW t \in Topics, Unmatch(t)
         PROVE  TypeOK'
    <3>1. ZonesOnWire(t) \in SUBSET Zones
      <4>1. \A k \in Slots : flight[k] # None => flight[k].cmd.zone \in Zones
        BY DEF Update, Command
      <4>2. \A s \in Systems : awayFlight[s] # None => awayFlight[s].cmd.zone \in Zones
        BY DEF AwayUpdate, Command
      <4>. QED
        BY <4>1, <4>2 DEF ZonesOnWire
    <3>2. flight' \in [Slots -> Update \cup {None}]
      BY <2>13 DEF Unmatch
    <3>3. \A k \in Slots : flight'[k] # None => flight'[k].cmd.zone.zid = k
      BY <2>13 DEF Unmatch
    <3>4. awayFlight' \in [Systems -> AwayUpdate \cup {None}]
      BY <2>13 DEF Unmatch
    <3>5. counts' \in [sent : Nat, edits : Nat, crashes : Nat]
      BY <2>13, CountsType DEF Unmatch, Counters
    <3>6. /\ matched' \in SUBSET writers /\ upset' \in SUBSET Zones
          /\ UNCHANGED <<dev, devAway, pub, up, writers, unread, batch, cache, stdin, pc, cur,
                         ps, issued, reported>>
      BY <2>13, <3>1 DEF Unmatch
    <3>. QED
      BY <3>2, <3>3, <3>4, <3>5, <3>6
  <2>14. ASSUME NEW k \in Slots, Deliver(k)
         PROVE  TypeOK'
    <3>1. flight[k] \in Update
      BY <2>14 DEF Deliver
    <3>2. flight[k].cmd.zone \in Zones /\ flight[k].val \in Period
      BY <3>1 DEF Update, Command
    <3>3. dev' \in [Zones -> Period]
      BY <2>14, <3>2 DEF Deliver, Period
    <3>4. flight' \in [Slots -> Update \cup {None}]
      BY <2>14 DEF Deliver
    <3>5. \A j \in Slots : flight'[j] # None => flight'[j].cmd.zone.zid = j
      BY <2>14 DEF Deliver
    <3>. QED
      BY <2>14, <3>3, <3>4, <3>5 DEF Deliver
  <2>15. ASSUME NEW s \in Systems, DeliverAway(s)
         PROVE  TypeOK'
    <3>1. awayFlight[s] \in AwayUpdate /\ awayFlight[s].on \in BOOLEAN
      BY <2>15 DEF DeliverAway, AwayUpdate
    <3>. QED
      BY <2>15, <3>1 DEF DeliverAway
  <2>16. CASE Crash
    <3>1. {c.zone : c \in Outstanding} \in SUBSET Zones
      <4>1. \A i \in 1..Len(stdin) : stdin[i] \in Commands
        OBVIOUS
      <4>2. \A k \in Slots : flight[k] # None => flight[k].cmd \in Command
        BY DEF Update
      <4>3. \A s \in Systems : awayFlight[s] # None => awayFlight[s].cmd \in Command
        BY DEF AwayUpdate
      <4>4. pc \in {"match", "copy"} => cur \in Commands
        OBVIOUS
      <4>5. \A c \in Outstanding : c \in Command
        BY <4>1, <4>2, <4>3, <4>4, ConstantsAssumption DEF Outstanding
      <4>. QED
        BY <4>5 DEF Command
    <3>2. cache' \in [Systems -> Snapshot] /\ ps' \in Snapshot
      BY <2>16, EmptyType DEF Crash
    <3>3. /\ flight' \in [Slots -> Update \cup {None}]
          /\ \A k \in Slots : flight'[k] # None => flight'[k].cmd.zone.zid = k
          /\ awayFlight' \in [Systems -> AwayUpdate \cup {None}]
      BY <2>16 DEF Crash
    <3>4. stdin' \in Seq(Commands) /\ upset' \in SUBSET Zones
      BY <2>16, <3>1 DEF Crash
    <3>5. counts' \in [sent : Nat, edits : Nat, crashes : Nat]
      BY <2>16, CountsType DEF Crash, Counters
    <3>. QED
      BY <2>16, <3>2, <3>3, <3>4, <3>5 DEF Crash, PCs
  <2>17. ASSUME NEW ok \in SUBSET Topics, Launch(ok)
         PROVE  TypeOK'
    <3>1. {[zone |-> z, period |-> pub[z]] : z \in Zones} \in SUBSET Sample
      BY DEF Sample
    <3>. QED
      BY <2>17, <3>1 DEF Launch
  <2>18. CASE UNCHANGED vars
    BY <2>18 DEF vars
  <2>. QED
    BY <2>1, <2>2, <2>3, <2>4, <2>5, <2>6, <2>7, <2>8, <2>9, <2>10, <2>11, <2>12,
       <2>13, <2>14, <2>15, <2>16, <2>17, <2>18
       DEF Next, MainThread, CommandThread, Environment, Process
<1>. QED
  BY <1>1, <1>2, PTL DEF Spec

-----------------------------------------------------------------------------
\* Steps that touch neither the cache, the command thread nor the written
\* updates keep what is known about the origin of setpoints.
LEMMA FillFrame ==
    ASSUME FillInv, UNCHANGED <<cache, pc, cur, ps, flight, reported>>
    PROVE  FillInv'
  BY DEF FillInv, CacheReported, CopyReported, FillProvenance, Filled

\* Samples printed are never forgotten: more reports keep FillProvenance.
LEMMA MoreReports ==
    ASSUME TypeOK, FillProvenance, UNCHANGED flight,
           \A s \in Systems : reported[s] \subseteq reported'[s]
    PROVE  FillProvenance'
<1> SUFFICES ASSUME NEW k \in Slots, flight[k] # None, NEW f \in Filled(flight[k])
             PROVE  /\ flight[k].val[f] > 0
                    /\ \E p \in reported'[flight[k].cmd.zone.sys] : p[f] = flight[k].val[f]
  BY DEF FillProvenance
<1>1. flight[k].cmd.zone.sys \in Systems
  BY DEF TypeOK, Update, Command, Systems
<1>. QED
  BY <1>1 DEF FillProvenance

\* The snapshot a write is completed with holds printed values only, so what the
\* write fills in was printed.
LEMMA SendKeepsProvenance ==
    ASSUME TypeOK, FillInv, SendUpdate
    PROVE  FillProvenance'
<1>1. cur \in Command /\ cur.zone.zid \in Slots /\ ps \in Snapshot
  BY ConstantsAssumption DEF SendUpdate, TypeOK, Command, Slots
<1> DEFINE u == BuildUpdate(cur, ps)
<1>2. u.cmd = cur /\ u.valid = ValidFields(cur, ps) /\ u.val = PeriodValues(cur, ps)
  BY DEF BuildUpdate
<1>3. ASSUME NEW f \in Filled(u)
      PROVE  /\ u.val[f] > 0
             /\ \E p \in reported[cur.zone.sys] : p[f] = u.val[f]
  <2>1. f \in Setpoints /\ f \notin cur.asked /\ f \in ValidFields(cur, ps)
    BY <1>2, <1>3 DEF Filled
  <2>2. ~SinglePoint(cur) /\ ps[f] > 0
    BY <2>1 DEF ValidFields, Effective, Setpoints
  <2>3. u.val[f] = ps[f]
    BY <1>2, <2>1, <2>2 DEF PeriodValues, Effective, Setpoints, PeriodFields
  <2>4. \E p \in reported[cur.zone.sys] : p[f] = ps[f]
    BY <2>1, <2>2 DEF FillInv, CopyReported, SendUpdate, Setpoints, CachedFields
  <2>. QED
    BY <2>2, <2>3, <2>4
<1>4. UNCHANGED reported /\ \A k \in Slots : flight'[k] \in {u, flight[k]}
  BY <1>1 DEF SendUpdate, TypeOK
<1> SUFFICES ASSUME NEW k \in Slots, flight'[k] # None, NEW f \in Filled(flight'[k])
             PROVE  /\ flight'[k].val[f] > 0
                    /\ \E p \in reported[flight'[k].cmd.zone.sys] : p[f] = flight'[k].val[f]
  BY <1>4 DEF FillProvenance, Filled
<1>5. CASE flight'[k] = u
  BY <1>2, <1>3, <1>5
<1>6. CASE flight'[k] = flight[k]
  BY <1>6 DEF FillInv, FillProvenance
<1>. QED
  BY <1>4, <1>5, <1>6

\* A printed sample enters the cache and the history together, and a copy it
\* tears mixes printed values.
LEMMA PrintKeepsFill ==
    ASSUME TypeOK, FillInv, NEW m \in batch, PrintSample(m)
    PROVE  FillInv'
<1> DEFINE new == SnapshotOf(m.period)
           s   == m.zone.sys
<1>1. s \in Systems /\ new \in Snapshot
  BY SnapshotType DEF TypeOK, Sample, Systems
<1>2. /\ cache' = [cache EXCEPT ![s] = new]
      /\ reported' = [reported EXCEPT ![s] = @ \cup {new}]
      /\ UNCHANGED <<flight, pc, cur>>
  BY DEF PrintSample, CacheAfter, wire
<1>3. \A t \in Systems : reported[t] \subseteq reported'[t]
  BY <1>1, <1>2 DEF TypeOK
<1>4. new \in reported'[s]
  BY <1>1, <1>2 DEF TypeOK
<1>5. CacheReported'
  BY <1>1, <1>2, <1>3, <1>4 DEF FillInv, CacheReported, TypeOK
<1>6. FillProvenance'
  BY <1>2, <1>3, MoreReports DEF FillInv
<1>7. CopyReported'
  <2> SUFFICES ASSUME pc = "copy", NEW f \in CachedFields
               PROVE  ps'[f] = 0 \/ \E p \in reported'[cur.zone.sys] : p[f] = ps'[f]
    BY <1>2 DEF CopyReported
  <2>1. cur.zone.sys \in Systems
    BY ConstantsAssumption DEF TypeOK, Command, Systems
  <2>2. ps[f] = 0 \/ \E p \in reported'[cur.zone.sys] : p[f] = ps[f]
    BY <1>3, <2>1 DEF FillInv, CopyReported
  <2>3. CASE cur.zone.sys = s
    <3>1. ps' \in Torn(ps, new)
      BY <2>3 DEF PrintSample
    <3>2. ps'[f] = ps[f] \/ ps'[f] = new[f]
      BY <1>1, <3>1, TornField DEF TypeOK
    <3>. QED
      BY <1>4, <2>2, <2>3, <3>2
  <2>4. CASE cur.zone.sys # s
    BY <2>2, <2>4 DEF PrintSample
  <2>. QED
    BY <2>3, <2>4
<1>. QED
  BY <1>5, <1>6, <1>7 DEF FillInv

\* Every step keeps FillInv.
LEMMA FillStep == TypeOK /\ FillInv /\ [Next]_vars => FillInv'
<1> SUFFICES ASSUME TypeOK, FillInv, [Next]_vars PROVE FillInv'
  OBVIOUS
<1>. USE DEF device, bridge, wire
<1>1. CASE TakeSamples
  BY <1>1, FillFrame DEF TakeSamples
<1>2. ASSUME NEW m \in batch, PrintSample(m)
      PROVE  FillInv'
  BY <1>2, PrintKeepsFill
<1>3. CASE GetLine
  BY <1>3 DEF GetLine, FillInv, CacheReported, CopyReported, FillProvenance, Filled
<1>4. CASE DropCommand
  BY <1>4 DEF DropCommand, FillInv, CacheReported, CopyReported, FillProvenance, Filled
<1>5. CASE StartCopy
  <2>1. cur.zone.sys \in Systems
    BY <1>5, ConstantsAssumption DEF StartCopy, TypeOK, Command, Systems
  <2>2. \A f \in CachedFields :
           ps'[f] = 0 \/ \E p \in reported[cur.zone.sys] : p[f] = ps'[f]
    BY <1>5, <2>1 DEF StartCopy, FillInv, CacheReported, EmptySnapshot
  <2>. QED
    BY <1>5, <2>2 DEF StartCopy, FillInv, CacheReported, CopyReported, FillProvenance, Filled
<1>6. CASE SendUpdate
  <2>1. FillProvenance'
    BY <1>6, SendKeepsProvenance
  <2>. QED
    BY <1>6, <2>1 DEF SendUpdate, FillInv, CacheReported, CopyReported
<1>7. CASE SendAway
  BY <1>7 DEF SendAway, FillInv, CacheReported, CopyReported, FillProvenance, Filled
<1>8. CASE Acknowledged
  BY <1>8 DEF Acknowledged, FillInv, CacheReported, CopyReported, FillProvenance, Filled
<1>9. ASSUME NEW c \in Commands, SendCommand(c)
      PROVE  FillInv'
  BY <1>9, FillFrame DEF SendCommand
<1>10. ASSUME NEW z \in Zones, NEW f \in Editable, NEW v \in Values, EditDevice(z, f, v)
       PROVE  FillInv'
  BY <1>10, FillFrame DEF EditDevice
<1>11. ASSUME NEW z \in Zones, Publish(z)
       PROVE  FillInv'
  BY <1>11, FillFrame DEF Publish
<1>12. ASSUME NEW t \in Topics, Match(t)
       PROVE  FillInv'
  BY <1>12, FillFrame DEF Match
<1>13. ASSUME NEW t \in Topics, Unmatch(t)
       PROVE  FillInv'
  <2>1. \A k \in Slots : flight'[k] = None \/ flight'[k] = flight[k]
    BY <1>13 DEF Unmatch
  <2>2. UNCHANGED <<cache, pc, cur, ps, reported>>
    BY <1>13 DEF Unmatch
  <2>3. FillProvenance'
    BY <2>1, <2>2 DEF FillInv, FillProvenance, Filled
  <2>. QED
    BY <2>2, <2>3 DEF FillInv, CacheReported, CopyReported
<1>14. ASSUME NEW k \in Slots, Deliver(k)
       PROVE  FillInv'
  <2>1. \A j \in Slots : flight'[j] = None \/ flight'[j] = flight[j]
    BY <1>14 DEF Deliver, TypeOK
  <2>2. UNCHANGED <<cache, pc, cur, ps, reported>>
    BY <1>14 DEF Deliver
  <2>3. FillProvenance'
    BY <2>1, <2>2 DEF FillInv, FillProvenance, Filled
  <2>. QED
    BY <2>2, <2>3 DEF FillInv, CacheReported, CopyReported
<1>15. ASSUME NEW s \in Systems, DeliverAway(s)
       PROVE  FillInv'
  BY <1>15, FillFrame DEF DeliverAway
<1>16. CASE Crash
  <2>1. \A k \in Slots : flight'[k] = None
    BY <1>16 DEF Crash
  <2>2. pc' = "getline" /\ \A s \in Systems : cache'[s] = EmptySnapshot
    BY <1>16 DEF Crash
  <2>. QED
    BY <2>1, <2>2 DEF FillInv, CacheReported, CopyReported, FillProvenance
<1>17. ASSUME NEW ok \in SUBSET Topics, Launch(ok)
       PROVE  FillInv'
  BY <1>17, FillFrame DEF Launch
<1>18. CASE UNCHANGED vars
  BY <1>18, FillFrame DEF vars
<1>. QED
  BY <1>1, <1>2, <1>3, <1>4, <1>5, <1>6, <1>7, <1>8, <1>9, <1>10, <1>11, <1>12,
     <1>13, <1>14, <1>15, <1>16, <1>17, <1>18
     DEF Next, MainThread, CommandThread, Environment, Process

\* Whatever the interleaving of the two threads, the device and crashes, a
\* setpoint that write_period fills in was reported by a zone of that system.
THEOREM FillsAreReported == Spec => []FillProvenance
<1>1. Init => FillInv
  BY DEF Init, FillInv, CacheReported, CopyReported, FillProvenance
<1>2. TypeOK /\ FillInv /\ [Next]_vars => FillInv'
  BY FillStep
<1>3. FillInv => FillProvenance
  BY DEF FillInv
<1>. QED
  BY <1>1, <1>2, <1>3, TypeCorrect, PTL DEF Spec

-----------------------------------------------------------------------------
\* Outside the setpoints, an update carries as valid what its command asked for.
LEMMA BuiltAsAsked ==
    ASSUME NEW c \in Command, NEW s \in Snapshot,
           NEW f \in BuildUpdate(c, s).valid \ Setpoints
    PROVE  f \in c.asked /\ BuildUpdate(c, s).val[f] = c.val[f]
<1>1. f \in c.asked /\ f \in {"mode", "fan", "husp", "desp", "sp"}
  BY DEF BuildUpdate, ValidFields, SinglePoint
<1>2. CASE f \in {"mode", "fan", "husp", "desp"}
  BY <1>1, <1>2 DEF BuildUpdate, PeriodValues, Effective, PeriodFields, Setpoints
<1>3. CASE f = "sp"
  <2>1. SinglePoint(c)
    BY <1>3 DEF BuildUpdate, ValidFields, Setpoints
  <2>. QED
    BY <1>1, <1>3, <2>1 DEF BuildUpdate, PeriodValues, PeriodFields, Setpoints
<1>. QED
  BY <1>1, <1>2, <1>3

\* A step leaves each waiting update alone, removes it, or is the SendUpdate
\* that writes it.
LEMMA FlightStep ==
    ASSUME TypeOK, [Next]_vars, NEW k \in Slots
    PROVE  \/ flight'[k] = flight[k] \/ flight'[k] = None
           \/ /\ cur \in Command /\ ps \in Snapshot
              /\ flight'[k] = BuildUpdate(cur, ps)
<1>. USE DEF device, bridge, wire
<1>1. CASE MainThread
  BY <1>1 DEF MainThread, TakeSamples, PrintSample
<1>2. CASE SendUpdate
  BY <1>2, ConstantsAssumption DEF SendUpdate, TypeOK
<1>3. CASE GetLine \/ DropCommand \/ StartCopy \/ SendAway \/ Acknowledged
  BY <1>3 DEF GetLine, DropCommand, StartCopy, SendAway, Acknowledged
<1>4. CASE Environment
  <2>1. ASSUME NEW j \in Slots, Deliver(j)
        PROVE  flight'[k] = flight[k] \/ flight'[k] = None
    BY <2>1 DEF Deliver, TypeOK
  <2>2. ASSUME NEW t \in Topics, Unmatch(t)
        PROVE  flight'[k] = flight[k] \/ flight'[k] = None
    BY <2>2 DEF Unmatch
  <2>3. \/ \E j \in Slots : Deliver(j)
        \/ \E t \in Topics : Unmatch(t)
        \/ UNCHANGED flight
    BY <1>4 DEF Environment, SendCommand, EditDevice, Publish, Match, DeliverAway
  <2>. QED
    BY <2>1, <2>2, <2>3
<1>5. CASE Process
  BY <1>5 DEF Process, Crash, Launch
<1>6. CASE UNCHANGED vars
  BY <1>6 DEF vars
<1>. QED
  BY <1>1, <1>2, <1>3, <1>4, <1>5, <1>6 DEF Next, CommandThread

LEMMA ValidAsAskedStep == TypeOK /\ ValidAsAsked /\ [Next]_vars => ValidAsAsked'
<1> SUFFICES ASSUME TypeOK, ValidAsAsked, [Next]_vars,
                    NEW k \in Slots, flight'[k] # None,
                    NEW f \in flight'[k].valid \ Setpoints
             PROVE  f \in flight'[k].cmd.asked /\ flight'[k].val[f] = flight'[k].cmd.val[f]
  BY DEF ValidAsAsked
<1>1. CASE flight'[k] = flight[k]
  BY <1>1 DEF ValidAsAsked
<1>2. CASE cur \in Command /\ ps \in Snapshot /\ flight'[k] = BuildUpdate(cur, ps)
  <2>1. flight'[k].cmd = cur
    BY <1>2 DEF BuildUpdate
  <2>. QED
    BY <1>2, <2>1, BuiltAsAsked
<1>. QED
  BY <1>1, <1>2, FlightStep

\* No write ever changes a zone's mode, fan, single setpoint or humidity setpoint
\* unasked, although every write carries a cached mode and fan.
THEOREM ModesHonoured == Spec => ModesOnlyOnRequest
<1>1. Init => ValidAsAsked
  BY DEF Init, ValidAsAsked
<1>2. TypeOK /\ ValidAsAsked /\ [Next]_vars => ValidAsAsked'
  BY ValidAsAskedStep
<1>3. TypeOK /\ ValidAsAsked /\ [Next]_vars => [ModesAsAsked]_vars
  <2> SUFFICES ASSUME TypeOK, ValidAsAsked, NEW k \in Slots, Deliver(k),
                      NEW f \in PeriodFields \ Setpoints,
                      dev'[flight[k].cmd.zone][f] # dev[flight[k].cmd.zone][f]
               PROVE  /\ f \in flight[k].cmd.asked
                      /\ dev'[flight[k].cmd.zone][f] = flight[k].cmd.val[f]
    BY DEF ModesAsAsked
  <2> DEFINE m == flight[k]
             z == m.cmd.zone
  <2>1. m # None /\ z \in Zones
    BY DEF Deliver, TypeOK, Update, Command
  <2>2. dev'[z] = [g \in PeriodFields |-> IF g \in m.valid THEN m.val[g] ELSE dev[z][g]]
    BY <2>1 DEF Deliver, TypeOK
  <2>3. f \in m.valid /\ dev'[z][f] = m.val[f]
    BY <2>2
  <2>. QED
    BY <2>1, <2>3 DEF ValidAsAsked
<1>. QED
  BY <1>1, <1>2, <1>3, TypeCorrect, PTL DEF Spec, ModesOnlyOnRequest

=============================================================================
