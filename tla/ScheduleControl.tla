--------------------------- MODULE ScheduleControl ---------------------------
(***************************************************************************)
(* The control path of the C++ bridge (lennox_zone_status_sub --stream).   *)
(*                                                                         *)
(* Two threads share g_period_cache.  The main thread takes zoneStatus     *)
(* samples and print_sample_json overwrites the cache entry of the         *)
(* sample's sysID.  The detached command thread reads one "SET ..." or     *)
(* "AWAY ..." line after the other from stdin and drives a DDS writer,     *)
(* completing a partial SET with the setpoints it finds in the cache.      *)
(* Neither thread takes a lock.                                            *)
(*                                                                         *)
(* The thermostat, the DDS transport and the people at the wall panel are  *)
(* the environment.  A setpoint is a natural number, 0 when absent;        *)
(* Celsius twins (hspC, cspC) follow their Fahrenheit field and are not    *)
(* kept.                                                                   *)
(***************************************************************************)
EXTENDS Naturals, Sequences, FiniteSets

CONSTANTS
    Zones,        \* records [sys, zid]: the zones of the home
    Values,       \* values of a period field, 0 (absent) among them
    Commands,     \* commands the users may send: [zone, asked, val]
    Start,        \* Start[z]: the period each zone holds at first
    Editable,     \* fields somebody may change at the device itself
    DryRun,       \* LENNOX_DRY_RUN is set
    Patient,      \* users and device wait until every earlier change settled
    MaxCommands, MaxEdits, MaxCrashes   \* bounds of a run

PeriodFields == {"mode", "fan", "hsp", "csp", "sp", "husp", "desp"}
Setpoints    == {"hsp", "csp"}
CachedFields == {"mode", "fan", "hsp", "csp"}     \* PeriodSnapshot
Topics       == {"schedule", "away"}              \* the two writers

Systems  == {z.sys : z \in Zones}
Slots    == {z.zid : z \in Zones}    \* scheduleId is 16 + zoneId
Period   == [PeriodFields -> Values]
Snapshot == [CachedFields -> Values]

\* A command: the zone it is for, the fields it asks for and their values.  One
\* that asks for "away" is an AWAY line, val["away"] # 0 meaning on.
Command  == [zone : Zones, asked : SUBSET (PeriodFields \cup {"away"}),
             val  : [PeriodFields \cup {"away"} -> Values]]

ASSUME ConstantsAssumption ==
    /\ Zones # {} /\ \A z \in Zones : z = [sys |-> z.sys, zid |-> z.zid]
    /\ Values \subseteq Nat /\ 0 \in Values
    /\ Commands \subseteq Command
    /\ Start \in [Zones -> Period]
    /\ Editable \subseteq PeriodFields
    /\ DryRun \in BOOLEAN /\ Patient \in BOOLEAN
    /\ MaxCommands \in Nat /\ MaxEdits \in Nat /\ MaxCrashes \in Nat

None == [none |-> TRUE]
\* The PeriodSnapshot of a sysID no sample was printed for.
EmptySnapshot == [f \in CachedFields |-> 0]
SnapshotOf(p) == [f \in CachedFields |-> p[f]]

VARIABLES
    dev,       \* dev[z]: the active period inside the thermostat
    devAway,   \* devAway[s]: manual away of each system
    pub,       \* pub[z]: the period last published on "LCC Zone Status"
    up,        \* the bridge process runs
    writers,   \* writers that initialised in this run of the process
    matched,   \* topics on which the device's reader is associated with ours
    unread,    \* zoneStatus samples in our reader, the latest of each zone
    batch,     \* samples taken by take_and_print and not printed yet
    cache,     \* g_period_cache
    stdin,     \* command lines in the pipe
    pc,        \* where the command thread is
    cur,       \* the command it works on
    ps,        \* its private copy of the cache entry
    flight,    \* flight[k]: scheduleUpdate written on instance k, not taken yet
    awayFlight,\* awayFlight[s]: manualAwayUpdate written, not taken yet
    issued,    \* history: the last command sent to each zone
    upset,     \* history: zones whose last command a loss or an edit overtook
    reported,  \* history: reported[s], the snapshots printed for the system
    counts     \* commands sent, device edits and crashes so far

bridge == <<unread, batch, cache, stdin, pc, cur, ps>>
wire   == <<flight, awayFlight>>
device == <<dev, devAway, pub>>
vars   == <<dev, devAway, pub, up, writers, matched, unread, batch, cache, stdin,
            pc, cur, ps, flight, awayFlight, issued, upset, reported, counts>>

PCs == {"getline", "match", "copy", "settle"}

-----------------------------------------------------------------------------
(* What a command is still doing, for the guards and the properties.       *)

IsAway(c) == "away" \in c.asked

\* Commands accepted from a user that may still change the device.
Outstanding ==
    {stdin[i] : i \in 1..Len(stdin)}
      \cup (IF pc \in {"match", "copy"} THEN {cur} ELSE {})
      \cup {flight[k].cmd : k \in {j \in Slots : flight[j] # None}}
      \cup {awayFlight[s].cmd : s \in {t \in Systems : awayFlight[t] # None}}

\* Every sample and every cache entry agrees with the device (a cache entry may
\* also be missing) and no command is under way.
Settled ==
    /\ Outstanding = {}
    /\ pub = dev
    /\ \A m \in unread \cup batch : m.period = dev[m.zone]
    /\ \A s \in Systems :
          \/ cache[s] = EmptySnapshot
          \/ \E z \in Zones : z.sys = s /\ cache[s] = SnapshotOf(dev[z])

-----------------------------------------------------------------------------
(* Environment: users, thermostat, transport.                              *)

\* bridge_server writes one line to our stdin.
SendCommand(c) ==
    /\ up
    /\ counts.sent < MaxCommands
    /\ Patient => Settled
    /\ stdin'  = Append(stdin, c)
    /\ issued' = [issued EXCEPT ![c.zone] = c]
    /\ upset'  = upset \ {c.zone}
    /\ counts' = [counts EXCEPT !.sent = @ + 1]
    /\ UNCHANGED <<device, up, writers, matched, unread, batch, cache, pc, cur, ps,
                   wire, reported>>

\* Somebody turns the wall panel, or the thermostat's own schedule does.
EditDevice(z, f, v) ==
    /\ counts.edits < MaxEdits
    /\ Patient => Settled
    /\ dev'    = [dev EXCEPT ![z][f] = v]
    /\ upset'  = upset \cup {z}
    /\ counts' = [counts EXCEPT !.edits = @ + 1]
    /\ UNCHANGED <<devAway, pub, up, writers, matched, bridge, wire, issued, reported>>

\* The device publishes the status of a zone; our KEEP_LAST reader keeps the
\* newest sample of each (zoneId, sysID) instance.
Publish(z) ==
    LET sample == [zone |-> z, period |-> dev[z]]
        others == {m \in unread : m.zone # z}
    IN  /\ pub' = [pub EXCEPT ![z] = dev[z]]
        /\ unread' = IF up THEN others \cup {sample} ELSE unread
        /\ <<pub, unread>>' # <<pub, unread>>
        /\ UNCHANGED <<dev, devAway, up, writers, matched, batch, cache, stdin, pc, cur,
                       ps, wire, issued, upset, reported, counts>>

\* The device's readers find our writers, or drop them: the VOLATILE writer then
\* has nobody to repeat its samples to.
Match(t) ==
    /\ t \in writers \ matched
    /\ matched' = matched \cup {t}
    /\ UNCHANGED <<device, up, writers, bridge, wire, issued, upset, reported, counts>>

ZonesOnWire(t) ==
    IF t = "schedule"
    THEN {flight[k].cmd.zone : k \in {j \in Slots : flight[j] # None}}
    ELSE {awayFlight[s].cmd.zone : s \in {r \in Systems : awayFlight[r] # None}}

Unmatch(t) ==
    /\ t \in matched
    /\ counts.crashes < MaxCrashes
    /\ counts'  = [counts EXCEPT !.crashes = @ + 1]
    /\ matched' = matched \ {t}
    /\ upset'   = upset \cup ZonesOnWire(t)
    /\ flight'     = IF t = "schedule" THEN [k \in Slots |-> None] ELSE flight
    /\ awayFlight' = IF t = "away" THEN [s \in Systems |-> None] ELSE awayFlight
    /\ UNCHANGED <<device, up, writers, bridge, issued, reported>>

\* The device takes a scheduleUpdate and adopts the fields marked valid.
Deliver(k) ==
    /\ flight[k] # None
    /\ LET m == flight[k]
       IN  dev' = [dev EXCEPT ![m.cmd.zone] =
                      [f \in PeriodFields |-> IF f \in m.valid THEN m.val[f] ELSE @[f]]]
    /\ flight' = [flight EXCEPT ![k] = None]
    /\ UNCHANGED <<devAway, pub, up, writers, matched, bridge, awayFlight, issued, upset,
                   reported, counts>>

DeliverAway(s) ==
    /\ awayFlight[s] # None
    /\ devAway'    = [devAway EXCEPT ![s] = awayFlight[s].on]
    /\ awayFlight' = [awayFlight EXCEPT ![s] = None]
    /\ UNCHANGED <<dev, pub, up, writers, matched, bridge, flight, issued, upset,
                   reported, counts>>

-----------------------------------------------------------------------------
(* The process: start, crash.                                              *)

\* main in --stream mode.  Each writer's init may fail; without the schedule
\* writer the command thread is not started.  TRANSIENT_LOCAL gives our reader
\* the last published sample of every zone.
Launch(ok) ==
    /\ ~up
    /\ up'      = TRUE
    /\ writers' = ok
    /\ unread'  = {[zone |-> z, period |-> pub[z]] : z \in Zones}
    /\ UNCHANGED <<device, matched, batch, cache, stdin, pc, cur, ps, wire, issued, upset,
                   reported, counts>>

\* The process dies, or bridge_server terminates it: the pipe, both threads, the
\* cache and the writers' histories are gone.
Crash ==
    /\ up
    /\ counts.crashes < MaxCrashes
    /\ counts' = [counts EXCEPT !.crashes = @ + 1]
    /\ up' = FALSE /\ writers' = {} /\ matched' = {}
    /\ upset' = upset \cup {c.zone : c \in Outstanding}
    /\ unread' = {} /\ batch' = {} /\ stdin' = <<>>
    /\ cache' = [s \in Systems |-> EmptySnapshot]
    /\ pc' = "getline" /\ cur' = None /\ ps' = EmptySnapshot
    /\ flight'     = [k \in Slots |-> None]
    /\ awayFlight' = [s \in Systems |-> None]
    /\ UNCHANGED <<device, issued, reported>>

-----------------------------------------------------------------------------
(* The main thread.                                                        *)

\* take_and_print takes everything the reader holds ...
TakeSamples ==
    /\ up /\ batch = {} /\ unread # {}
    /\ batch'  = unread
    /\ unread' = {}
    /\ UNCHANGED <<device, up, writers, matched, cache, stdin, pc, cur, ps, wire, issued,
                   upset, reported, counts>>

\* The copy the command thread is making of an entry that is being overwritten
\* holds, in each field, what it read before or what is there now.
Torn(old, new) == {p \in [CachedFields -> {old[f] : f \in CachedFields}
                                            \cup {new[f] : f \in CachedFields}] :
                      \A f \in CachedFields : p[f] \in {old[f], new[f]}}

M_CacheKeptOnceFilled(m) ==
    [cache EXCEPT ![m.zone.sys] = IF @ = EmptySnapshot THEN SnapshotOf(m.period) ELSE @]

CacheAfter(m) == [cache EXCEPT ![m.zone.sys] = SnapshotOf(m.period)]

\* ... and prints the samples one by one: print_sample_json replaces the cache
\* entry of the sample's sysID, whatever its zone, while the command thread may
\* be reading it.
PrintSample(m) ==
    /\ m \in batch
    /\ batch' = batch \ {m}
    /\ cache' = CacheAfter(m)
    /\ ps' \in IF pc = "copy" /\ cur.zone.sys = m.zone.sys
               THEN Torn(ps, SnapshotOf(m.period)) ELSE {ps}
    /\ reported' = [reported EXCEPT ![m.zone.sys] = @ \cup {SnapshotOf(m.period)}]
    /\ UNCHANGED <<device, up, writers, matched, unread, stdin, pc, cur, wire, issued,
                   upset, counts>>

-----------------------------------------------------------------------------
(* The command thread.                                                     *)

M_ReaderWithoutWriter ==
    /\ up /\ pc = "getline" /\ stdin # <<>>
    /\ cur'   = Head(stdin)
    /\ stdin' = Tail(stdin)
    /\ pc'    = "match"
    /\ UNCHANGED <<device, up, writers, matched, unread, batch, cache, ps, wire, issued,
                   upset, reported, counts>>

\* std::getline and handle_command_line's parsing; the thread exists only when
\* the schedule writer initialised.
GetLine ==
    /\ up /\ "schedule" \in writers
    /\ pc = "getline" /\ stdin # <<>>
    /\ cur'   = Head(stdin)
    /\ stdin' = Tail(stdin)
    /\ pc'    = "match"
    /\ UNCHANGED <<device, up, writers, matched, unread, batch, cache, ps, wire, issued,
                   upset, reported, counts>>

TopicOf(c) == IF IsAway(c) THEN "away" ELSE "schedule"

M_WaitsForMatchForever ==
    /\ pc = "match" /\ (TopicOf(cur) \notin writers \/ DryRun)
    /\ pc' = "getline" /\ cur' = None
    /\ upset' = upset \cup {cur.zone}
    /\ UNCHANGED <<device, up, writers, matched, unread, batch, cache, stdin, ps, wire,
                   issued, reported, counts>>

\* Back to getline without a write: the away writer never initialised, nobody
\* matched within 15 seconds, or the run is a dry one.
DropCommand ==
    /\ pc = "match"
    /\ \/ TopicOf(cur) \notin writers
       \/ TopicOf(cur) \notin matched
       \/ DryRun
    /\ pc'    = "getline"
    /\ cur'   = None
    /\ upset' = upset \cup {cur.zone}
    /\ UNCHANGED <<device, up, writers, matched, unread, batch, cache, stdin, ps, wire,
                   issued, reported, counts>>

\* A match within 15 seconds: look the cache entry up and start copying it.
StartCopy ==
    /\ pc = "match" /\ ~IsAway(cur)
    /\ "schedule" \in matched /\ ~DryRun
    /\ ps' = cache[cur.zone.sys]
    /\ pc' = "copy"
    /\ UNCHANGED <<device, up, writers, matched, unread, batch, cache, stdin, cur, wire,
                   issued, upset, reported, counts>>

M_CacheBeforeRequest(r, s, f) == IF s[f] > 0 THEN s[f] ELSE r.val[f]

\* The period write_period sends for request r and snapshot s.
Effective(r, s, f) == IF f \in r.asked THEN r.val[f] ELSE s[f]
SinglePoint(r)     == "sp" \in r.asked /\ r.asked \cap Setpoints = {}
ValidFields(r, s)  ==
    (r.asked \cap {"mode", "fan", "husp", "desp"})
      \cup (IF SinglePoint(r) THEN {"sp"}
            ELSE {f \in Setpoints : Effective(r, s, f) > 0})
PeriodValues(r, s) ==
    [f \in PeriodFields |->
        CASE f \in {"mode", "fan"}   -> Effective(r, s, f)
          [] f \in Setpoints         -> IF SinglePoint(r) THEN 0 ELSE Effective(r, s, f)
          [] f = "sp"                -> IF SinglePoint(r) THEN r.val[f] ELSE 0
          [] f \in {"husp", "desp"}  -> IF f \in r.asked THEN r.val[f] ELSE 0]

M_ModeAlwaysValid(c, s) ==
    [cmd |-> c, valid |-> ValidFields(c, s) \cup {"mode", "fan"}, val |-> PeriodValues(c, s)]
M_SetpointsAlwaysValid(c, s) ==
    [cmd |-> c, val |-> PeriodValues(c, s),
     valid |-> (c.asked \cap {"mode", "fan", "husp", "desp"})
                 \cup IF SinglePoint(c) THEN {"sp"} ELSE Setpoints]

BuildUpdate(c, s) ==
    [cmd |-> c, valid |-> ValidFields(c, s), val |-> PeriodValues(c, s)]

\* Updates a write on instance k by zone z makes the device miss: the one it
\* replaces, and itself when no reader is matched any more (VOLATILE).
Missed(k, z) ==
    IF "schedule" \notin matched THEN {z}
    ELSE IF flight[k] # None THEN {flight[k].cmd.zone} \ {z} ELSE {}

\* The end of write_period.  The writer keeps the last sample of each instance,
\* and the instance is the scheduleId alone: a write replaces one the device has
\* not taken yet, of whatever system.
SendUpdate ==
    LET k == cur.zone.zid
    IN  /\ pc = "copy"
        /\ flight' = IF "schedule" \in matched
                     THEN [flight EXCEPT ![k] = BuildUpdate(cur, ps)] ELSE flight
        /\ upset' = upset \cup Missed(k, cur.zone)
        /\ pc' = "settle"
        /\ UNCHANGED <<device, up, writers, matched, unread, batch, cache, stdin, cur, ps,
                       awayFlight, issued, reported, counts>>

\* write_away once a reader matched.
SendAway ==
    LET s == cur.zone.sys
    IN  /\ pc = "match" /\ IsAway(cur)
        /\ "away" \in matched /\ ~DryRun
        /\ awayFlight' = [awayFlight EXCEPT ![s] =
                             [cmd |-> cur, on |-> cur.val["away"] # 0]]
        /\ pc' = "settle"
        /\ UNCHANGED <<device, up, writers, matched, unread, batch, cache, stdin, cur, ps,
                       flight, issued, upset, reported, counts>>

\* wait_for_acknowledgments returns, acknowledged or after 3 seconds, and the
\* thread is back at getline.
Acknowledged ==
    /\ pc = "settle"
    /\ pc' = "getline" /\ cur' = None /\ ps' = EmptySnapshot
    /\ UNCHANGED <<device, up, writers, matched, unread, batch, cache, stdin, wire, issued,
                   upset, reported, counts>>

-----------------------------------------------------------------------------
Init ==
    /\ dev = Start /\ pub = Start
    /\ devAway = [s \in Systems |-> FALSE]
    /\ up = FALSE /\ writers = {} /\ matched = {}
    /\ unread = {} /\ batch = {} /\ stdin = <<>>
    /\ cache = [s \in Systems |-> EmptySnapshot]
    /\ pc = "getline" /\ cur = None /\ ps = EmptySnapshot
    /\ flight = [k \in Slots |-> None]
    /\ awayFlight = [s \in Systems |-> None]
    /\ issued = [z \in Zones |-> None]
    /\ upset = {}
    /\ reported = [s \in Systems |-> {}]
    /\ counts = [sent |-> 0, edits |-> 0, crashes |-> 0]

MainThread    == TakeSamples \/ \E m \in batch : PrintSample(m)
CommandThread == \/ GetLine \/ DropCommand \/ StartCopy \/ SendUpdate
                 \/ SendAway \/ Acknowledged
Environment ==
    \/ \E c \in Commands : SendCommand(c)
    \/ \E z \in Zones, f \in Editable, v \in Values : EditDevice(z, f, v)
    \/ \E z \in Zones : Publish(z)
    \/ \E t \in Topics : Match(t) \/ Unmatch(t)
    \/ \E k \in Slots : Deliver(k)
    \/ \E s \in Systems : DeliverAway(s)
Process == Crash \/ \E ok \in SUBSET Topics : Launch(ok)

Next == MainThread \/ CommandThread \/ Environment \/ Process

Spec == Init /\ [][Next]_vars

\* The main loop polls at least once a second and never blocks; every wait of
\* the command thread is bounded (15 s, 3 s); bridge_server relaunches the
\* process; the thermostat republishes its status.
Fairness == /\ WF_vars(MainThread) /\ WF_vars(CommandThread)
            /\ WF_vars(\E ok \in SUBSET Topics : Launch(ok))
            /\ \A z \in Zones : WF_vars(Publish(z))
FairSpec == Spec /\ Fairness

-----------------------------------------------------------------------------
Sample     == [zone : Zones, period : Period]
Update     == [cmd : Command, valid : SUBSET PeriodFields, val : Period]
AwayUpdate == [cmd : Command, on : BOOLEAN]

\* Types; an update sits on the instance of its own zone, and the command thread
\* works only in a process whose schedule writer initialised, the one thing that
\* starts it (main 1172-1183).
TypeOK ==
    /\ dev \in [Zones -> Period] /\ pub \in [Zones -> Period]
    /\ devAway \in [Systems -> BOOLEAN]
    /\ up \in BOOLEAN
    /\ writers \in SUBSET Topics /\ matched \in SUBSET writers
    /\ up \/ writers = {}
    /\ unread \in SUBSET Sample /\ batch \in SUBSET Sample
    /\ cache \in [Systems -> Snapshot]
    /\ stdin \in Seq(Commands)
    /\ pc \in PCs
    /\ cur \in Commands \cup {None}
    /\ pc # "getline" => up /\ "schedule" \in writers /\ cur \in Commands
    /\ ps \in Snapshot
    /\ flight \in [Slots -> Update \cup {None}]
    /\ \A k \in Slots : flight[k] # None => flight[k].cmd.zone.zid = k
    /\ awayFlight \in [Systems -> AwayUpdate \cup {None}]
    /\ issued \in [Zones -> Commands \cup {None}]
    /\ upset \in SUBSET Zones
    /\ reported \in [Systems -> SUBSET Snapshot]
    /\ counts \in [sent : Nat, edits : Nat, crashes : Nat]

\* Setpoints marked valid in update m that its command did not ask for: the ones
\* write_period filled in from the cache.
Filled(m) == (m.valid \cap Setpoints) \ m.cmd.asked

\* A setpoint nobody asked for is never made up: it is positive and some sample
\* of the same system reported it, whatever the interleaving of the two threads,
\* and also after a restart emptied the cache (write_period 185-222).
FillProvenance ==
    \A k \in Slots : flight[k] # None =>
        \A f \in Filled(flight[k]) :
            /\ flight[k].val[f] > 0
            /\ \E p \in reported[flight[k].cmd.zone.sys] : p[f] = flight[k].val[f]

\* What makes FillProvenance inductive: the cache holds whole snapshots that were
\* printed, and the copy under construction holds in each field a printed value
\* or nothing.
CacheReported ==
    \A s \in Systems : cache[s] = EmptySnapshot \/ cache[s] \in reported[s]
CopyReported ==
    pc = "copy" => \A f \in CachedFields :
        ps[f] = 0 \/ \E p \in reported[cur.zone.sys] : p[f] = ps[f]
FillInv == CacheReported /\ CopyReported /\ FillProvenance

\* What makes ModesOnlyOnRequest hold: the fields a written update marks valid
\* outside the setpoints are asked for, with the value asked for.
ValidAsAsked ==
    \A k \in Slots : flight[k] # None =>
        \A f \in flight[k].valid \ Setpoints :
            f \in flight[k].cmd.asked /\ flight[k].val[f] = flight[k].cmd.val[f]

ModesAsAsked ==
    \A k \in Slots : Deliver(k) =>
        LET c == flight[k].cmd
        IN  \A f \in PeriodFields \ Setpoints :
               dev'[c.zone][f] # dev[c.zone][f] =>
                   f \in c.asked /\ dev'[c.zone][f] = c.val[f]

\* Mode, fan, single setpoint and humidity setpoints of a zone change through a
\* write only when the command asked for that very value, although the message
\* carries cached modes as well (write_period 224-233).
ModesOnlyOnRequest == [][ModesAsAsked]_vars

\* When nothing is under way for a zone, the last command sent to it is what the
\* zone shows, unless a loss or an edit at the device came after it: the pipe,
\* the thread and the writer's history keep the order of commands.
LastCommandWins ==
    \A z \in Zones :
        (issued[z] # None /\ z \notin upset /\ \A c \in Outstanding : c.zone # z) =>
            IF IsAway(issued[z])
            THEN devAway[z.sys] = (issued[z].val["away"] # 0)
            ELSE \A f \in issued[z].asked : dev[z][f] = issued[z].val[f]

\* "The unspecified setpoint and the mode/fan are filled from the latest zone
\* status so nothing else changes" (lennox_dds/CHANGELOG.md 0.1.18): a write
\* changes no field its command did not ask for.
NothingElseChanges ==
    [][\A k \in Slots : Deliver(k) =>
          LET c == flight[k].cmd
          IN  \A f \in PeriodFields :
                 dev'[c.zone][f] # dev[c.zone][f] => f \in c.asked]_vars

\* Every line in the pipe is read in the end: the command thread never hangs in
\* a wait, provided its writer came up in this run of the process.
CommandsDrain == (stdin # <<>>) ~> (stdin = <<>> \/ "schedule" \notin writers)

\* Once the device stays as it is, the cache of every system ends up, and stays,
\* at the period of one of its zones, across crashes of the process.
CacheConverges ==
    <>[](\A s \in Systems : \E z \in Zones :
            z.sys = s /\ cache[s] = SnapshotOf(dev[z]))

\* With one zone and changes made one at a time, the bridge keeps the promise of
\* ControlPromise: a command changes exactly the fields it asks for.
Promise == INSTANCE ControlPromise WITH period <- dev, open <- Outstanding
KeepsPromise == Promise!Spec

=============================================================================
