-------------------------- MODULE MCScheduleControl --------------------------
(* Small homes and small sets of commands for ScheduleControl. *)
EXTENDS ScheduleControl

Zone(s, k) == [sys |-> s, zid |-> k]

OneZone    == {Zone("A", 0)}
TwoZones   == {Zone("A", 0), Zone("A", 1)}

\* A period with the given heat and cool setpoints, in mode heat_cool.
PeriodAt(h, c) == [f \in PeriodFields |->
                     CASE f = "hsp" -> h [] f = "csp" -> c [] OTHER -> 1]
\* Every zone has setpoints of its own.
Distinct == [z \in Zones |-> IF z.zid = 0 THEN PeriodAt(1, 2) ELSE PeriodAt(2, 3)]

Ask(z, f, v) == [zone |-> z, asked |-> {f},
                 val |-> [g \in PeriodFields \cup {"away"} |-> IF g = f THEN v ELSE 0]]
AskRange(z, h, c) ==
    [zone |-> z, asked |-> {"hsp", "csp"},
     val |-> [g \in PeriodFields \cup {"away"} |->
                 CASE g = "hsp" -> h [] g = "csp" -> c [] OTHER -> 0]]

Values3 == 0..2
Values4 == 0..3
EditHeat == {"hsp"}

\* What the climate, number and switch entities send: a mode, one setpoint, a
\* range, a single setpoint, a humidity setpoint, Away.
FewCommands    == UNION {{Ask(z, "csp", 1), Ask(z, "mode", 2)} : z \in Zones}
OneOfEach      == UNION {{Ask(z, "hsp", 2), AskRange(z, 2, 1), Ask(z, "mode", 0), Ask(z, "sp", 2),
                          Ask(z, "husp", 2), Ask(z, "away", 1)} : z \in Zones}
=============================================================================
