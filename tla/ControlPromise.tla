---------------------------- MODULE ControlPromise ----------------------------
(***************************************************************************)
(* What a user of the control path is promised, without caches, threads or *)
(* transport: a command that was sent either lands, changing exactly the   *)
(* fields it asked for in exactly the zone it names, or is forgotten.  The *)
(* thermostat may change by itself.  (CHANGELOG 0.1.18, write_period.)     *)
(***************************************************************************)
CONSTANTS Zones, Commands, Start

VARIABLES
    period,  \* period[z]: what the thermostat holds for the zone
    open     \* commands sent and neither landed nor forgotten

Send(c) == open' = open \cup {c} /\ UNCHANGED period

Land(c) ==
    /\ period' = [period EXCEPT ![c.zone] =
                     [f \in DOMAIN @ |-> IF f \in c.asked THEN c.val[f] ELSE @[f]]]
    /\ open' = open \ {c}

Forget == open' \in SUBSET open /\ UNCHANGED period

DeviceChanges(z) ==
    /\ \A y \in Zones \ {z} : period'[y] = period[y]
    /\ DOMAIN period' = Zones
    /\ UNCHANGED open

Init == period = Start /\ open = {}

Next == \/ \E c \in Commands : Send(c)
        \/ \E c \in open : Land(c)
        \/ Forget
        \/ open = {} /\ \E z \in Zones : DeviceChanges(z)

Spec == Init /\ [][Next]_<<period, open>>
=============================================================================
