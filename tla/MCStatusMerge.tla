---------------------------- MODULE MCStatusMerge ----------------------------
(* Small sets of subjects for StatusMerge. *)
EXTENDS StatusMerge

About(t, s, k) == [topic |-> t, sys |-> s, id |-> k]
Alert(k)       == {About("active", "A", k), About("cleared", "A", k)}
Zone           == About("zone", "A", 0)

\* One alert, or two and two demand-response events, in a one-zone system.
OneAlert  == Alert(1) \cup {Zone}
TwoOfEach == Alert(1) \cup Alert(2) \cup {About("ocstEvent", "A", k) : k \in {1, 2}} \cup {Zone}

Bits == {0, 1}

\* The protocol of AlertReader's comment, LCC Alert Cleared ending every alert, and
\* a device that ends alert 2 on LCC Alert Active as well.
OnCleared  == [a \in Alerts |-> {"cleared"}]
EachItsWay == [a \in Alerts |-> IF a.id = 1 THEN {"cleared"} ELSE {"active", "cleared"}]
First      == {a \in Alerts : a.id = 1}

AllReaders == {Topics}
SomeFail   == {Topics, Topics \ {"active", "cleared"}, Topics \ {"ocstEvent", "ocstEnroll"}}
=============================================================================
