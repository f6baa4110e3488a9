-------------------------- MODULE StatusMerge_proofs --------------------------
(***************************************************************************)
(* For any set of DDS instances, any payloads and any bounds: the maps of  *)
(* the C++ bridge agree with the device once every sample was taken, and a *)
(* print has what had arrived when the loop woke.                          *)
(***************************************************************************)
EXTENDS StatusMerge, TLAPS

-----------------------------------------------------------------------------
(* The order of the polls, subjects, and the entries they go to.           *)

LEMMA PollOrderIs ==
    /\ Len(PollOrder) = 12
    /\ \A t \in Topics : \E p \in 1..12 : PollOrder[p] = t
    /\ \A p \in 1..12 : PollOrder[p] = "zone" <=> p = 12
  BY DEF PollOrder, Topics

LEMMA EntryIs ==
    ASSUME NEW i \in Subjects
    PROVE  /\ EntryOf(i).topic = i.topic
           /\ i.topic # "ocstEvent" => EntryOf(i) = i
           /\ i \notin Zones \cup Enders => EntryOf(i) \in Facts
<1>1. i = [topic |-> i.topic, sys |-> i.sys, id |-> i.id]
  BY ConstantsAssumption
<1>. QED
  BY <1>1 DEF EntryOf, Facts

LEMMA FactIs ==
    ASSUME NEW e \in Facts
    PROVE  /\ e.topic \in Topics \ {"cleared", "zone"} /\ From(e) \subseteq Subjects
           /\ \A i \in From(e) : i.topic = e.topic
<1>1. PICK i \in Subjects \ (Zones \cup Enders) : e = EntryOf(i)
  BY DEF Facts
<1>2. i.topic \in Topics \ {"cleared", "zone"} /\ e.topic = i.topic
  BY <1>1, EntryIs, ConstantsAssumption DEF Zones, Enders, Of
<1>. QED
  BY <1>2, EntryIs DEF From

\* An alert has an entry of its own, and an end no fact shares.
LEMMA AlertIs ==
    ASSUME NEW a \in Alerts
    PROVE  /\ a \in Subjects /\ a.topic = "active" /\ a \in Facts /\ From(a) = {a}
           /\ EndOf(a) \in Subjects /\ EndOf(a).topic = "cleared"
<1>1. a \in Subjects /\ a.topic = "active" /\ EndOf(a) \in Subjects
  BY ConstantsAssumption DEF Alerts, Of
<1>2. EntryOf(a) = a /\ a \in Facts
  BY <1>1, EntryIs DEF Zones, Enders, Of
<1>3. \A i \in Subjects : EntryOf(i) = a => i = a
  BY <1>1, EntryIs
<1>. QED
  BY <1>1, <1>2, <1>3, ConstantsAssumption DEF From, EndOf

-----------------------------------------------------------------------------
(* Types.                                                                  *)

\* What "Write" leaves of the device's samples.
LEMMA WriteType ==
    ASSUME TypeOK, NEW S \in SUBSET Subjects, NEW samples \in [S -> Values], Write(samples)
    PROVE  /\ hist' \in [Subjects -> Entry] /\ kept' \in SUBSET Subjects /\ late' \in SUBSET kept'
           /\ \A i \in kept' : hist'[i] # Absent
<1>1. DOMAIN samples = S /\ \A i \in S : samples[i] \in Values /\ samples[i] # Absent
  BY ConstantsAssumption
<1> QED
  BY <1>1 DEF Write, TypeOK, Entry, Outlives

LEMMA DeviceType == TypeOK /\ Device => TypeOK'
<1> SUFFICES ASSUME TypeOK, Device PROVE TypeOK'
  OBVIOUS
<1>1. UNCHANGED <<box, readers, stage, known, taken, emitted, due>>
  BY DEF Device, Raise, Clear, Change, PublishZone, Write
<1>2. counts' \in [changes : Nat, restarts : Nat]
  <2>1. counts \in [changes : Nat, restarts : Nat]
    BY DEF TypeOK
  <2>2. Counted => counts' \in [changes : Nat, restarts : Nat]
    BY <2>1 DEF Counted
  <2>3. Counted \/ counts' = counts
    BY DEF Device, Raise, Clear, Change, PublishZone
  <2> QED
    BY <2>1, <2>2, <2>3
<1>3. raised' \in SUBSET past' /\ past' \in SUBSET Alerts
  BY DEF Device, Raise, Clear, Change, PublishZone, TypeOK
<1>4. \E S \in SUBSET Subjects : \E samples \in [S -> Values] : Write(samples)
  <2>1. ASSUME NEW a \in Alerts, Raise(a)
        PROVE  \E S \in SUBSET Subjects : \E samples \in [S -> Values] : Write(samples)
    <3> DEFINE S == {a}
    <3>1. S \in SUBSET Subjects /\ [i \in S |-> 1] \in [S -> Values]
      BY AlertIs, ConstantsAssumption
    <3>2. Write([i \in S |-> 1])
      BY <2>1 DEF Raise
    <3> QED
      BY <3>1, <3>2
  <2>2. ASSUME NEW a \in Alerts, Clear(a)
        PROVE  \E S \in SUBSET Subjects : \E samples \in [S -> Values] : Write(samples)
    <3> DEFINE S == {j \in {a, EndOf(a)} : j.topic \in ClearsOn[a]}
               v == [i \in S |-> IF i.topic = "active" THEN 0 ELSE 1]
    <3>1. S \in SUBSET Subjects /\ v \in [S -> Values]
      BY AlertIs, ConstantsAssumption
    <3>2. Write(v)
      BY <2>2 DEF Clear
    <3> QED
      BY <3>1, <3>2
  <2>3. ASSUME NEW i \in Subjects, NEW v \in Values, Change(i, v)
        PROVE  \E S \in SUBSET Subjects : \E samples \in [S -> Values] : Write(samples)
    <3> DEFINE S == {i}
    <3>1. S \in SUBSET Subjects /\ [j \in S |-> v] \in [S -> Values]
      OBVIOUS
    <3>2. Write([j \in S |-> v])
      BY <2>3 DEF Change
    <3> QED
      BY <3>1, <3>2
  <2>4. ASSUME NEW z \in Zones, PublishZone(z)
        PROVE  \E S \in SUBSET Subjects : \E samples \in [S -> Values] : Write(samples)
    <3> DEFINE S == {z}
    <3>1. S \in SUBSET Subjects /\ [j \in S |-> 1] \in [S -> Values]
      BY ConstantsAssumption DEF Zones, Of
    <3>2. Write([j \in S |-> 1])
      BY <2>4 DEF PublishZone
    <3> QED
      BY <3>1, <3>2
  <2> QED
    BY <2>1, <2>2, <2>3, <2>4 DEF Device
<1>5. /\ hist' \in [Subjects -> Entry] /\ kept' \in SUBSET Subjects /\ late' \in SUBSET kept'
      /\ \A i \in kept' : hist'[i] # Absent
  BY <1>4, WriteType
<1> QED
  BY <1>1, <1>2, <1>3, <1>5 DEF TypeOK

LEMMA StoredType ==
    ASSUME TypeOK, NEW t \in Topics, NEW last \in [Concerned(t) -> InReader(t)],
           \A e \in Concerned(t) : EntryOf(last[e]) = e
    PROVE  /\ KnownAfter(t, last) \in [Facts -> Entry]
           /\ \A e \in Facts : e.topic \in Erasing => KnownAfter(t, last)[e] # 0
<1>1. Absent \in Entry /\ Absent # 0
  BY ConstantsAssumption DEF Entry
<1>2. \A e \in Concerned(t) : /\ Stored(t, box[last[e]]) \in Entry /\ e.topic = t
                              /\ t \in Erasing => Stored(t, box[last[e]]) # 0
  <2>1. TAKE e \in Concerned(t)
  <2>2. last[e] \in Subjects /\ last[e].topic = t /\ EntryOf(last[e]) = e
    BY DEF InReader, Of
  <2>3. box[last[e]] \in Entry /\ e.topic = t
    BY <2>2, EntryIs DEF TypeOK
  <2>. QED
    BY <1>1, <2>3 DEF Stored
<1> QED
  BY <1>1, <1>2 DEF KnownAfter, TypeOK

LEMMA MainLoopType == TypeOK /\ MainLoop => TypeOK'
<1> SUFFICES ASSUME TypeOK, MainLoop PROVE TypeOK'
  OBVIOUS
<1>1. Absent \in Entry
  BY DEF Entry
<1>2. UNCHANGED <<raised, past, hist, kept, late, readers, counts>>
  BY DEF MainLoop, Wake, TakeAndPrint, Poll, dds
<1>3. box' \in [Subjects -> Entry]
  BY <1>1 DEF MainLoop, Wake, TakeAndPrint, Poll, TypeOK
<1>4. stage' \in 0..Len(PollOrder)
  <2>1. Onward
    BY DEF MainLoop, Wake, TakeAndPrint, Poll
  <2>2. stage \in 0..12
    BY PollOrderIs DEF TypeOK
  <2> QED
    BY <2>1, <2>2, PollOrderIs DEF Onward
<1>5. known' \in [Facts -> Entry] /\ \A e \in Facts : e.topic \in Erasing => known'[e] # 0
  <2>1. ASSUME NEW t \in Topics, Poll(t)
        PROVE  known' \in [Facts -> Entry] /\ \A e \in Facts : e.topic \in Erasing => known'[e] # 0
    BY <2>1, StoredType DEF Poll
  <2> QED
    BY <2>1 DEF MainLoop, Wake, TakeAndPrint, TypeOK
<1>8. taken' \in [Alerts -> {"none", "active", "cleared"}]
  <2>1. ASSUME NEW t \in Topics, Poll(t)
        PROVE  taken' \in [Alerts -> {"none", "active", "cleared"}]
    BY <2>1, AlertIs DEF Poll, TypeOK
  <2> QED
    BY <2>1 DEF MainLoop, Wake, TakeAndPrint, TypeOK
<1>6. due' \in SUBSET (Subjects \ Zones)
  BY DEF MainLoop, Wake, TakeAndPrint, Poll, TypeOK
<1>7. \A z \in Zones : emitted'[z] \in [FactsOf(z.sys) -> Entry]
  <2> TAKE z \in Zones
  <2>1. CASE TakeAndPrint
    <3>1. emitted'[z] = IF box[z] # Absent THEN [e \in FactsOf(z.sys) |-> known[e]] ELSE emitted[z]
      BY <2>1 DEF TakeAndPrint
    <3>2. [e \in FactsOf(z.sys) |-> known[e]] \in [FactsOf(z.sys) -> Entry]
      BY DEF FactsOf, TypeOK
    <3> QED
      BY <3>1, <3>2 DEF TypeOK
  <2>2. CASE ~TakeAndPrint
    BY <2>2 DEF MainLoop, Wake, Poll, TypeOK
  <2> QED
    BY <2>1, <2>2
<1> QED
  BY <1>2, <1>3, <1>4, <1>5, <1>6, <1>7, <1>8 DEF TypeOK

\* Every reachable state is well typed, and what is still to arrive was written.
THEOREM StatusTyped == Spec => []TypeOK
<1>1. Init => TypeOK
  <2> SUFFICES ASSUME Init PROVE TypeOK
    OBVIOUS
  <2>1. Absent \in Entry /\ 0 \in 0..Len(PollOrder) /\ Absent # 0
    BY PollOrderIs, ConstantsAssumption DEF Entry
  <2>2. \A z \in Zones : emitted[z] \in [FactsOf(z.sys) -> Entry]
    BY <2>1 DEF Init
  <2> QED
    BY <2>1, <2>2 DEF Init, TypeOK
<1>2. TypeOK /\ [Next]_vars => TypeOK'
  <2> SUFFICES ASSUME TypeOK, [Next]_vars PROVE TypeOK'
    OBVIOUS
  <2>1. ASSUME NEW i \in Subjects, Arrive(i) PROVE TypeOK'
    <3>1. hist[i] \in Entry /\ Absent \in Entry
      BY DEF TypeOK, Entry
    <3>2. box' \in [Subjects -> Entry]
      BY <2>1, <3>1 DEF Arrive, TypeOK
    <3> QED
      BY <2>1, <3>2 DEF Arrive, TypeOK
  <2>2. CASE Launch
    BY <2>2 DEF Launch, TypeOK
  <2>3. CASE Exit
    <3>1. Absent \in Entry /\ 0 \in 0..Len(PollOrder) /\ Absent # 0
      BY PollOrderIs, ConstantsAssumption DEF Entry
    <3>2. counts' \in [changes : Nat, restarts : Nat]
      BY <2>3 DEF Exit, TypeOK
    <3> QED
      BY <2>3, <3>1, <3>2 DEF Exit, TypeOK, dds
  <2>4. CASE UNCHANGED vars
    BY <2>4 DEF vars, dds, TypeOK
  <2> QED
    BY <2>1, <2>2, <2>3, <2>4, DeviceType, MainLoopType DEF Next
<1> QED
  BY <1>1, <1>2, PTL DEF Spec

-----------------------------------------------------------------------------
(* The order of a round.                                                   *)

\* PrintsRefreshed speaks of the end of a round; what makes it inductive is that
\* nothing is due of a topic that was polled or passed over.
RoundInv == \A p \in 1..12, i \in due : p < stage => i.topic # PollOrder[p]

LEMMA RoundStep == TypeOK /\ RoundInv /\ [Next]_vars => RoundInv'
<1> SUFFICES ASSUME TypeOK, RoundInv, [Next]_vars PROVE RoundInv'
  OBVIOUS
<1>1. CASE Device
  <2>1. UNCHANGED <<stage, due>>
    BY <1>1 DEF Device, Raise, Clear, Change, PublishZone, Write
  <2> QED
    BY <2>1 DEF RoundInv
<1>2. CASE Launch
  BY <1>2 DEF Launch, RoundInv
<1>3. CASE Exit
  BY <1>3 DEF Exit, RoundInv
<1>4. CASE Wake
  <2>1. due' \subseteq Subjects /\ stage = 0 /\ Onward
    BY <1>4 DEF Wake
  <2> QED
    BY <2>1, PollOrderIs DEF Onward, Idle, Of, RoundInv
<1>5. ASSUME NEW t \in Topics, Poll(t) PROVE RoundInv'
  <2>1. stage \in 1..12 /\ PollOrder[stage] = t /\ Onward /\ due' = due \ Of(t)
    BY <1>5, PollOrderIs DEF Poll
  <2> SUFFICES ASSUME NEW p \in 1..12, NEW i \in due', p < stage'
               PROVE  i.topic # PollOrder[p]
    BY DEF RoundInv
  <2>2. i \in due /\ i \in Subjects /\ i.topic # t
    BY <2>1 DEF TypeOK, Of
  <2>3. p < stage \/ p = stage \/ p \in (stage + 1)..(stage' - 1)
    BY <2>1, PollOrderIs DEF Onward
  <2>4. CASE p \in (stage + 1)..(stage' - 1)
    BY <2>1, <2>2, <2>4, PollOrderIs DEF Onward, Idle, Of
  <2> QED
    BY <2>1, <2>2, <2>3, <2>4 DEF RoundInv
<1>6. CASE TakeAndPrint
  <2>1. stage' = 0
    BY <1>6, PollOrderIs DEF TakeAndPrint, Onward
  <2> QED
    BY <2>1 DEF RoundInv
<1>7. ASSUME NEW j \in Subjects, Arrive(j) PROVE RoundInv'
  BY <1>7 DEF Arrive, RoundInv
<1>8. CASE UNCHANGED vars
  BY <1>8 DEF vars, RoundInv
<1> QED
  BY <1>1, <1>2, <1>3, <1>4, <1>5, <1>6, <1>7, <1>8 DEF Next, MainLoop

\* What had arrived on any status topic when the loop woke is in the maps when the
\* zones are printed, whatever arrives meanwhile (main 1189-1202).
THEOREM AlwaysRefreshed == Spec => []PrintsRefreshed
<1>1. Init => RoundInv
  BY DEF Init, RoundInv
<1>2. TypeOK /\ RoundInv => PrintsRefreshed
  <2> SUFFICES ASSUME TypeOK, RoundInv, stage \in 1..12, PollOrder[stage] = "zone",
                      NEW i \in due
               PROVE  FALSE
    BY PollOrderIs DEF PrintsRefreshed
  <2>1. stage = 12 /\ i.topic # "zone" /\ i.topic \in Topics
    BY PollOrderIs, ConstantsAssumption DEF TypeOK, Zones, Of
  <2>2. PICK p \in 1..12 : PollOrder[p] = i.topic
    BY <2>1, PollOrderIs
  <2>3. p < stage
    BY <2>1, <2>2, PollOrderIs
  <2> QED
    BY <2>2, <2>3 DEF RoundInv
<1> QED
  BY <1>1, <1>2, RoundStep, StatusTyped, PTL DEF Spec

-----------------------------------------------------------------------------
(* What the maps hold.                                                     *)

\* What the device has written of an alert, and the writers' KEEP_LAST 1.
DeviceInv ==
    /\ \A a \in Alerts :
          /\ hist[a] \in {Absent, 0, 1} /\ (hist[a] # Absent => a \in past)
          /\ a \in raised => hist[a] = 1
          /\ a \notin raised /\ "active" \in ClearsOn[a] => hist[a] # 1
    /\ \A i, j \in kept : SameInstance(i, j) => i = j

\* Nothing is in a reader or a map of a process that is down; a sample that waits
\* in a reader is the last one unless a later one is on its way or took its place.
ReaderInv ==
    /\ readers = {} => /\ \A e \in Facts : known[e] = Absent
                       /\ \A a \in Alerts : taken[a] = "none"
    /\ \A i \in Subjects : box[i] # Absent =>
          /\ readers # {} /\ hist[i] # Absent
          /\ i \in kept \ late => box[i] = hist[i]

\* All that was said about i was taken.
Heard(i) == i \notin late /\ box[i] = Absent

\* An alert's entry has what the topic taken last says of it.
AlertInv ==
    \A a \in Alerts :
        /\ taken[a] = "active" => /\ hist[a] # Absent
                                  /\ a \in kept /\ Heard(a) => known[a] = Stored("active", hist[a])
        /\ taken[a] # "active" => known[a] = Absent

\* StatusCurrent speaks of the moments when all was taken; this is what holds at
\* any time of each entry alone.
EntryInv ==
    \A e \in Facts \ Alerts :
        /\ e.topic \in readers /\ Said(e) \subseteq kept
        /\ \A i \in From(e) : Heard(i)
        => known[e] \in Answers(e)

CurrentInv == DeviceInv /\ ReaderInv /\ AlertInv /\ EntryInv

\* Of the samples about alerts only those about the same topic and alert are
\* replaced by a new one.
LEMMA AlertOutlives ==
    ASSUME NEW a \in Alerts, NEW S, NEW D \in SUBSET Subjects, a \notin D
    PROVE  a \in Outlives(S, D) <=> a \in S
  BY AlertIs DEF Outlives, SameInstance

\* A write leaves the entries alone that it is not about: if it takes the place of
\* what was said of one, that one is not claimed any more.
LEMMA WriteKeepsEntries ==
    ASSUME TypeOK, CurrentInv, NEW S \in SUBSET Subjects, NEW samples \in [S -> Values],
           Write(samples)
    PROVE  ReaderInv' /\ EntryInv'
<1>1. /\ UNCHANGED <<box, readers, known, taken>>
      /\ hist' = [i \in Subjects |-> IF i \in S THEN samples[i] ELSE hist[i]]
      /\ kept' = Outlives(kept, S) \cup S /\ late' = Outlives(late, S) \cup S
  BY DEF Write
<1>2. \A i \in S : samples[i] # Absent
  BY ConstantsAssumption
<1>3. ReaderInv'
  <2>1. ASSUME NEW i \in Subjects, box[i] # Absent
        PROVE  hist'[i] # Absent /\ (i \in kept' \ late' => box[i] = hist'[i])
    <3>1. readers # {} /\ hist[i] # Absent /\ (i \in kept \ late => box[i] = hist[i])
      BY <2>1 DEF CurrentInv, ReaderInv
    <3>2. i \in kept' \ late' => i \in kept \ late /\ i \notin S
      BY <1>1 DEF Outlives
    <3>. QED
      BY <1>1, <1>2, <3>1, <3>2
  <2>. QED
    BY <1>1, <2>1 DEF CurrentInv, ReaderInv
<1>4. ASSUME NEW e \in Facts \ Alerts, e.topic \in readers, Said(e)' \subseteq kept',
             \A i \in From(e) : Heard(i)'
      PROVE  known'[e] \in Answers(e)'
  <2>1. \A i \in From(e) : i \notin S /\ hist'[i] = hist[i]
    BY <1>1, <1>4, FactIs DEF Heard
  <2>2. Said(e)' = Said(e) /\ Answers(e)' = Answers(e)
    BY <1>4, <2>1 DEF Said, Answers
  <2>3. Said(e) \subseteq kept
    BY <1>1, <1>4, <2>1, <2>2 DEF Outlives, Said
  <2>4. ASSUME NEW i \in From(e) PROVE Heard(i)
    <3>1. box[i] = Absent /\ i \notin late'
      BY <1>1, <1>4 DEF Heard
    <3>2. CASE i \in late
      <4>1. i \notin kept'
        BY <1>1, <2>1, <3>1, <3>2 DEF Outlives
      <4>2. i \in Said(e)
        BY <3>2 DEF TypeOK, Said
      <4>. QED
        BY <1>4, <2>2, <4>1, <4>2
    <3>. QED
      BY <3>1, <3>2 DEF Heard
  <2>. QED
    BY <1>1, <1>4, <2>2, <2>3, <2>4 DEF CurrentInv, EntryInv
<1>. QED
  BY <1>1, <1>3, <1>4 DEF EntryInv

LEMMA WriteKeepsOne ==
    ASSUME TypeOK, CurrentInv, NEW S \in SUBSET Subjects, NEW samples \in [S -> Values],
           Write(samples), \A i, j \in S : SameInstance(i, j) => i = j
    PROVE  \A i, j \in kept' : SameInstance(i, j) => i = j
<1>1. kept' = Outlives(kept, S) \cup S
  BY DEF Write
<1>2. \A i, j \in kept : SameInstance(i, j) => i = j
  BY DEF CurrentInv, DeviceInv
<1>3. \A i, j : SameInstance(i, j) => SameInstance(j, i)
  BY DEF SameInstance
<1>. QED
  BY <1>1, <1>2, <1>3 DEF Outlives

LEMMA RaiseKeepsMaps ==
    ASSUME TypeOK, CurrentInv, NEW a \in Alerts, Raise(a)
    PROVE  CurrentInv'
<1>1. /\ raised' = raised \cup {a} /\ past' = past \cup {a} /\ Write([i \in {a} |-> 1])
      /\ UNCHANGED <<box, known, taken>>
  BY DEF Raise, Write
<1>2. {a} \in SUBSET Subjects /\ [i \in {a} |-> 1] \in [{a} -> Values]
  BY AlertIs, ConstantsAssumption
<1>3. ReaderInv' /\ EntryInv' /\ \A i, j \in kept' : SameInstance(i, j) => i = j
  BY <1>1, <1>2, WriteKeepsEntries, WriteKeepsOne
<1>4. ASSUME NEW b \in Alerts
      PROVE  /\ hist'[b] = IF b = a THEN 1 ELSE hist[b]
             /\ b # a => (b \in kept' <=> b \in kept) /\ (b \in late' <=> b \in late)
             /\ b = a => b \in late'
  BY <1>1, AlertIs, AlertOutlives DEF Write
<1>5. DeviceInv'
  BY <1>1, <1>3, <1>4, ConstantsAssumption DEF CurrentInv, DeviceInv
<1>6. AlertInv'
  BY <1>1, <1>4, ConstantsAssumption DEF CurrentInv, AlertInv, Heard
<1>. QED
  BY <1>3, <1>5, <1>6 DEF CurrentInv

LEMMA ClearKeepsMaps ==
    ASSUME TypeOK, CurrentInv, NEW a \in Alerts, Clear(a)
    PROVE  CurrentInv'
<1> DEFINE S == {j \in {a, EndOf(a)} : j.topic \in ClearsOn[a]}
           samples == [i \in S |-> IF i.topic = "active" THEN 0 ELSE 1]
<1>1. /\ raised' = raised \ {a} /\ past' = past /\ Write(samples) /\ a \in raised
      /\ UNCHANGED <<box, known, taken>>
  BY DEF Clear, Write
<1>2. S \in SUBSET Subjects /\ samples \in [S -> Values]
  BY AlertIs, ConstantsAssumption
<1>3. ReaderInv' /\ EntryInv' /\ \A i, j \in kept' : SameInstance(i, j) => i = j
  <2>1. \A i, j \in S : SameInstance(i, j) => i = j
    BY AlertIs DEF SameInstance
  <2>. QED
    BY <1>1, <1>2, <2>1, WriteKeepsEntries, WriteKeepsOne
<1>4. ASSUME NEW b \in Alerts
      PROVE  /\ hist'[b] = IF b = a /\ "active" \in ClearsOn[a] THEN 0 ELSE hist[b]
             /\ b \notin S => (b \in kept' <=> b \in kept) /\ (b \in late' <=> b \in late)
             /\ b \in S => b \in late'
             /\ b \in S <=> b = a /\ "active" \in ClearsOn[a]
  <2>1. b \in S <=> b = a /\ "active" \in ClearsOn[a]
    BY AlertIs
  <2>2. hist' = [i \in Subjects |-> IF i \in S THEN samples[i] ELSE hist[i]]
    BY <1>1 DEF Write
  <2>3. kept' = Outlives(kept, S) \cup S /\ late' = Outlives(late, S) \cup S
    BY <1>1 DEF Write
  <2>4. b \notin S => (b \in kept' <=> b \in kept) /\ (b \in late' <=> b \in late)
    <3>. HIDE DEF S
    <3>. QED
      BY <1>2, <2>3, AlertOutlives
  <2>. QED
    BY <2>1, <2>2, <2>3, <2>4, AlertIs
<1> HIDE DEF S, samples
<1>5. DeviceInv'
  <2>1. ASSUME NEW b \in Alerts
        PROVE  /\ hist'[b] \in {Absent, 0, 1} /\ (hist'[b] # Absent => b \in past')
               /\ b \in raised' => hist'[b] = 1
               /\ b \notin raised' /\ "active" \in ClearsOn[b] => hist'[b] # 1
    BY <1>1, <1>4, ConstantsAssumption DEF CurrentInv, DeviceInv, TypeOK
  <2>. QED
    BY <1>3, <2>1 DEF DeviceInv
<1>6. AlertInv'
  BY <1>1, <1>4, ConstantsAssumption DEF CurrentInv, AlertInv, Heard
<1>. QED
  BY <1>3, <1>5, <1>6 DEF CurrentInv

LEMMA ChangeKeepsMaps ==
    ASSUME TypeOK, CurrentInv, NEW i \in Subjects \ Alerts, NEW v \in Values,
           Write([j \in {i} |-> v]), UNCHANGED <<raised, past>>
    PROVE  CurrentInv'
<1>1. {i} \in SUBSET Subjects /\ [j \in {i} |-> v] \in [{i} -> Values]
  OBVIOUS
<1>2. ReaderInv' /\ EntryInv' /\ \A k, j \in kept' : SameInstance(k, j) => k = j
  BY <1>1, WriteKeepsEntries, WriteKeepsOne
<1>3. ASSUME NEW b \in Alerts
      PROVE  hist'[b] = hist[b] /\ (b \in kept' <=> b \in kept) /\ (b \in late' <=> b \in late)
  BY <1>1, AlertIs, AlertOutlives DEF Write
<1>4. DeviceInv'
  BY <1>2, <1>3 DEF CurrentInv, DeviceInv
<1>5. AlertInv'
  BY <1>3 DEF CurrentInv, AlertInv, Heard, Write
<1>. QED
  BY <1>2, <1>4, <1>5 DEF CurrentInv

LEMMA DeviceKeepsMaps ==
    ASSUME TypeOK, CurrentInv, Device
    PROVE  CurrentInv'
<1>1. ASSUME NEW i \in Subjects, NEW v \in Values, Change(i, v) PROVE CurrentInv'
  BY <1>1, ChangeKeepsMaps DEF Change
<1>2. ASSUME NEW z \in Zones, PublishZone(z) PROVE CurrentInv'
  <2>1. z \in Subjects \ Alerts /\ 1 \in Values
    BY ConstantsAssumption DEF Zones, Alerts, Of
  <2>. QED
    BY <1>2, <2>1, ChangeKeepsMaps DEF PublishZone
<1>. QED
  BY <1>1, <1>2, RaiseKeepsMaps, ClearKeepsMaps DEF Device

\* Outside of the device and of DDS, what is said stays.
LEMMA AnswersStay ==
    ASSUME UNCHANGED <<raised, past, hist>>
    PROVE  \A e \in Facts : Said(e)' = Said(e) /\ Answers(e)' = Answers(e)
  BY DEF Said, Answers

\* A poll that finds samples for an entry stores one that is the last of its
\* subject, if all was taken then.
LEMMA PollKeepsMaps ==
    ASSUME TypeOK, CurrentInv, NEW t \in Topics, Poll(t)
    PROVE  CurrentInv'
<1>1. PICK last \in [Concerned(t) -> InReader(t)] :
          /\ \A e \in Concerned(t) : EntryOf(last[e]) = e
          /\ known' = KnownAfter(t, last)
  BY DEF Poll
<1>2. /\ UNCHANGED <<raised, past, hist, kept, late, readers>>
      /\ \A i \in Subjects : box'[i] = IF i.topic = t THEN Absent ELSE box[i]
      /\ \A a \in Alerts : taken'[a] =
            IF \E i \in {a, EndOf(a)} : i.topic = t /\ box[i] # Absent THEN t ELSE taken[a]
  BY DEF Poll, dds
<1>3. \A e \in Facts : Said(e)' = Said(e) /\ Answers(e)' = Answers(e)
  BY <1>2, AnswersStay
<1>4. \A e \in Facts : known'[e] =
          IF e \in Concerned(t) THEN Stored(t, box[last[e]])
          ELSE IF t = "cleared" /\ e \in Alerts /\ box[EndOf(e)] # Absent THEN Absent
          ELSE known[e]
  BY <1>1 DEF KnownAfter
<1>5. \A e \in Concerned(t) : /\ last[e] \in From(e) /\ last[e].topic = t /\ e.topic = t
                              /\ box[last[e]] # Absent
  BY <1>1, EntryIs DEF InReader, Of, From
<1>6. ASSUME NEW e \in Facts, e \notin Concerned(t), NEW i \in From(e)
      PROVE  box'[i] = box[i]
  <2>1. i \in Subjects /\ EntryOf(i) = e
    BY <1>6 DEF From
  <2>2. i.topic = t => box[i] = Absent
    BY <1>6, <2>1 DEF Concerned, InReader, Of
  <2>. QED
    BY <1>2, <2>1, <2>2
<1>7. DeviceInv'
  BY <1>2 DEF CurrentInv, DeviceInv
<1>8. readers # {} => ReaderInv'
  BY <1>2 DEF CurrentInv, ReaderInv
<1>9. readers = {} => ReaderInv'
  <2>. SUFFICES ASSUME readers = {} PROVE ReaderInv'
    OBVIOUS
  <2>1. \A i \in Subjects : box[i] = Absent
    BY DEF CurrentInv, ReaderInv
  <2>2. Concerned(t) = {}
    BY <2>1 DEF Concerned, InReader, Of
  <2>3. \A e \in Facts : known'[e] = Absent
    BY <1>4, <2>2 DEF CurrentInv, ReaderInv
  <2>4. \A a \in Alerts : taken'[a] = "none"
    BY <1>2, <2>1, AlertIs DEF CurrentInv, ReaderInv
  <2>. QED
    BY <1>2, <2>1, <2>3, <2>4 DEF ReaderInv
<1>10. AlertInv'
  <2>. SUFFICES ASSUME NEW a \in Alerts
                PROVE  /\ taken'[a] = "active" =>
                             /\ hist[a] # Absent
                             /\ a \in kept /\ a \notin late /\ box'[a] = Absent =>
                                   known'[a] = Stored("active", hist[a])
                       /\ taken'[a] # "active" => known'[a] = Absent
    BY <1>2 DEF AlertInv, Heard
  <2>1. /\ a \in Subjects /\ a \in Facts /\ From(a) = {a} /\ a.topic = "active"
        /\ EndOf(a) \in Subjects /\ EndOf(a).topic = "cleared"
    BY AlertIs
  <2>2. CASE a \in Concerned(t)
    <3>1. t = "active" /\ last[a] = a /\ box[a] # Absent
      BY <1>5, <2>1, <2>2
    <3>2. taken'[a] = "active" /\ known'[a] = Stored("active", box[a])
      BY <1>2, <1>4, <2>1, <2>2, <3>1
    <3>3. hist[a] # Absent /\ (a \in kept \ late => box[a] = hist[a])
      BY <2>1, <3>1 DEF CurrentInv, ReaderInv
    <3>. QED
      BY <3>2, <3>3
  <2>3. CASE a \notin Concerned(t)
    <3>1. box'[a] = box[a] /\ (t = "active" => box[a] = Absent)
      BY <1>2, <1>6, <2>1, <2>3
    <3>2. CASE t = "cleared" /\ box[EndOf(a)] # Absent
      BY <1>2, <1>4, <2>1, <2>3, <3>2
    <3>3. CASE ~(t = "cleared" /\ box[EndOf(a)] # Absent)
      <4>1. taken'[a] = taken[a] /\ known'[a] = known[a]
        BY <1>2, <1>4, <2>1, <2>3, <3>1, <3>3
      <4>. QED
        BY <3>1, <4>1 DEF CurrentInv, AlertInv, Heard
    <3>. QED
      BY <3>2, <3>3
  <2>. QED
    BY <2>2, <2>3
<1>11. EntryInv'
  <2>. SUFFICES ASSUME NEW e \in Facts \ Alerts, e.topic \in readers, Said(e) \subseteq kept,
                       \A i \in From(e) : i \notin late /\ box'[i] = Absent
                PROVE  known'[e] \in Answers(e)
    BY <1>2, <1>3 DEF EntryInv, Heard
  <2>1. CASE e \in Concerned(t)
    <3>1. last[e] \in From(e) /\ box[last[e]] # Absent /\ e.topic = t /\ last[e] \in Subjects
      BY <1>5, <2>1, FactIs
    <3>2. last[e] \in Said(e) /\ box[last[e]] = hist[last[e]]
      BY <3>1 DEF Said, CurrentInv, ReaderInv
    <3>3. known'[e] = Stored(e.topic, hist[last[e]])
      BY <1>4, <2>1, <3>1, <3>2
    <3>. QED
      BY <3>2, <3>3 DEF Answers
  <2>2. CASE e \notin Concerned(t)
    <3>1. known'[e] = known[e]
      BY <1>4, <2>2
    <3>2. \A i \in From(e) : Heard(i)
      BY <1>6, <2>2 DEF Heard
    <3>. QED
      BY <3>1, <3>2 DEF CurrentInv, EntryInv
  <2>. QED
    BY <2>1, <2>2
<1>. QED
  BY <1>7, <1>8, <1>9, <1>10, <1>11 DEF CurrentInv

LEMMA LoopKeepsMaps ==
    ASSUME TypeOK, CurrentInv, MainLoop
    PROVE  CurrentInv'
<1>1. CASE Wake \/ TakeAndPrint
  <2>1. /\ UNCHANGED <<raised, past, hist, kept, late, readers, known, taken>>
        /\ \A i \in Subjects : box'[i] \in {box[i], Absent}
        /\ \A i \in Subjects \ Zones : box'[i] = box[i]
    BY <1>1 DEF Wake, TakeAndPrint, dds, TypeOK
  <2>2. \A e \in Facts : Said(e)' = Said(e) /\ Answers(e)' = Answers(e)
    BY <2>1, AnswersStay
  <2>3. \A e \in Facts : \A i \in From(e) : Heard(i)' <=> Heard(i)
    <3>1. \A e \in Facts : \A i \in From(e) : i \in Subjects \ Zones
      BY FactIs DEF Zones, Of
    <3>. QED
      BY <2>1, <3>1 DEF Heard
  <2>4. DeviceInv' /\ ReaderInv'
    BY <2>1 DEF CurrentInv, DeviceInv, ReaderInv
  <2>5. AlertInv'
    BY <2>1, <2>3, AlertIs DEF CurrentInv, AlertInv
  <2>6. EntryInv'
    BY <2>1, <2>2, <2>3 DEF CurrentInv, EntryInv
  <2>. QED
    BY <2>4, <2>5, <2>6 DEF CurrentInv
<1>. QED
  BY <1>1, PollKeepsMaps DEF MainLoop

LEMMA ProcessKeepsMaps ==
    ASSUME TypeOK, CurrentInv, Launch \/ Exit
    PROVE  CurrentInv'
<1>1. UNCHANGED <<raised, past, hist, kept>>
  BY DEF Launch, Exit, dds
<1>2. DeviceInv' /\ \A e \in Facts : Said(e)' = Said(e) /\ Answers(e)' = Answers(e)
  BY <1>1, AnswersStay DEF CurrentInv, DeviceInv
<1>3. CASE Exit
  <2>1. /\ readers' = {} /\ \A i \in Subjects : box'[i] = Absent
        /\ \A e \in Facts : known'[e] = Absent
        /\ \A a \in Alerts : taken'[a] = "none"
    BY <1>3 DEF Exit
  <2>2. ReaderInv'
    BY <2>1 DEF ReaderInv
  <2>4. EntryInv'
    <3> SUFFICES ASSUME NEW e \in Facts \ Alerts, e.topic \in readers' PROVE FALSE
      BY DEF EntryInv
    <3> QED
      BY <2>1
  <2>3. AlertInv'
    BY <2>1, AlertIs, ConstantsAssumption DEF AlertInv
  <2> QED
    BY <1>2, <2>2, <2>3, <2>4 DEF CurrentInv
<1>4. CASE Launch
  <2>1. readers = {} /\ readers' # {} /\ UNCHANGED <<box, known, taken>> /\ late' = kept
    BY <1>4, ConstantsAssumption DEF Launch
  <2>2. /\ \A i \in Subjects : box[i] = Absent
        /\ \A e \in Facts : known[e] = Absent
        /\ \A a \in Alerts : taken[a] = "none"
    BY <2>1 DEF CurrentInv, ReaderInv
  <2>3. ReaderInv'
    BY <2>1, <2>2 DEF ReaderInv
  <2>4. AlertInv'
    BY <2>1, <2>2, AlertIs, ConstantsAssumption DEF AlertInv
  <2>5. EntryInv'
    <3> SUFFICES ASSUME NEW e \in Facts \ Alerts, Said(e) \subseteq kept,
                        \A i \in From(e) : i \notin kept
                 PROVE  known[e] \in Answers(e)
      BY <1>1, <1>2, <2>1 DEF EntryInv, Heard
    <3>1. Said(e) = {}
      BY DEF Said
    <3> QED
      BY <2>2, <3>1 DEF Answers
  <2> QED
    BY <1>2, <2>3, <2>4, <2>5 DEF CurrentInv
<1> QED
  BY <1>3, <1>4

LEMMA ArrivalKeepsMaps ==
    ASSUME TypeOK, CurrentInv, NEW j \in Subjects, Arrive(j)
    PROVE  CurrentInv'
<1>1. UNCHANGED <<raised, past, hist, kept, readers, known, taken>>
  BY DEF Arrive
<1>2. DeviceInv' /\ \A e \in Facts : Said(e)' = Said(e) /\ Answers(e)' = Answers(e)
  BY <1>1, AnswersStay DEF CurrentInv, DeviceInv
<1>3. /\ j \in late /\ j \in kept /\ readers # {} /\ late' = late \ {j} /\ hist[j] # Absent
      /\ \A i \in Subjects : box'[i] = IF i = j THEN hist[j]
                                       ELSE IF SameInstance(j, i) THEN Absent ELSE box[i]
  BY DEF Arrive, TypeOK
<1>4. ReaderInv'
  BY <1>1, <1>3 DEF CurrentInv, ReaderInv
<1>5. ASSUME NEW i \in Subjects, Heard(i)', i \in kept \/ hist[i] = Absent
      PROVE  Heard(i)
  <2>1. i # j /\ i \notin late
    BY <1>3, <1>5 DEF Heard
  <2>2. CASE SameInstance(j, i)
    <3>1. i \notin kept
      BY <1>3, <2>1, <2>2 DEF CurrentInv, DeviceInv
    <3>2. box[i] = Absent
      BY <1>5, <3>1 DEF CurrentInv, ReaderInv
    <3>. QED
      BY <2>1, <3>2 DEF Heard
  <2>3. CASE ~SameInstance(j, i)
    BY <1>3, <1>5, <2>1, <2>3 DEF Heard
  <2>. QED
    BY <2>2, <2>3
<1>6. AlertInv'
  BY <1>1, <1>5, AlertIs DEF CurrentInv, AlertInv
<1>7. EntryInv'
  <2> SUFFICES ASSUME NEW e \in Facts \ Alerts, e.topic \in readers, Said(e) \subseteq kept,
                      \A i \in From(e) : Heard(i)'
               PROVE  known[e] \in Answers(e)
    BY <1>1, <1>2 DEF EntryInv
  <2>1. \A i \in From(e) : Heard(i)
    BY <1>5, FactIs DEF Said
  <2> QED
    BY <2>1 DEF CurrentInv, EntryInv
<1> QED
  BY <1>2, <1>4, <1>6, <1>7 DEF CurrentInv

LEMMA CurrentInvariant == Spec => []CurrentInv
<1>1. Init => CurrentInv
  <2> SUFFICES ASSUME Init PROVE CurrentInv
    OBVIOUS
  <2>1. \A i \in Subjects : hist[i] = Absent /\ box[i] = Absent
    BY DEF Init
  <2>2. DeviceInv
    BY <2>1, AlertIs, ConstantsAssumption DEF Init, DeviceInv
  <2>3. ReaderInv
    BY <2>1 DEF Init, ReaderInv
  <2>4. AlertInv
    BY AlertIs, ConstantsAssumption DEF Init, AlertInv
  <2>5. EntryInv
    BY DEF Init, EntryInv
  <2> QED
    BY <2>2, <2>3, <2>4, <2>5 DEF CurrentInv
<1>2. TypeOK /\ CurrentInv /\ [Next]_vars => CurrentInv'
  <2> SUFFICES ASSUME TypeOK, CurrentInv, [Next]_vars PROVE CurrentInv'
    OBVIOUS
  <2>1. CASE UNCHANGED vars
    BY <2>1 DEF vars, dds, CurrentInv, DeviceInv, ReaderInv, AlertInv, EntryInv, Heard, Said, Answers
  <2> QED
    BY <2>1, DeviceKeepsMaps, LoopKeepsMaps, ProcessKeepsMaps, ArrivalKeepsMaps DEF Next
<1> QED
  BY <1>1, <1>2, StatusTyped, PTL DEF Spec

\* Once every sample was taken, the maps say what the device says, over restarts,
\* late joins, missing readers and overwritten samples; of an alert, unless the
\* older of two samples about it was taken last (AlertReader::poll 546-573, the
\* pollers of the other topics).
THEOREM MapsCurrent == Spec => []StatusCurrent
<1>1. TypeOK /\ CurrentInv => StatusCurrent
  <2> SUFFICES ASSUME TypeOK, CurrentInv, Quiet, NEW e \in Facts, Followed(e)
               PROVE  known[e] \in Answers(e)
    BY DEF StatusCurrent
  <2>1. \A i \in From(e) : Heard(i)
    <3>1. \A i \in From(e) : i \in Subjects \ Zones /\ i.topic = e.topic
      BY FactIs DEF Zones, Of
    <3> QED
      BY <3>1 DEF Quiet, Followed, Heard
  <2>2. CASE e \in Alerts
    <3>1. /\ From(e) = {e} /\ e \in Subjects /\ InTurn(e) /\ Heard(e)
          /\ hist[e] # Absent => e \in kept
      BY <2>1, <2>2, AlertIs DEF Followed, Said
    <3>2. /\ hist[e] \in {Absent, 0, 1} /\ (hist[e] # Absent => e \in past)
          /\ e \in raised => hist[e] = 1
          /\ e \notin raised /\ "active" \in ClearsOn[e] => hist[e] # 1
          /\ taken[e] = "active" => hist[e] # Absent /\ known[e] = Stored("active", hist[e])
          /\ taken[e] # "active" => known[e] = Absent
      BY <2>2, <3>1 DEF CurrentInv, DeviceInv, AlertInv
    <3>3. Stored("active", 1) = 1 /\ Stored("active", 0) = Absent
      BY DEF Stored, Erasing
    <3> QED
      BY <2>2, <3>1, <3>2, <3>3, ConstantsAssumption DEF InTurn, Answers
  <2>3. CASE e \notin Alerts
    BY <2>1, <2>3 DEF CurrentInv, EntryInv, Followed
  <2> QED
    BY <2>2, <2>3
<1> QED
  BY <1>1, StatusTyped, CurrentInvariant, PTL

=============================================================================
