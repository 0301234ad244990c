-------------------------- MODULE LogEngineProofs --------------------------
(***************************************************************************)
(* Proofs about LogEngine: the table keeps to its size and to the devices  *)
(* there are, a client that follows the notifications shows the table, and *)
(* the actions that GuhCore keeps are those that plugins execute.          *)
(*                                                                         *)
(* Whatever a call writes is followed one entry at a time: the tables and  *)
(* notifications that Then() makes of good ones are good (ThenGood).  A    *)
(* client shows the table in the end because, at any time, what it shows   *)
(* or is about to be answered becomes the table by the entries announced   *)
(* afterwards, unless it still has to ask again (Follows).                 *)
(***************************************************************************)
EXTENDS LogEngine, FiniteSetTheorems, TLAPS

Sources == {"System", "Events", "Rules", "Actions"}

LogEntries ==
    [time : Int, source : Sources, type : Rules \cup {None}, device : Devices \cup {None}]

Changes == {Updated} \cup {Added(entry) : entry \in LogEntries}
Notes == Changes \cup [kind : {"GetLogEntries"}, entries : Seq(LogEntries)]

\* The types of the variables.
Typed ==
    /\ running \in BOOLEAN /\ now \in Int
    /\ devices \subseteq Devices /\ rules \subseteq Rules
    /\ entries \in Seq(LogEntries)
    /\ executing \in [ActionIds -> Devices \cup {None}]
    /\ m_pendingActions \in [ActionIds -> Devices \cup {None}]
    /\ early \subseteq ActionIds
    /\ connected \in BOOLEAN
    /\ inbox \in Seq(Notes)
    /\ asked \in Nat
    /\ shown \in Seq(LogEntries)

\* No message and no request outlives its connection.
Silent == ~connected => inbox = <<>> /\ asked = 0

OnlyAdded(notes, first) == \A i \in first..Len(notes) : notes[i].kind = "LogEntryAdded"

\* The second table is the first one and the entries of the notes from the given one on.
Grown(from, to, notes, first) ==
    /\ Len(to) = Len(from) + Len(notes) - first + 1
    /\ \A i \in 1..Len(from) : to[i] = from[i]
    /\ \A i \in first..Len(notes) : to[Len(from) + i - first + 1] = notes[i].entry

\* What the client shows becomes the table, unless it has to ask.
ShownFollows ==
    asked = 0 /\ OnlyAdded(inbox, 1) => Grown(shown, entries, inbox, 1)

\* ... and so does what it will be answered.
AnswersFollow ==
    \A k \in 1..Len(inbox) :
        inbox[k].kind = "GetLogEntries" /\ OnlyAdded(inbox, k + 1)
        => Grown(inbox[k].entries, entries, inbox, k + 1)

Follows == connected => ShownFollows /\ AnswersFollow

\* An entry may be in the table while these devices are configured.
Allowed(entry, configured) ==
    entry.device \in Devices \ configured => entry.source = "Actions"

\* The table of TableKept, element by element.
Keeps(table, configured) ==
    /\ Len(table) <= m_dbMaxSize + 1
    /\ \A i \in 1..Len(table) : Allowed(table[i], configured)

IInv ==
    /\ Typed
    /\ Keeps(entries, devices)
    /\ PendingActionsAreExecuted
    /\ Silent
    /\ Follows

-----------------------------------------------------------------------------
(* What is written *)

\* A table and the notifications about it that a call may make of the present ones.
Good(log) ==
    /\ log.table \in Seq(LogEntries)
    /\ log.notes \in Seq(Changes)
    /\ Keeps(log.table, devices)
    /\ OnlyAdded(log.notes, 1) => Grown(entries, log.table, log.notes, 1)

\* Rows that are kept are rows of the table.
LEMMA KeptRows ==
    ASSUME NEW table \in Seq(LogEntries), NEW rows \in Selections(table)
    PROVE  /\ Kept(table, rows) \in Seq(LogEntries)
           /\ Len(Kept(table, rows)) = Len(rows)
           /\ Len(rows) <= Len(table)
           /\ \A i \in 1..Len(rows) :
                rows[i] \in 1..Len(table) /\ Kept(table, rows)[i] = table[rows[i]]
<1>1. PICK n \in 0..Len(table) : rows \in [1..n -> DOMAIN table]
  BY DEF Selections
<1>2. /\ Len(rows) = n /\ DOMAIN rows = 1..n /\ DOMAIN table = 1..Len(table)
      /\ n \in Nat
  BY <1>1
<1>3. \A i \in 1..n : rows[i] \in 1..Len(table)
  BY <1>1, <1>2
<1>4. Kept(table, rows) = [i \in 1..n |-> table[rows[i]]]
  BY <1>2 DEF Kept
<1>5. \A i \in 1..n : table[rows[i]] \in LogEntries
  BY <1>3
<1>6. Kept(table, rows) \in [1..n -> LogEntries]
  BY <1>4, <1>5
<1>7. Kept(table, rows) \in Seq(LogEntries) /\ Len(Kept(table, rows)) = n
  BY <1>2, <1>6
<1> QED
  BY <1>2, <1>3, <1>4, <1>7

\* Without writing, everything is as it is.
LEMMA UnwrittenGood ==
    ASSUME Typed, Keeps(entries, devices)
    PROVE  \A log \in Unwritten : Good(log)
<1>1. Grown(entries, entries, <<>>, 1)
  BY DEF Typed, Grown
<1>2. <<>> \in Seq(Changes)
  OBVIOUS
<1>3. Unwritten = {[table |-> entries, notes |-> <<>>]}
  BY DEF Unwritten
<1>4. entries \in Seq(LogEntries)
  BY DEF Typed
<1> SUFFICES ASSUME NEW log \in Unwritten
             PROVE  Good(log)
  OBVIOUS
<1>5. log.table = entries /\ log.notes = <<>>
  BY <1>3
<1> QED
  BY <1>1, <1>2, <1>4, <1>5 DEF Good

\* checkDBSize() makes room for an entry, and says so when it drops some.
LEMMA CheckedGood ==
    ASSUME NEW log, Good(log), NEW checked \in CheckDBSize(log)
    PROVE  Good(checked) /\ Len(checked.table) <= m_dbMaxSize
<1> USE LogAssumption
<1>1. CASE Len(log.table) < m_dbMaxSize
  BY <1>1 DEF Good, CheckDBSize
<1>2. CASE ~(Len(log.table) < m_dbMaxSize)
  <2>1. PICK rows \in Latest(log.table) :
           checked = [table |-> Kept(log.table, rows), notes |-> Append(log.notes, Updated)]
    BY <1>2 DEF CheckDBSize
  <2>2. rows \in Selections(log.table) /\ Len(rows) = m_dbMaxSize
    BY DEF Latest
  <2>3. /\ log.table \in Seq(LogEntries) /\ log.notes \in Seq(Changes)
        /\ \A i \in 1..Len(log.table) : Allowed(log.table[i], devices)
    BY DEF Good, Keeps
  <2>4. /\ checked.table \in Seq(LogEntries)
        /\ Len(checked.table) = m_dbMaxSize
        /\ \A i \in 1..Len(checked.table) : \E j \in 1..Len(log.table) :
              checked.table[i] = log.table[j]
    <3>1. /\ Kept(log.table, rows) \in Seq(LogEntries)
          /\ Len(Kept(log.table, rows)) = Len(rows)
          /\ \A i \in 1..Len(rows) :
               rows[i] \in 1..Len(log.table) /\ Kept(log.table, rows)[i] = log.table[rows[i]]
      BY <2>2, <2>3, KeptRows
    <3> QED
      BY <2>1, <2>2, <3>1
  <2>5. Keeps(checked.table, devices)
    BY <2>3, <2>4 DEF Keeps
  <2>6. /\ checked.notes = Append(log.notes, Updated)
        /\ Updated \in Changes
    BY <2>1 DEF Changes
  <2>7. /\ checked.notes \in Seq(Changes)
        /\ Len(checked.notes) >= 1
        /\ checked.notes[Len(checked.notes)] = Updated
    BY <2>3, <2>6
  <2>8. ~OnlyAdded(checked.notes, 1)
    BY <2>7 DEF OnlyAdded, Updated
  <2> QED
    BY <2>4, <2>5, <2>7, <2>8 DEF Good
<1> QED
  BY <1>1, <1>2

\* An entry written after good ones is good.
LEMMA ThenGood ==
    ASSUME Typed, NEW logs, \A log \in logs : Good(log),
           NEW entry \in LogEntries, Allowed(entry, devices)
    PROVE  \A log \in Then(logs, entry) : Good(log)
<1> USE LogAssumption
<1> SUFFICES ASSUME NEW log \in Then(logs, entry)
             PROVE  Good(log)
  OBVIOUS
<1>1. PICK before \in logs : log \in Appended(before, entry)
  BY DEF Then
<1>2. PICK checked \in CheckDBSize(before) :
         log = [table |-> Append(checked.table, entry),
                notes |-> Append(checked.notes, Added(entry))]
  BY <1>1 DEF Appended
<1>3. Good(checked) /\ Len(checked.table) <= m_dbMaxSize
  BY CheckedGood
<1>4. /\ checked.table \in Seq(LogEntries) /\ checked.notes \in Seq(Changes)
      /\ \A i \in 1..Len(checked.table) : Allowed(checked.table[i], devices)
      /\ entries \in Seq(LogEntries)
  BY <1>3 DEF Good, Keeps, Typed
<1>5. /\ log.table = Append(checked.table, entry)
      /\ log.notes = Append(checked.notes, Added(entry))
      /\ Added(entry) \in Changes
  BY <1>2 DEF Changes
<1>6. /\ log.table \in Seq(LogEntries)
      /\ Len(log.table) = Len(checked.table) + 1
      /\ \A i \in 1..Len(checked.table) : log.table[i] = checked.table[i]
      /\ log.table[Len(checked.table) + 1] = entry
  BY <1>4, <1>5
<1>7. /\ log.notes \in Seq(Changes)
      /\ Len(log.notes) = Len(checked.notes) + 1
      /\ \A i \in 1..Len(checked.notes) : log.notes[i] = checked.notes[i]
      /\ log.notes[Len(checked.notes) + 1] = Added(entry)
  BY <1>4, <1>5
<1>8. Keeps(log.table, devices)
  <2>1. \A i \in 1..Len(log.table) :
           i = Len(checked.table) + 1 \/ i \in 1..Len(checked.table)
    BY <1>4, <1>6
  <2>2. \A i \in 1..Len(log.table) : Allowed(log.table[i], devices)
    BY <1>4, <1>6, <2>1
  <2>3. Len(log.table) <= m_dbMaxSize + 1
    BY <1>3, <1>4, <1>6
  <2> QED
    BY <2>2, <2>3 DEF Keeps
<1>9. ASSUME OnlyAdded(log.notes, 1)
      PROVE  Grown(entries, log.table, log.notes, 1)
  <2>1. OnlyAdded(checked.notes, 1)
    BY <1>4, <1>7, <1>9, SMTT(30) DEF OnlyAdded
  <2>2. Grown(entries, checked.table, checked.notes, 1)
    BY <1>3, <2>1 DEF Good
  <2>3. /\ Len(checked.table) = Len(entries) + Len(checked.notes)
        /\ Len(log.table) = Len(entries) + Len(log.notes) - 1 + 1
    BY <1>4, <1>6, <1>7, <2>2 DEF Grown
  <2>4. \A i \in 1..Len(entries) : log.table[i] = entries[i]
    BY <1>4, <1>6, <2>2, <2>3 DEF Grown
  <2>5. Added(entry).entry = entry
    BY DEF Added
  <2>6. ASSUME NEW i \in 1..Len(log.notes)
        PROVE  log.table[Len(entries) + i - 1 + 1] = log.notes[i].entry
    <3>1. CASE i = Len(log.notes)
      BY <1>4, <1>6, <1>7, <2>3, <2>5, <3>1
    <3>2. CASE i \in 1..Len(checked.notes)
      <4>1. /\ Len(entries) + i - 1 + 1 \in 1..Len(checked.table)
            /\ checked.table[Len(entries) + i - 1 + 1] = checked.notes[i].entry
        BY <1>4, <2>2, <2>3, <3>2, SMTT(30) DEF Grown
      <4> QED
        BY <1>6, <1>7, <3>2, <4>1
    <3> QED
      BY <1>4, <1>7, <3>1, <3>2
  <2> QED
    BY <2>3, <2>4, <2>6 DEF Grown
<1> QED
  BY <1>6, <1>7, <1>8, <1>9 DEF Good

\* What is written changes the table and tells the client so.
LEMMA LogKeeps ==
    ASSUME IInv, NEW logs, \A log \in logs : Good(log), Log(logs), UNCHANGED clientVars
    PROVE  /\ entries' \in Seq(LogEntries)
           /\ inbox' \in Seq(Notes)
           /\ Keeps(entries', devices)
           /\ Silent'
           /\ Follows'
<1>1. PICK log \in logs : entries' = log.table /\ Sent(log.notes)
  BY DEF Log
<1>2. Good(log)
  BY <1>1
<1>3. entries' \in Seq(LogEntries) /\ Keeps(entries', devices)
  BY <1>1, <1>2 DEF Good
<1>4. /\ entries \in Seq(LogEntries) /\ inbox \in Seq(Notes) /\ shown \in Seq(LogEntries)
      /\ connected \in BOOLEAN /\ asked \in Nat
  BY DEF IInv, Typed
<1>5. connected' = connected /\ asked' = asked /\ shown' = shown
  BY DEF clientVars
<1>6. CASE ~connected
  BY <1>1, <1>3, <1>4, <1>5, <1>6 DEF Sent, Silent, Follows, IInv
<1>7. CASE connected
  <2>1. inbox' = inbox \o log.notes
    BY <1>1, <1>7 DEF Sent
  <2>2. log.notes \in Seq(Changes)
    BY <1>2 DEF Good
  <2>3. Changes \subseteq Notes
    BY DEF Notes
  <2>4. log.notes \in Seq(Notes)
    BY <2>2, <2>3
  <2>5. /\ inbox' \in Seq(Notes)
        /\ Len(inbox') = Len(inbox) + Len(log.notes)
        /\ \A i \in 1..Len(inbox) : inbox'[i] = inbox[i]
        /\ \A i \in 1..Len(log.notes) : inbox'[Len(inbox) + i] = log.notes[i]
    BY <1>4, <2>1, <2>4
  <2>6. \A i \in 1..Len(log.notes) : log.notes[i].kind # "GetLogEntries"
    BY <2>2 DEF Changes, Updated, Added
  <2>7. ASSUME NEW k \in 0..Len(inbox), NEW from \in Seq(LogEntries),
               OnlyAdded(inbox', k + 1),
               OnlyAdded(inbox, k + 1) => Grown(from, entries, inbox, k + 1)
        PROVE  Grown(from, entries', inbox', k + 1)
    <3>1. OnlyAdded(inbox, k + 1)
      BY <1>4, <2>4, <2>5, <2>7, SMTT(30) DEF OnlyAdded
    <3>2. OnlyAdded(log.notes, 1)
      <4> SUFFICES ASSUME NEW i \in 1..Len(log.notes)
                   PROVE  log.notes[i].kind = "LogEntryAdded"
        BY DEF OnlyAdded
      <4>1. Len(inbox) + i \in (k + 1)..Len(inbox')
        BY <1>4, <2>4, <2>5
      <4> QED
        BY <2>5, <2>7, <4>1 DEF OnlyAdded
    <3>3. Grown(from, entries, inbox, k + 1)
      BY <2>7, <3>1
    <3>4. Grown(entries, entries', log.notes, 1)
      BY <1>1, <1>2, <3>2 DEF Good
    <3> DEFINE notes == log.notes
    <3>8. /\ Len(from) \in Nat /\ Len(entries) \in Nat /\ Len(inbox) \in Nat
          /\ Len(notes) \in Nat /\ Len(inbox') = Len(inbox) + Len(notes)
      BY <1>4, <2>4, <2>5
    <3>9. /\ Len(entries) = Len(from) + Len(inbox) - (k + 1) + 1
          /\ Len(entries') = Len(entries) + Len(notes) - 1 + 1
      BY <3>3, <3>4 DEF Grown
    <3> HIDE DEF notes
    <3>5. /\ Len(entries) = Len(from) + Len(inbox) - k
          /\ Len(entries') = Len(from) + Len(inbox') - (k + 1) + 1
      BY <3>8, <3>9
    <3> USE DEF notes
    <3>6. \A i \in 1..Len(from) : entries'[i] = from[i]
      BY <1>3, <1>4, <3>3, <3>4, <3>5 DEF Grown
    <3>7. ASSUME NEW i \in (k + 1)..Len(inbox')
          PROVE  entries'[Len(from) + i - (k + 1) + 1] = inbox'[i].entry
      <4>1. CASE i <= Len(inbox)
        <5>1. /\ Len(from) + i - (k + 1) + 1 \in 1..Len(entries)
              /\ entries[Len(from) + i - (k + 1) + 1] = inbox[i].entry
          <6>1. i \in (k + 1)..Len(inbox) /\ i \in Nat
            BY <3>8, <4>1
          <6>2. entries[Len(from) + i - (k + 1) + 1] = inbox[i].entry
            BY <3>3, <6>1 DEF Grown
          <6>3. Len(from) + i - (k + 1) + 1 \in 1..Len(entries)
            BY <3>5, <3>8, <6>1
          <6> QED
            BY <6>2, <6>3
        <5>2. \A m \in 1..Len(entries) : entries'[m] = entries[m]
          BY <3>4 DEF Grown
        <5>3. inbox'[i] = inbox[i]
          BY <2>5, <3>8, <4>1
        <5> QED
          BY <5>1, <5>2, <5>3
      <4>2. CASE i > Len(inbox)
        <5> DEFINE j == i - Len(inbox)
        <5>1. j \in 1..Len(log.notes) /\ i = Len(inbox) + j
          BY <3>8, <4>2
        <5>2. Len(from) + i - (k + 1) + 1 = Len(entries) + j - 1 + 1
          BY <3>5, <3>8, <5>1
        <5> HIDE DEF j
        <5> QED
          BY <2>5, <3>4, <5>1, <5>2, ZenonT(40) DEF Grown
      <4> QED
        BY <1>4, <2>5, <4>1, <4>2
    <3> QED
      BY <3>5, <3>6, <3>7 DEF Grown
  <2>8. ShownFollows'
    <3>1. ASSUME asked = 0, OnlyAdded(inbox', 1)
          PROVE  Grown(shown, entries', inbox', 1)
      <4>1. OnlyAdded(inbox, 0 + 1) => Grown(shown, entries, inbox, 0 + 1)
        BY <1>7, <3>1 DEF IInv, Follows, ShownFollows
      <4>2. Grown(shown, entries', inbox', 0 + 1)
        BY <1>4, <2>7, <3>1, <4>1, SMTT(30)
      <4> QED
        BY <4>2
    <3> QED
      BY <1>5, <3>1 DEF ShownFollows
  <2>9. AnswersFollow'
    <3>1. ASSUME NEW k \in 1..Len(inbox'),
                 inbox'[k].kind = "GetLogEntries", OnlyAdded(inbox', k + 1)
          PROVE  Grown(inbox'[k].entries, entries', inbox', k + 1)
      <4>1. k \in 1..Len(inbox)
        <5>1. CASE k > Len(inbox)
          <6> DEFINE j == k - Len(inbox)
          <6>1. Len(inbox) \in Nat /\ Len(log.notes) \in Nat
            BY <1>4, <2>4
          <6>2. j \in 1..Len(log.notes) /\ k = Len(inbox) + j
            BY <2>5, <5>1, <6>1
          <6> HIDE DEF j
          <6> QED
            BY <2>5, <2>6, <3>1, <6>2
        <5> QED
          BY <1>4, <2>5, <5>1
      <4>2. inbox'[k] = inbox[k]
        BY <2>5, <4>1
      <4>3. OnlyAdded(inbox, k + 1) => Grown(inbox[k].entries, entries, inbox, k + 1)
        BY <1>7, <3>1, <4>1, <4>2 DEF IInv, Follows, AnswersFollow
      <4>4. inbox[k].entries \in Seq(LogEntries)
        BY <1>4, <3>1, <4>1, <4>2 DEF Notes, Changes, Updated, Added
      <4> QED
        BY <2>7, <3>1, <4>1, <4>2, <4>3, <4>4
    <3> QED
      BY <3>1 DEF AnswersFollow
  <2> QED
    BY <1>3, <1>5, <1>7, <2>5, <2>8, <2>9 DEF Silent, Follows
<1> QED
  BY <1>4, <1>6, <1>7

\* Entries that are deleted are announced: the client asks for the rest.
LEMMA DeletedKeeps ==
    ASSUME IInv, NEW gone, NEW times \in Nat \ {0}, Deleted(gone, times),
           UNCHANGED clientVars
    PROVE  /\ entries' \in Seq(LogEntries)
           /\ Len(entries') <= Len(entries)
           /\ \A i \in 1..Len(entries') : entries'[i] \notin gone
           /\ \A i \in 1..Len(entries') : \E j \in 1..Len(entries) : entries'[i] = entries[j]
           /\ inbox' \in Seq(Notes)
           /\ Silent'
           /\ Follows'
<1>1. PICK rows \in Selections(entries) :
         /\ entries' = Kept(entries, rows)
         /\ Range(rows) = {i \in DOMAIN entries : entries[i] \notin gone}
  BY DEF Deleted, Remaining
<1>2. /\ entries \in Seq(LogEntries) /\ inbox \in Seq(Notes) /\ shown \in Seq(LogEntries)
      /\ connected \in BOOLEAN /\ asked \in Nat
  BY DEF IInv, Typed
<1>3. /\ entries' \in Seq(LogEntries)
      /\ Len(entries') = Len(rows)
      /\ Len(rows) <= Len(entries)
      /\ \A i \in 1..Len(rows) : rows[i] \in 1..Len(entries) /\ entries'[i] = entries[rows[i]]
  BY <1>1, <1>2, KeptRows
<1>4. \A i \in 1..Len(rows) : rows[i] \in Range(rows)
  <2>1. PICK n \in Nat : rows \in [1..n -> DOMAIN entries]
    BY DEF Selections
  <2>2. Len(rows) = n
    BY <2>1
  <2> QED
    BY <2>1, <2>2 DEF Range
<1>5. \A i \in 1..Len(rows) : entries[rows[i]] \notin gone
  BY <1>1, <1>4
<1>6. connected' = connected /\ asked' = asked /\ shown' = shown
  BY DEF clientVars
<1>7. CASE ~connected
  BY <1>2, <1>3, <1>5, <1>6, <1>7 DEF Deleted, Sent, Silent, Follows, IInv
<1>8. CASE connected
  <2> DEFINE told == [i \in 1..times |-> Updated]
  <2>1. inbox' = inbox \o told
    BY <1>8 DEF Deleted, Sent
  <2>2. Updated \in Notes
    BY DEF Notes, Changes
  <2>3. told \in Seq(Notes) /\ Len(told) = times /\ \A i \in 1..times : told[i] = Updated
    BY <2>2
  <2> HIDE DEF told
  <2>4. /\ inbox' \in Seq(Notes)
        /\ Len(inbox') = Len(inbox) + times
        /\ \A i \in 1..Len(inbox) : inbox'[i] = inbox[i]
        /\ \A i \in 1..times : inbox'[Len(inbox) + i] = Updated
    <3>1. /\ inbox' \in Seq(Notes)
          /\ Len(inbox') = Len(inbox) + Len(told)
          /\ \A i \in 1..Len(inbox) : inbox'[i] = inbox[i]
          /\ \A i \in 1..Len(told) : inbox'[Len(inbox) + i] = told[i]
      <4>1. told \in Seq(Notes) /\ inbox \in Seq(Notes)
        BY <1>2, <2>3
      <4>2. inbox \o told \in Seq(Notes)
        BY <4>1
      <4>3. /\ Len(inbox \o told) = Len(inbox) + Len(told)
            /\ \A i \in 1..Len(inbox) : (inbox \o told)[i] = inbox[i]
            /\ \A i \in 1..Len(told) : (inbox \o told)[Len(inbox) + i] = told[i]
        BY <4>1
      <4> QED
        BY <2>1, <4>2, <4>3
    <3> QED
      BY <2>3, <3>1
  <2>5. \A k \in 0..Len(inbox) : ~OnlyAdded(inbox', k + 1)
    <3> SUFFICES ASSUME NEW k \in 0..Len(inbox), OnlyAdded(inbox', k + 1)
                 PROVE  FALSE
      OBVIOUS
    <3>1. Len(inbox) + 1 \in (k + 1)..Len(inbox') /\ 1 \in 1..times
      BY <1>2, <2>4
    <3>2. inbox'[Len(inbox) + 1].kind = "LogEntryAdded"
      BY <3>1 DEF OnlyAdded
    <3> QED
      BY <2>4, <3>1, <3>2 DEF Updated
  <2>6. \A k \in 1..Len(inbox') : k \in 1..Len(inbox) \/ inbox'[k] = Updated
    <3> SUFFICES ASSUME NEW k \in 1..Len(inbox'), k \notin 1..Len(inbox)
                 PROVE  inbox'[k] = Updated
      OBVIOUS
    <3>1. PICK j \in 1..times : k = Len(inbox) + j
      BY <1>2, <2>4, SMTT(30)
    <3> QED
      BY <2>4, <3>1
  <2>7. ShownFollows'
    <3>1. ~OnlyAdded(inbox', 0 + 1)
      <4>1. 0 \in 0..Len(inbox)
        BY <1>2
      <4> QED
        BY <2>5, <4>1
    <3>2. 0 + 1 = 1
      OBVIOUS
    <3> QED
      BY <3>1, <3>2 DEF ShownFollows
  <2>8. AnswersFollow'
    <3> SUFFICES ASSUME NEW k \in 1..Len(inbox'), inbox'[k].kind = "GetLogEntries"
                 PROVE  ~OnlyAdded(inbox', k + 1)
      BY DEF AnswersFollow
    <3>1. k \in 1..Len(inbox)
      BY <2>6 DEF Updated
    <3> QED
      BY <1>2, <2>5, <3>1
  <2> QED
    BY <1>3, <1>5, <1>6, <1>8, <2>4, <2>7, <2>8 DEF Silent, Follows
<1> QED
  BY <1>2, <1>7, <1>8

-----------------------------------------------------------------------------
(* The steps *)

\* An entry about something that is configured, or about nothing, may be written.
LEMMA EntryGood ==
    ASSUME Typed, NEW source \in Sources, NEW type \in Rules \cup {None},
           NEW device \in Devices \cup {None},
           device \in Devices \ devices => source = "Actions"
    PROVE  /\ Entry(source, type, device) \in LogEntries
           /\ Allowed(Entry(source, type, device), devices)
<1>1. now \in Int
  BY DEF Typed
<1>2. Entry(source, type, device) \in LogEntries
  BY <1>1 DEF Entry, LogEntries
<1>3. Allowed(Entry(source, type, device), devices)
  BY DEF Entry, Allowed
<1> QED
  BY <1>2, <1>3

\* ... as are the entries that are.
LEMMA EntriesGood ==
    ASSUME Typed
    PROVE  /\ Entry("System", None, None) \in LogEntries
           /\ Allowed(Entry("System", None, None), devices)
           /\ \A rule \in Rules : /\ Entry("Rules", rule, None) \in LogEntries
                                 /\ Allowed(Entry("Rules", rule, None), devices)
           /\ \A device \in devices : /\ Entry("Events", None, device) \in LogEntries
                                      /\ Allowed(Entry("Events", None, device), devices)
           /\ \A device \in Devices \cup {None} : /\ ActionEntry(device) \in LogEntries
                                                 /\ Allowed(ActionEntry(device), devices)
<1>1. {"System", "Rules", "Events", "Actions"} \subseteq Sources
  BY DEF Sources
<1>2. None \in Rules \cup {None} /\ None \in Devices \cup {None} /\ None \notin Devices
  BY LogAssumption
<1>3. devices \subseteq Devices
  BY DEF Typed
<1>4. /\ Entry("System", None, None) \in LogEntries
      /\ Allowed(Entry("System", None, None), devices)
  BY <1>1, <1>2, EntryGood
<1>5. ASSUME NEW rule \in Rules
      PROVE  /\ Entry("Rules", rule, None) \in LogEntries
             /\ Allowed(Entry("Rules", rule, None), devices)
  BY <1>1, <1>2, EntryGood
<1>6. ASSUME NEW device \in devices
      PROVE  /\ Entry("Events", None, device) \in LogEntries
             /\ Allowed(Entry("Events", None, device), devices)
  BY <1>1, <1>2, <1>3, EntryGood
<1>7. ASSUME NEW device \in Devices \cup {None}
      PROVE  /\ ActionEntry(device) \in LogEntries
             /\ Allowed(ActionEntry(device), devices)
  BY <1>1, <1>2, EntryGood DEF ActionEntry
<1> QED
  BY <1>4, <1>5, <1>6, <1>7

\* What executeAction() and executeRuleActions() write is good.
LEMMA WrittenGood ==
    ASSUME Typed, NEW logs, \A log \in logs : Good(log),
           NEW device \in Devices, NEW result
    PROVE  \A log \in Written(logs, device, result) : Good(log)
<1>1. /\ ActionEntry(device) \in LogEntries /\ Allowed(ActionEntry(device), devices)
      /\ ActionEntry(None) \in LogEntries /\ Allowed(ActionEntry(None), devices)
  BY EntriesGood
<1>2. CASE result = "returns"
  <2>1. Written(logs, device, result) = Then(logs, ActionEntry(device))
    BY <1>2 DEF Written
  <2> QED
    BY <1>1, <2>1, ThenGood
<1>3. CASE result = "early"
  <2>1. Written(logs, device, result) = Then(logs, ActionEntry(None))
    BY <1>3 DEF Written
  <2> QED
    BY <1>1, <2>1, ThenGood
<1>4. CASE result # "returns" /\ result # "early"
  BY <1>4 DEF Written
<1> QED
  BY <1>2, <1>3, <1>4

\* Once written, good entries keep the invariant, if the rest of the step does.
LEMMA WritingStep ==
    ASSUME IInv, NEW logs, \A log \in logs : Good(log), Log(logs), UNCHANGED clientVars,
           running' \in BOOLEAN, UNCHANGED <<now, devices, rules>>,
           executing' \in [ActionIds -> Devices \cup {None}],
           m_pendingActions' \in [ActionIds -> Devices \cup {None}],
           early' \subseteq ActionIds,
           PendingActionsAreExecuted'
    PROVE  IInv'
<1>1. /\ entries' \in Seq(LogEntries) /\ inbox' \in Seq(Notes)
      /\ Keeps(entries', devices) /\ Silent' /\ Follows'
  BY LogKeeps
<1>2. Typed'
  BY <1>1 DEF IInv, Typed, clientVars
<1> QED
  BY <1>1, <1>2 DEF IInv

\* GuhCore() writes that it has started.
LEMMA StartStep == ASSUME IInv, Start PROVE IInv'
<1> DEFINE logs == Then(Unwritten, Entry("System", None, None))
<1>1. \A log \in logs : Good(log)
  <2>1. /\ Entry("System", None, None) \in LogEntries
        /\ Allowed(Entry("System", None, None), devices)
    BY EntriesGood DEF IInv
  <2> QED
    BY <2>1, UnwrittenGood, ThenGood DEF IInv
<1>2. Log(logs) /\ UNCHANGED clientVars
  BY DEF Start
<1>3. /\ running' \in BOOLEAN /\ UNCHANGED <<now, devices, rules>>
      /\ executing' \in [ActionIds -> Devices \cup {None}]
      /\ m_pendingActions' \in [ActionIds -> Devices \cup {None}]
      /\ early' \subseteq ActionIds
      /\ PendingActionsAreExecuted'
  BY DEF Start, actionVars, IInv, Typed, PendingActionsAreExecuted
<1> HIDE DEF logs
<1> QED
  BY <1>1, <1>2, <1>3, WritingStep

\* The end of the process, whatever table it leaves.
LEMMA EndsStep ==
    ASSUME IInv, Ends, entries' \in Seq(LogEntries), Keeps(entries', devices)
    PROVE  IInv'
<1>1. Typed'
  <2>1. /\ [a \in ActionIds |-> None] \in [ActionIds -> Devices \cup {None}]
        /\ <<>> \in Seq(Notes) /\ <<>> \in Seq(LogEntries)
    OBVIOUS
  <2>2. /\ executing' = [a \in ActionIds |-> None]
        /\ m_pendingActions' = [a \in ActionIds |-> None]
        /\ early' = {} /\ connected' = FALSE /\ inbox' = <<>> /\ asked' = 0 /\ shown' = <<>>
        /\ running' = FALSE /\ now' = now /\ devices' = devices /\ rules' = rules
    BY DEF Ends
  <2> QED
    BY <2>1, <2>2 DEF IInv, Typed
<1>2. PendingActionsAreExecuted' /\ Silent' /\ Follows'
  BY DEF Ends, PendingActionsAreExecuted, Silent, Follows
<1> QED
  BY <1>1, <1>2 DEF IInv, Ends

\* ~GuhCore() writes that it stops.
LEMMA StopStep == ASSUME IInv, Stop PROVE IInv'
<1>1. PICK log \in Then(Unwritten, Entry("System", None, None)) : entries' = log.table
  BY DEF Stop
<1>2. /\ Entry("System", None, None) \in LogEntries
      /\ Allowed(Entry("System", None, None), devices)
  BY EntriesGood DEF IInv
<1>3. Good(log)
  BY <1>2, UnwrittenGood, ThenGood DEF IInv
<1> QED
  BY <1>1, <1>3, EndsStep DEF Stop, Good

LEMMA CrashStep == ASSUME IInv, Crash PROVE IInv'
<1>1. entries' \in Seq(LogEntries) /\ Keeps(entries', devices)
  BY DEF Crash, IInv, Typed
<1> QED
  BY <1>1, EndsStep DEF Crash

LEMMA ClockStep == ASSUME IInv, ClockChanges PROVE IInv'
<1>1. now' \in Int
  BY DEF ClockChanges
<1>2. /\ running' = running /\ devices' = devices /\ rules' = rules /\ entries' = entries
      /\ executing' = executing /\ m_pendingActions' = m_pendingActions /\ early' = early
      /\ connected' = connected /\ asked' = asked /\ shown' = shown /\ inbox' = inbox
  BY DEF ClockChanges, actionVars, clientVars
<1>3. Typed'
  BY <1>1, <1>2 DEF IInv, Typed
<1> QED
  BY <1>2, <1>3 DEF IInv, PendingActionsAreExecuted, Silent, Follows, ShownFollows,
                     AnswersFollow

\* An action is kept as it is executed, or done before.
LEMMA ExecutedKeeps ==
    ASSUME IInv, NEW a \in ActionIds, NEW device \in Devices, NEW result,
           Executed(a, device, result)
    PROVE  /\ executing' \in [ActionIds -> Devices \cup {None}]
           /\ m_pendingActions' \in [ActionIds -> Devices \cup {None}]
           /\ early' \subseteq ActionIds
           /\ PendingActionsAreExecuted'
<1>1. /\ executing \in [ActionIds -> Devices \cup {None}]
      /\ m_pendingActions \in [ActionIds -> Devices \cup {None}]
      /\ early \subseteq ActionIds
      /\ PendingActionsAreExecuted
  BY DEF IInv, Typed
<1>2. CASE UNCHANGED actionVars
  BY <1>1, <1>2 DEF actionVars, PendingActionsAreExecuted
<1>3. CASE /\ executing' = [executing EXCEPT ![a] = device]
           /\ m_pendingActions' = [m_pendingActions EXCEPT ![a] = device]
           /\ UNCHANGED early
  BY <1>1, <1>3 DEF PendingActionsAreExecuted
<1>4. CASE /\ m_pendingActions' = [m_pendingActions EXCEPT ![a] = device]
           /\ early' = early \cup {a}
           /\ UNCHANGED executing
  BY <1>1, <1>4 DEF PendingActionsAreExecuted
<1> QED
  BY <1>2, <1>3, <1>4 DEF Executed

LEMMA ExecuteActionStep ==
    ASSUME IInv, NEW a \in ActionIds, NEW device \in Devices, NEW result,
           ExecuteAction(a, device, result)
    PROVE  IInv'
<1> DEFINE logs == Written(Unwritten, device, result)
<1>1. \A log \in logs : Good(log)
  BY UnwrittenGood, WrittenGood DEF IInv
<1>2. Log(logs) /\ UNCHANGED clientVars /\ Executed(a, device, result)
  BY DEF ExecuteAction
<1>3. running' \in BOOLEAN /\ UNCHANGED <<now, devices, rules>>
  BY DEF ExecuteAction, coreVars, IInv, Typed
<1> HIDE DEF logs
<1> QED
  BY <1>1, <1>2, <1>3, ExecutedKeeps, WritingStep

LEMMA GotEventStep ==
    ASSUME IInv, NEW device \in Devices, GotEvent(device)
    PROVE  IInv'
<1> DEFINE logs == Then(Unwritten, Entry("Events", None, device))
<1>1. \A log \in logs : Good(log)
  <2>1. /\ Entry("Events", None, device) \in LogEntries
        /\ Allowed(Entry("Events", None, device), devices)
    BY EntriesGood DEF IInv, GotEvent
  <2> QED
    BY <2>1, UnwrittenGood, ThenGood DEF IInv
<1>2. Log(logs) /\ UNCHANGED clientVars
  BY DEF GotEvent
<1>3. /\ running' \in BOOLEAN /\ UNCHANGED <<now, devices, rules>>
      /\ executing' \in [ActionIds -> Devices \cup {None}]
      /\ m_pendingActions' \in [ActionIds -> Devices \cup {None}]
      /\ early' \subseteq ActionIds
      /\ PendingActionsAreExecuted'
  BY DEF GotEvent, coreVars, actionVars, IInv, Typed, PendingActionsAreExecuted
<1> HIDE DEF logs
<1> QED
  BY <1>1, <1>2, <1>3, WritingStep

LEMMA GotEventOfRuleStep ==
    ASSUME IInv, NEW device \in Devices, NEW rule \in Rules, NEW a \in ActionIds, NEW result,
           GotEventOfRule(device, rule, a, result)
    PROVE  IInv'
<1> DEFINE triggered == Then(Then(Unwritten, Entry("Events", None, device)),
                             Entry("Rules", rule, None))
           logs == WrittenForRule(triggered, result)
<1>1. \A log \in triggered : Good(log)
  <2>1. /\ Entry("Events", None, device) \in LogEntries
        /\ Allowed(Entry("Events", None, device), devices)
    BY EntriesGood DEF IInv, GotEventOfRule
  <2>2. /\ Entry("Rules", rule, None) \in LogEntries
        /\ Allowed(Entry("Rules", rule, None), devices)
    BY EntriesGood DEF IInv
  <2>3. \A log \in Then(Unwritten, Entry("Events", None, device)) : Good(log)
    BY <2>1, UnwrittenGood, ThenGood DEF IInv
  <2> QED
    BY <2>2, <2>3, ThenGood DEF IInv
<1>2. \A log \in logs : Good(log)
  <2> HIDE DEF triggered
  <2>1. \A log \in Written(triggered, Acted, result) : Good(log)
    BY <1>1, WrittenGood, LogAssumption DEF IInv
  <2>2. ActionEntry(Acted) \in LogEntries /\ Allowed(ActionEntry(Acted), devices)
    BY EntriesGood, LogAssumption DEF IInv
  <2>3. \A log \in Then(Written(triggered, Acted, result), ActionEntry(Acted)) : Good(log)
    BY <2>1, <2>2, ThenGood DEF IInv
  <2> QED
    BY <2>1, <2>3 DEF WrittenForRule
<1>3. Log(logs) /\ UNCHANGED clientVars /\ Executed(a, Acted, result)
  BY DEF GotEventOfRule
<1>4. running' \in BOOLEAN /\ UNCHANGED <<now, devices, rules>>
  BY DEF GotEventOfRule, coreVars, IInv, Typed
<1> HIDE DEF logs
<1> QED
  BY <1>2, <1>3, <1>4, ExecutedKeeps, WritingStep, LogAssumption

\* An action that is finished is neither executed nor kept any more.
LEMMA FinishedStep ==
    ASSUME IInv, NEW a \in ActionIds, ActionExecutionFinished(a)
    PROVE  IInv'
<1> DEFINE logs == Then(Unwritten, ActionEntry(m_pendingActions[a]))
<1>1. \A log \in logs : Good(log)
  <2>1. m_pendingActions[a] \in Devices \cup {None}
    BY DEF IInv, Typed
  <2>2. /\ ActionEntry(m_pendingActions[a]) \in LogEntries
        /\ Allowed(ActionEntry(m_pendingActions[a]), devices)
    BY <2>1, EntriesGood DEF IInv
  <2> QED
    BY <2>2, UnwrittenGood, ThenGood DEF IInv
<1>2. Log(logs) /\ UNCHANGED clientVars
  BY DEF ActionExecutionFinished
<1>3. running' \in BOOLEAN /\ UNCHANGED <<now, devices, rules>>
  BY DEF ActionExecutionFinished, coreVars, IInv, Typed
<1>4. /\ executing' = [executing EXCEPT ![a] = None]
      /\ m_pendingActions' = [m_pendingActions EXCEPT ![a] = None]
      /\ early' = early
  BY DEF ActionExecutionFinished
<1>5. /\ executing' \in [ActionIds -> Devices \cup {None}]
      /\ m_pendingActions' \in [ActionIds -> Devices \cup {None}]
      /\ early' \subseteq ActionIds
      /\ PendingActionsAreExecuted'
  BY <1>4 DEF IInv, Typed, PendingActionsAreExecuted
<1> HIDE DEF logs
<1> QED
  BY <1>1, <1>2, <1>3, <1>5, WritingStep

\* With the devices go the entries about them.
LEMMA RemoveDevicesStep == ASSUME IInv, RemoveConfiguredDevice PROVE IInv'
<1> DEFINE gone == {e \in Range(entries) : e.device \in devices}
<1>1. Deleted(gone, Cardinality(devices)) /\ UNCHANGED clientVars
  BY DEF RemoveConfiguredDevice
<1>2. Cardinality(devices) \in Nat \ {0}
  <2>1. IsFiniteSet(devices)
    BY FS_Subset, LogAssumption DEF IInv, Typed
  <2> QED
    BY <2>1, FS_CardinalityType, FS_EmptySet DEF RemoveConfiguredDevice
<1>3. \A i \in 1..Len(entries) : entries[i] \notin gone => entries[i].device \notin devices
  <2>1. entries \in Seq(LogEntries)
    BY DEF IInv, Typed
  <2> QED
    BY <2>1 DEF Range
<1> HIDE DEF gone
<1>4. /\ entries' \in Seq(LogEntries)
      /\ Len(entries') <= Len(entries)
      /\ \A i \in 1..Len(entries') : entries'[i] \notin gone
      /\ \A i \in 1..Len(entries') : \E j \in 1..Len(entries) : entries'[i] = entries[j]
      /\ inbox' \in Seq(Notes) /\ Silent' /\ Follows'
  BY <1>1, <1>2, DeletedKeeps
<1>5. /\ devices' = {} /\ rules' = {} /\ running' = running /\ now' = now
      /\ executing' = executing /\ m_pendingActions' = m_pendingActions /\ early' = early
      /\ connected' = connected /\ asked' = asked /\ shown' = shown
  BY DEF RemoveConfiguredDevice, actionVars, clientVars
<1>6. Typed'
  BY <1>4, <1>5 DEF IInv, Typed
<1>7. Keeps(entries', devices')
  <2>1. ASSUME NEW i \in 1..Len(entries')
        PROVE  Allowed(entries'[i], devices')
    <3>1. PICK j \in 1..Len(entries) : entries'[i] = entries[j]
      BY <1>4
    <3>2. entries[j].device \notin devices
      BY <1>3, <1>4, <3>1
    <3>3. Allowed(entries[j], devices)
      BY DEF IInv, Keeps
    <3> QED
      BY <3>1, <3>2, <3>3 DEF Allowed
  <2>2. Len(entries') <= m_dbMaxSize + 1
    <3>1. Len(entries) \in Nat /\ Len(entries') \in Nat /\ Len(entries) <= m_dbMaxSize + 1
      BY <1>4 DEF IInv, Typed, Keeps
    <3> QED
      BY <1>4, <3>1, LogAssumption
  <2> QED
    BY <2>1, <2>2 DEF Keeps
<1>8. PendingActionsAreExecuted'
  BY <1>5 DEF IInv, PendingActionsAreExecuted
<1> QED
  BY <1>4, <1>6, <1>7, <1>8 DEF IInv

LEMMA RemoveRuleStep ==
    ASSUME IInv, NEW rule \in Rules, RemoveRule(rule)
    PROVE  IInv'
<1>1. /\ running' = running /\ now' = now /\ devices' = devices
      /\ executing' = executing /\ m_pendingActions' = m_pendingActions /\ early' = early
      /\ connected' = connected /\ asked' = asked /\ shown' = shown
      /\ rules' \subseteq Rules
  BY DEF RemoveRule, actionVars, clientVars, IInv, Typed
<1>2. PendingActionsAreExecuted'
  BY <1>1 DEF IInv, PendingActionsAreExecuted
<1>3. CASE UNCHANGED <<entries, inbox>>
  <2>1. entries' = entries /\ inbox' = inbox
    BY <1>3
  <2>2. Typed'
    BY <1>1, <2>1 DEF IInv, Typed
  <2> QED
    BY <1>1, <1>2, <2>1, <2>2 DEF IInv, Silent, Follows, ShownFollows, AnswersFollow
<1>4. CASE Deleted({e \in Range(entries) : e.type = rule}, 1)
  <2> DEFINE gone == {e \in Range(entries) : e.type = rule}
  <2>1. Deleted(gone, 1) /\ UNCHANGED clientVars /\ 1 \in Nat \ {0}
    BY <1>1, <1>4 DEF clientVars
  <2> HIDE DEF gone
  <2>2. /\ entries' \in Seq(LogEntries)
        /\ Len(entries') <= Len(entries)
        /\ \A i \in 1..Len(entries') : \E j \in 1..Len(entries) : entries'[i] = entries[j]
        /\ inbox' \in Seq(Notes) /\ Silent' /\ Follows'
    BY <2>1, DeletedKeeps
  <2>3. Typed'
    BY <1>1, <2>2 DEF IInv, Typed
  <2>4. \A i \in 1..Len(entries') : Allowed(entries'[i], devices)
    BY <2>2 DEF IInv, Keeps
  <2>5. Len(entries') <= m_dbMaxSize + 1
    <3>1. Len(entries) \in Nat /\ Len(entries') \in Nat /\ Len(entries) <= m_dbMaxSize + 1
      BY <2>2 DEF IInv, Typed, Keeps
    <3> QED
      BY <2>2, <3>1, LogAssumption
  <2>6. Keeps(entries', devices')
    BY <1>1, <2>4, <2>5 DEF Keeps
  <2> QED
    BY <1>2, <2>2, <2>3, <2>6 DEF IInv
<1> QED
  BY <1>3, <1>4 DEF RemoveRule

\* A client that connects has nothing on its way and asks at once.
LEMMA ConnectStep == ASSUME IInv, ClientConnects PROVE IInv'
<1>1. /\ running' = running /\ now' = now /\ devices' = devices /\ rules' = rules
      /\ entries' = entries
      /\ executing' = executing /\ m_pendingActions' = m_pendingActions /\ early' = early
      /\ connected' = TRUE /\ asked' = 1 /\ shown' = <<>> /\ inbox' = inbox
      /\ inbox = <<>>
  BY DEF ClientConnects, coreVars, actionVars, IInv, Silent
<1>2. Typed'
  BY <1>1 DEF IInv, Typed
<1>3. Silent' /\ Follows'
  BY <1>1 DEF Silent, Follows, ShownFollows, AnswersFollow
<1> QED
  BY <1>1, <1>2, <1>3 DEF IInv, PendingActionsAreExecuted

\* The answer is the table as it is now.
LEMMA AskedStep == ASSUME IInv, GetLogEntries PROVE IInv'
<1> DEFINE answer == [kind |-> "GetLogEntries", entries |-> entries]
<1>1. /\ running' = running /\ now' = now /\ devices' = devices /\ rules' = rules
      /\ entries' = entries
      /\ executing' = executing /\ m_pendingActions' = m_pendingActions /\ early' = early
      /\ connected' = connected /\ shown' = shown
      /\ asked > 0 /\ asked' = asked - 1 /\ inbox' = Append(inbox, answer)
  BY DEF GetLogEntries, coreVars, actionVars
<1>2. /\ entries \in Seq(LogEntries) /\ inbox \in Seq(Notes) /\ asked \in Nat
      /\ connected \in BOOLEAN
  BY DEF IInv, Typed
<1>3. answer \in Notes /\ answer.kind = "GetLogEntries" /\ answer.entries = entries
  BY <1>2 DEF Notes
<1> HIDE DEF answer
<1>4. /\ inbox' \in Seq(Notes)
      /\ Len(inbox') = Len(inbox) + 1
      /\ \A i \in 1..Len(inbox) : inbox'[i] = inbox[i]
      /\ inbox'[Len(inbox) + 1] = answer
      /\ Len(inbox) \in Nat
  BY <1>1, <1>2, <1>3
<1>5. asked' \in Nat
  BY <1>1, <1>2
<1>6. Typed'
  BY <1>1, <1>4, <1>5 DEF IInv, Typed
<1>7. \A k \in 1..(Len(inbox) + 1) : ~OnlyAdded(inbox', k)
  BY <1>3, <1>4 DEF OnlyAdded
<1>8. ShownFollows'
  BY <1>4, <1>7 DEF ShownFollows
<1>9. AnswersFollow'
  <2> SUFFICES ASSUME NEW k \in 1..Len(inbox'), OnlyAdded(inbox', k + 1)
               PROVE  Grown(inbox'[k].entries, entries', inbox', k + 1)
    BY DEF AnswersFollow
  <2>1. k = Len(inbox) + 1
    BY <1>4, <1>7
  <2> QED
    BY <1>1, <1>2, <1>3, <1>4, <2>1 DEF Grown
<1>10. Silent' /\ Follows'
  <2>1. CASE connected
    BY <1>1, <1>8, <1>9, <2>1 DEF Silent, Follows
  <2>2. CASE ~connected
    BY <1>1, <1>2, <2>2 DEF IInv, Silent
  <2> QED
    BY <2>1, <2>2
<1> QED
  BY <1>1, <1>6, <1>10 DEF IInv, PendingActionsAreExecuted

\* What the client receives is what it was told first.
LEMMA ReceiveStep == ASSUME IInv, Receive PROVE IInv'
<1> DEFINE note == inbox[1]
<1>1. /\ running' = running /\ now' = now /\ devices' = devices /\ rules' = rules
      /\ entries' = entries
      /\ executing' = executing /\ m_pendingActions' = m_pendingActions /\ early' = early
      /\ connected' = connected /\ inbox # <<>> /\ inbox' = Tail(inbox)
  BY DEF Receive, coreVars, actionVars
<1>2. /\ entries \in Seq(LogEntries) /\ inbox \in Seq(Notes) /\ asked \in Nat
      /\ shown \in Seq(LogEntries) /\ connected = TRUE
  BY <1>1 DEF IInv, Typed, Silent
<1>3. /\ inbox' \in Seq(Notes) /\ Len(inbox) \in Nat \ {0}
      /\ Len(inbox') = Len(inbox) - 1
      /\ \A i \in 1..Len(inbox') : inbox'[i] = inbox[i + 1]
      /\ note \in Notes
  BY <1>1, <1>2
<1>4. \/ note = Updated
      \/ note.kind = "LogEntryAdded" /\ note.entry \in LogEntries
      \/ note.kind = "GetLogEntries" /\ note.entries \in Seq(LogEntries)
  BY <1>3 DEF Notes, Changes, Added
<1>5. /\ shown' = CASE note.kind = "LogEntryAdded" -> Append(shown, note.entry)
                    [] note.kind = "GetLogEntries" -> note.entries
                    [] OTHER -> shown
      /\ asked' = IF note = Updated THEN 1 ELSE asked
  BY <1>1, <1>2 DEF Receive
<1> HIDE DEF note
<1>6. shown' \in Seq(LogEntries) /\ asked' \in Nat
  BY <1>2, <1>4, <1>5 DEF Updated
<1>7. Typed'
  BY <1>1, <1>3, <1>6 DEF IInv, Typed
<1>8. ShownFollows /\ AnswersFollow
  BY <1>2 DEF IInv, Follows
<1>9. \A k \in 0..Len(inbox') : OnlyAdded(inbox', k + 1) => OnlyAdded(inbox, k + 2)
  <2> SUFFICES ASSUME NEW k \in 0..Len(inbox'), OnlyAdded(inbox', k + 1),
                      NEW i \in (k + 2)..Len(inbox)
               PROVE  inbox[i].kind = "LogEntryAdded"
    BY DEF OnlyAdded
  <2>1. i - 1 \in (k + 1)..Len(inbox') /\ i - 1 \in 1..Len(inbox')
    BY <1>3
  <2>2. inbox'[i - 1] = inbox[i - 1 + 1] /\ i - 1 + 1 = i
    BY <1>3, <2>1
  <2> QED
    BY <2>1, <2>2 DEF OnlyAdded
<1>10. \A from \in Seq(LogEntries), k \in 0..Len(inbox') :
          Grown(from, entries, inbox, k + 2) => Grown(from, entries', inbox', k + 1)
  <2> SUFFICES ASSUME NEW from \in Seq(LogEntries), NEW k \in 0..Len(inbox'),
                      Grown(from, entries, inbox, k + 2)
               PROVE  Grown(from, entries, inbox', k + 1)
    BY <1>1
  <2>1. Len(entries) = Len(from) + Len(inbox') - (k + 1) + 1
    <3>1. Len(entries) = Len(from) + Len(inbox) - (k + 2) + 1 /\ Len(from) \in Nat
      BY DEF Grown
    <3> QED
      BY <1>3, <3>1
  <2>2. \A i \in 1..Len(from) : entries[i] = from[i]
    BY DEF Grown
  <2>3. ASSUME NEW i \in (k + 1)..Len(inbox')
        PROVE  entries[Len(from) + i - (k + 1) + 1] = inbox'[i].entry
    <3>1. i + 1 \in (k + 2)..Len(inbox) /\ i \in 1..Len(inbox')
      BY <1>3
    <3>2. entries[Len(from) + (i + 1) - (k + 2) + 1] = inbox[i + 1].entry
      BY <3>1 DEF Grown
    <3>3. Len(from) + (i + 1) - (k + 2) + 1 = Len(from) + i - (k + 1) + 1
      BY <1>3
    <3>4. inbox'[i] = inbox[i + 1]
      BY <1>3, <3>1
    <3> QED
      BY <3>2, <3>3, <3>4
  <2> QED
    BY <2>1, <2>2, <2>3 DEF Grown
<1>11. AnswersFollow'
  <2> SUFFICES ASSUME NEW k \in 1..Len(inbox'), inbox'[k].kind = "GetLogEntries",
                      OnlyAdded(inbox', k + 1)
               PROVE  Grown(inbox'[k].entries, entries', inbox', k + 1)
    BY DEF AnswersFollow
  <2>1. inbox'[k] = inbox[k + 1] /\ k + 1 \in 1..Len(inbox) /\ (k + 1) + 1 = k + 2
        /\ k \in 0..Len(inbox')
    BY <1>3
  <2>2. OnlyAdded(inbox, (k + 1) + 1)
    BY <1>9, <2>1
  <2>3. Grown(inbox[k + 1].entries, entries, inbox, k + 2)
    BY <1>8, <2>1, <2>2 DEF AnswersFollow
  <2>4. inbox[k + 1].entries \in Seq(LogEntries)
    BY <1>2, <2>1 DEF Notes, Changes, Updated, Added
  <2> QED
    BY <1>10, <2>1, <2>3, <2>4
<1>12. ShownFollows'
  <2> SUFFICES ASSUME asked' = 0, OnlyAdded(inbox', 1)
               PROVE  Grown(shown', entries', inbox', 1)
    BY DEF ShownFollows
  <2>1. 0 \in 0..Len(inbox') /\ 0 + 1 = 1 /\ 0 + 2 = 1 + 1 /\ 1 \in 1..Len(inbox)
    BY <1>3
  <2>2. OnlyAdded(inbox, 1 + 1)
    BY <1>9, <2>1
  <2>3. Grown(shown', entries, inbox, 1 + 1) => Grown(shown', entries', inbox', 1)
    BY <1>6, <1>10, <2>1
  <2>4. note # Updated /\ asked = 0
    BY <1>5
  <2>5. CASE note.kind = "GetLogEntries"
    <3>1. shown' = note.entries
      BY <1>5, <2>5
    <3>2. Grown(note.entries, entries, inbox, 1 + 1)
      BY <1>8, <2>1, <2>2, <2>5 DEF AnswersFollow, note
    <3> QED
      BY <2>3, <3>1, <3>2
  <2>6. CASE note.kind = "LogEntryAdded" /\ note.entry \in LogEntries
    <3>1. shown' = Append(shown, note.entry)
      BY <1>5, <2>6
    <3>2. OnlyAdded(inbox, 1)
      <4> SUFFICES ASSUME NEW i \in 1..Len(inbox)
                   PROVE  inbox[i].kind = "LogEntryAdded"
        BY DEF OnlyAdded
      <4>1. CASE i = 1
        BY <2>6, <4>1 DEF note
      <4>2. CASE i # 1
        BY <1>3, <2>2, <4>2 DEF OnlyAdded
      <4> QED
        BY <4>1, <4>2
    <3>3. Grown(shown, entries, inbox, 1)
      BY <1>8, <2>4, <3>2 DEF ShownFollows
    <3>4. /\ Len(shown') = Len(shown) + 1 /\ Len(shown) \in Nat
          /\ \A i \in 1..Len(shown) : shown'[i] = shown[i]
          /\ shown'[Len(shown) + 1] = note.entry
      BY <1>2, <2>6, <3>1
    <3>5. Len(entries) = Len(shown') + Len(inbox) - (1 + 1) + 1
      <4>1. Len(entries) = Len(shown) + Len(inbox) - 1 + 1
        BY <3>3 DEF Grown
      <4> QED
        BY <1>3, <3>4, <4>1
    <3>6. entries[Len(shown) + 1] = note.entry
      <4>1. entries[Len(shown) + 1 - 1 + 1] = inbox[1].entry
        BY <1>3, <3>3 DEF Grown
      <4> QED
        BY <3>4, <4>1 DEF note
    <3>7. \A i \in 1..Len(shown') : entries[i] = shown'[i]
      <4> SUFFICES ASSUME NEW i \in 1..Len(shown')
                   PROVE  entries[i] = shown'[i]
        OBVIOUS
      <4>1. CASE i = Len(shown) + 1
        BY <3>4, <3>6, <4>1
      <4>2. CASE i \in 1..Len(shown)
        BY <3>3, <3>4, <4>2 DEF Grown
      <4> QED
        BY <3>4, <4>1, <4>2
    <3>8. ASSUME NEW i \in (1 + 1)..Len(inbox)
          PROVE  entries[Len(shown') + i - (1 + 1) + 1] = inbox[i].entry
      <4>1. i \in 1..Len(inbox)
        BY <1>3
      <4>2. entries[Len(shown) + i - 1 + 1] = inbox[i].entry
        BY <3>3, <4>1 DEF Grown
      <4>3. Len(shown) + i - 1 + 1 = Len(shown') + i - (1 + 1) + 1
        BY <1>3, <3>4
      <4> QED
        BY <4>2, <4>3
    <3>9. Grown(shown', entries, inbox, 1 + 1)
      BY <3>5, <3>7, <3>8 DEF Grown
    <3> QED
      BY <2>3, <3>9
  <2> QED
    BY <1>4, <2>4, <2>5, <2>6
<1>13. Silent' /\ Follows'
  BY <1>1, <1>2, <1>11, <1>12 DEF Silent, Follows
<1> QED
  BY <1>1, <1>7, <1>13 DEF IInv, PendingActionsAreExecuted

-----------------------------------------------------------------------------

\* At first the table is empty and nothing happens.
LEMMA InitInv == ASSUME Init PROVE IInv
<1>1. Typed
  <2>1. /\ [a \in ActionIds |-> None] \in [ActionIds -> Devices \cup {None}]
        /\ <<>> \in Seq(Notes) /\ <<>> \in Seq(LogEntries)
    OBVIOUS
  <2>2. /\ running = FALSE /\ now = 0 /\ devices = Devices /\ rules = Rules
        /\ executing = [a \in ActionIds |-> None]
        /\ m_pendingActions = [a \in ActionIds |-> None]
        /\ entries = <<>> /\ early = {} /\ connected = FALSE /\ inbox = <<>> /\ asked = 0
        /\ shown = <<>>
    BY DEF Init
  <2>3. /\ entries \in Seq(LogEntries) /\ shown \in Seq(LogEntries) /\ inbox \in Seq(Notes)
        /\ executing \in [ActionIds -> Devices \cup {None}]
        /\ m_pendingActions \in [ActionIds -> Devices \cup {None}]
    BY <2>1, <2>2
  <2>4. running \in BOOLEAN /\ connected \in BOOLEAN
    BY <2>2
  <2>5. devices \subseteq Devices /\ rules \subseteq Rules /\ early \subseteq ActionIds
    BY <2>2
  <2>6. now \in Int /\ asked \in Nat
    BY <2>2
  <2> QED
    BY <2>3, <2>4, <2>5, <2>6 DEF Typed
<1>2. Keeps(entries, devices)
  BY LogAssumption DEF Init, Keeps
<1>3. PendingActionsAreExecuted /\ Silent /\ Follows
  BY DEF Init, PendingActionsAreExecuted, Silent, Follows
<1> QED
  BY <1>1, <1>2, <1>3 DEF IInv

LEMMA NextInv == ASSUME IInv, [Next]_vars PROVE IInv'
<1>1. CASE UNCHANGED vars
  <2>1. /\ running' = running /\ now' = now /\ devices' = devices /\ rules' = rules
        /\ entries' = entries
        /\ executing' = executing /\ m_pendingActions' = m_pendingActions /\ early' = early
        /\ connected' = connected /\ asked' = asked /\ shown' = shown /\ inbox' = inbox
    BY <1>1 DEF vars, coreVars, actionVars, clientVars
  <2>2. Typed'
    BY <2>1 DEF IInv, Typed
  <2> QED
    BY <2>1, <2>2 DEF IInv, PendingActionsAreExecuted, Silent, Follows, ShownFollows,
                       AnswersFollow
<1>2. ASSUME NEW device \in Devices, GotEvent(device)
      PROVE  IInv'
  BY <1>2, GotEventStep
<1>3. ASSUME NEW device \in Devices, NEW a \in ActionIds,
             NEW result \in {"returns", "async", "early"}, ExecuteAction(a, device, result)
      PROVE  IInv'
  BY <1>3, ExecuteActionStep
<1>4. ASSUME NEW device \in Devices, NEW a \in ActionIds, NEW rule \in Rules,
             NEW result \in {"returns", "async", "early"},
             GotEventOfRule(device, rule, a, result)
      PROVE  IInv'
  BY <1>4, GotEventOfRuleStep
<1>5. ASSUME NEW a \in ActionIds, ActionExecutionFinished(a)
      PROVE  IInv'
  BY <1>5, FinishedStep
<1>6. ASSUME NEW rule \in Rules, RemoveRule(rule)
      PROVE  IInv'
  BY <1>6, RemoveRuleStep
<1> QED
  BY <1>1, <1>2, <1>3, <1>4, <1>5, <1>6, StartStep, StopStep, CrashStep, ClockStep,
     RemoveDevicesStep, ConnectStep, AskedStep, ReceiveStep DEF Next

\* The invariant of the log holds in every state.
THEOREM Invariance == Spec => []IInv
<1>1. Init => IInv
  BY InitInv
<1>2. IInv /\ [Next]_vars => IInv'
  BY NextInv
<1> QED
  BY <1>1, <1>2, PTL DEF Spec

\* The table keeps to its size, and of a device that was removed it tells nothing but
\* the end of actions (checkDBSize(), removeDeviceLogs()).
THEOREM TableKeptCorrect == Spec => []TableKept
<1>1. IInv => TableKept
  <2> SUFFICES ASSUME IInv
               PROVE  TableKept
    OBVIOUS
  <2>1. /\ Len(entries) <= m_dbMaxSize + 1 /\ entries \in Seq(LogEntries)
        /\ \A i \in 1..Len(entries) : Allowed(entries[i], devices)
    BY DEF IInv, Typed, Keeps
  <2>2. \A entry \in Range(entries) : Allowed(entry, devices)
    BY <2>1 DEF Range
  <2> QED
    BY <2>1, <2>2 DEF TableKept, TableLimited, GoneDevicesLeaveOnlyActions, Allowed
<1> QED
  BY <1>1, Invariance, PTL

\* A client that adds what is announced as added and asks again when the database was
\* updated shows the table once it has received everything (the signals of LogEngine).
THEOREM FollowerAgreesCorrect == Spec => []FollowerAgrees
<1>1. IInv => FollowerAgrees
  <2> SUFFICES ASSUME IInv, connected, inbox = <<>>, asked = 0
               PROVE  entries = shown
    BY DEF FollowerAgrees
  <2>1. entries \in Seq(LogEntries) /\ shown \in Seq(LogEntries)
    BY DEF IInv, Typed
  <2>2. OnlyAdded(inbox, 1)
    BY DEF OnlyAdded
  <2>3. Grown(shown, entries, <<>>, 1)
    BY <2>2 DEF IInv, Follows, ShownFollows
  <2>4. Len(entries) = Len(shown) /\ \A i \in 1..Len(shown) : entries[i] = shown[i]
    BY <2>1, <2>3 DEF Grown
  <2> QED
    BY <2>1, <2>4
<1> QED
  BY <1>1, Invariance, PTL

\* What GuhCore keeps of actions is what plugins execute, as long as the end of an action
\* is reported after executeAction() has returned (m_pendingActions).
THEOREM PendingActionsCorrect == Spec => []PendingActionsAreExecuted
<1>1. IInv => PendingActionsAreExecuted
  BY DEF IInv
<1> QED
  BY <1>1, Invariance, PTL
=============================================================================
