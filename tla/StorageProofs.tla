---------------------------- MODULE StorageProofs ----------------------------
(* Proofs about Storage, for any queue, tables and number of rows kept.      *)
EXTENDS Storage, TLAPS

-----------------------------------------------------------------------------
(* Sequences of rows.                                                        *)

(* Numbers grow from the front to the back.                                  *)
Grows(s) == \A i, j \in DOMAIN s : i < j => s[i].id < s[j].id

LEMMA RowFields ==
    /\ \A row \in Row : row.id \in 1..MaxRows /\ row.table \in Table
    /\ NoRow \notin Row
    /\ "events" \in Table
BY StorageAssumption DEF Row, NoRow, Table

LEMMA Appended ==
    ASSUME NEW s \in Seq(Row), NEW row \in Row
    PROVE  /\ Append(s, row) \in Seq(Row)
           /\ Range(Append(s, row)) = Range(s) \cup {row}
           /\ Grows(s) /\ (\A x \in Range(s) : x.id < row.id) => Grows(Append(s, row))
<1>1. /\ Append(s, row) \in Seq(Row) /\ Len(s) \in Nat
      /\ DOMAIN s = 1..Len(s) /\ DOMAIN Append(s, row) = 1..(Len(s) + 1)
      /\ \A i \in 1..Len(s) : Append(s, row)[i] = s[i]
      /\ Append(s, row)[Len(s) + 1] = row
  OBVIOUS
<1>2. 1..(Len(s) + 1) = 1..Len(s) \cup {Len(s) + 1}
  BY <1>1
<1> DEFINE new == Append(s, row)
<1> HIDE DEF new
<1>3. Range(new) = Range(s) \cup {row}
  BY <1>1, <1>2 DEF Range, new
<1>4. ASSUME Grows(s), \A x \in Range(s) : x.id < row.id
      PROVE  Grows(new)
  <2>1. SUFFICES ASSUME NEW i \in 1..(Len(s) + 1), NEW j \in 1..(Len(s) + 1), i < j
                 PROVE  new[i].id < new[j].id
    BY <1>1 DEF Grows, new
  <2>2. i \in 1..Len(s) /\ new[i] = s[i] /\ s[i] \in Range(s)
    BY <1>1, <2>1 DEF new, Range
  <2>3. CASE j \in 1..Len(s)
    BY <1>1, <1>4, <2>1, <2>2, <2>3 DEF Grows, new
  <2>4. CASE j = Len(s) + 1
    BY <1>1, <1>4, <2>2, <2>4 DEF new
  <2>5. QED
    BY <1>2, <2>3, <2>4
<1>5. QED
  BY <1>1, <1>3, <1>4 DEF new

LEMMA Taken ==
    ASSUME NEW s \in Seq(Row), s # <<>>
    PROVE  /\ Head(s) \in Row /\ Tail(s) \in Seq(Row)
           /\ Range(s) = Range(Tail(s)) \cup {Head(s)}
           /\ Grows(s) => Grows(Tail(s)) /\ \A x \in Range(Tail(s)) : Head(s).id < x.id
<1>1. /\ Len(s) \in Nat \ {0} /\ DOMAIN s = 1..Len(s)
      /\ Head(s) = s[1] /\ s[1] \in Row
      /\ Tail(s) \in Seq(Row) /\ Len(Tail(s)) = Len(s) - 1
      /\ DOMAIN Tail(s) = 1..(Len(s) - 1)
      /\ \A i \in 1..(Len(s) - 1) : Tail(s)[i] = s[i + 1]
  OBVIOUS
<1> DEFINE t == Tail(s)
<1> HIDE DEF t
<1>2. Range(s) = Range(t) \cup {s[1]}
  <2>1. ASSUME NEW i \in 1..Len(s) PROVE s[i] \in Range(t) \cup {s[1]}
    <3>1. CASE i = 1
      BY <3>1
    <3>2. CASE i # 1
      <4>1. i - 1 \in 1..(Len(s) - 1) /\ (i - 1) + 1 = i
        BY <1>1, <3>2
      <4>2. t[i - 1] = s[i]
        BY <1>1, <4>1 DEF t
      <4>3. QED
        BY <1>1, <4>1, <4>2 DEF Range, t
    <3>3. QED
      BY <3>1, <3>2
  <2>2. ASSUME NEW i \in 1..(Len(s) - 1) PROVE t[i] \in Range(s)
    <3>1. i + 1 \in 1..Len(s) /\ t[i] = s[i + 1]
      BY <1>1 DEF t
    <3>2. QED
      BY <1>1, <3>1 DEF Range
  <2>3. s[1] \in Range(s)
    BY <1>1 DEF Range
  <2>4. Range(s) \subseteq Range(t) \cup {s[1]}
    BY <1>1, <2>1 DEF Range
  <2>5. Range(t) \subseteq Range(s)
    BY <1>1, <2>2 DEF Range, t
  <2>6. QED
    BY <2>3, <2>4, <2>5
<1>3. ASSUME Grows(s) PROVE Grows(t) /\ \A x \in Range(t) : s[1].id < x.id
  <2>1. \A i \in 1..(Len(s) - 1) : t[i] = s[i + 1] /\ i + 1 \in 1..Len(s) /\ 1 < i + 1
    BY <1>1 DEF t
  <2>2. 1 \in 1..Len(s)
    BY <1>1
  <2>3. QED
    BY <1>1, <1>3, <2>1, <2>2 DEF Grows, Range, t
<1>4. QED
  BY <1>1, <1>2, <1>3 DEF t

(* What a trim leaves are the Keep newest rows.                              *)
LEMMA Kept ==
    ASSUME NEW s \in Seq(Row)
    PROVE  /\ Newest(s) \in Seq(Row)
           /\ Range(Newest(s)) \subseteq Range(s)
           /\ Grows(s) =>
                /\ Grows(Newest(s))
                /\ \A x \in Range(s) \ Range(Newest(s)) :
                      /\ Len(Newest(s)) = Keep
                      /\ \A y \in Range(Newest(s)) : x.id < y.id
<1>1. Len(s) \in Nat /\ Keep \in Nat /\ DOMAIN s = 1..Len(s)
  BY StorageAssumption
<1>2. CASE Len(s) <= Keep
  BY <1>2 DEF Newest
<1>3. CASE ~(Len(s) <= Keep)
  <2> DEFINE k == Len(s) - Keep
             t == SubSeq(s, k + 1, Len(s))
  <2>1. k \in 1..Len(s) /\ Newest(s) = t /\ Len(s) = k + Keep
    BY <1>1, <1>3 DEF Newest
  <2>2. /\ t \in Seq(Row) /\ Len(t) = Keep /\ DOMAIN t = 1..Keep
        /\ \A i \in 1..Keep : t[i] = s[i + k] /\ i + k \in 1..Len(s)
    BY <1>1, <2>1
  <2> HIDE DEF k, t
  <2>3. Range(t) \subseteq Range(s)
    BY <1>1, <2>2 DEF Range
  <2>4. ASSUME Grows(s)
        PROVE  /\ Grows(t)
               /\ \A x \in Range(s) \ Range(t) : \A y \in Range(t) : x.id < y.id
    <3>1. Grows(t)
      <4>1. SUFFICES ASSUME NEW i \in 1..Keep, NEW j \in 1..Keep, i < j
                     PROVE  t[i].id < t[j].id
        BY <2>2 DEF Grows
      <4>2. i + k < j + k
        BY <2>1, <4>1
      <4>3. QED
        BY <1>1, <2>2, <2>4, <4>2 DEF Grows
    <3>2. SUFFICES ASSUME NEW i \in 1..Len(s), s[i] \notin Range(t), NEW j \in 1..Keep
                   PROVE  s[i].id < t[j].id
      BY <1>1, <2>2, <3>1 DEF Range
    <3>3. i <= k
      <4>1. SUFFICES ASSUME i > k PROVE FALSE
        BY <2>1
      <4>2. i - k \in 1..Keep
        BY <1>1, <2>1, <4>1
      <4>3. t[i - k] = s[i]
        BY <2>1, <2>2, <4>2
      <4>4. QED
        BY <2>2, <3>2, <4>2, <4>3 DEF Range
    <3>4. i < j + k
      BY <2>1, <3>3
    <3>5. QED
      BY <1>1, <2>2, <2>4, <3>4 DEF Grows
  <2>5. QED
    BY <2>1, <2>2, <2>3, <2>4
<1>4. QED
  BY <1>2, <1>3

-----------------------------------------------------------------------------
(* The inductive invariant: rows are taken, stored and trimmed in the order  *)
(* of their submission, each is in one place, and the writer leaves its loop *)
(* only after everything submitted before close(); a writer without a        *)
(* connection has taken nothing.                                             *)

Types ==
    /\ queue \in Seq(Row)
    /\ held \in Row \cup {NoRow}
    /\ rows \in [Table -> Seq(Row)]
    /\ \A t \in Table : \A row \in Range(rows[t]) : row.table = t
    /\ submitted \in 0..MaxRows
    /\ lost \subseteq Row
    /\ trimmed \subseteq Row

Order ==
    /\ Grows(queue)
    /\ Grows(rows["events"])
    /\ held # NoRow => \A row \in Range(queue) : held.id < row.id
    /\ \A row \in Range(rows["events"]) : \A next \in InFlight : row.id < next.id

All == InFlight \cup Stored \cup lost \cup trimmed

Apart(waiting, stored, gone, cut) ==
    /\ waiting \cap stored = {} /\ waiting \cap gone = {} /\ waiting \cap cut = {}
    /\ stored \cap gone = {} /\ stored \cap cut = {} /\ gone \cap cut = {}

Places ==
    /\ Ids(All) = 1..submitted
    /\ Apart(InFlight, Stored, lost, trimmed)

Ending ==
    /\ atClose \in 0..submitted
    /\ closing = "no" => ~stop /\ writer # "ended"
    /\ writer = "ended" => held = NoRow /\ \A row \in InFlight : row.id > atClose
    /\ closing = "joined" => writer \in {"ended", "dead"}
    /\ writer \in {"connecting", "dead"} => NothingTaken

Inv == Types /\ Order /\ Places /\ Ending

-----------------------------------------------------------------------------
LEMMA AllRows ==
    ASSUME Inv
    PROVE  /\ All \subseteq Row /\ InFlight \subseteq Row
           /\ \A row \in All : row.id \in 1..submitted
           /\ \A t \in Table : Range(rows[t]) \subseteq Row
           /\ submitted \in Nat
<1>1. \A t \in Table : Range(rows[t]) \subseteq Row
  BY DEF Inv, Types, Range
<1>2. Range(queue) \subseteq Row
  BY DEF Inv, Types, Range
<1>3. InFlight \subseteq Row
  BY <1>2 DEF InFlight, Inv, Types
<1>4. All \subseteq Row
  BY <1>1, <1>3 DEF All, Stored, Inv, Types
<1>5. QED
  BY <1>1, <1>3, <1>4, StorageAssumption DEF Inv, Types, Places, Ids

LEMMA SubmitKeeps ==
    ASSUME Inv, NEW table \in Table, Submit(table)
    PROVE  Inv'
<1> DEFINE row == [id |-> submitted + 1, table |-> table]
<1>1. /\ submitted < MaxRows /\ submitted' = submitted + 1
      /\ \/ queue' = Append(queue, row) /\ lost' = lost
         \/ queue' = queue /\ lost' = lost \cup {row}
      /\ UNCHANGED <<held, rows, writer, stop, closing, process, trimmed, atClose>>
  BY DEF Submit, Enqueued
<1>2. row \in Row /\ row.id = submitted + 1 /\ submitted' \in 0..MaxRows
  BY <1>1, AllRows, StorageAssumption DEF Row, Inv, Types
<1> HIDE DEF row
<1>3. row \notin All /\ \A x \in All : x.id < row.id
  BY <1>2, AllRows
<1>4. Range(queue) \subseteq All /\ (held # NoRow => held \in All)
  BY DEF All, InFlight
<1>5. /\ queue' \in Seq(Row) /\ Grows(queue')
      /\ Range(queue') \subseteq Range(queue) \cup {row}
  <2>1. CASE queue' = queue
    BY <2>1 DEF Inv, Types, Order
  <2>2. CASE queue' = Append(queue, row)
    BY <1>2, <1>3, <1>4, <2>2, Appended DEF Inv, Types, Order
  <2>3. QED
    BY <1>1, <2>1, <2>2
<1>6. /\ Stored' = Stored
      /\ \/ InFlight' = InFlight \cup {row} /\ lost' = lost
         \/ InFlight' = InFlight /\ lost' = lost \cup {row}
  <2>1. Stored' = Stored
    BY <1>1 DEF Stored
  <2>2. CASE queue' = queue /\ lost' = lost \cup {row}
    BY <1>1, <2>1, <2>2 DEF InFlight
  <2>3. CASE queue' = Append(queue, row) /\ lost' = lost
    <3>1. Range(queue') = Range(queue) \cup {row}
      BY <1>2, <2>3, Appended DEF Inv, Types
    <3>2. QED
      BY <1>1, <2>1, <2>3, <3>1 DEF InFlight
  <2>4. QED
    BY <1>1, <2>2, <2>3
<1>7. Types'
  BY <1>1, <1>2, <1>5 DEF Inv, Types
<1>8. Order'
  <2>1. held # NoRow => \A x \in Range(queue') : held.id < x.id
    BY <1>3, <1>4, <1>5 DEF Inv, Order
  <2>2. Range(rows["events"]) \subseteq All
    BY RowFields DEF All, Stored
  <2>3. \A x \in Range(rows["events"]) : \A next \in InFlight' : x.id < next.id
    BY <1>3, <1>6, <2>2 DEF Inv, Order
  <2>4. QED
    BY <1>1, <1>5, <2>1, <2>3 DEF Inv, Order
<1>9. Places'
  <2>1. All' = All \cup {row}
    BY <1>1, <1>6 DEF All
  <2>2. Ids(All \cup {row}) = Ids(All) \cup {submitted + 1}
    BY <1>2 DEF Ids
  <2>3. 1..(submitted + 1) = 1..submitted \cup {submitted + 1}
    BY AllRows
  <2>4. Ids(All)' = 1..submitted'
    BY <1>1, <2>1, <2>2, <2>3 DEF Inv, Places, Ids
  <2>5. Apart(InFlight, Stored, lost, trimmed)'
    BY <1>1, <1>3, <1>6 DEF Inv, Places, Apart, All
  <2>6. QED
    BY <2>4, <2>5 DEF Places
<1>10. Ending'
  <2>1. atClose' \in 0..submitted'
    BY <1>1, AllRows DEF Inv, Ending
  <2>2. row.id > atClose
    BY <1>2, AllRows DEF Inv, Ending
  <2>3. QED
    BY <1>1, <1>6, <2>1, <2>2 DEF Inv, Ending, NothingTaken
<1>11. QED
  BY <1>7, <1>8, <1>9, <1>10 DEF Inv

LEMMA GetKeeps ==
    ASSUME Inv, Get
    PROVE  Inv'
<1>1. /\ held = NoRow /\ queue # <<>> /\ held' = Head(queue) /\ queue' = Tail(queue)
      /\ writer = "loop"
      /\ UNCHANGED <<rows, writer, stop, closing, process, submitted, lost, trimmed, atClose>>
  BY DEF Get, Running, Dequeued
<1>2. /\ held' \in Row /\ queue' \in Seq(Row)
      /\ Range(queue) = Range(queue') \cup {held'}
      /\ Grows(queue') /\ \A x \in Range(queue') : held'.id < x.id
  BY <1>1, Taken DEF Inv, Types, Order
<1>3. InFlight' = InFlight /\ Stored' = Stored
  BY <1>1, <1>2, RowFields DEF InFlight, Stored
<1>4. All' = All
  BY <1>1, <1>3 DEF All
<1>5. Types' /\ Order'
  BY <1>1, <1>2, <1>3 DEF Inv, Types, Order
<1>6. Places' /\ Ending'
  BY <1>1, <1>3, <1>4 DEF Inv, Places, Ending, Ids
<1>7. QED
  BY <1>5, <1>6 DEF Inv

-----------------------------------------------------------------------------
(* One round of the writer with a row: where that row and the trimmed ones   *)
(* go.                                                                       *)
Filled(inserts) ==
    IF inserts THEN [rows EXCEPT ![held.table] = Append(@, held)] ELSE rows
Cut(inserts) == Range(Filled(inserts)["events"]) \ Range(rows'["events"])

LEMMA FilledTables ==
    ASSUME Inv, held # NoRow, NEW inserts \in BOOLEAN
    PROVE  LET filled == Filled(inserts)
           IN  /\ filled \in [Table -> Seq(Row)]
               /\ \A t \in Table : \A row \in Range(filled[t]) : row.table = t
               /\ UNION {Range(filled[t]) : t \in Table}
                    = Stored \cup (IF inserts THEN {held} ELSE {})
               /\ Grows(filled["events"])
               /\ \A x \in Range(filled["events"]) : \A next \in Range(queue) : x.id < next.id
<1> DEFINE filled == Filled(inserts)
<1>1. CASE inserts
  <2>1. held \in Row /\ held.table \in Table
    BY RowFields DEF Inv, Types
  <2>2. /\ filled = [rows EXCEPT ![held.table] = Append(rows[held.table], held)]
        /\ \A t \in Table \ {held.table} : filled[t] = rows[t]
        /\ filled[held.table] = Append(rows[held.table], held)
    BY <1>1, <2>1 DEF Filled, Inv, Types
  <2>3. /\ Append(rows[held.table], held) \in Seq(Row)
        /\ Range(filled[held.table]) = Range(rows[held.table]) \cup {held}
    BY <2>1, <2>2, Appended DEF Inv, Types
  <2>4. filled \in [Table -> Seq(Row)]
    BY <2>1, <2>2, <2>3 DEF Inv, Types
  <2> HIDE DEF filled
  <2>5. \A t \in Table : \A row \in Range(filled[t]) : row.table = t
    BY <2>1, <2>2, <2>3 DEF Inv, Types
  <2>6. UNION {Range(filled[t]) : t \in Table} = Stored \cup {held}
    BY <2>1, <2>2, <2>3 DEF Stored
  <2>7. /\ Grows(filled["events"])
        /\ \A x \in Range(filled["events"]) : \A next \in Range(queue) : x.id < next.id
    <3>1. CASE held.table = "events"
      <4>1. \A x \in Range(rows["events"]) : x.id < held.id
        BY DEF Inv, Order, InFlight
      <4>2. rows["events"] \in Seq(Row)
        BY RowFields DEF Inv, Types
      <4>3. Grows(filled["events"])
        BY <2>1, <2>2, <3>1, <4>1, <4>2, Appended DEF Inv, Order
      <4>4. QED
        BY <2>3, <3>1, <4>3 DEF Inv, Order, InFlight
    <3>2. CASE held.table # "events"
      BY <2>2, <3>2, RowFields DEF Inv, Order, InFlight, Types
    <3>3. QED
      BY <3>1, <3>2
  <2>8. QED
    BY <1>1, <2>4, <2>5, <2>6, <2>7 DEF filled
<1>2. CASE ~inserts
  BY <1>2 DEF Filled, Inv, Types, Order, Stored, InFlight
<1>3. QED
  BY <1>1, <1>2

LEMMA TrimmedTables ==
    ASSUME Inv, NEW filled \in [Table -> Seq(Row)], NEW due \in BOOLEAN,
           \A t \in Table : \A row \in Range(filled[t]) : row.table = t,
           Grows(filled["events"])
    PROVE  LET new == TrimIf(due, filled)
               cut == Range(filled["events"]) \ Range(new["events"])
           IN  /\ new \in [Table -> Seq(Row)]
               /\ \A t \in Table : Range(new[t]) \subseteq Range(filled[t])
               /\ UNION {Range(new[t]) : t \in Table}
                    = (UNION {Range(filled[t]) : t \in Table}) \ cut
               /\ Grows(new["events"])
               /\ \A x \in cut :
                     /\ Len(new["events"]) = Keep
                     /\ \A y \in Range(new["events"]) : x.id < y.id
<1> DEFINE new == TrimIf(due, filled)
           cut == Range(filled["events"]) \ Range(new["events"])
<1>1. CASE due
  <2>1. /\ new \in [Table -> Seq(Row)]
        /\ new["events"] = Newest(filled["events"])
        /\ \A t \in Table \ {"events"} : new[t] = filled[t]
    BY <1>1, RowFields, Kept DEF TrimIf
  <2>2. /\ Range(new["events"]) \subseteq Range(filled["events"])
        /\ Grows(new["events"])
        /\ \A x \in cut :
              /\ Len(new["events"]) = Keep
              /\ \A y \in Range(new["events"]) : x.id < y.id
    BY <2>1, RowFields, Kept
  <2> HIDE DEF new
  <2>3. UNION {Range(new[t]) : t \in Table} = (UNION {Range(filled[t]) : t \in Table}) \ cut
    <3>1. ASSUME NEW t \in Table, NEW x \in Range(new[t])
          PROVE  x \in Range(filled[t]) /\ x \notin cut
      BY <2>1, <2>2, <3>1, RowFields
    <3>2. ASSUME NEW t \in Table, NEW x \in Range(filled[t]), x \notin cut
          PROVE  x \in Range(new[t])
      BY <2>1, <3>2
    <3>3. QED
      BY <3>1, <3>2
  <2>4. QED
    BY <2>1, <2>2, <2>3 DEF new
<1>2. CASE ~due
  BY <1>2 DEF TrimIf
<1>3. QED
  BY <1>1, <1>2

(* What an insert does to the places of the rows.                            *)
LEMMA Inserted ==
    ASSUME Inv, NEW due \in BOOLEAN, NEW inserts \in BOOLEAN, NEW trims \in BOOLEAN,
           Insert(due, inserts, trims)
    PROVE  /\ held \in Row /\ held' = NoRow
           /\ rows' \in [Table -> Seq(Row)]
           /\ \A t \in Table : \A row \in Range(rows'[t]) : row.table = t
           /\ Grows(rows'["events"])
           /\ \A x \in Range(rows'["events"]) : \A next \in Range(queue) : x.id < next.id
           /\ Stored' = (Stored \cup (IF inserts THEN {held} ELSE {})) \ Cut(inserts)
           /\ Cut(inserts) \subseteq Stored \cup (IF inserts THEN {held} ELSE {})
           /\ lost' = IF inserts THEN lost ELSE lost \cup {held}
           /\ trimmed' = trimmed \cup Cut(inserts)
           /\ \A x \in Cut(inserts) :
                 /\ x.table = "events"
                 /\ Len(rows'["events"]) = Keep
                 /\ \A y \in Range(rows'["events"]) : x.id < y.id
<1> DEFINE filled == Filled(inserts)
<1>1. /\ held # NoRow /\ held' = NoRow
      /\ rows' = TrimIf(due /\ trims, filled)
      /\ lost' = IF inserts THEN lost ELSE lost \cup {held}
      /\ trimmed' = trimmed \cup (Range(filled["events"]) \ Range(rows'["events"]))
  BY DEF Insert, Filled
<1>2. held \in Row
  BY <1>1 DEF Inv, Types
<1>3. /\ filled \in [Table -> Seq(Row)]
      /\ \A t \in Table : \A row \in Range(filled[t]) : row.table = t
      /\ UNION {Range(filled[t]) : t \in Table} = Stored \cup (IF inserts THEN {held} ELSE {})
      /\ Grows(filled["events"])
      /\ \A x \in Range(filled["events"]) : \A next \in Range(queue) : x.id < next.id
  BY <1>1, FilledTables
<1>4. Cut(inserts) = Range(filled["events"]) \ Range(rows'["events"])
  BY DEF Cut
<1> HIDE DEF filled
<1>5. /\ rows' \in [Table -> Seq(Row)]
      /\ \A t \in Table : Range(rows'[t]) \subseteq Range(filled[t])
      /\ UNION {Range(rows'[t]) : t \in Table}
           = (UNION {Range(filled[t]) : t \in Table}) \ Cut(inserts)
      /\ Grows(rows'["events"])
      /\ \A x \in Cut(inserts) :
            /\ Len(rows'["events"]) = Keep
            /\ \A y \in Range(rows'["events"]) : x.id < y.id
  <2>1. PICK d \in BOOLEAN : rows' = TrimIf(d, filled)
    BY <1>1
  <2>2. LET new == TrimIf(d, filled)
            cut == Range(filled["events"]) \ Range(new["events"])
        IN  /\ new \in [Table -> Seq(Row)]
            /\ \A t \in Table : Range(new[t]) \subseteq Range(filled[t])
            /\ UNION {Range(new[t]) : t \in Table}
                 = (UNION {Range(filled[t]) : t \in Table}) \ cut
            /\ Grows(new["events"])
            /\ \A x \in cut :
                  /\ Len(new["events"]) = Keep
                  /\ \A y \in Range(new["events"]) : x.id < y.id
    BY <1>3, TrimmedTables
  <2>3. QED
    BY <1>4, <2>1, <2>2
<1>6. Stored' = (Stored \cup (IF inserts THEN {held} ELSE {})) \ Cut(inserts)
  <2>1. Stored' = UNION {Range(rows'[t]) : t \in Table}
    BY DEF Stored
  <2>2. QED
    BY <1>3, <1>5, <2>1
<1>7. /\ Cut(inserts) \subseteq Stored \cup (IF inserts THEN {held} ELSE {})
      /\ \A x \in Cut(inserts) : x.table = "events"
  <2>1. Cut(inserts) \subseteq Range(filled["events"])
    BY <1>4
  <2>2. Range(filled["events"]) \subseteq UNION {Range(filled[t]) : t \in Table}
    BY RowFields
  <2>3. QED
    BY <1>3, <2>1, <2>2, RowFields
<1>8. /\ \A t \in Table : \A row \in Range(rows'[t]) : row.table = t
      /\ \A x \in Range(rows'["events"]) : \A next \in Range(queue) : x.id < next.id
  BY <1>3, <1>5, RowFields
<1>9. QED
  BY <1>1, <1>2, <1>4, <1>5, <1>6, <1>7, <1>8

LEMMA InsertKeeps ==
    ASSUME Inv, NEW due \in BOOLEAN, NEW inserts \in BOOLEAN, NEW trims \in BOOLEAN,
           Insert(due, inserts, trims)
    PROVE  Inv'
<1> DEFINE cut == Cut(inserts)
<1>1. /\ held \in Row /\ held' = NoRow
      /\ rows' \in [Table -> Seq(Row)]
      /\ \A t \in Table : \A row \in Range(rows'[t]) : row.table = t
      /\ Grows(rows'["events"])
      /\ \A x \in Range(rows'["events"]) : \A next \in Range(queue) : x.id < next.id
      /\ Stored' = (Stored \cup (IF inserts THEN {held} ELSE {})) \ cut
      /\ cut \subseteq Stored \cup (IF inserts THEN {held} ELSE {})
      /\ lost' = IF inserts THEN lost ELSE lost \cup {held}
      /\ trimmed' = trimmed \cup cut
  BY Inserted
<1> HIDE DEF cut
<1>2. /\ UNCHANGED <<queue, writer, stop, closing, process, submitted, atClose>>
      /\ writer = "loop"
  BY DEF Insert, Running
<1>3. held # NoRow /\ held \notin Range(queue)
  <2>1. held # NoRow /\ held.id \in 1..MaxRows
    BY <1>1, RowFields
  <2>2. ~(held.id < held.id)
    BY <2>1
  <2>3. QED
    BY <2>1, <2>2 DEF Inv, Order
<1>4. InFlight = Range(queue) \cup {held} /\ InFlight' = Range(queue)
  BY <1>1, <1>2, <1>3 DEF InFlight
<1>5. All' = All
  <2>1. CASE inserts
    BY <1>1, <1>4, <2>1 DEF All
  <2>2. CASE ~inserts
    BY <1>1, <1>4, <2>2 DEF All
  <2>3. QED
    BY <2>1, <2>2
<1>6. Apart(InFlight, Stored, lost, trimmed)'
  <2>1. Apart(Range(queue) \cup {held}, Stored, lost, trimmed)
    BY <1>4 DEF Inv, Places
  <2>2. CASE inserts
    BY <1>1, <1>3, <1>4, <2>1, <2>2 DEF Apart
  <2>3. CASE ~inserts
    BY <1>1, <1>3, <1>4, <2>1, <2>3 DEF Apart
  <2>4. QED
    BY <2>2, <2>3
<1>7. Types'
  <2>1. Stored \subseteq Row
    BY AllRows DEF All
  <2>2. cut \subseteq Row
    BY <1>1, <2>1
  <2>3. QED
    BY <1>1, <1>2, <2>2 DEF Inv, Types
<1>8. Order'
  BY <1>1, <1>2, <1>4 DEF Inv, Order
<1>9. Places' /\ Ending'
  BY <1>2, <1>5, <1>6 DEF Inv, Places, Ending, Ids
<1>10. QED
  BY <1>7, <1>8, <1>9 DEF Inv

(* The steps of close(), and of the end.                                     *)
LEMMA OthersKeep ==
    ASSUME Inv, NEW works \in BOOLEAN,
           Connect(works) \/ WriterEnds \/ Close \/ JoinReturns \/ ProcessEnds \/ UNCHANGED vars
    PROVE  Inv'
<1>1. UNCHANGED <<queue, held, rows, submitted, lost, trimmed>>
  BY DEF Connect, WriterEnds, Close, JoinReturns, ProcessEnds, vars
<1>2. InFlight' = InFlight /\ Stored' = Stored /\ All' = All
  BY <1>1 DEF InFlight, Stored, All
<1>3. Types' /\ Order' /\ Places'
  BY <1>1, <1>2 DEF Inv, Types, Order, Places, Ids
<1>4. Ending'
  <2>0. CASE Connect(works)
    BY <1>1, <1>2, <2>0 DEF Connect, Inv, Ending, NothingTaken
  <2>1. CASE WriterEnds
    <3>1. InFlight = {}
      BY <2>1 DEF WriterEnds, LoopEnds, InFlight, Range
    <3>2. QED
      BY <1>1, <1>2, <2>1, <3>1 DEF WriterEnds, Running, LoopEnds, Inv, Ending, NothingTaken
  <2>2. CASE Close
    BY <1>1, <1>2, <2>2, AllRows DEF Close, Inv, Ending, NothingTaken
  <2>3. CASE JoinReturns
    BY <1>1, <1>2, <2>3 DEF JoinReturns, Inv, Ending, NothingTaken
  <2>4. CASE ProcessEnds \/ UNCHANGED vars
    BY <1>1, <1>2, <2>4 DEF ProcessEnds, vars, Inv, Ending, NothingTaken
  <2>5. QED
    BY <2>0, <2>1, <2>2, <2>3, <2>4
<1>5. QED
  BY <1>3, <1>4 DEF Inv

-----------------------------------------------------------------------------
THEOREM Invariance == Spec => []Inv
<1>1. Init => Inv
  <2> SUFFICES ASSUME Init PROVE Inv
    OBVIOUS
  <2>1. /\ queue = <<>> /\ held = NoRow /\ submitted = 0 /\ lost = {} /\ trimmed = {}
        /\ rows = [t \in Table |-> <<>>] /\ atClose = 0
        /\ closing = "no" /\ stop = FALSE /\ writer = "connecting"
    BY DEF Init
  <2>2. Range(<<>>) = {} /\ Grows(<<>>)
    BY DEF Range, Grows
  <2>3. \A t \in Table : rows[t] = <<>>
    BY <2>1
  <2>4. InFlight = {} /\ Stored = {}
    BY <2>1, <2>2, <2>3 DEF InFlight, Stored
  <2>5. Types
    BY <2>1, <2>2, <2>3, StorageAssumption DEF Types
  <2>6. Order
    BY <2>1, <2>2, <2>3, <2>4, RowFields DEF Order
  <2>7. Places
    BY <2>1, <2>4 DEF Places, All, Apart, Ids
  <2>8. Ending
    BY <2>1, <2>4 DEF Ending, NothingTaken
  <2>9. QED
    BY <2>5, <2>6, <2>7, <2>8 DEF Inv
<1>2. Inv /\ [Next]_vars => Inv'
  BY SubmitKeeps, GetKeeps, InsertKeeps, OthersKeep DEF Next, Write, Connect
<1>3. QED
  BY <1>1, <1>2, PTL DEF Spec

(* RowsAccounted: the four places, and an ordered queue holds no row twice.  *)
THEOREM NoRowVanishes == Spec => []RowsAccounted
<1>1. Inv => RowsAccounted
  <2> SUFFICES ASSUME Inv PROVE RowsAccounted
    OBVIOUS
  <2>1. Ids(InFlight \cup Stored \cup lost \cup trimmed) = 1..submitted
    BY DEF Inv, Places, All
  <2>2. IsInjective(queue)
    <3>1. SUFFICES ASSUME NEW i \in DOMAIN queue, NEW j \in DOMAIN queue,
                          queue[i] = queue[j], i # j
                   PROVE  FALSE
      BY DEF IsInjective
    <3>2. /\ i \in Nat /\ j \in Nat
          /\ queue[i].id \in Nat
      BY RowFields DEF Inv, Types
    <3>3. i < j \/ j < i
      BY <3>1, <3>2
    <3>4. QED
      BY <3>1, <3>2, <3>3 DEF Inv, Order, Grows
  <2>3. held \notin Range(queue)
    BY AllRows, RowFields DEF Inv, Types, Order, InFlight
  <2>4. LET places == <<InFlight, Stored, lost, trimmed>>
        IN  \A i, j \in 1..4 : i # j => places[i] \cap places[j] = {}
    BY DEF Inv, Places, Apart
  <2>5. QED
    BY <2>1, <2>2, <2>3, <2>4 DEF RowsAccounted
<1>2. QED
  BY <1>1, Invariance, PTL

(* CloseDrains: a writer that had its connection ended with an empty queue   *)
(* after close(), and what came later has higher numbers; one that had none  *)
(* has taken no row.                                                         *)
THEOREM JoinedMeansDrained == Spec => []CloseDrains
<1>1. Inv => CloseDrains
  BY DEF Inv, Ending, CloseDrains
<1>2. QED
  BY <1>1, Invariance, PTL

(* TrimsOldest: only an insert with a trim takes a row out of a table.       *)
THEOREM OldestGoFirst == Spec => TrimsOldest
<1>1. Inv /\ [Next]_vars =>
        [\A row \in Stored \ Stored' :
            /\ row.table = "events"
            /\ Len(rows'["events"]) = Keep
            /\ \A left \in Range(rows'["events"]) : left.id > row.id]_vars
  <2> SUFFICES ASSUME Inv, Next, NEW row \in Stored \ Stored'
               PROVE  /\ row.table = "events"
                      /\ Len(rows'["events"]) = Keep
                      /\ \A left \in Range(rows'["events"]) : left.id > row.id
    OBVIOUS
  <2>1. rows' # rows
    BY DEF Stored
  <2>2. PICK due \in BOOLEAN, inserts \in BOOLEAN, trims \in BOOLEAN :
          Insert(due, inserts, trims)
    BY <2>1 DEF Next, Write, Connect, Submit, Get, WriterEnds, Close, JoinReturns, ProcessEnds
  <2>3. row \in Cut(inserts)
    <3>1. Stored' = (Stored \cup (IF inserts THEN {held} ELSE {})) \ Cut(inserts)
      BY <2>2, Inserted
    <3>2. QED
      BY <3>1
  <2>4. /\ row.table = "events"
        /\ Len(rows'["events"]) = Keep
        /\ \A y \in Range(rows'["events"]) : row.id < y.id
    BY <2>2, <2>3, Inserted
  <2>5. row.id \in Nat /\ \A y \in Range(rows'["events"]) : y.id \in Nat
    <3>1. row \in Row
      BY AllRows DEF All
    <3>2. rows'["events"] \in Seq(Row)
      BY <2>2, Inserted, RowFields
    <3>3. Range(rows'["events"]) \subseteq Row
      BY <3>2 DEF Range
    <3>4. QED
      BY <3>1, <3>3, RowFields
  <2>6. QED
    BY <2>4, <2>5
<1>2. QED
  BY <1>1, Invariance, PTL DEF Spec, TrimsOldest
==============================================================================
