---------------------------- MODULE DetectionProofs ----------------------------
(***************************************************************************)
(* Proofs about what tells bad traffic: the model that learns, AnomalyModel, *)
(* for any threads, rows and trainings, and then the detectors with their    *)
(* limits, Detectors, for any suite, limits, windows and traffic.            *)
(***************************************************************************)
EXTENDS AnomalyModel, Detectors, SequenceTheorems, FiniteSetTheorems,
        WellFoundedInduction, TLAPS

-----------------------------------------------------------------------------
(* The inductive invariant.  Until trainings overlap, one web thread at most *)
(* is between the start of its fit and the end of its save, and every model  *)
(* it carries to the disk has its own statistics.                            *)

WebPlace == {"idle", "fit", "save", "read", "open", "dump"}
ReaderPlace == {"idle", "observe", "collect", "score"}

Shape(c) ==
    /\ c.at = "idle" => c = Idle
    /\ c.at = "fit" => c.result \in Training
    /\ c.at = "read" => c.model \in Trained
    /\ c.at \in {"open", "dump"} =>
          /\ c = [at |-> c.at, model |-> c.model, stats |-> c.stats]
          /\ c.model \in Trained /\ c.stats \in Trained

CallsOK ==
    /\ DOMAIN call = Thread
    /\ call = [t \in Thread |-> call[t]]
    /\ \A t \in Web : call[t].at \in WebPlace /\ Shape(call[t])
    /\ \A t \in Reader : call[t].at \in ReaderPlace
    /\ process = "down" => \A t \in Thread : call[t] = Idle

OneTraining ==
    ~overlapped => \A t, u \in Web : ~At(t, "idle") /\ ~At(u, "idle") => t = u

CarriesOwn ==
    ~overlapped =>
        \A t \in Web :
            /\ At(t, "read") => call[t].model = model
            /\ call[t].at \in {"open", "dump"} => call[t].model = call[t].stats

Inv ==
    /\ model \in Trained /\ stats \in Trained
    /\ fits \in 0..MaxTrainings /\ rows \in 0..Cap
    /\ disk \in Disk
    /\ CallsOK
    /\ OneTraining
    /\ CarriesOwn
    /\ ScoringHasModel
    /\ ExplainedByOwnTraining
    /\ SavedTogether

-----------------------------------------------------------------------------
LEMMA Members ==
    /\ Web \subseteq Thread /\ Reader \subseteq Thread /\ Thread = Web \cup Reader
    /\ Web \cap Reader = {}
BY AnomalyModelAssumption DEF Thread

LEMMA Nothing ==
    /\ None \notin Training /\ None \in Trained
    /\ Training \subseteq Trained
    /\ Idle.at = "idle"
BY AnomalyModelAssumption DEF None, Training, Trained, Idle

LEMMA OnDisk ==
    /\ Absent \in Disk /\ Torn \in Disk
    /\ Absent.model = None /\ Absent.stats = None
    /\ Torn.model = None /\ Torn.stats = None
    /\ \A m, s \in Trained :
          Pair(m, s) \in Disk /\ Pair(m, s).model = m /\ Pair(m, s).stats = s
    /\ \A d \in Disk : d.model \in Trained /\ d.stats \in Trained
BY Nothing DEF Absent, Torn, Disk, Pair

(* What a step of one thread leaves of the others.                           *)
LEMMA OneMoves ==
    ASSUME CallsOK, NEW t \in Thread, NEW next, Goto(t, next)
    PROVE  /\ DOMAIN call' = Thread /\ call' = [u \in Thread |-> call'[u]]
           /\ call'[t] = next
           /\ \A u \in Thread \ {t} : call'[u] = call[u]
BY DEF CallsOK, Goto
LEMMA WebMoves ==
    ASSUME CallsOK, NEW t \in Web, NEW next, Goto(t, next), process' = process,
           next.at \in WebPlace, Shape(next), process # "down" \/ call[t] # Idle
    PROVE  CallsOK'
<1>1. process' # "down"
  BY Members DEF CallsOK
<1>2. /\ \A u \in Web : call'[u].at \in WebPlace /\ Shape(call'[u])
      /\ \A u \in Reader : call'[u] = call[u]
  BY OneMoves, Members DEF CallsOK
<1>3. QED
  BY <1>1, <1>2, OneMoves, Members DEF CallsOK, Shape

LEMMA ReaderMoves ==
    ASSUME CallsOK, NEW t \in Reader, NEW next, Goto(t, next), process' = process,
           next.at \in ReaderPlace, process # "down" \/ call[t] # Idle
    PROVE  /\ CallsOK'
           /\ \A u \in Web : call'[u] = call[u]
           /\ \A u \in Reader \ {t} : call'[u] = call[u]
           /\ call'[t] = next
<1>1. process' # "down"
  BY Members DEF CallsOK
<1>2. /\ \A u \in Web : call'[u] = call[u]
      /\ \A u \in Reader : call'[u].at \in ReaderPlace
  BY OneMoves, Members DEF CallsOK
<1>3. QED
  BY <1>1, <1>2, OneMoves, Members DEF CallsOK, Shape

-----------------------------------------------------------------------------
(* Each action keeps the invariant.                                          *)

LEMMA LearningKeeps ==
    ASSUME Inv, NEW t \in Web, StartLearning(t) \/ StopLearning(t)
    PROVE  Inv'
<1>1. /\ model' = model /\ stats' = stats /\ disk' = disk /\ call' = call
      /\ process' = process /\ fits' = fits /\ overlapped' = overlapped /\ rows' \in 0..Cap
  BY AnomalyModelAssumption DEF StartLearning, StopLearning, ModelWhileLearning, Inv
<1>2. QED
  BY <1>1
  DEF Inv, CallsOK, Shape, OneTraining, CarriesOwn, ScoringHasModel, ExplainedByOwnTraining,
      SavedTogether, At

LEMMA TrainKeeps ==
    ASSUME Inv, NEW t \in Web, Train(t)
    PROVE  Inv'
<1> DEFINE result == [n |-> fits + 1, rows |-> rows]
           next == [at |-> "fit", result |-> result]
<1>1. /\ model' = model /\ stats' = stats /\ disk' = disk /\ rows' = rows
      /\ process' = process /\ process # "down" /\ call[t].at = "idle"
      /\ fits' \in 0..MaxTrainings
      /\ overlapped' = (overlapped \/ \E u \in Web \ {t} : ~At(u, "idle"))
      /\ Goto(t, next)
  BY AnomalyModelAssumption DEF Train, Inv, At
<1>2. result \in Training
  BY AnomalyModelAssumption DEF Train, Inv, Training
<1> HIDE DEF result
<1>3. next.at = "fit" /\ next.result = result
  OBVIOUS
<1> HIDE DEF next
<1>4. Shape(next) /\ next.at \in WebPlace
  BY <1>2, <1>3 DEF Shape, WebPlace
<1>5. CallsOK'
  BY <1>1, <1>4, WebMoves DEF Inv
<1>6. /\ call'[t] = next
      /\ \A u \in Thread \ {t} : call'[u] = call[u]
  BY <1>1, OneMoves, Members DEF Inv
<1>7. ~overlapped' => ~overlapped /\ \A u \in Web \ {t} : call[u].at = "idle"
  BY <1>1 DEF At
<1>8. OneTraining'
  BY <1>6, <1>7, Members DEF OneTraining, At
<1>9. CarriesOwn'
  BY <1>1, <1>3, <1>6, <1>7, Members DEF Inv, CarriesOwn, At
<1>10. ScoringHasModel' /\ ExplainedByOwnTraining' /\ SavedTogether'
  BY <1>1, <1>6, <1>7, Members DEF Inv, ScoringHasModel, ExplainedByOwnTraining, SavedTogether, At
<1>11. QED
  BY <1>1, <1>5, <1>8, <1>9, <1>10 DEF Inv

LEMMA InstallKeeps ==
    ASSUME Inv, NEW t \in Web, Install(t)
    PROVE  Inv'
<1>1. /\ model' = call[t].result /\ stats' = call[t].result
      /\ call[t].result \in Training
      /\ disk' = disk /\ rows' = rows /\ fits' = fits
      /\ process' = process /\ call[t].at = "fit" /\ call[t] # Idle
      /\ overlapped' = overlapped
      /\ Goto(t, [at |-> "save"])
  BY Nothing DEF Install, StatsAfter, Inv, CallsOK, Shape, At
<1>2. Shape([at |-> "save"]) /\ [at |-> "save"].at \in WebPlace
  BY DEF Shape, WebPlace
<1>3. CallsOK'
  BY <1>1, <1>2, WebMoves DEF Inv
<1>4. /\ call'[t].at = "save"
      /\ \A u \in Thread \ {t} : call'[u] = call[u]
  BY <1>1, OneMoves, Members DEF Inv
<1>5. OneTraining'
  BY <1>1, <1>4, Members DEF Inv, OneTraining, At
<1>6. CarriesOwn'
  BY <1>1, <1>4, Members DEF Inv, OneTraining, CarriesOwn, At
<1>7. ScoringHasModel' /\ ExplainedByOwnTraining' /\ SavedTogether'
  BY <1>1, Nothing DEF Inv, ScoringHasModel, ExplainedByOwnTraining, SavedTogether
<1>8. QED
  BY <1>1, <1>3, <1>5, <1>6, <1>7, Nothing DEF Inv

(* The steps of a save that leave the disk alone.                            *)
LEMMA ReadKeeps ==
    ASSUME Inv, NEW t \in Web, ReadModel(t) \/ ReadStats(t)
    PROVE  Inv'
<1> DEFINE read == [at |-> "read", model |-> model]
           opening == [at |-> "open", model |-> call[t].model, stats |-> stats]
<1>1. /\ UNCHANGED <<model, stats, disk, rows, fits, process, overlapped>>
      /\ \/ call[t].at = "save" /\ Goto(t, read)
         \/ call[t].at = "read" /\ Goto(t, opening)
  BY DEF ReadModel, ReadStats, At
<1>2. call[t] # Idle
  BY <1>1, Nothing
<1>3. PICK next : /\ Goto(t, next)
                  /\ \/ call[t].at = "save" /\ next = read
                     \/ call[t].at = "read" /\ next = opening
  BY <1>1
<1>4. /\ Shape(next)
      /\ \/ /\ call[t].at = "save" /\ next.at = "read" /\ next.model = model
         \/ /\ call[t].at = "read" /\ next.at = "open"
            /\ next.model = call[t].model /\ next.stats = stats
  <2>1. CASE call[t].at = "save" /\ next = read
    <3>1. next.at = "read" /\ next.model = model
      BY <2>1
    <3>2. QED
      BY <2>1, <3>1 DEF Shape, Inv
  <2>2. CASE call[t].at = "read" /\ next = opening
    <3>1. next.at = "open" /\ next.model = call[t].model /\ next.stats = stats
      BY <2>2
    <3>2. call[t].model \in Trained /\ stats \in Trained
      BY <2>2 DEF Inv, CallsOK, Shape
    <3>3. next = [at |-> next.at, model |-> next.model, stats |-> next.stats]
      BY <2>2, <3>1
    <3>4. QED
      BY <2>2, <3>1, <3>2, <3>3 DEF Shape
  <2>3. QED
    BY <1>3, <2>1, <2>2
<1> HIDE DEF read, opening
<1>5. next.at \in WebPlace
  BY <1>4 DEF WebPlace
<1>6. CallsOK'
  BY <1>1, <1>2, <1>3, <1>4, <1>5, WebMoves DEF Inv
<1>7. /\ call'[t] = next
      /\ \A u \in Thread \ {t} : call'[u] = call[u]
  BY <1>3, OneMoves, Members DEF Inv
<1>8. OneTraining'
  BY <1>1, <1>4, <1>7, Members DEF Inv, OneTraining, At
<1>9. CarriesOwn'
  BY <1>1, <1>4, <1>7, Members DEF Inv, CarriesOwn, ExplainedByOwnTraining, At
<1>10. ScoringHasModel' /\ ExplainedByOwnTraining' /\ SavedTogether'
  BY <1>1, <1>7, Members DEF Inv, ScoringHasModel, ExplainedByOwnTraining, SavedTogether, At
<1>11. QED
  BY <1>1, <1>6, <1>8, <1>9, <1>10 DEF Inv

LEMMA OpenKeeps ==
    ASSUME Inv, NEW t \in Web, Open(t)
    PROVE  Inv'
<1> DEFINE next == [call[t] EXCEPT !.at = "dump"]
<1>1. /\ UNCHANGED <<model, stats, rows, fits, process, overlapped>> /\ disk' = Torn
      /\ call[t].at = "open" /\ call[t] # Idle /\ Goto(t, next)
  BY Nothing DEF Open, At
<1>2. /\ next = [at |-> "dump", model |-> call[t].model, stats |-> call[t].stats]
      /\ call[t].model \in Trained /\ call[t].stats \in Trained
  <2>1. /\ call[t] = [at |-> "open", model |-> call[t].model, stats |-> call[t].stats]
        /\ call[t].model \in Trained /\ call[t].stats \in Trained
    BY <1>1 DEF Inv, CallsOK, Shape
  <2>2. QED
    BY <2>1
<1>3. next.at = "dump" /\ next.model = call[t].model /\ next.stats = call[t].stats
  BY <1>2
<1>4. Shape(next) /\ next.at \in WebPlace
  BY <1>2, <1>3 DEF Shape, WebPlace
<1> HIDE DEF next
<1>5. CallsOK'
  BY <1>1, <1>4, WebMoves DEF Inv
<1>6. /\ call'[t] = next
      /\ \A u \in Thread \ {t} : call'[u] = call[u]
  BY <1>1, OneMoves, Members DEF Inv
<1>7. OneTraining'
  BY <1>1, <1>3, <1>6, Members DEF Inv, OneTraining, At
<1>8. CarriesOwn'
  BY <1>1, <1>3, <1>6, Members DEF Inv, CarriesOwn, At
<1>9. ScoringHasModel' /\ ExplainedByOwnTraining' /\ SavedTogether'
  BY <1>1, <1>6, Members, OnDisk
  DEF Inv, ScoringHasModel, ExplainedByOwnTraining, SavedTogether, At
<1>10. QED
  BY <1>1, <1>5, <1>7, <1>8, <1>9, OnDisk DEF Inv

LEMMA DumpKeeps ==
    ASSUME Inv, NEW t \in Web, Dump(t) \/ DumpFails(t)
    PROVE  Inv'
<1>1. /\ UNCHANGED <<model, stats, rows, fits, process, overlapped>>
      /\ call[t].at = "dump" /\ call[t] # Idle /\ Goto(t, Idle)
      /\ disk' \in {Pair(call[t].model, call[t].stats), Torn, disk}
  BY Nothing DEF Dump, DumpFails, Dumped, At
<1>2. call[t].model \in Trained /\ call[t].stats \in Trained
  BY <1>1 DEF Inv, CallsOK, Shape
<1>3. disk' \in Disk
  BY <1>1, <1>2, OnDisk DEF Inv
<1>4. Shape(Idle) /\ Idle.at \in WebPlace
  BY DEF Shape, WebPlace, Idle
<1>5. CallsOK'
  BY <1>1, <1>4, WebMoves DEF Inv
<1>6. /\ call'[t].at = "idle"
      /\ \A u \in Thread \ {t} : call'[u] = call[u]
  BY <1>1, OneMoves, Members, Nothing DEF Inv
<1>7. OneTraining'
  BY <1>1, <1>6, Members DEF Inv, OneTraining, At
<1>8. CarriesOwn'
  BY <1>1, <1>6, Members DEF Inv, CarriesOwn, At
<1>9. ScoringHasModel' /\ ExplainedByOwnTraining'
  BY <1>1, <1>6, Members DEF Inv, ScoringHasModel, ExplainedByOwnTraining, At
<1>10. SavedTogether'
  BY <1>1, <1>2, OnDisk DEF Inv, CarriesOwn, SavedTogether
<1>11. QED
  BY <1>1, <1>3, <1>5, <1>7, <1>8, <1>9, <1>10 DEF Inv

LEMMA ReaderKeeps ==
    ASSUME Inv, NEW t \in Reader, Look(t) \/ Observe(t) \/ Collect(t) \/ Score(t)
    PROVE  Inv'
<1>1. PICK next :
        /\ UNCHANGED <<model, stats, disk, fits, process, overlapped>>
        /\ rows' \in 0..Cap
        /\ Goto(t, next) /\ next.at \in ReaderPlace
        /\ next.at = "score" => model # None
        /\ process # "down" \/ call[t] # Idle
  <2>1. CASE Look(t)
    BY <2>1 DEF Look, ReaderPlace, Inv
  <2>5. CASE Observe(t)
    BY <2>5, Nothing DEF Observe, ReaderPlace, Inv, At
  <2>2. CASE Collect(t)
    <3>1. rows' \in 0..Cap
      BY <2>2, AnomalyModelAssumption DEF Collect, HasRoom, Inv
    <3>2. QED
      BY <2>2, <3>1, Nothing DEF Collect, ReaderPlace, At
  <2>3. CASE Score(t)
    BY <2>3, Nothing DEF Score, ReaderPlace, Inv, At
  <2>4. QED
    BY <2>1, <2>2, <2>3, <2>5
<1>2. /\ CallsOK'
      /\ \A u \in Web : call'[u] = call[u]
      /\ \A u \in Reader \ {t} : call'[u] = call[u]
      /\ call'[t] = next
  BY <1>1, ReaderMoves DEF Inv
<1>3. OneTraining' /\ CarriesOwn'
  BY <1>1, <1>2 DEF Inv, OneTraining, CarriesOwn, At
<1>4. ScoringHasModel' /\ ExplainedByOwnTraining' /\ SavedTogether'
  BY <1>1, <1>2 DEF Inv, ScoringHasModel, ExplainedByOwnTraining, SavedTogether, At
<1>5. QED
  BY <1>1, <1>2, <1>3, <1>4 DEF Inv

LEMMA KillKeeps ==
    ASSUME Inv, Kill
    PROVE  Inv'
<1>1. /\ model' = None /\ stats' = None /\ rows' = 0 /\ process' = "down"
      /\ disk' = disk /\ fits' = fits /\ overlapped' = overlapped
      /\ call' = [t \in Thread |-> Idle]
  BY DEF Kill
<1>2. \A t \in Thread : call'[t] = Idle
  BY <1>1
<1>3. CallsOK'
  BY <1>1, <1>2, Members, Nothing DEF CallsOK, Shape, WebPlace, ReaderPlace
<1>4. OneTraining' /\ CarriesOwn' /\ ScoringHasModel'
  BY <1>2, Members, Nothing DEF OneTraining, CarriesOwn, ScoringHasModel, At
<1>5. QED
  BY <1>1, <1>3, <1>4, Nothing, AnomalyModelAssumption
  DEF Inv, ExplainedByOwnTraining, SavedTogether

(* A restart takes model and statistics from one file.                       *)
LEMMA StartKeeps ==
    ASSUME Inv, Start
    PROVE  Inv'
<1>1. /\ model' = disk.model /\ stats' = disk.stats
      /\ call' = call /\ process = "down" /\ process' = "up"
      /\ UNCHANGED <<rows, disk, fits, overlapped>>
  BY DEF Start
<1>2. \A t \in Thread : call[t] = Idle
  BY <1>1 DEF Inv, CallsOK
<1>3. CallsOK'
  BY <1>1 DEF Inv, CallsOK, Shape
<1>4. OneTraining' /\ CarriesOwn' /\ ScoringHasModel'
  BY <1>1, <1>2, Members, Nothing DEF OneTraining, CarriesOwn, ScoringHasModel, At
<1>5. QED
  BY <1>1, <1>3, <1>4, OnDisk DEF Inv, ExplainedByOwnTraining, SavedTogether

-----------------------------------------------------------------------------
THEOREM Invariance == Spec => []Inv
<1>1. Init => Inv
  <2> SUFFICES ASSUME Init PROVE Inv
    OBVIOUS
  <2>1. /\ \A t \in Thread : call[t] = Idle
        /\ call = [t \in Thread |-> call[t]]
        /\ process = "up"
    BY DEF Init
  <2>2. CallsOK
    BY <2>1, Members, Nothing DEF CallsOK, Shape, WebPlace, ReaderPlace
  <2>3. OneTraining /\ CarriesOwn /\ ScoringHasModel
    BY <2>1, Members, Nothing DEF OneTraining, CarriesOwn, ScoringHasModel, At
  <2>4. QED
    BY <2>2, <2>3, OnDisk, Nothing, AnomalyModelAssumption
    DEF Init, Inv, ExplainedByOwnTraining, SavedTogether
<1>2. Inv /\ [Next]_vars => Inv'
  <2> SUFFICES ASSUME Inv, [Next]_vars PROVE Inv'
    OBVIOUS
  <2>1. CASE UNCHANGED vars
    BY <2>1
    DEF vars, Inv, CallsOK, Shape, OneTraining, CarriesOwn, ScoringHasModel,
        ExplainedByOwnTraining, SavedTogether, At
  <2>2. QED
    BY <2>1, LearningKeeps, TrainKeeps, InstallKeeps, ReadKeeps, OpenKeeps, DumpKeeps,
       ReaderKeeps, KillKeeps, StartKeeps DEF Next
<1>3. QED
  BY <1>1, <1>2, PTL DEF Spec

(* ScoringHasModel, ExplainedByOwnTraining and SavedTogether are parts of    *)
(* the invariant.                                                            *)
THEOREM ReadyStaysReady == Spec => []ScoringHasModel
<1>1. Inv => ScoringHasModel
  BY DEF Inv
<1>2. QED
  BY <1>1, Invariance, PTL

THEOREM ExplainedTruly == Spec => []ExplainedByOwnTraining
<1>1. Inv => ExplainedByOwnTraining
  BY DEF Inv
<1>2. QED
  BY <1>1, Invariance, PTL

THEOREM SavedPairs == Spec => []SavedTogether
<1>1. Inv => SavedTogether
  BY DEF Inv
<1>2. QED
  BY <1>1, Invariance, PTL

-----------------------------------------------------------------------------
(* Least of a set of numbers, the end of a list.                             *)

LEMMA MinIs ==
    ASSUME NEW S \in SUBSET Nat, S # {}
    PROVE  Min(S) \in S /\ \A y \in S : Min(S) <= y
<1> DEFINE P(x) == x \in S /\ \A y \in S : x <= y
<1>1. \E x \in Nat : P(x)
  <2>1. IsWellFoundedOn(OpToRel(<, Nat), Nat)  BY NatLessThanWellFounded
  <2>2. PICK x \in S : \A y \in S : ~(<<y, x>> \in OpToRel(<, Nat))  BY <2>1, WFMin
  <2>3. \A y \in S : ~(y < x)  BY <2>2 DEF OpToRel
  <2> QED  BY <2>3
<1>2. P(CHOOSE x \in S : \A y \in S : x <= y)  BY <1>1
<1> QED  BY <1>2 DEF Min

LEMMA EndIs ==
    ASSUME NEW S, NEW q \in Seq(S), NEW m \in 1..Len(q)
    PROVE  /\ SubSeq(q, m, Len(q)) \in Seq(S)
           /\ Len(SubSeq(q, m, Len(q))) = Len(q) - m + 1
           /\ \A j \in 1..(Len(q) - m + 1) : SubSeq(q, m, Len(q))[j] = q[m + j - 1]
<1>1. Len(q) \in Nat /\ \A j \in 1..Len(q) : q[j] \in S  BY LenProperties, ElementOfSeq
<1>2. m \in Int /\ Len(q) \in Int /\ \A j \in m..Len(q) : q[j] \in S  BY <1>1
<1>3. /\ SubSeq(q, m, Len(q)) \in Seq(S)
      /\ Len(SubSeq(q, m, Len(q))) = (IF m <= Len(q) THEN Len(q) - m + 1 ELSE 0)
      /\ \A j \in 1..(Len(q) - m + 1) : SubSeq(q, m, Len(q))[j] = q[m + j - 1]
  BY <1>2, SubSeqProperties
<1> QED  BY <1>1, <1>3

-----------------------------------------------------------------------------
(* A window and the history.                                                 *)

Seen == [t : Time, pkt : Packet]

(* The packets of a history that a detector counts for a key.                *)
Counted(s, k, key) ==
    {i \in DOMAIN s : Watches(k, s[i].pkt) /\ KeyOf(k, s[i].pkt) = key}

(* The deque q holds, in order, the packets of R since the time c; at says   *)
(* where in the history each of its events is.                               *)
Tracks(q, s, R, c, at) ==
    /\ at \in [DOMAIN q -> DOMAIN s]
    /\ \A i, j \in DOMAIN q : i < j => at[i] < at[j]
    /\ \A j \in DOMAIN q : q[j].t = s[at[j]].t /\ q[j].value = s[at[j]].pkt.dport
    /\ \A j \in DOMAIN q : at[j] \in R /\ s[at[j]].t >= c
    /\ \A i \in R : s[i].t >= c => \E j \in DOMAIN q : at[j] = i

(* The clock does not step back.                                             *)
InTime(s) == \A i, j \in DOMAIN s : i <= j => s[i].t <= s[j].t

(* The packets of R since c, their ports, and the values of a deque.         *)
Since(s, R, c) == {i \in R : s[i].t >= c}
Hit(s, B) == {s[i].pkt.dport : i \in B}
Values(q) == {q[j].value : j \in DOMAIN q}

(* The count of a deque is that of the packets it tracks, and so are the     *)
(* values.                                                                   *)
LEMMA TracksCount ==
    ASSUME NEW q \in Seq(Event), NEW s \in Seq(Seen), NEW R \in SUBSET DOMAIN s,
           NEW c \in Int, NEW at, Tracks(q, s, R, c, at)
    PROVE  /\ Len(q) = Cardinality(Since(s, R, c))
           /\ Values(q) = Hit(s, Since(s, R, c))
<1> DEFINE B == {i \in R : s[i].t >= c}
           f == [j \in 1..Len(q) |-> at[j]]
<1>1. /\ Len(q) \in Nat /\ DOMAIN q = 1..Len(q)
      /\ Len(s) \in Nat /\ DOMAIN s = 1..Len(s)
  BY LenProperties
<1>2. \A j \in 1..Len(q) : at[j] \in B  BY <1>1 DEF Tracks
<1>3. \A i \in B : \E j \in 1..Len(q) : at[j] = i  BY <1>1 DEF Tracks
<1>4. \A i, j \in 1..Len(q) : at[i] = at[j] => i = j
  <2>1. ASSUME NEW i \in 1..Len(q), NEW j \in 1..Len(q), i < j
        PROVE  at[i] # at[j]
    <3>1. at[i] < at[j]  BY <1>1, <2>1 DEF Tracks
    <3>2. at[i] \in Nat /\ at[j] \in Nat  BY <1>1 DEF Tracks
    <3> QED  BY <3>1, <3>2
  <2> QED  BY <1>1, <2>1
<1> HIDE DEF B
<1>5. f \in Bijection(1..Len(q), B)
  <2>1. f \in [1..Len(q) -> B]  BY <1>2
  <2>2. \A i, j \in 1..Len(q) : f[i] = f[j] => i = j  BY <1>4
  <2>3. \A b \in B : \E j \in 1..Len(q) : f[j] = b  BY <1>3
  <2> HIDE DEF f
  <2> QED  BY <2>1, <2>2, <2>3 DEF Bijection, Injection, Surjection, IsInjective
<1>6. Len(q) = Cardinality(B)  BY <1>1, <1>5, FS_CountingElements DEF ExistsBijection
<1>7. \A j \in 1..Len(q) : q[j].value = s[at[j]].pkt.dport  BY <1>1 DEF Tracks
<1>8. {q[j].value : j \in 1..Len(q)} = {s[i].pkt.dport : i \in B}
  <2>1. \A j \in 1..Len(q) : q[j].value \in {s[i].pkt.dport : i \in B}  BY <1>2, <1>7
  <2>2. \A i \in B : s[i].pkt.dport \in {q[j].value : j \in 1..Len(q)}
    <3> TAKE i \in B
    <3>1. PICK j \in 1..Len(q) : at[j] = i  BY <1>3
    <3> QED  BY <1>7, <3>1
  <2> QED  BY <2>1, <2>2
<1> QED  BY <1>1, <1>6, <1>8 DEF B, Since, Hit, Values

(* add(): a deque that tracks the packets since c tracks, with one more      *)
(* packet and once the older ones are dropped, the packets since the cutoff. *)
LEMMA AddedTracks ==
    ASSUME NEW q \in Seq(Event), NEW s \in Seq(Seen), NEW R \in SUBSET DOMAIN s,
           NEW c \in Int, NEW at, Tracks(q, s, R, c, at),
           NEW e \in Event, NEW x \in Seen, x.t = e.t, x.pkt.dport = e.value,
           NEW cutoff \in Int, c <= cutoff, cutoff <= e.t,
           InTime(Append(s, x))
    PROVE  /\ Dropped(Append(q, e), cutoff) \in Seq(Event)
           /\ \E new : Tracks(Dropped(Append(q, e), cutoff), Append(s, x),
                              R \cup {Len(s) + 1}, cutoff, new)
<1> DEFINE l == Len(q)
           n == Len(s)
           w == Append(q, e)
           u == Append(s, x)
           fresh == {i \in DOMAIN w : w[i].t >= cutoff}
           m == Min(fresh)
<1>1. /\ l \in Nat /\ DOMAIN q = 1..l
      /\ n \in Nat /\ DOMAIN s = 1..n
  BY LenProperties
<1>2. /\ w \in Seq(Event) /\ Len(w) = l + 1 /\ DOMAIN w = 1..(l + 1)
      /\ \A j \in 1..l : w[j] = q[j]
      /\ w[l + 1] = e
  BY AppendProperties, LenProperties
<1>3. /\ u \in Seq(Seen) /\ DOMAIN u = 1..(n + 1)
      /\ \A i \in 1..n : u[i] = s[i]
      /\ u[n + 1] = x
  BY AppendProperties, LenProperties
<1> DEFINE pos == [j \in 1..(l + 1) |-> IF j <= l THEN at[j] ELSE n + 1]
<1>4. Dropped(Append(q, e), cutoff) = SubSeq(w, m, Len(w))  BY DEF Dropped
<1> HIDE DEF l, n, w, u, m
<1>5. /\ \A j \in 1..l : pos[j] = at[j] /\ at[j] \in 1..n
      /\ pos[l + 1] = n + 1
  BY <1>1 DEF Tracks
<1> HIDE DEF pos
<1>6. \A j \in 1..(l + 1) : /\ pos[j] \in 1..(n + 1)
                            /\ w[j].t = u[pos[j]].t /\ w[j].value = u[pos[j]].pkt.dport
  <2>1. ASSUME NEW j \in 1..l
        PROVE  /\ pos[j] \in 1..(n + 1)
               /\ w[j].t = u[pos[j]].t /\ w[j].value = u[pos[j]].pkt.dport
    <3>1. pos[j] = at[j] /\ at[j] \in 1..n  BY <1>5
    <3>2. q[j].t = s[at[j]].t /\ q[j].value = s[at[j]].pkt.dport  BY <1>1 DEF Tracks
    <3> QED  BY <1>1, <1>2, <1>3, <3>1, <3>2
  <2>2. /\ pos[l + 1] \in 1..(n + 1)
        /\ w[l + 1].t = u[pos[l + 1]].t /\ w[l + 1].value = u[pos[l + 1]].pkt.dport
    BY <1>1, <1>2, <1>3, <1>5
  <2> QED  BY <1>1, <2>1, <2>2
<1>7. \A i, j \in 1..(l + 1) : i < j => pos[i] < pos[j]
  <2> TAKE i, j \in 1..(l + 1)
  <2> HAVE i < j
  <2>1. CASE j = l + 1
    <3>1. i \in 1..l /\ at[i] \in 1..n /\ pos[i] = at[i]  BY <1>1, <1>5, <2>1
    <3> QED  BY <1>1, <1>5, <2>1, <3>1
  <2>2. CASE j # l + 1
    <3>1. i \in DOMAIN q /\ j \in DOMAIN q /\ i \in 1..l /\ j \in 1..l  BY <1>1, <2>2
    <3>2. at[i] < at[j]  BY <3>1 DEF Tracks
    <3> QED  BY <1>5, <3>1, <3>2
  <2> QED  BY <2>1, <2>2
<1>8. \A j \in 1..(l + 1) : w[j].t \in Int
  <2> TAKE j \in 1..(l + 1)
  <2>1. w[j] \in Event  BY <1>2, ElementOfSeq
  <2> QED  BY <2>1 DEF Event, Time
<1>9. /\ m \in 1..(l + 1) /\ w[m].t >= cutoff
      /\ \A j \in 1..(l + 1) : w[j].t >= cutoff => m <= j
  <2>1. fresh \in SUBSET Nat /\ l + 1 \in fresh  BY <1>1, <1>2
  <2>2. m \in fresh /\ \A y \in fresh : m <= y  BY <2>1, MinIs DEF m
  <2> QED  BY <1>2, <2>2
<1>10. \A j \in m..(l + 1) : w[j].t >= cutoff
  <2> TAKE j \in m..(l + 1)
  <2>1. j \in 1..(l + 1)  BY <1>1, <1>9
  <2>2. pos[m] <= pos[j]  BY <1>6, <1>7, <1>9, <2>1
  <2>3. u[pos[m]].t <= u[pos[j]].t  BY <1>3, <1>6, <1>9, <2>1, <2>2 DEF InTime, u
  <2> QED  BY <1>6, <1>8, <1>9, <2>1, <2>3
<1> DEFINE v == SubSeq(w, m, Len(w))
           new == [j \in 1..(l + 2 - m) |-> pos[m + j - 1]]
<1>11. /\ v \in Seq(Event) /\ DOMAIN v = 1..(l + 2 - m)
       /\ \A j \in 1..(l + 2 - m) : v[j] = w[m + j - 1]
  <2>1. m \in 1..Len(w)  BY <1>2, <1>9
  <2>2. /\ v \in Seq(Event)
        /\ Len(v) = Len(w) - m + 1
        /\ \A j \in 1..(Len(w) - m + 1) : v[j] = w[m + j - 1]
    BY <1>2, <2>1, EndIs
  <2>3. Len(w) - m + 1 = l + 2 - m  BY <1>1, <1>2, <1>9
  <2> HIDE DEF v
  <2> QED  BY <2>2, <2>3, LenProperties
<1>12. \A j \in 1..(l + 2 - m) : m + j - 1 \in m..(l + 1) /\ m + j - 1 \in 1..(l + 1)
  BY <1>1, <1>9
<1>13. \A j \in 1..(l + 2 - m) : new[j] = pos[m + j - 1]  OBVIOUS
<1> HIDE DEF v, new
<1> DEFINE Q == R \cup {n + 1}
<1>14. \A j \in 1..(l + 2 - m) : new[j] \in 1..(n + 1)  BY <1>6, <1>12, <1>13
<1>15. \A i, j \in 1..(l + 2 - m) : i < j => new[i] < new[j]
  <2> TAKE i, j \in 1..(l + 2 - m)
  <2> HAVE i < j
  <2>1. m + i - 1 < m + j - 1  BY <1>1, <1>9
  <2> QED  BY <1>7, <1>12, <1>13, <2>1
<1>16. \A j \in 1..(l + 2 - m) : v[j].t = u[new[j]].t /\ v[j].value = u[new[j]].pkt.dport
  BY <1>6, <1>11, <1>12, <1>13
<1>17. \A j \in 1..(l + 2 - m) : new[j] \in Q /\ u[new[j]].t >= cutoff
  <2> TAKE j \in 1..(l + 2 - m)
  <2> DEFINE i == m + j - 1
  <2>1. i \in m..(l + 1) /\ i \in 1..(l + 1) /\ new[j] = pos[i]  BY <1>12, <1>13
  <2> HIDE DEF i
  <2>2. u[pos[i]].t >= cutoff  BY <1>6, <1>10, <2>1
  <2>3. pos[i] \in Q
    <3>1. CASE i \in 1..l
      <4>1. at[i] \in R  BY <1>1, <3>1 DEF Tracks
      <4> QED  BY <1>5, <3>1, <4>1
    <3>2. CASE i = l + 1  BY <1>5, <3>2
    <3> QED  BY <1>1, <2>1, <3>1, <3>2
  <2> QED  BY <2>1, <2>2, <2>3
<1>18. \A i \in Q : u[i].t >= cutoff => \E j \in 1..(l + 2 - m) : new[j] = i
  <2> TAKE i \in Q
  <2> HAVE u[i].t >= cutoff
  <2>1. \E j \in 1..(l + 1) : pos[j] = i /\ w[j].t >= cutoff
    <3>1. CASE i = n + 1
      <4>1. l + 1 \in 1..(l + 1)  BY <1>1
      <4> QED  BY <1>5, <1>6, <3>1, <4>1
    <3>2. CASE i \in R
      <4>1. i \in 1..n /\ u[i] = s[i]  BY <1>1, <1>3, <3>2
      <4>2. s[i] \in Seen  BY <4>1, ElementOfSeq DEF n
      <4>3. s[i].t \in Int  BY <4>2 DEF Seen, Time
      <4>4. s[i].t >= c  BY <4>1, <4>3
      <4>5. PICK j \in 1..l : at[j] = i  BY <1>1, <3>2, <4>4 DEF Tracks
      <4>6. j \in 1..(l + 1) /\ pos[j] = i  BY <1>1, <1>5, <4>5
      <4> QED  BY <1>6, <4>6
    <3> QED  BY <3>1, <3>2
  <2>2. PICK j \in 1..(l + 1) : pos[j] = i /\ w[j].t >= cutoff  BY <2>1
  <2>3. m <= j  BY <1>9, <2>2
  <2>4. j - m + 1 \in 1..(l + 2 - m) /\ m + (j - m + 1) - 1 = j  BY <1>1, <1>9, <2>3
  <2>5. new[j - m + 1] = pos[j]  BY <1>13, <2>4
  <2> QED  BY <2>2, <2>4, <2>5
<1>19. Tracks(v, u, Q, cutoff, new)
  <2>1. new \in [DOMAIN v -> DOMAIN u]  BY <1>3, <1>11, <1>14 DEF new
  <2>2. \A i, j \in DOMAIN v : i < j => new[i] < new[j]  BY <1>11, <1>15
  <2>3. \A j \in DOMAIN v : v[j].t = u[new[j]].t /\ v[j].value = u[new[j]].pkt.dport
    BY <1>11, <1>16
  <2>4. \A j \in DOMAIN v : new[j] \in Q /\ u[new[j]].t >= cutoff  BY <1>11, <1>17
  <2>5. \A i \in Q : u[i].t >= cutoff => \E j \in DOMAIN v : new[j] = i  BY <1>11, <1>18
  <2> HIDE DEF Q
  <2> QED  BY <2>1, <2>2, <2>3, <2>4, <2>5 DEF Tracks
<1> QED  BY <1>4, <1>11, <1>19 DEF v, u, n

(* What a deque tracks it still tracks when a packet of another key arrives. *)
LEMMA TracksStay ==
    ASSUME NEW q \in Seq(Event), NEW s \in Seq(Seen), NEW R \in SUBSET DOMAIN s,
           NEW c \in Int, NEW at, Tracks(q, s, R, c, at), NEW x \in Seen
    PROVE  Tracks(q, Append(s, x), R, c, at)
<1>1. /\ DOMAIN s \subseteq DOMAIN Append(s, x)
      /\ \A i \in DOMAIN s : Append(s, x)[i] = s[i]
  BY AppendProperties, LenProperties
<1>2. at \in [DOMAIN q -> DOMAIN s]  BY DEF Tracks
<1>3. \A j \in DOMAIN q : at[j] \in DOMAIN s  BY <1>2
<1> QED  BY <1>1, <1>2, <1>3 DEF Tracks

LEMMA CountedAppend ==
    ASSUME NEW s \in Seq(Seen), NEW x \in Seen, NEW k, NEW key
    PROVE  /\ Counted(s, k, key) \in SUBSET DOMAIN s
           /\ Counted(Append(s, x), k, key) =
                Counted(s, k, key) \cup
                {i \in {Len(s) + 1} : Watches(k, x.pkt) /\ KeyOf(k, x.pkt) = key}
<1>1. /\ Len(s) \in Nat /\ DOMAIN s = 1..Len(s)
      /\ DOMAIN Append(s, x) = 1..(Len(s) + 1)
      /\ \A i \in 1..Len(s) : Append(s, x)[i] = s[i]
      /\ Append(s, x)[Len(s) + 1] = x
  BY AppendProperties, LenProperties
<1>2. 1..(Len(s) + 1) = 1..Len(s) \cup {Len(s) + 1} /\ Len(s) + 1 \notin 1..Len(s)
  BY <1>1
<1> QED  BY <1>1, <1>2 DEF Counted

LEMMA KeyIsKey ==
    ASSUME NEW pkt \in Packet, NEW k
    PROVE  KeyOf(k, pkt) \in Key
BY DEF KeyOf, Key, Packet

-----------------------------------------------------------------------------
(* The inductive invariant.                                                  *)

Types ==
    /\ DetectorTypeOK
    /\ events \in [Kind -> [Key -> Seq(Event)]]
    /\ Len(seen) <= MaxPackets

(* The history is in order, up to now.                                       *)
HistoryInTime == InTime(seen) /\ \A i \in DOMAIN seen : seen[i].t <= now

(* Every deque tracks the packets of its key, at least those of a window.    *)
Tracked(k, key) ==
    \E c \in (0 - Window[k])..(now - Window[k]) :
        \E at \in [DOMAIN events[k][key] -> DOMAIN seen] :
            Tracks(events[k][key], seen, Counted(seen, k, key), c, at)
DequesTrack == \A k \in Kind, key \in Key : Tracked(k, key)

(* What silences a detector is an alert that was raised.                     *)
FiredIsAlert ==
    \A k \in Kind, key \in Key : fired[k][key] # Never =>
        /\ fired[k][key] <= now
        /\ \E a \in alerts : a.kind = k /\ a.key = key /\ a.t = fired[k][key]

AlertsSeen == \A a \in alerts : a.n \in DOMAIN seen

DetectorInv ==
    /\ Types
    /\ HistoryInTime
    /\ DequesTrack
    /\ FiredIsAlert
    /\ AlertsSeen
    /\ BurstIsAlerted
    /\ AlertIsJustified

LEMMA DetectorInitInv == DetectorInit => DetectorInv
<1> SUFFICES ASSUME DetectorInit PROVE DetectorInv  OBVIOUS
<1>1. /\ seen = <<>> /\ now = 0 /\ alerts = {}
      /\ events = [k \in Kind |-> [key \in Key |-> <<>>]]
      /\ fired = [k \in Kind |-> [key \in Key |-> Never]]
  BY DEF DetectorInit
<1>2. DOMAIN seen = {} /\ Len(seen) = 0  BY <1>1
<1>3. Types  BY <1>1, DetectorsAssumption DEF Types, DetectorTypeOK, Time, Never
<1>4. HistoryInTime  BY <1>2 DEF HistoryInTime, InTime
<1>5. DequesTrack
  <2> SUFFICES ASSUME NEW k \in Kind, NEW key \in Key PROVE Tracked(k, key)
    BY DEF DequesTrack
  <2>1. events[k][key] = <<>>  BY <1>1
  <2>2. 0 - Window[k] \in (0 - Window[k])..(now - Window[k])
    BY <1>1, DetectorsAssumption
  <2>3. <<>> \in [DOMAIN events[k][key] -> DOMAIN seen]  BY <1>2, <2>1
  <2>4. Tracks(events[k][key], seen, Counted(seen, k, key), 0 - Window[k], <<>>)
    BY <1>2, <2>1, <2>3 DEF Tracks, Counted
  <2> QED  BY <2>2, <2>3, <2>4 DEF Tracked
<1>6. FiredIsAlert  BY <1>1 DEF FiredIsAlert
<1>7. AlertsSeen /\ AlertIsJustified  BY <1>1 DEF AlertsSeen, AlertIsJustified
<1>8. BurstIsAlerted  BY <1>2 DEF BurstIsAlerted
<1> QED  BY <1>3, <1>4, <1>5, <1>6, <1>7, <1>8 DEF DetectorInv

-----------------------------------------------------------------------------
(* A packet arrives.                                                         *)

(* It is the last of the history, which stays in order.                      *)
LEMMA Arrival ==
    ASSUME DetectorInv, NEW pkt \in Traffic, Inspect(pkt)
    PROVE  LET x == [t |-> now, pkt |-> pkt]
               last == Len(seen) + 1
           IN  /\ pkt \in Packet /\ x \in Seen /\ seen \in Seq(Seen)
               /\ seen' = Append(seen, x) /\ seen' \in Seq(Seen)
               /\ DOMAIN seen = 1..Len(seen) /\ Len(seen) \in Nat
               /\ DOMAIN seen' = 1..last /\ Len(seen') = last /\ last <= MaxPackets
               /\ \A i \in 1..Len(seen) : seen'[i] = seen[i]
               /\ seen'[last] = x
               /\ HistoryInTime'
<1> DEFINE x == [t |-> now, pkt |-> pkt]
           last == Len(seen) + 1
<1>1. pkt \in Packet /\ x \in Seen /\ seen \in Seq(Seen) /\ now \in Time
  BY DetectorsAssumption DEF DetectorInv, Types, DetectorTypeOK, Seen
<1>2. seen' = Append(seen, x) /\ now' = now /\ Len(seen) < MaxPackets  BY DEF Inspect
<1> HIDE DEF x
<1>3. /\ seen' \in Seq(Seen) /\ Len(seen') = last
      /\ DOMAIN seen = 1..Len(seen) /\ Len(seen) \in Nat
      /\ DOMAIN seen' = 1..last
      /\ \A i \in 1..Len(seen) : seen'[i] = seen[i]
      /\ seen'[last] = x
  BY <1>1, <1>2, AppendProperties, LenProperties
<1>4. last <= MaxPackets  BY <1>2, <1>3, DetectorsAssumption
<1>5. \A i \in DOMAIN seen : seen[i].t <= now  BY DEF DetectorInv, HistoryInTime
<1>6. \A i, j \in DOMAIN seen : i <= j => seen[i].t <= seen[j].t
  BY DEF DetectorInv, HistoryInTime, InTime
<1>7. x.t = now  BY DEF x
<1>8. \A i \in DOMAIN seen' : seen'[i].t <= now'
  <2> SUFFICES ASSUME NEW i \in 1..last PROVE seen'[i].t <= now  BY <1>2, <1>3
  <2>1. CASE i = last  BY <1>1, <1>3, <1>7, <2>1 DEF Time
  <2>2. CASE i # last  BY <1>3, <1>5, <2>2
  <2> QED  BY <2>1, <2>2
<1>9. InTime(seen')
  <2> SUFFICES ASSUME NEW i \in 1..last, NEW j \in 1..last, i <= j
               PROVE  seen'[i].t <= seen'[j].t
    BY <1>3 DEF InTime
  <2>1. CASE j = last  BY <1>2, <1>3, <1>7, <1>8, <2>1
  <2>2. CASE j # last
    <3>1. i \in 1..Len(seen) /\ j \in 1..Len(seen)  BY <1>3, <2>2
    <3> QED  BY <1>3, <1>6, <3>1
  <2> QED  BY <2>1, <2>2
<1> QED  BY <1>1, <1>2, <1>3, <1>4, <1>8, <1>9 DEF x, HistoryInTime

(* The deque of its key gets the packet and tracks the window that ends now. *)
LEMMA AddedIs ==
    ASSUME DetectorInv, NEW pkt \in Traffic, Inspect(pkt), NEW k \in Kind, Watches(k, pkt)
    PROVE  LET key == KeyOf(k, pkt)
           IN  /\ Added(k, pkt) \in Seq(Event)
               /\ \E at : Tracks(Added(k, pkt), seen', Counted(seen', k, key),
                                 now - Window[k], at)
<1> DEFINE x == [t |-> now, pkt |-> pkt]
           key == KeyOf(k, pkt)
           q == events[k][key]
           R == Counted(seen, k, key)
           e == NewEvent(pkt)
           cutoff == now - Window[k]
<1>1. /\ pkt \in Packet /\ x \in Seen /\ seen \in Seq(Seen)
      /\ seen' = Append(seen, x) /\ InTime(seen')
  BY Arrival DEF HistoryInTime
<1>2. key \in Key  BY <1>1, KeyIsKey
<1>3. now \in Nat /\ now \in Time /\ Window[k] \in Nat /\ Window[k] > 0
  BY DetectorsAssumption DEF DetectorInv, Types, DetectorTypeOK, Time
<1>4. q \in Seq(Event)  BY <1>2 DEF DetectorInv, Types
<1>5. e \in Event /\ e.t = now /\ e.value = pkt.dport
  BY <1>1, <1>3 DEF NewEvent, Event, Packet
<1>6. PICK c \in (0 - Window[k])..(now - Window[k]) :
        \E at \in [DOMAIN q -> DOMAIN seen] : Tracks(q, seen, R, c, at)
  BY <1>2 DEF DetectorInv, DequesTrack, Tracked
<1> PICK at \in [DOMAIN q -> DOMAIN seen] : Tracks(q, seen, R, c, at)  BY <1>6
<1>7. /\ R \in SUBSET DOMAIN seen
      /\ Counted(seen', k, key) = R \cup {Len(seen) + 1}
  BY <1>1, CountedAppend
<1>8. x.t = now /\ x.pkt.dport = e.value  BY <1>5
<1>9. Added(k, pkt) = Dropped(Append(q, e), cutoff)  BY DEF Added
<1>10. c \in Int /\ cutoff \in Int /\ c <= cutoff /\ cutoff <= e.t  BY <1>3, <1>5, <1>6
<1> HIDE DEF x, key, q, R, e, cutoff
<1>11. /\ Dropped(Append(q, e), cutoff) \in Seq(Event)
       /\ \E new : Tracks(Dropped(Append(q, e), cutoff), Append(seen, x),
                          R \cup {Len(seen) + 1}, cutoff, new)
  BY <1>1, <1>4, <1>5, <1>6, <1>7, <1>8, <1>10, AddedTracks
<1> QED  BY <1>1, <1>7, <1>9, <1>11 DEF key, cutoff

(* So a detector fires exactly when the history has a burst, unless silenced.*)
LEMMA MeasureIsBurst ==
    ASSUME DetectorInv, NEW pkt \in Traffic, Inspect(pkt), NEW k \in Kind, Watches(k, pkt)
    PROVE  (Measure(k, Added(k, pkt)) >= Limit[k]) <=> Reached(k, KeyOf(k, pkt), Len(seen))'
<1> DEFINE key == KeyOf(k, pkt)
           q == Added(k, pkt)
           R == Counted(seen', k, key)
           B == Since(seen', R, now - Window[k])
<1>1. PICK at : Tracks(q, seen', R, now - Window[k], at)  BY AddedIs
<1>2. q \in Seq(Event)  BY AddedIs
<1>3. now - Window[k] \in Int  BY DetectorsAssumption DEF DetectorInv, Types, DetectorTypeOK, Time
<1>4. R \in SUBSET DOMAIN seen'  BY DEF Counted
<1>5. /\ seen' \in Seq(Seen) /\ DOMAIN seen' = 1..Len(seen')
      /\ seen'[Len(seen')] = [t |-> now, pkt |-> pkt]
  BY Arrival
<1>6. B = {i \in 1..Len(seen') : /\ Watches(k, seen'[i].pkt)
                                 /\ KeyOf(k, seen'[i].pkt) = key
                                 /\ seen'[i].t >= seen'[Len(seen')].t - Window[k]}
  BY <1>5 DEF Counted, Since
<1> HIDE DEF R, q
<1> HIDE DEF key
<1>7. seen' \in Seq(Seen)  BY <1>5
<1>8. Len(q) = Cardinality(B) /\ Values(q) = Hit(seen', B)
  BY <1>1, <1>2, <1>3, <1>4, <1>7, TracksCount
<1> HIDE DEF B
<1>9. Reached(k, key, Len(seen))' <=>
        Limit[k] <= IF k = "portscan" THEN Cardinality(Hit(seen', B)) ELSE Cardinality(B)
  BY <1>6 DEF Reached, Burst, Hit
<1>10. Measure(k, q) = IF k = "portscan" THEN Cardinality(Hit(seen', B)) ELSE Cardinality(B)
  BY <1>8 DEF Measure, Values
<1>11. (Measure(k, q) >= Limit[k]) <=> (Limit[k] <= Measure(k, q))  OBVIOUS
<1> QED  BY <1>9, <1>10, <1>11 DEF key, q

LEMMA ReachedBefore ==
    ASSUME DetectorInv, NEW pkt \in Traffic, Inspect(pkt), NEW k, NEW key, NEW n \in DOMAIN seen
    PROVE  Reached(k, key, n)' <=> Reached(k, key, n)
<1>1. \A i \in 1..n : seen'[i] = seen[i]
  <2>1. n \in 1..Len(seen) /\ Len(seen) \in Nat  BY Arrival
  <2>2. \A i \in 1..n : i \in 1..Len(seen)  BY <2>1
  <2> QED  BY <2>2, Arrival
<1>2. n \in 1..n
  <2>1. n \in 1..Len(seen) /\ Len(seen) \in Nat  BY Arrival
  <2> QED  BY <2>1
<1>3. Burst(k, key, n)' = Burst(k, key, n)  BY <1>1, <1>2 DEF Burst
<1>4. Burst(k, key, n) \subseteq 1..n  BY DEF Burst
<1>5. {seen'[i].pkt.dport : i \in Burst(k, key, n)} = {seen[i].pkt.dport : i \in Burst(k, key, n)}
  BY <1>1, <1>4
<1> HIDE DEF Burst
<1> QED  BY <1>3, <1>5 DEF Reached

(* What the packet changes of a detector, and what it does not.              *)
LEMMA AfterInspect ==
    ASSUME DetectorInv, NEW pkt \in Traffic, Inspect(pkt), NEW k \in Kind
    PROVE  LET own == KeyOf(k, pkt)
           IN  /\ own \in Key
               /\ events'[k] \in [Key -> Seq(Event)]
               /\ Watches(k, pkt) => events'[k][own] = Added(k, pkt)
               /\ \A key \in Key : ~(Watches(k, pkt) /\ key = own)
                                     => events'[k][key] = events[k][key]
               /\ fired'[k] \in [Key -> Time \cup {Never}]
               /\ Fires(k, pkt) => fired'[k][own] = now
               /\ \A key \in Key : ~(Fires(k, pkt) /\ key = own)
                                     => fired'[k][key] = fired[k][key]
<1> DEFINE own == KeyOf(k, pkt)
<1>1. pkt \in Packet  BY Arrival
<1>2. own \in Key  BY <1>1, KeyIsKey
<1>3. events[k] \in [Key -> Seq(Event)] /\ fired[k] \in [Key -> Time \cup {Never}] /\ now \in Time
  BY DEF DetectorInv, Types, DetectorTypeOK
<1>4. /\ events'[k] = IF Watches(k, pkt) THEN [events[k] EXCEPT ![own] = Added(k, pkt)]
                      ELSE events[k]
      /\ fired'[k] = IF Fires(k, pkt) THEN [fired[k] EXCEPT ![own] = now] ELSE fired[k]
  BY DEF Inspect
<1>5. Watches(k, pkt) => Added(k, pkt) \in Seq(Event)  BY AddedIs
<1> HIDE DEF own
<1> QED  BY <1>2, <1>3, <1>4, <1>5 DEF own

LEMMA InspectInv ==
    ASSUME DetectorInv, NEW pkt \in Traffic, Inspect(pkt)
    PROVE  DetectorInv'
<1> DEFINE own(k) == KeyOf(k, pkt)
           last == Len(seen) + 1
           new(k) == [kind |-> k, key |-> own(k), t |-> now, n |-> last]
<1>1. /\ now' = now /\ now \in Time /\ now \in Nat
      /\ \A k \in Kind : Window[k] \in Nat /\ Window[k] > 0
  BY DetectorsAssumption DEF DetectorInv, Types, DetectorTypeOK, Time, Inspect
<1>2. /\ pkt \in Packet /\ seen \in Seq(Seen) /\ seen' \in Seq(Seen)
      /\ seen' = Append(seen, [t |-> now, pkt |-> pkt]) /\ [t |-> now, pkt |-> pkt] \in Seen
      /\ DOMAIN seen = 1..Len(seen) /\ Len(seen) \in Nat
      /\ DOMAIN seen' = 1..last /\ Len(seen') = last /\ last <= MaxPackets
      /\ \A i \in 1..Len(seen) : seen'[i] = seen[i]
      /\ seen'[last].t = now /\ seen'[last].pkt = pkt
      /\ HistoryInTime'
  BY Arrival
<1>3. alerts' = alerts \cup {new(k) : k \in {d \in Kind : Fires(d, pkt)}}
  BY DEF Inspect
<1>4. /\ \A a \in alerts : a \in alerts'
      /\ \A k \in Kind : Fires(k, pkt) => new(k) \in alerts'
      /\ \A a \in alerts' \ alerts : \E k \in Kind : Fires(k, pkt) /\ a = new(k)
  BY <1>3
<1>5. \A k \in Kind : own(k) \in Key  BY <1>2, KeyIsKey
<1>6. Types'
  <2>1. events' \in [Kind -> [Key -> Seq(Event)]]
    <3>1. \A k \in Kind : events'[k] \in [Key -> Seq(Event)]  BY AfterInspect
    <3>2. events' = [k \in Kind |-> events'[k]]  BY DEF Inspect
    <3> QED  BY <3>1, <3>2
  <2>2. fired' \in [Kind -> [Key -> Time \cup {Never}]]
    <3>1. \A k \in Kind : fired'[k] \in [Key -> Time \cup {Never}]  BY AfterInspect
    <3>2. fired' = [k \in Kind |-> fired'[k]]  BY DEF Inspect
    <3> QED  BY <3>1, <3>2
  <2>3. alerts' \subseteq Alert
    <3>1. alerts \subseteq Alert  BY DEF DetectorInv, Types, DetectorTypeOK
    <3>2. ASSUME NEW k \in Kind PROVE new(k) \in Alert
      <4>1. last \in 1..MaxPackets  BY <1>2, DetectorsAssumption
      <4> QED  BY <1>1, <1>5, <4>1 DEF Alert
    <3> HIDE DEF new
    <3> QED  BY <1>4, <3>1, <3>2
  <2> QED  BY <1>1, <1>2, <2>1, <2>2, <2>3 DEF Types, DetectorTypeOK, Seen
<1>7. DequesTrack'
  <2> SUFFICES ASSUME NEW k \in Kind, NEW key \in Key PROVE Tracked(k, key)'
    BY DEF DequesTrack
  <2> DEFINE q == events'[k][key]
             R == Counted(seen', k, key)
  <2>1. ASSUME NEW c \in (0 - Window[k])..(now - Window[k]), NEW at, Tracks(q, seen', R, c, at)
        PROVE  Tracked(k, key)'
    <3>1. at \in [DOMAIN q -> DOMAIN seen']  BY <2>1 DEF Tracks
    <3> QED  BY <1>1, <2>1, <3>1 DEF Tracked
  <2>2. CASE Watches(k, pkt) /\ key = own(k)
    <3>1. q = Added(k, pkt)  BY <2>2, AfterInspect
    <3>2. PICK at : Tracks(Added(k, pkt), seen', R, now - Window[k], at)  BY <2>2, AddedIs
    <3>3. now - Window[k] \in (0 - Window[k])..(now - Window[k])  BY <1>1
    <3> QED  BY <2>1, <3>1, <3>2, <3>3
  <2>3. CASE ~(Watches(k, pkt) /\ key = own(k))
    <3>1. q = events[k][key]  BY <2>3, AfterInspect
    <3>2. PICK c \in (0 - Window[k])..(now - Window[k]) :
            \E at \in [DOMAIN events[k][key] -> DOMAIN seen] :
                Tracks(events[k][key], seen, Counted(seen, k, key), c, at)
      BY DEF DetectorInv, DequesTrack, Tracked
    <3> PICK at \in [DOMAIN events[k][key] -> DOMAIN seen] :
            Tracks(events[k][key], seen, Counted(seen, k, key), c, at)
      BY <3>2
    <3>3. R = Counted(seen, k, key) /\ R \in SUBSET DOMAIN seen
      <4> DEFINE x == [t |-> now, pkt |-> pkt]
      <4>1. x \in Seen /\ x.pkt = pkt /\ seen \in Seq(Seen) /\ seen' = Append(seen, x)
        BY <1>2
      <4> HIDE DEF x
      <4>2. /\ Counted(seen, k, key) \in SUBSET DOMAIN seen
            /\ R = Counted(seen, k, key) \cup
                     {i \in {Len(seen) + 1} : Watches(k, x.pkt) /\ KeyOf(k, x.pkt) = key}
        BY <4>1, CountedAppend
      <4> QED  BY <2>3, <4>1, <4>2
    <3>4. events[k][key] \in Seq(Event) /\ c \in Int  BY <1>1 DEF DetectorInv, Types
    <3>5. Tracks(events[k][key], seen', R, c, at)
      BY <1>2, <3>2, <3>3, <3>4, TracksStay
    <3> QED  BY <2>1, <3>1, <3>2, <3>5
  <2> QED  BY <2>2, <2>3
<1>8. FiredIsAlert'
  <2> SUFFICES ASSUME NEW k \in Kind, NEW key \in Key, fired'[k][key] # Never
               PROVE  /\ fired'[k][key] <= now
                      /\ \E a \in alerts' : a.kind = k /\ a.key = key /\ a.t = fired'[k][key]
    BY <1>1 DEF FiredIsAlert
  <2>1. CASE Fires(k, pkt) /\ key = own(k)
    <3>1. fired'[k][key] = now  BY <2>1, AfterInspect
    <3>2. new(k) \in alerts'  BY <1>4, <2>1
    <3>3. new(k).kind = k /\ new(k).key = key /\ new(k).t = now  BY <2>1
    <3> QED  BY <1>1, <3>1, <3>2, <3>3
  <2>2. CASE ~(Fires(k, pkt) /\ key = own(k))
    <3>1. fired'[k][key] = fired[k][key]  BY <2>2, AfterInspect
    <3>2. /\ fired[k][key] <= now
          /\ \E a \in alerts : a.kind = k /\ a.key = key /\ a.t = fired[k][key]
      BY <3>1 DEF DetectorInv, FiredIsAlert
    <3> QED  BY <1>4, <3>1, <3>2
  <2> QED  BY <2>1, <2>2
<1>9. AlertsSeen'
  <2>1. \A a \in alerts : a.n \in 1..Len(seen)  BY <1>2 DEF DetectorInv, AlertsSeen
  <2>2. \A k \in Kind : new(k).n = last  OBVIOUS
  <2>3. \A i \in 1..Len(seen) : i \in 1..last  BY <1>2
  <2>4. last \in 1..last  BY <1>2
  <2> HIDE DEF new, last
  <2> QED  BY <1>2, <1>4, <2>1, <2>2, <2>3, <2>4 DEF AlertsSeen
<1>10. BurstIsAlerted'
  <2> SUFFICES ASSUME NEW n \in 1..last, NEW k \in Kind, NEW key,
                      key = KeyOf(k, seen'[n].pkt),
                      Watches(k, seen'[n].pkt), Reached(k, key, n)'
               PROVE  \E a \in alerts' : /\ a.kind = k /\ a.key = key
                                         /\ a.t <= seen'[n].t
                                         /\ seen'[n].t - a.t < Window[k]
    BY <1>2 DEF BurstIsAlerted
  <2>1. CASE n # last
    <3>1. n \in DOMAIN seen /\ seen'[n] = seen[n]  BY <1>2, <2>1
    <3>2. Reached(k, key, n)  BY <3>1, ReachedBefore
    <3>3. \E a \in alerts : /\ a.kind = k /\ a.key = key
                            /\ a.t <= seen[n].t
                            /\ seen[n].t - a.t < Window[k]
      BY <3>1, <3>2 DEF DetectorInv, BurstIsAlerted
    <3> QED  BY <1>4, <3>1, <3>3
  <2>2. CASE n = last
    <3>1. Watches(k, pkt) /\ key = own(k) /\ seen'[n].t = now  BY <1>2, <2>2
    <3>2. Measure(k, Added(k, pkt)) >= Limit[k]
      <4>1. Reached(k, key, Len(seen))'
        BY <1>2, <2>2
      <4> QED  BY <3>1, <4>1, MeasureIsBurst
    <3>3. CASE Silenced(k, key)
      <4>1. key \in Key /\ fired[k][key] # Never /\ now - fired[k][key] < Window[k]
        BY <1>5, <3>1, <3>3 DEF Silenced
      <4>2. /\ fired[k][key] <= now
            /\ \E a \in alerts : a.kind = k /\ a.key = key /\ a.t = fired[k][key]
        BY <4>1 DEF DetectorInv, FiredIsAlert
      <4> QED  BY <1>4, <3>1, <4>1, <4>2
    <3>4. CASE ~Silenced(k, key)
      <4>1. Fires(k, pkt)  BY <3>1, <3>2, <3>4 DEF Fires
      <4>2. new(k) \in alerts'  BY <1>4, <4>1
      <4>3. new(k).kind = k /\ new(k).key = key /\ new(k).t = now  BY <3>1
      <4>4. now <= now /\ now - now < Window[k]  BY <1>1
      <4> QED  BY <3>1, <4>2, <4>3, <4>4
    <3> QED  BY <3>3, <3>4
  <2> QED  BY <2>1, <2>2
<1>11. AlertIsJustified'
  <2> SUFFICES ASSUME NEW a \in alerts' PROVE Reached(a.kind, a.key, a.n)'
    BY DEF AlertIsJustified
  <2>1. CASE a \in alerts
    <3>1. a.n \in DOMAIN seen /\ Reached(a.kind, a.key, a.n)
      BY <2>1 DEF DetectorInv, AlertsSeen, AlertIsJustified
    <3> QED  BY <3>1, ReachedBefore
  <2>2. CASE a \notin alerts
    <3>1. PICK k \in Kind : Fires(k, pkt) /\ a = new(k)  BY <1>4, <2>2
    <3>2. Reached(k, own(k), Len(seen))'  BY <3>1, MeasureIsBurst DEF Fires
    <3>3. a.kind = k /\ a.key = own(k) /\ a.n = last  BY <3>1
    <3> QED  BY <1>2, <3>2, <3>3
  <2> QED  BY <2>1, <2>2
<1> QED  BY <1>2, <1>6, <1>7, <1>8, <1>9, <1>10, <1>11 DEF DetectorInv

LEMMA SameHistory ==
    ASSUME seen' = seen, alerts' = alerts, AlertsSeen, BurstIsAlerted, AlertIsJustified
    PROVE  AlertsSeen' /\ BurstIsAlerted' /\ AlertIsJustified'
<1>1. ASSUME NEW k, NEW key, NEW n PROVE Reached(k, key, n)' <=> Reached(k, key, n)
  <2>1. Burst(k, key, n)' = Burst(k, key, n)  BY DEF Burst
  <2> QED  BY <2>1 DEF Reached
<1>2. AlertsSeen'  BY DEF AlertsSeen
<1>3. BurstIsAlerted'  BY <1>1 DEF BurstIsAlerted
<1>4. AlertIsJustified'  BY <1>1 DEF AlertIsJustified
<1> QED  BY <1>2, <1>3, <1>4

LEMMA DetectorNextInv == DetectorInv /\ [DetectorNext]_detectorVars => DetectorInv'
<1> SUFFICES ASSUME DetectorInv, [DetectorNext]_detectorVars PROVE DetectorInv'  OBVIOUS
<1>1. CASE \E pkt \in Traffic : Inspect(pkt)  BY <1>1, InspectInv
<1>2. CASE Tick
  <2>1. /\ now' = now + 1 /\ now < MaxTime
        /\ events' = events /\ fired' = fired /\ seen' = seen /\ alerts' = alerts
    BY <1>2 DEF Tick
  <2>2. now \in Nat /\ now \in Time /\ now' \in Time /\ \A k \in Kind : Window[k] \in Nat
    BY <2>1, DetectorsAssumption DEF DetectorInv, Types, DetectorTypeOK, Time
  <2>3. Types'  BY <2>1, <2>2 DEF DetectorInv, Types, DetectorTypeOK
  <2>4. HistoryInTime'
    <3>1. \A i \in DOMAIN seen : seen[i].t <= now'
      <4> TAKE i \in DOMAIN seen
      <4>1. seen[i] \in Seen  
        BY ElementOfSeq, LenProperties DEF DetectorInv, Types, DetectorTypeOK, Seen
      <4>2. seen[i].t \in Nat  BY <4>1 DEF Seen, Time
      <4>3. seen[i].t <= now  BY DEF DetectorInv, HistoryInTime
      <4> QED  BY <2>1, <2>2, <4>2, <4>3
    <3> QED  BY <2>1, <3>1 DEF DetectorInv, HistoryInTime
  <2>5. DequesTrack'
    <3> SUFFICES ASSUME NEW k \in Kind, NEW key \in Key PROVE Tracked(k, key)'
      BY DEF DequesTrack
    <3>1. PICK c \in (0 - Window[k])..(now - Window[k]) :
            \E at \in [DOMAIN events[k][key] -> DOMAIN seen] :
                Tracks(events[k][key], seen, Counted(seen, k, key), c, at)
      BY DEF DetectorInv, DequesTrack, Tracked
    <3>2. c \in (0 - Window[k])..(now' - Window[k])  BY <2>1, <2>2, <3>1
    <3> QED  BY <2>1, <3>1, <3>2 DEF Tracked
  <2>6. FiredIsAlert'
    <3> SUFFICES ASSUME NEW k \in Kind, NEW key \in Key, fired[k][key] # Never
                 PROVE  /\ fired[k][key] <= now'
                        /\ \E a \in alerts : a.kind = k /\ a.key = key /\ a.t = fired[k][key]
      BY <2>1 DEF FiredIsAlert
    <3>1. /\ fired[k][key] <= now
          /\ \E a \in alerts : a.kind = k /\ a.key = key /\ a.t = fired[k][key]
      BY DEF DetectorInv, FiredIsAlert
    <3>2. fired[k][key] \in Nat  BY DEF DetectorInv, Types, DetectorTypeOK, Time
    <3> QED  BY <2>1, <2>2, <3>1, <3>2
  <2>7. AlertsSeen' /\ BurstIsAlerted' /\ AlertIsJustified'
    BY <2>1, SameHistory DEF DetectorInv
  <2> QED  BY <2>3, <2>4, <2>5, <2>6, <2>7 DEF DetectorInv
<1>3. CASE Outbound \/ UNCHANGED detectorVars
  <2>1. /\ now' = now /\ events' = events /\ fired' = fired
        /\ seen' = seen /\ alerts' = alerts
    BY <1>3 DEF Outbound, detectorVars
  <2>2. AlertsSeen' /\ BurstIsAlerted' /\ AlertIsJustified'  BY <2>1, SameHistory DEF DetectorInv
  <2>3. Types' /\ HistoryInTime' /\ FiredIsAlert'
    BY <2>1 DEF DetectorInv, Types, DetectorTypeOK, HistoryInTime, FiredIsAlert
  <2>4. DequesTrack'
    <3>1. ASSUME NEW k \in Kind, NEW key \in Key PROVE Tracked(k, key)'
      BY <2>1 DEF DetectorInv, DequesTrack, Tracked
    <3> QED  BY <3>1 DEF DequesTrack
  <2> QED  BY <2>2, <2>3, <2>4 DEF DetectorInv
<1> QED  BY <1>1, <1>2, <1>3 DEF DetectorNext

LEMMA DetectorInvariance == DetectorSpec => []DetectorInv
BY DetectorInitInv, DetectorNextInv, PTL DEF DetectorSpec

(* Every reachable state has its types.                                      *)
THEOREM DetectorTypes == DetectorSpec => []DetectorTypeOK
<1>1. DetectorInv => DetectorTypeOK  BY DEF DetectorInv, Types
<1> QED  BY <1>1, DetectorInvariance, PTL

(* The deque a detector keeps for a key holds, in order, every packet of the *)
(* key since some moment not after the start of the window, and no other.    *)
THEOREM WindowsAreExact == DetectorSpec => []DequesTrack
<1>1. DetectorInv => DequesTrack  BY DEF DetectorInv
<1> QED  BY <1>1, DetectorInvariance, PTL

(* BurstIsAlerted: no burst of packets goes by without an alert.             *)
THEOREM NoBurstMissed == DetectorSpec => []BurstIsAlerted
<1>1. DetectorInv => BurstIsAlerted  BY DEF DetectorInv
<1> QED  BY <1>1, DetectorInvariance, PTL

(* AlertIsJustified: no alert is raised without its burst.                   *)
THEOREM NoFalseAlert == DetectorSpec => []AlertIsJustified
<1>1. DetectorInv => AlertIsJustified  BY DEF DetectorInv
<1> QED  BY <1>1, DetectorInvariance, PTL
=============================================================================
