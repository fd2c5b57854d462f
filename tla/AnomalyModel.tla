----------------------------- MODULE AnomalyModel -----------------------------
(***************************************************************************)
(* The anomaly model of fwcore/ai.py: packet threads add rows while it      *)
(* learns and score packets with it once it is trained, threads of the      *)
(* dashboard start and stop the learning and train, and the trained model   *)
(* is saved to data/model.pkl, from where the next process loads it.        *)
(*                                                                         *)
(* train() copies the rows under the lock, fits outside it, installs the    *)
(* result under it and saves after it.  The model and the statistics that   *)
(* explain its scores are both known by the training they come from; rows   *)
(* are only counted.                                                        *)
(***************************************************************************)
EXTENDS Naturals, FiniteSets

CONSTANTS
    Web,          \* threads of the dashboard
    Reader,       \* threads of the packet queues
    MinRows,      \* min_training_rows
    Cap,          \* the most rows that are collected (200000)
    DumpCanFail,  \* whether writing the model may raise
    MaxTrainings  \* bound: fits that are started

ASSUME AnomalyModelAssumption ==
    /\ Web \cap Reader = {}
    /\ MinRows \in Nat /\ Cap \in Nat
    /\ DumpCanFail \in BOOLEAN
    /\ MaxTrainings \in Nat

Thread == Web \cup Reader
Training == [n : 1..MaxTrainings, rows : 0..Cap]
None == [n |-> 0, rows |-> 0]
Trained == Training \cup {None}

(* data/model.pkl: missing, cut off, or a model with its statistics.        *)
Pair(model, stats) == [kind |-> "whole", model |-> model, stats |-> stats]
Absent == [kind |-> "absent", model |-> None, stats |-> None]
Torn == [kind |-> "torn", model |-> None, stats |-> None]
Disk == [kind : {"whole"}, model : Trained, stats : Trained] \cup {Absent, Torn}

VARIABLES
    learning,  \* self._learning
    rows,      \* the number of rows in self._collected
    model,     \* self._model
    stats,     \* self._mean, _std, _trained_at and _trained_rows
    disk,      \* data/model.pkl
    call,      \* call[t]: where thread t is
    process,   \* "up" or "down"
    fits,      \* history: the fits started so far
    overlapped \* history: two trainings were under way at once

vars == <<learning, rows, model, stats, disk, call, process, fits, overlapped>>

Idle == [at |-> "idle"]

TypeOK ==
    /\ learning \in BOOLEAN
    /\ rows \in 0..Cap
    /\ model \in Trained /\ stats \in Trained
    /\ disk \in Disk
    /\ call \in [Thread -> {Idle} \cup [at : {"observe", "collect", "score"}]
                             \cup [at : {"fit"}, result : Training]
                             \cup [at : {"save"}]
                             \cup [at : {"read"}, model : Trained]
                             \cup [at : {"open", "dump"}, model : Trained, stats : Trained]]
    /\ process \in {"up", "down"}
    /\ fits \in 0..MaxTrainings
    /\ overlapped \in BOOLEAN

Init ==
    /\ learning = FALSE
    /\ rows = 0
    /\ model = None
    /\ stats = None
    /\ disk = Absent
    /\ call = [t \in Thread |-> Idle]
    /\ process = "up"
    /\ fits = 0
    /\ overlapped = FALSE

-----------------------------------------------------------------------------
(* Mutants.                                                                 *)

StartsAfresh == None
StatsOfTheFirst(result) == IF stats = None THEN result ELSE stats
HalfWritten(t) == Pair(call[t].model, None)

-----------------------------------------------------------------------------
(* Helpers.                                                                 *)

At(t, place) == call[t].at = place
Goto(t, next) == call' = [call EXCEPT ![t] = next]

HasRoom == rows < Cap
Enough == rows >= MinRows

(* start_learning() leaves the model alone.                                 *)
ModelWhileLearning == model

(* What train() installs next to the model.                                 *)
StatsAfter(result) == result

(* What joblib.dump() leaves when it is done.                               *)
Dumped(t) == Pair(call[t].model, call[t].stats)

-----------------------------------------------------------------------------
(* The dashboard.                                                           *)

StartLearning(t) ==
    /\ process = "up"
    /\ At(t, "idle")
    /\ learning' = TRUE
    /\ rows' = 0
    /\ model' = ModelWhileLearning
    /\ UNCHANGED <<stats, disk, call, process, fits, overlapped>>

StopLearning(t) ==
    /\ process = "up"
    /\ At(t, "idle")
    /\ learning' = FALSE
    /\ UNCHANGED <<rows, model, stats, disk, call, process, fits, overlapped>>

(* train(): the rows are copied, and are too few or are fitted.             *)
Train(t) ==
    /\ process = "up"
    /\ At(t, "idle")
    /\ Enough
    /\ fits < MaxTrainings
    /\ fits' = fits + 1
    /\ Goto(t, [at |-> "fit", result |-> [n |-> fits + 1, rows |-> rows]])
    /\ overlapped' = (overlapped \/ \E u \in Web \ {t} : ~At(u, "idle"))
    /\ UNCHANGED <<learning, rows, model, stats, disk, process>>

Install(t) ==
    /\ At(t, "fit")
    /\ model' = call[t].result
    /\ stats' = StatsAfter(call[t].result)
    /\ learning' = FALSE
    /\ Goto(t, [at |-> "save"])
    /\ UNCHANGED <<rows, disk, process, fits, overlapped>>

(* save() reads what it writes piece by piece, without the lock.            *)
ReadModel(t) ==
    /\ At(t, "save")
    /\ Goto(t, [at |-> "read", model |-> model])
    /\ UNCHANGED <<learning, rows, model, stats, disk, process, fits, overlapped>>

ReadStats(t) ==
    /\ At(t, "read")
    /\ Goto(t, [at |-> "open", model |-> call[t].model, stats |-> stats])
    /\ UNCHANGED <<learning, rows, model, stats, disk, process, fits, overlapped>>

(* joblib.dump() opens the file it replaces ...                             *)
Open(t) ==
    /\ At(t, "open")
    /\ disk' = Torn
    /\ Goto(t, [call[t] EXCEPT !.at = "dump"])
    /\ UNCHANGED <<learning, rows, model, stats, process, fits, overlapped>>

(* ... and writes it; two at once may spoil each other's file.              *)
Dump(t) ==
    /\ At(t, "dump")
    /\ \/ disk' = Dumped(t)
       \/ /\ \E u \in Web \ {t} : At(u, "dump")
          /\ disk' = Torn
    /\ Goto(t, Idle)
    /\ UNCHANGED <<learning, rows, model, stats, process, fits, overlapped>>

(* An error while writing is swallowed; the file stays as it is.            *)
DumpFails(t) ==
    /\ DumpCanFail
    /\ At(t, "dump")
    /\ Goto(t, Idle)
    /\ UNCHANGED <<learning, rows, model, stats, disk, process, fits, overlapped>>

-----------------------------------------------------------------------------
(* The packet threads: _decide() asks for `learning`, then for `ready`; both *)
(* are read without the lock.                                               *)

Look(t) ==
    /\ process = "up"
    /\ At(t, "idle")
    /\ \/ learning /\ Goto(t, [at |-> "observe"])
       \/ ~learning /\ model # None /\ Goto(t, [at |-> "score"])
    /\ UNCHANGED <<learning, rows, model, stats, disk, process, fits, overlapped>>

(* observe() asks once more before it computes the features ...             *)
Observe(t) ==
    /\ At(t, "observe")
    /\ Goto(t, IF learning THEN [at |-> "collect"] ELSE Idle)
    /\ UNCHANGED <<learning, rows, model, stats, disk, process, fits, overlapped>>

(* ... and adds them under the lock, whatever has changed since.            *)
Collect(t) ==
    /\ At(t, "collect")
    /\ rows' = IF HasRoom THEN rows + 1 ELSE rows
    /\ Goto(t, Idle)
    /\ UNCHANGED <<learning, model, stats, disk, process, fits, overlapped>>

Score(t) ==
    /\ At(t, "score")
    /\ Goto(t, Idle)
    /\ UNCHANGED <<learning, rows, model, stats, disk, process, fits, overlapped>>

-----------------------------------------------------------------------------
Kill ==
    /\ process = "up"
    /\ process' = "down"
    /\ learning' = FALSE
    /\ rows' = 0
    /\ model' = None
    /\ stats' = None
    /\ call' = [t \in Thread |-> Idle]
    /\ UNCHANGED <<disk, fits, overlapped>>

(* load(): a file that cannot be read leaves no model.                      *)
Start ==
    /\ process = "down"
    /\ process' = "up"
    /\ model' = disk.model
    /\ stats' = disk.stats
    /\ UNCHANGED <<learning, rows, disk, call, fits, overlapped>>

Next ==
    \/ \E t \in Web : StartLearning(t) \/ StopLearning(t) \/ Train(t) \/ Install(t)
    \/ \E t \in Web : ReadModel(t) \/ ReadStats(t) \/ Open(t) \/ Dump(t) \/ DumpFails(t)
    \/ \E t \in Reader : Look(t) \/ Observe(t) \/ Collect(t) \/ Score(t)
    \/ Kill \/ Start

Spec == Init /\ [][Next]_vars

-----------------------------------------------------------------------------
(* Properties.                                                              *)

(* A packet thread that found a model ready still finds one when it scores: *)
(* a model is replaced, never taken away, while the process is up.          *)
ScoringHasModel == \A t \in Reader : At(t, "score") => model # None

(* As long as trainings did not overlap, scores are explained by the        *)
(* statistics of the model that gave them, also after a restart.            *)
ExplainedByOwnTraining == ~overlapped => model = stats

(* As long as trainings did not overlap, a model file that can be read      *)
(* holds a model with its own statistics, whatever was killed or failed.    *)
SavedTogether == ~overlapped => disk.model = disk.stats

-----------------------------------------------------------------------------
(* What the documents say and the code does not do.                         *)

(* HOW_IT_WORKS.md:298: the explanation compares a packet with what the     *)
(* model learned, also where trainings overlapped.                          *)
AlwaysExplained == model = stats
===============================================================================
