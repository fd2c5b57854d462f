------------------------------- MODULE RuleSet -------------------------------
(***************************************************************************)
(* The ordered rule list of fwcore/rules.py, in memory and in              *)
(* data/rules.json, edited by the threads of the dashboard, consulted by    *)
(* the packet threads and loaded when the engine is built.                  *)
(*                                                                         *)
(* Every edit changes the list and saves it under one lock: the temporary   *)
(* file is written and then renamed.  A save may fail, and the process may  *)
(* be killed, between the two.  What a rule says is abstracted to its       *)
(* action and the kinds of packets it matches (none when it is disabled).   *)
(***************************************************************************)
EXTENDS Integers, Sequences, SequencesExt, FiniteSets

CONSTANTS
    Web,         \* threads of the dashboard
    Main,        \* the thread that builds the engine
    Packet,      \* kinds of packets
    Content,     \* what add() and update() may be given
    Starter,     \* the rules of a fresh install, in order
    SaveCanFail, \* whether writing the temporary file may raise
    MaxRules,    \* bound: rules in the list
    MaxId        \* bound: rule ids in one process

VALID_ACTIONS == {"allow", "deny", "reject"}
Thread == Web \cup {Main}
Body == [action : VALID_ACTIONS \cup {"other"}, matches : SUBSET Packet]
Rule == [id : 1..MaxId, action : VALID_ACTIONS \cup {"other"}, matches : SUBSET Packet]

ASSUME RuleSetAssumption ==
    /\ Main \notin Web
    /\ Content \subseteq Body
    /\ Starter \in Seq(Body) /\ Starter # <<>>
    /\ SaveCanFail \in BOOLEAN
    /\ MaxRules \in Nat /\ MaxId \in Nat

(* What rules.json may be: a list, missing, or not to be read.              *)
Stored(list) == [kind |-> "list", rules |-> list]
Absent == [kind |-> "absent", rules |-> <<>>]
Torn == [kind |-> "torn", rules |-> <<>>]

VARIABLES
    rules,    \* self._rules
    file,     \* data/rules.json
    nextId,   \* self._next_id
    process,  \* "down", "loading" or "up"
    call,     \* call[t]: idle, or holding the lock and saving
    starter,  \* how many starter rules are still to be added
    issued,   \* history: the ids given out by this process
    unsaved   \* history: the last save of this process failed

vars == <<rules, file, nextId, process, call, starter, issued, unsaved>>

Idle == [at |-> "idle"]
Lists == Seq(Rule)
Nobody == [id |-> 0, action |-> ""]

TypeOK ==
    /\ rules \in Lists
    /\ file \in [kind : {"list"}, rules : Lists] \cup {Absent, Torn}
    /\ nextId \in 1..(MaxId + 1)
    /\ process \in {"down", "loading", "up"}
    /\ call \in [Thread -> [at : {"saving"}, id : 1..MaxId] \cup {Idle}]
    /\ starter \in 0..Len(Starter)
    /\ issued \subseteq 1..MaxId
    /\ unsaved \in BOOLEAN

Init ==
    /\ rules = <<>>
    /\ file = Absent
    /\ nextId = 1
    /\ process = "down"
    /\ call = [t \in Thread |-> Idle]
    /\ starter = 0
    /\ issued = {}
    /\ unsaved = FALSE

Ids(list) == {list[i].id : i \in DOMAIN list}

-----------------------------------------------------------------------------
(* Mutants.                                                                 *)

HighestPlusOne == IF rules = <<>> THEN 1 ELSE Max(Ids(rules)) + 1
LastTakesItsPlace(list, id) ==
    LET i == CHOOSE k \in DOMAIN list : list[k].id = id
    IN Front([list EXCEPT ![i] = Last(list)])
EditNotSaved(t, id, list) ==
    /\ \A u \in Thread : call[u].at = "idle"
    /\ rules' = list
    /\ UNCHANGED <<file, process, call, unsaved>>

-----------------------------------------------------------------------------
(* Helpers.                                                                 *)

(* self._lock is held from an edit to the end of its save.                  *)
LockFree == \A t \in Thread : call[t].at = "idle"

(* add() gives out self._next_id.                                           *)
NewId == nextId

WithId(body, id) == [id |-> id, action |-> body.action, matches |-> body.matches]

(* delete(): all rules but those with the id, of which there is one: ids are *)
(* unique, which is proved of this model.                                   *)
Without(list, id) == RemoveAt(list, CHOOSE i \in DOMAIN list : list[i].id = id)

(* move(): taken out and put back, at the end when the index is too large.  *)
Moved(list, i, new) ==
    LET others == RemoveAt(list, i)
    IN InsertAt(others, IF new <= Len(others) THEN new ELSE Len(list), list[i])

(* What load() makes of the file: one that cannot be read gives no rules.   *)
Loaded == file.rules

IdAfter(list) == IF list = <<>> THEN 1 ELSE Max(Ids(list)) + 1

NeedsStarter(list) == list = <<>>

(* evaluate(): the first rule that matches.                                 *)
FirstMatch(list, p) ==
    LET matching == {i \in DOMAIN list : p \in list[i].matches}
    IN IF matching = {} THEN Nobody
       ELSE [id |-> list[Min(matching)].id, action |-> list[Min(matching)].action]

-----------------------------------------------------------------------------
(* Edits, by a thread that is about to save under the lock.                 *)

Edit(t, id, list) ==
    /\ LockFree
    /\ rules' = list
    /\ call' = [call EXCEPT ![t] = [at |-> "saving", id |-> id]]
    /\ UNCHANGED <<file, process, unsaved>>

AddRule(t, body) ==
    /\ Len(rules) < MaxRules /\ nextId <= MaxId
    /\ nextId' = nextId + 1
    /\ issued' = issued \cup {NewId}
    /\ Edit(t, NewId, Append(rules, WithId(body, NewId)))

(* An action that is not valid is refused, before anything changes.         *)
Add(t, body) ==
    /\ process = "up"
    /\ body.action \in VALID_ACTIONS
    /\ AddRule(t, body)
    /\ UNCHANGED starter

Delete(t, id) ==
    /\ process = "up"
    /\ id \in Ids(rules)
    /\ Edit(t, id, Without(rules, id))
    /\ UNCHANGED <<nextId, issued, starter>>

(* update() does not look at the action.                                    *)
Update(t, i, body) ==
    /\ process = "up"
    /\ Edit(t, rules[i].id, [rules EXCEPT ![i] = WithId(body, rules[i].id)])
    /\ UNCHANGED <<nextId, issued, starter>>

Move(t, i, new) ==
    /\ process = "up"
    /\ Edit(t, rules[i].id, Moved(rules, i, new))
    /\ UNCHANGED <<nextId, issued, starter>>

(* The process ends, and its memory with it.                                *)
Gone ==
    /\ rules' = <<>>
    /\ nextId' = 1
    /\ process' = "down"
    /\ call' = [t \in Thread |-> Idle]
    /\ starter' = 0
    /\ issued' = {}
    /\ unsaved' = FALSE

-----------------------------------------------------------------------------
(* The end of a save, and of the edit.                                      *)

Rename(t) ==
    /\ call[t].at = "saving"
    /\ file' = Stored(rules)
    /\ call' = [call EXCEPT ![t] = Idle]
    /\ unsaved' = FALSE
    /\ UNCHANGED <<rules, nextId, process, starter, issued>>

(* The edit stays in memory; a start ends with the error.                   *)
SaveFails(t) ==
    /\ SaveCanFail
    /\ call[t].at = "saving"
    /\ IF t = Main THEN Gone
       ELSE /\ call' = [call EXCEPT ![t] = Idle]
            /\ unsaved' = TRUE
            /\ UNCHANGED <<rules, nextId, process, starter, issued>>
    /\ UNCHANGED file

-----------------------------------------------------------------------------
(* The life of the process.                                                 *)

Load ==
    /\ process = "down"
    /\ process' = "loading"
    /\ rules' = Loaded
    /\ nextId' = IdAfter(Loaded)
    /\ starter' = IF NeedsStarter(Loaded) THEN Len(Starter) ELSE 0
    /\ issued' = {}
    /\ UNCHANGED <<file, call, unsaved>>

(* _install_starter_rules(): one add() after the other, each saved.         *)
AddStarter ==
    /\ process = "loading"
    /\ starter > 0
    /\ AddRule(Main, Starter[Len(Starter) - starter + 1])
    /\ starter' = starter - 1

Ready ==
    /\ process = "loading"
    /\ starter = 0
    /\ LockFree
    /\ process' = "up"
    /\ UNCHANGED <<rules, file, nextId, call, starter, issued, unsaved>>

Kill ==
    /\ process # "down"
    /\ Gone
    /\ UNCHANGED file

(* rules.json is edited by hand while nothing runs, and no longer parses.   *)
Spoil ==
    /\ process = "down"
    /\ file.kind = "list"
    /\ file' = Torn
    /\ UNCHANGED <<rules, nextId, process, call, starter, issued, unsaved>>

Next ==
    \/ \E t \in Web, body \in Content : Add(t, body)
    \/ \E t \in Web, id \in 1..MaxId : Delete(t, id)
    \/ \E t \in Web, i \in DOMAIN rules, body \in Content : Update(t, i, body)
    \/ \E t \in Web, i \in DOMAIN rules, new \in 1..MaxRules : Move(t, i, new)
    \/ \E t \in Thread : Rename(t) \/ SaveFails(t)
    \/ Load \/ AddStarter \/ Ready \/ Kill \/ Spoil

Spec == Init /\ [][Next]_vars

-----------------------------------------------------------------------------
(* Properties.                                                              *)

(* A page shown by this process never names another rule by the id it       *)
(* shows: an id, once given out or loaded, does not come back after a       *)
(* delete.                                                                  *)
IdsNotReused ==
    [][ (process = "up" /\ process' = "up") =>
          \A id \in Ids(rules') \ Ids(rules) : id \notin issued /\ id >= nextId ]_vars

(* First match wins, so the order is what the rules mean: an edit changes   *)
(* the deciding rule of a packet only if the edited rule is the one that    *)
(* decided it or the one that now does.                                     *)
EditIsLocal ==
    [][ \A p \in Packet :
          LET before == FirstMatch(rules, p)
              after == FirstMatch(rules', p)
          IN (process = "up" /\ process' = "up" /\ before # after)
               => \E t \in Thread : call'[t].at = "saving"
                                    /\ call'[t].id \in {before.id, after.id} ]_vars

(* evaluate() waits for the lock: unless the last save failed, no packet is *)
(* judged by rules that a kill would take back.                             *)
JudgedByStoredRules ==
    process = "up" /\ LockFree /\ ~unsaved => file = Stored(rules)

-----------------------------------------------------------------------------
(* Claims of the documents the code does not keep.                          *)

(* rules.py:16, the rules "survive restarts": also a list the user emptied. *)
RulesSurviveRestart ==
    [][ (process = "down" /\ process' = "loading" /\ file.kind = "list") => starter' = 0 ]_vars

(* rules.py:14, an action is allow, deny or reject.                         *)
OnlyKnownActions ==
    \A p \in Packet : FirstMatch(rules, p).action \in VALID_ACTIONS \cup {""}
===============================================================================
