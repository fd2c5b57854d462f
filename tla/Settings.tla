------------------------------- MODULE Settings -------------------------------
(***************************************************************************)
(* The settings and their copies: data/config.json and the cache of        *)
(* fwcore/config.py, and engine.cfg and engine.mode, which the dashboard   *)
(* changes through /api/mode and /api/ai/autoblock while run.py --mode may  *)
(* change them at the start.                                               *)
(*                                                                         *)
(* config.update() copies the cache, changes one key and saves, all under  *)
(* one lock; the engine's copies are assigned outside it, engine.mode      *)
(* before the update and engine.cfg after it.  The process may be killed    *)
(* at any step, also while a file is being written.                        *)
(***************************************************************************)
EXTENDS Integers, FiniteSets

CONSTANTS
    Web,         \* web threads that change settings
    Main,        \* the thread of run.py
    NoOption,    \* run.py without --mode
    SaveCanFail  \* whether writing the temporary file may raise

Thread == Web \cup {Main}
Mode == {"monitor", "enforce"}
Config == [mode : Mode, autoBlock : BOOLEAN]
Key == DOMAIN [mode |-> 0, autoBlock |-> 0]
Defaults == [mode |-> "monitor", autoBlock |-> FALSE]

ASSUME SettingsAssumption ==
    /\ Main \notin Web
    /\ NoOption \notin Mode
    /\ SaveCanFail \in BOOLEAN

(* What config.json is besides a configuration: missing, or cut off.        *)
Absent == [mode |-> "absent"]
Torn == [mode |-> "torn"]

VARIABLES
    file,     \* data/config.json
    cache,    \* config._cache; Absent for None
    engMode,  \* engine.mode
    engCfg,   \* engine.cfg
    process,  \* "down", "starting" or "up"
    call,     \* call[t]: where thread t is
    strayed   \* history: requests of this process overlapped, or a save failed

vars == <<file, cache, engMode, engCfg, process, call, strayed>>

Idle == [at |-> "idle"]
Call ==
    [at : {"update"}, key : {"mode"}, value : Mode]
        \cup [at : {"update"}, key : {"autoBlock"}, value : BOOLEAN]
        \cup [at : {"create", "save", "write", "assign"}, cfg : Config]

TypeOK ==
    /\ file \in Config \cup {Absent, Torn}
    /\ cache \in Config \cup {Absent}
    /\ engMode \in Mode
    /\ engCfg \in Config
    /\ process \in {"down", "starting", "up"}
    /\ call \in [Thread -> Call \cup {Idle}]
    /\ strayed \in BOOLEAN

Init ==
    /\ file = Absent
    /\ cache = Absent
    /\ engMode = Defaults.mode
    /\ engCfg = Defaults
    /\ process = "down"
    /\ call = [t \in Thread |-> Idle]
    /\ strayed = FALSE

-----------------------------------------------------------------------------
(* Mutants.                                                                 *)

LockAlwaysFree == TRUE
InPlace == Torn
CopyKept(t) == engCfg

-----------------------------------------------------------------------------
(* Helpers.                                                                 *)

At(t, place) == call[t].at = place

(* Another request is under way.                                            *)
Overlaps(t) == \E u \in Thread \ {t} : ~At(u, "idle")

(* config._lock is held from the copy to the end of the save.               *)
LockFree == \A t \in Thread : call[t].at \notin {"save", "write"}

Goto(t, next) == call' = [call EXCEPT ![t] = next]

(* What config.json holds while save() writes: the temporary file is        *)
(* another one.                                                             *)
WhileWriting == file

(* load() without a cache: a file that cannot be read gives the defaults.   *)
Loaded == IF file \in Config THEN file ELSE Defaults

CacheAfter(cfg) == cfg

Changed(cfg, key, value) == [cfg EXCEPT ![key] = value]

(* What becomes engine.cfg at the end of a request, or of a start.          *)
EngineCopy(t) == call[t].cfg

-----------------------------------------------------------------------------
(* run.py: load, creating the file if it is missing, then --mode.           *)

(* --mode saves before the engine is built.                                 *)
Continue(cfg, option) ==
    IF option = NoOption THEN [at |-> "assign", cfg |-> cfg]
    ELSE [at |-> "save", cfg |-> Changed(cfg, "mode", option)]

Start(option) ==
    /\ process = "down"
    /\ process' = "starting"
    /\ IF file = Absent
       THEN /\ file' = Torn
            /\ cache' = cache
            /\ Goto(Main, [at |-> "create", cfg |-> Defaults])
       ELSE /\ file' = file
            /\ cache' = Loaded
            /\ Goto(Main, Continue(Loaded, option))
    /\ UNCHANGED <<engMode, engCfg, strayed>>

(* The first configuration is written in place.                             *)
Create(option) ==
    /\ At(Main, "create")
    /\ file' = Defaults
    /\ cache' = Defaults
    /\ Goto(Main, Continue(Defaults, option))
    /\ UNCHANGED <<engMode, engCfg, process, strayed>>

-----------------------------------------------------------------------------
(* /api/mode and /api/ai/autoblock                                          *)

(* set_mode() assigns engine.mode first.                                    *)
RequestMode(t, mode) ==
    /\ process = "up"
    /\ At(t, "idle")
    /\ engMode' = mode
    /\ Goto(t, [at |-> "update", key |-> "mode", value |-> mode])
    /\ strayed' = (strayed \/ Overlaps(t))
    /\ UNCHANGED <<file, cache, engCfg, process>>

RequestAutoBlock(t, on) ==
    /\ process = "up"
    /\ At(t, "idle")
    /\ Goto(t, [at |-> "update", key |-> "autoBlock", value |-> on])
    /\ strayed' = (strayed \/ Overlaps(t))
    /\ UNCHANGED <<file, cache, engMode, engCfg, process>>

(* update() takes the lock and copies the cache ...                         *)
Copy(t) ==
    /\ At(t, "update")
    /\ LockFree
    /\ Goto(t, [at |-> "save", cfg |-> Changed(cache, call[t].key, call[t].value)])
    /\ UNCHANGED <<file, cache, engMode, engCfg, process, strayed>>

(* ... save() writes the temporary file ...                                 *)
Write(t) ==
    /\ At(t, "save")
    /\ file' = WhileWriting
    /\ Goto(t, [call[t] EXCEPT !.at = "write"])
    /\ UNCHANGED <<cache, engMode, engCfg, process, strayed>>

(* ... and renames it.                                                      *)
Rename(t) ==
    /\ At(t, "write")
    /\ file' = call[t].cfg
    /\ cache' = CacheAfter(call[t].cfg)
    /\ Goto(t, [call[t] EXCEPT !.at = "assign"])
    /\ UNCHANGED <<engMode, engCfg, process, strayed>>

(* The write raises: a request fails with an error, a start ends.           *)
SaveFails(t) ==
    /\ SaveCanFail
    /\ At(t, "write")
    /\ Goto(t, Idle)
    /\ process' = IF t = Main THEN "down" ELSE process
    /\ cache' = IF t = Main THEN Absent ELSE cache
    /\ strayed' = (t # Main)
    /\ UNCHANGED <<file, engMode, engCfg>>

(* engine.cfg = the updated copy; or the engine is built with it.           *)
Assign(t) ==
    /\ At(t, "assign")
    /\ engCfg' = EngineCopy(t)
    /\ engMode' = IF t = Main THEN call[t].cfg.mode ELSE engMode
    /\ process' = "up"
    /\ Goto(t, Idle)
    /\ UNCHANGED <<file, cache, strayed>>

-----------------------------------------------------------------------------
(* A stop or a kill between any two steps.                                  *)
Kill ==
    /\ process # "down"
    /\ process' = "down"
    /\ cache' = Absent
    /\ call' = [t \in Thread |-> Idle]
    /\ strayed' = FALSE
    /\ UNCHANGED <<file, engMode, engCfg>>

(* What goes on without a new request.                                      *)
GoOn ==
    \/ \E option \in Mode \cup {NoOption} : Start(option) \/ Create(option)
    \/ \E t \in Thread : Copy(t) \/ Write(t) \/ Rename(t) \/ SaveFails(t) \/ Assign(t)

Next ==
    \/ \E t \in Web, mode \in Mode : RequestMode(t, mode)
    \/ \E t \in Web, on \in BOOLEAN : RequestAutoBlock(t, on)
    \/ GoOn
    \/ Kill

Spec == Init /\ [][Next]_vars

-----------------------------------------------------------------------------
(* Properties.                                                              *)

(* A configuration once written is never cut off or lost again: a kill      *)
(* leaves the old one or the new one.                                       *)
FileStaysWhole == [][(file \in Config) => (file' \in Config)]_vars

(* No update is lost: from one saved configuration to the next one only the *)
(* key the saving thread was asked to change differs.                       *)
NoLostUpdate ==
    [][(file \in Config /\ file' \in Config)
           => Cardinality({k \in Key : file[k] # file'[k]}) <= 1]_vars

(* When no request is under way the engine, its configuration and the saved *)
(* settings say the same, as long as requests came one after the other and  *)
(* their saves succeeded.                                                   *)
Quiet == process = "up" /\ \A t \in Thread : At(t, "idle")
Agreed == engCfg = cache /\ engMode = cache.mode
EngineAgrees == Quiet /\ ~strayed => Agreed

-----------------------------------------------------------------------------
(* What the documents say and the code does not do.                         *)

(* config.py:6: "the dashboard and the engine always agree on the           *)
(* settings", also after two requests at once or a save that failed.        *)
AlwaysAgrees == Quiet => Agreed
===============================================================================
