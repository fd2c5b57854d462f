---------------------------- MODULE DashboardProofs ----------------------------
(* Proofs about Settings, for any number of web threads, and about Dashboard *)
(* and Accounts, for any tabs, users and passwords.                          *)
EXTENDS Dashboard, FiniteSetTheorems, TLAPS

-----------------------------------------------------------------------------
(* Settings: the file, the cache of it and the engine.                       *)

-----------------------------------------------------------------------------
(* The inductive invariant: one thread at most is between its copy and its   *)
(* rename, it saves what is in the file but for one key, and the cache is    *)
(* the file for as long as the file can be read.                             *)

Saving(t) == call[t].at \in {"save", "write"}
Busy(t) == call[t].at \in {"update", "save", "write", "assign"}

OneSaver == \A t, u \in Thread : Saving(t) /\ Saving(u) => t = u

(* A thread of the dashboard works only while the program is up, the one of  *)
(* run.py only while it starts.                                              *)
Phases ==
    /\ ~At(Main, "idle") => process = "starting"
    /\ \A t \in Web : ~At(t, "idle") => process = "up"
    /\ At(Main, "create") => file \notin Config
    /\ \A t \in Web : ~At(t, "create")
    /\ process = "up" => cache \in Config
    /\ \A t \in Thread : Busy(t) => cache \in Config

CacheTrue == file \in Config /\ cache \in Config => cache = file

DiffersByOne(old, new) == \E name \in Key : \A k \in Key \ {name} : old[k] = new[k]

SavesOneKey ==
    \A t \in Thread : Saving(t) /\ file \in Config => DiffersByOne(file, call[t].cfg)

(* As long as nothing overlapped or failed, the engine is as far as the one  *)
(* thread that is at work.                                                   *)
EngineFollows ==
    process = "up" /\ ~strayed =>
        /\ \A t, u \in Thread : ~At(t, "idle") /\ ~At(u, "idle") => t = u
        /\ Quiet => Agreed
        /\ \A t \in Thread :
            /\ At(t, "update") =>
                /\ engCfg = cache
                /\ engMode = IF call[t].key = "mode" THEN call[t].value ELSE cache.mode
            /\ Saving(t) => engMode = call[t].cfg.mode
            /\ At(t, "assign") => engMode = call[t].cfg.mode

AssignsCache ==
    \A t \in Thread : At(t, "assign") /\ (t = Main \/ ~strayed) => call[t].cfg = cache

Inv ==
    /\ TypeOK
    /\ OneSaver
    /\ Phases
    /\ CacheTrue
    /\ SavesOneKey
    /\ EngineFollows
    /\ AssignsCache

-----------------------------------------------------------------------------
(* Records.                                                                  *)

LEMMA Keys == Key = {"mode", "autoBlock"}
BY DEF Key

LEMMA Missing == Absent \notin Config /\ Torn \notin Config /\ Absent # Torn
BY DEF Absent, Torn, Config, Mode

LEMMA DefaultsConfig == Defaults \in Config /\ Defaults.mode = "monitor"
BY DEF Defaults, Config, Mode

LEMMA LoadedConfig == Loaded \in Config /\ (file \in Config => Loaded = file)
BY DefaultsConfig DEF Loaded

LEMMA ChangedConfig ==
    ASSUME NEW cfg \in Config, NEW name \in Key, NEW value,
           name = "mode" => value \in Mode, name = "autoBlock" => value \in BOOLEAN
    PROVE  /\ Changed(cfg, name, value) \in Config
           /\ DiffersByOne(cfg, Changed(cfg, name, value))
           /\ Changed(cfg, name, value).mode = IF name = "mode" THEN value ELSE cfg.mode
<1>1. cfg = [mode |-> cfg.mode, autoBlock |-> cfg.autoBlock]
      /\ cfg.mode \in Mode /\ cfg.autoBlock \in BOOLEAN
  BY DEF Config
<1>2. CASE name = "mode"
  <2>1. Changed(cfg, name, value) = [mode |-> value, autoBlock |-> cfg.autoBlock]
    <3>1. Changed(cfg, name, value) = [cfg EXCEPT !.mode = value]
      BY <1>2 DEF Changed
    <3>2. [cfg EXCEPT !.mode = value] = [mode |-> value, autoBlock |-> cfg.autoBlock]
      BY <1>1
    <3>3. QED
      BY <3>1, <3>2
  <2>2. QED
    BY <1>1, <1>2, <2>1, Keys DEF Config, DiffersByOne
<1>3. CASE name = "autoBlock"
  <2>1. Changed(cfg, name, value) = [mode |-> cfg.mode, autoBlock |-> value]
    <3>1. Changed(cfg, name, value) = [cfg EXCEPT !.autoBlock = value]
      BY <1>3 DEF Changed
    <3>2. [cfg EXCEPT !.autoBlock = value] = [mode |-> cfg.mode, autoBlock |-> value]
      BY <1>1
    <3>3. QED
      BY <3>1, <3>2
  <2>2. QED
    BY <1>1, <1>3, <2>1, Keys DEF Config, DiffersByOne
<1>4. QED
  BY <1>2, <1>3, Keys

LEMMA CallFields ==
    ASSUME NEW c \in Call \cup {Idle}
    PROVE  /\ c.at \in {"idle", "update", "create", "save", "write", "assign"}
           /\ c.at = "idle" => c = Idle
           /\ c.at = "update" =>
                /\ c.key \in Key
                /\ c.key = "mode" => c.value \in Mode
                /\ c.key = "autoBlock" => c.value \in BOOLEAN
           /\ c.at \in {"create", "save", "write", "assign"} => c.cfg \in Config
BY Keys DEF Call, Idle

LEMMA MakeCall ==
    /\ \A place \in {"create", "save", "write", "assign"}, cfg \in Config :
          [at |-> place, cfg |-> cfg] \in Call
    /\ \A mode \in Mode : [at |-> "update", key |-> "mode", value |-> mode] \in Call
    /\ \A on \in BOOLEAN : [at |-> "update", key |-> "autoBlock", value |-> on] \in Call
BY DEF Call

LEMMA MovedOn ==
    ASSUME NEW c \in Call, c.at \in {"save", "write"}, NEW place \in {"write", "assign"}
    PROVE  [c EXCEPT !.at = place] = [at |-> place, cfg |-> c.cfg]
BY DEF Call

-----------------------------------------------------------------------------
(* Each action keeps the invariant.                                          *)

(* What a step of one thread leaves of the others.                           *)
LEMMA OneThreadMoves ==
    ASSUME TypeOK, NEW t \in Thread, NEW next \in Call \cup {Idle}, Goto(t, next)
    PROVE  /\ call' \in [Thread -> Call \cup {Idle}]
           /\ call'[t] = next
           /\ \A u \in Thread \ {t} : call'[u] = call[u]
BY DEF TypeOK, Goto

LEMMA Members == Main \in Thread /\ Web \subseteq Thread /\ Main \notin Web /\ Thread = Web \cup {Main}
BY SettingsAssumption DEF Thread

LEMMA ContinueCall ==
    ASSUME NEW cfg \in Config, NEW option \in Mode \cup {NoOption}
    PROVE  /\ Continue(cfg, option) \in Call
           /\ Continue(cfg, option).at \in {"save", "assign"}
           /\ Continue(cfg, option).at = "assign" => Continue(cfg, option).cfg = cfg
           /\ Continue(cfg, option).at = "save" => DiffersByOne(cfg, Continue(cfg, option).cfg)
<1>1. CASE option = NoOption
  <2>1. Continue(cfg, option) = [at |-> "assign", cfg |-> cfg]
    BY <1>1 DEF Continue
  <2>2. QED
    BY <2>1, MakeCall
<1>2. CASE option # NoOption
  <2>1. Continue(cfg, option) = [at |-> "save", cfg |-> Changed(cfg, "mode", option)]
    BY <1>2 DEF Continue
  <2>2. Changed(cfg, "mode", option) \in Config /\ DiffersByOne(cfg, Changed(cfg, "mode", option))
    BY <1>2, ChangedConfig, Keys
  <2>3. QED
    BY <2>1, <2>2, MakeCall
<1>3. QED
  BY <1>1, <1>2

(* A start: nothing else is under way, so the thread of run.py is alone.     *)
LEMMA StartKeeps ==
    ASSUME Inv, NEW option \in Mode \cup {NoOption}, Start(option)
    PROVE  Inv'
<1>1. /\ process = "down" /\ process' = "starting"
      /\ UNCHANGED <<engMode, engCfg, strayed>>
      /\ \A t \in Thread : call[t] = Idle
  <2>1. \A t \in Thread : At(t, "idle")
    BY Members DEF Inv, Phases, Start
  <2>2. QED
    BY <2>1, CallFields DEF Inv, TypeOK, Start, At
<1>2. CASE file = Absent
  <2>1. /\ file' = Torn /\ cache' = cache
        /\ Goto(Main, [at |-> "create", cfg |-> Defaults])
    BY <1>2 DEF Start
  <2>2. [at |-> "create", cfg |-> Defaults] \in Call
    BY MakeCall, DefaultsConfig
  <2>3. /\ call' \in [Thread -> Call \cup {Idle}]
        /\ call'[Main].at = "create"
        /\ \A u \in Thread \ {Main} : call'[u].at = "idle"
    BY <1>1, <2>1, <2>2, OneThreadMoves, Members DEF Inv, Idle
  <2>4. \A t \in Thread : ~Saving(t)' /\ ~Busy(t)' /\ ~At(t, "assign")'
    BY <2>3 DEF Saving, Busy, At
  <2>5. TypeOK'
    BY <1>1, <2>1, <2>3 DEF Inv, TypeOK
  <2>6. Phases'
    BY <1>1, <2>1, <2>3, <2>4, Missing, Members DEF Phases, At
  <2>7. QED
    BY <1>1, <2>1, <2>4, <2>5, <2>6, Missing
    DEF Inv, OneSaver, CacheTrue, SavesOneKey, EngineFollows, AssignsCache
<1>3. CASE file # Absent
  <2>1. /\ file' = file /\ cache' = Loaded /\ Goto(Main, Continue(Loaded, option))
    BY <1>3 DEF Start
  <2>2. /\ call' \in [Thread -> Call \cup {Idle}]
        /\ call'[Main] = Continue(Loaded, option)
        /\ \A u \in Thread \ {Main} : call'[u].at = "idle"
    BY <1>1, <2>1, ContinueCall, LoadedConfig, OneThreadMoves, Members DEF Inv, Idle
  <2>3. /\ call'[Main].at \in {"save", "assign"}
        /\ call'[Main].at = "assign" => call'[Main].cfg = cache'
        /\ call'[Main].at = "save" => DiffersByOne(cache', call'[Main].cfg)
        /\ cache' \in Config /\ (file' \in Config => cache' = file')
    BY <2>1, <2>2, ContinueCall, LoadedConfig
  <2>4. TypeOK'
    BY <1>1, <2>1, <2>2, <2>3 DEF Inv, TypeOK
  <2>5. Phases'
    BY <1>1, <2>2, <2>3, Members DEF Phases, At, Busy
  <2>6. OneSaver' /\ SavesOneKey' /\ AssignsCache'
    BY <2>2, <2>3, Members DEF OneSaver, SavesOneKey, AssignsCache, Saving, At
  <2>7. CacheTrue' /\ EngineFollows'
    BY <1>1, <2>3 DEF CacheTrue, EngineFollows
  <2>8. QED
    BY <2>4, <2>5, <2>6, <2>7 DEF Inv
<1>4. QED
  BY <1>2, <1>3

LEMMA CreateKeeps ==
    ASSUME Inv, NEW option \in Mode \cup {NoOption}, Create(option)
    PROVE  Inv'
<1>1. /\ process = "starting" /\ process' = "starting"
      /\ UNCHANGED <<engMode, engCfg, strayed>>
      /\ file' = Defaults /\ cache' = Defaults
      /\ \A t \in Web : call[t].at = "idle"
  BY Members DEF Inv, Phases, Create, At
<1>2. /\ call' \in [Thread -> Call \cup {Idle}]
      /\ call'[Main] = Continue(Defaults, option)
      /\ \A u \in Thread \ {Main} : call'[u].at = "idle"
  BY <1>1, ContinueCall, DefaultsConfig, OneThreadMoves, Members DEF Inv, Create
<1>3. /\ call'[Main].at \in {"save", "assign"}
      /\ call'[Main].at = "assign" => call'[Main].cfg = cache'
      /\ call'[Main].at = "save" => DiffersByOne(file', call'[Main].cfg)
      /\ cache' \in Config
  BY <1>1, <1>2, ContinueCall, DefaultsConfig
<1>4. TypeOK'
  BY <1>1, <1>2, <1>3 DEF Inv, TypeOK
<1>5. Phases'
  BY <1>1, <1>2, <1>3, Members DEF Phases, At, Busy
<1>6. OneSaver' /\ SavesOneKey' /\ AssignsCache'
  BY <1>2, <1>3, Members DEF OneSaver, SavesOneKey, AssignsCache, Saving, At
<1>7. CacheTrue' /\ EngineFollows'
  BY <1>1 DEF CacheTrue, EngineFollows
<1>8. QED
  BY <1>4, <1>5, <1>6, <1>7 DEF Inv

(* A request: only the thread itself moves, and the engine may be ahead of   *)
(* the cache by the mode it was asked for.                                   *)
LEMMA RequestKeeps ==
    ASSUME Inv, NEW t \in Web, NEW name \in Key, NEW value,
           name = "mode" => value \in Mode, name = "autoBlock" => value \in BOOLEAN,
           process = "up", At(t, "idle"),
           engMode' = IF name = "mode" THEN value ELSE engMode,
           Goto(t, [at |-> "update", key |-> name, value |-> value]),
           strayed' = (strayed \/ Overlaps(t)),
           UNCHANGED <<file, cache, engCfg, process>>
    PROVE  Inv'
<1> DEFINE next == [at |-> "update", key |-> name, value |-> value]
<1>1. next \in Call
  BY Keys, MakeCall
<1>2. t \in Thread /\ t # Main
  BY Members
<1>3. /\ call' \in [Thread -> Call \cup {Idle}]
      /\ call'[t] = next
      /\ \A u \in Thread \ {t} : call'[u] = call[u]
  BY <1>1, <1>2, OneThreadMoves DEF Inv
<1>4. call'[t].at = "update" /\ call'[t].key = name /\ call'[t].value = value
  BY <1>3
<1> HIDE DEF next
<1>5. TypeOK'
  <2>1. engMode' \in Mode /\ strayed' \in BOOLEAN
    BY DEF Inv, TypeOK
  <2>2. QED
    BY <1>3, <2>1 DEF Inv, TypeOK
<1>6. OneSaver' /\ SavesOneKey' /\ CacheTrue'
  BY <1>3, <1>4 DEF Inv, OneSaver, SavesOneKey, CacheTrue, Saving
<1>7. Phases'
  BY <1>2, <1>3, <1>4, Members DEF Inv, Phases, At, Busy
<1>8. AssignsCache'
  BY <1>3, <1>4, Members DEF Inv, AssignsCache, At
<1>9. EngineFollows'
  <2>1. SUFFICES ASSUME ~strayed' PROVE EngineFollows'
    BY DEF EngineFollows
  <2>2. \A u \in Thread : At(u, "idle")
    BY <2>1 DEF Overlaps
  <2>3. engCfg = cache /\ engMode = cache.mode
    BY <2>1, <2>2 DEF Inv, EngineFollows, Quiet, Agreed
  <2>4. \A u \in Thread \ {t} : call'[u].at = "idle"
    BY <1>3, <2>2 DEF At
  <2>5. ~Quiet'
    BY <1>2, <1>4 DEF Quiet, At
  <2>6. QED
    BY <1>4, <2>3, <2>4, <2>5 DEF EngineFollows, At, Saving
<1>10. QED
  BY <1>5, <1>6, <1>7, <1>8, <1>9 DEF Inv

LEMMA CopyKeeps ==
    ASSUME Inv, NEW t \in Thread, Copy(t)
    PROVE  Inv'
<1> DEFINE cfg == Changed(cache, call[t].key, call[t].value)
<1>1. /\ call[t] \in Call \cup {Idle} /\ call[t].at = "update" /\ cache \in Config
      /\ UNCHANGED <<file, cache, engMode, engCfg, process, strayed>>
      /\ \A u \in Thread : ~Saving(u)
  BY DEF Copy, Inv, TypeOK, Phases, Busy, At, LockFree, Saving
<1>2. /\ cfg \in Config /\ DiffersByOne(cache, cfg)
      /\ cfg.mode = IF call[t].key = "mode" THEN call[t].value ELSE cache.mode
  BY <1>1, CallFields, ChangedConfig
<1>3. /\ call' \in [Thread -> Call \cup {Idle}]
      /\ call'[t] = [at |-> "save", cfg |-> cfg]
      /\ \A u \in Thread \ {t} : call'[u] = call[u]
  <2>1. Goto(t, [at |-> "save", cfg |-> cfg])
    BY DEF Copy
  <2>2. [at |-> "save", cfg |-> cfg] \in Call
    BY <1>2, MakeCall
  <2>3. QED
    BY <2>1, <2>2, OneThreadMoves DEF Inv
<1>4. call'[t].at = "save" /\ call'[t].cfg = cfg
  BY <1>3
<1> HIDE DEF cfg
<1>5. TypeOK' /\ CacheTrue'
  BY <1>1, <1>3 DEF Inv, TypeOK, CacheTrue
<1>6. OneSaver' /\ SavesOneKey' /\ AssignsCache'
  BY <1>1, <1>2, <1>3, <1>4
  DEF Inv, OneSaver, SavesOneKey, AssignsCache, Saving, At, CacheTrue
<1>7. Phases'
  BY <1>1, <1>3, <1>4, Members DEF Inv, Phases, At, Busy
<1>8. EngineFollows'
  <2>1. SUFFICES ASSUME process = "up", ~strayed PROVE EngineFollows'
    BY <1>1 DEF EngineFollows
  <2>2. engMode = cfg.mode
    BY <1>1, <1>2, <2>1 DEF Inv, EngineFollows, At
  <2>3. \A u \in Thread \ {t} : call'[u].at = "idle"
    BY <1>1, <1>3, <2>1 DEF Inv, EngineFollows, At
  <2>4. QED
    BY <1>1, <1>4, <2>2, <2>3 DEF EngineFollows, Quiet, At, Saving
<1>9. QED
  BY <1>5, <1>6, <1>7, <1>8 DEF Inv

LEMMA WriteKeeps ==
    ASSUME Inv, NEW t \in Thread, Write(t)
    PROVE  Inv'
<1>1. /\ call[t] \in Call /\ call[t].at = "save" /\ call[t].cfg \in Config
      /\ UNCHANGED <<file, cache, engMode, engCfg, process, strayed>>
  <2>1. call[t] \in Call \cup {Idle} /\ call[t].at = "save"
    BY DEF Write, WhileWriting, Inv, TypeOK, At
  <2>2. call[t] # Idle
    BY <2>1 DEF Idle
  <2>3. QED
    BY <2>1, <2>2, CallFields DEF Write, WhileWriting
<1>2. /\ call' \in [Thread -> Call \cup {Idle}]
      /\ call'[t].at = "write" /\ call'[t].cfg = call[t].cfg
      /\ \A u \in Thread \ {t} : call'[u] = call[u]
  <2>1. Goto(t, [at |-> "write", cfg |-> call[t].cfg])
    BY <1>1, MovedOn DEF Write
  <2>2. [at |-> "write", cfg |-> call[t].cfg] \in Call
    BY <1>1, MakeCall
  <2>3. QED
    BY <2>1, <2>2, OneThreadMoves DEF Inv
<1>3. TypeOK' /\ CacheTrue'
  BY <1>1, <1>2 DEF Inv, TypeOK, CacheTrue
<1>4. OneSaver' /\ SavesOneKey' /\ AssignsCache'
  BY <1>1, <1>2 DEF Inv, OneSaver, SavesOneKey, AssignsCache, Saving, At
<1>5. Phases'
  BY <1>1, <1>2, Members DEF Inv, Phases, At, Busy
<1>6. EngineFollows'
  BY <1>1, <1>2 DEF Inv, EngineFollows, Quiet, Agreed, At, Saving
<1>7. QED
  BY <1>3, <1>4, <1>5, <1>6 DEF Inv

LEMMA RenameKeeps ==
    ASSUME Inv, NEW t \in Thread, Rename(t)
    PROVE  Inv'
<1>1. /\ call[t] \in Call /\ call[t].at = "write" /\ call[t].cfg \in Config
      /\ file' = call[t].cfg /\ cache' = call[t].cfg
      /\ UNCHANGED <<engMode, engCfg, process, strayed>>
  <2>1. call[t] \in Call \cup {Idle} /\ call[t].at = "write"
    BY DEF Rename, Inv, TypeOK, At
  <2>2. call[t] # Idle
    BY <2>1 DEF Idle
  <2>3. QED
    BY <2>1, <2>2, CallFields DEF Rename, CacheAfter
<1>2. /\ call' \in [Thread -> Call \cup {Idle}]
      /\ call'[t].at = "assign" /\ call'[t].cfg = call[t].cfg
      /\ \A u \in Thread \ {t} : call'[u] = call[u]
  <2>1. Goto(t, [at |-> "assign", cfg |-> call[t].cfg])
    BY <1>1, MovedOn DEF Rename
  <2>2. [at |-> "assign", cfg |-> call[t].cfg] \in Call
    BY <1>1, MakeCall
  <2>3. QED
    BY <2>1, <2>2, OneThreadMoves DEF Inv
<1>3. \A u \in Thread : ~(call'[u].at \in {"save", "write"})
  BY <1>1, <1>2 DEF Inv, OneSaver, Saving
<1>4. TypeOK' /\ CacheTrue' /\ OneSaver' /\ SavesOneKey'
  BY <1>1, <1>2, <1>3 DEF Inv, TypeOK, CacheTrue, OneSaver, SavesOneKey, Saving
<1>5. Phases'
  <2>1. At(Main, "create")' => FALSE
    <3>1. t = Main \/ t \in Web
      BY Members
    <3>2. CASE t = Main
      BY <1>2, <3>2 DEF At
    <3>3. CASE t \in Web
      BY <1>1, <1>2, <3>3, Members, Missing DEF Inv, Phases, At
    <3>4. QED
      BY <3>1, <3>2, <3>3
  <2>2. QED
    BY <1>1, <1>2, <2>1, Members DEF Inv, Phases, At, Busy
<1>6. AssignsCache'
  <2>1. SUFFICES ASSUME NEW u \in Thread, u # t, call[u].at = "assign", u = Main \/ ~strayed
                 PROVE  FALSE
    BY <1>1, <1>2 DEF AssignsCache, At
  <2>2. CASE t = Main
    BY <1>1, <2>1, <2>2, Members DEF Inv, Phases, At
  <2>3. CASE u = Main
    BY <1>1, <2>1, <2>3, Members DEF Inv, Phases, At
  <2>4. CASE t # Main /\ u # Main
    BY <1>1, <2>1, <2>4, Members DEF Inv, Phases, EngineFollows, At
  <2>5. QED
    BY <2>2, <2>3, <2>4
<1>7. EngineFollows'
  <2>1. SUFFICES ASSUME process = "up", ~strayed PROVE EngineFollows'
    BY <1>1 DEF EngineFollows
  <2>2. engMode = call[t].cfg.mode /\ \A u \in Thread \ {t} : call[u].at = "idle"
    BY <1>1, <2>1 DEF Inv, EngineFollows, At, Saving
  <2>3. QED
    BY <1>1, <1>2, <2>2 DEF EngineFollows, Quiet, At, Saving
<1>8. QED
  BY <1>4, <1>5, <1>6, <1>7 DEF Inv

(* What ends a call: the thread is idle again, and nothing else moves.       *)
LEMMA Ended ==
    ASSUME Inv, NEW t \in Thread, Goto(t, Idle)
    PROVE  /\ call' \in [Thread -> Call \cup {Idle}]
           /\ call'[t].at = "idle"
           /\ \A u \in Thread \ {t} : call'[u] = call[u]
BY OneThreadMoves DEF Inv, Idle

LEMMA SaveFailsKeeps ==
    ASSUME Inv, NEW t \in Thread, SaveFails(t)
    PROVE  Inv'
<1>1. /\ call[t].at = "write"
      /\ UNCHANGED <<file, engMode, engCfg>>
      /\ process' = IF t = Main THEN "down" ELSE process
      /\ cache' = IF t = Main THEN Absent ELSE cache
      /\ strayed' = (t # Main)
  BY DEF SaveFails, At
<1>2. /\ call' \in [Thread -> Call \cup {Idle}]
      /\ call'[t].at = "idle"
      /\ \A u \in Thread \ {t} : call'[u] = call[u]
  BY Ended DEF SaveFails
<1>3. CASE t = Main
  <2>1. \A u \in Thread : call'[u].at = "idle"
    BY <1>1, <1>2, <1>3, Members DEF Inv, Phases, At
  <2>2. process' = "down" /\ cache' = Absent
    BY <1>1, <1>3
  <2>3. QED
    BY <1>1, <1>2, <2>1, <2>2, Missing, Members
    DEF Inv, TypeOK, OneSaver, Phases, CacheTrue, SavesOneKey, EngineFollows, AssignsCache,
        Saving, Busy, At
<1>4. CASE t # Main
  <2>1. process' = process /\ cache' = cache /\ strayed' = TRUE
    BY <1>1, <1>4
  <2>2. TypeOK' /\ CacheTrue'
    BY <1>1, <1>2, <2>1 DEF Inv, TypeOK, CacheTrue
  <2>3. OneSaver' /\ SavesOneKey' /\ EngineFollows'
    BY <1>1, <1>2, <2>1 DEF Inv, OneSaver, SavesOneKey, EngineFollows, Saving
  <2>4. AssignsCache'
    BY <1>1, <1>2, <1>4, <2>1, Members DEF Inv, AssignsCache, At
  <2>5. Phases'
    BY <1>1, <1>2, <2>1, Members DEF Inv, Phases, At, Busy
  <2>6. QED
    BY <2>2, <2>3, <2>4, <2>5 DEF Inv
<1>5. QED
  BY <1>3, <1>4

LEMMA AssignKeeps ==
    ASSUME Inv, NEW t \in Thread, Assign(t)
    PROVE  Inv'
<1>1. /\ call[t].at = "assign" /\ call[t].cfg \in Config /\ cache \in Config
      /\ engCfg' = call[t].cfg
      /\ engMode' = IF t = Main THEN call[t].cfg.mode ELSE engMode
      /\ process' = "up"
      /\ UNCHANGED <<file, cache, strayed>>
  BY CallFields DEF Assign, EngineCopy, Inv, TypeOK, Phases, Busy, At
<1>2. /\ call' \in [Thread -> Call \cup {Idle}]
      /\ call'[t].at = "idle"
      /\ \A u \in Thread \ {t} : call'[u] = call[u]
  BY Ended DEF Assign
<1>3. call[Main].at = "idle" \/ t = Main
  BY <1>1, Members DEF Inv, Phases, At
<1>4. TypeOK'
  BY <1>1, <1>2 DEF Inv, TypeOK, Config
<1>5. CacheTrue' /\ OneSaver' /\ SavesOneKey' /\ AssignsCache'
  BY <1>1, <1>2 DEF Inv, CacheTrue, OneSaver, SavesOneKey, AssignsCache, Saving, At
<1>6. Phases'
  BY <1>1, <1>2, <1>3, Members DEF Inv, Phases, At, Busy
<1>7. EngineFollows'
  <2>1. SUFFICES ASSUME ~strayed PROVE EngineFollows'
    BY <1>1 DEF EngineFollows
  <2>2. \A u \in Thread : call'[u].at = "idle"
    <3>1. CASE t = Main
      BY <1>1, <1>2, <3>1, Members DEF Inv, Phases, At
    <3>2. CASE t # Main
      BY <1>1, <1>2, <2>1, <3>2, Members DEF Inv, Phases, EngineFollows, At
    <3>3. QED
      BY <3>1, <3>2
  <2>3. call[t].cfg = cache
    BY <1>1, <2>1 DEF Inv, AssignsCache, At
  <2>4. engMode' = call[t].cfg.mode
    BY <1>1, <2>1, Members DEF Inv, Phases, EngineFollows, At
  <2>5. QED
    BY <1>1, <2>2, <2>3, <2>4 DEF EngineFollows, Quiet, Agreed, At, Saving
<1>8. QED
  BY <1>4, <1>5, <1>6, <1>7 DEF Inv

LEMMA KillKeeps ==
    ASSUME Inv, Kill
    PROVE  Inv'
<1>1. /\ process' = "down" /\ cache' = Absent /\ strayed' = FALSE
      /\ UNCHANGED <<file, engMode, engCfg>>
      /\ call' \in [Thread -> Call \cup {Idle}]
      /\ \A t \in Thread : call'[t].at = "idle"
  BY DEF Kill, Idle
<1>2. QED
  BY <1>1, Missing, Members
  DEF Inv, TypeOK, OneSaver, Phases, CacheTrue, SavesOneKey, EngineFollows, AssignsCache,
      Saving, Busy, At

-----------------------------------------------------------------------------
(* The invariant holds always, also while files are being written.           *)
THEOREM Invariance == Spec => []Inv
<1>1. Init => Inv
  <2> SUFFICES ASSUME Init PROVE Inv
    OBVIOUS
  <2>1. /\ file = Absent /\ cache = Absent /\ process = "down" /\ strayed = FALSE
        /\ engMode = Defaults.mode /\ engCfg = Defaults
        /\ call \in [Thread -> Call \cup {Idle}]
        /\ \A t \in Thread : call[t].at = "idle"
    BY DEF Init, Idle
  <2>2. QED
    BY <2>1, Missing, DefaultsConfig, Members
    DEF Inv, TypeOK, OneSaver, Phases, CacheTrue, SavesOneKey, EngineFollows, AssignsCache,
        Saving, Busy, At, Mode
<1>2. Inv /\ [Next]_vars => Inv'
  <2> SUFFICES ASSUME Inv, [Next]_vars PROVE Inv'
    OBVIOUS
  <2>1. ASSUME NEW t \in Web, NEW mode \in Mode, RequestMode(t, mode) PROVE Inv'
    <3>1. "mode" \in Key
      BY Keys
    <3>2. QED
      BY <2>1, <3>1, RequestKeeps DEF RequestMode
  <2>2. ASSUME NEW t \in Web, NEW on \in BOOLEAN, RequestAutoBlock(t, on) PROVE Inv'
    <3>1. "autoBlock" \in Key
      BY Keys
    <3>2. QED
      BY <2>2, <3>1, RequestKeeps DEF RequestAutoBlock
  <2>3. ASSUME GoOn PROVE Inv'
    BY <2>3, StartKeeps, CreateKeeps, CopyKeeps, WriteKeeps, RenameKeeps, SaveFailsKeeps,
       AssignKeeps DEF GoOn
  <2>4. CASE Kill
    BY <2>4, KillKeeps
  <2>5. CASE UNCHANGED vars
    BY <2>5
    DEF vars, Inv, TypeOK, OneSaver, Phases, CacheTrue, SavesOneKey, EngineFollows,
        AssignsCache, Quiet, Agreed, Saving, Busy, At
  <2>6. QED
    BY <2>1, <2>2, <2>3, <2>4, <2>5 DEF Next
<1>3. QED
  BY <1>1, <1>2, PTL DEF Spec

(* EngineAgrees: the last thread to go idle left the engine with the saved   *)
(* settings, when it was the only one and its save succeeded.                *)
THEOREM EngineFollowsFile == Spec => []EngineAgrees
<1>1. Inv => EngineAgrees
  BY DEF Inv, EngineFollows, EngineAgrees, Quiet
<1>2. QED
  BY <1>1, Invariance, PTL

(* FileStaysWhole: a configuration gives way only to another one.            *)
THEOREM SavedStaysWhole == Spec => FileStaysWhole
<1>1. Inv /\ [Next]_vars => [(file \in Config) => (file' \in Config)]_vars
  <2> SUFFICES ASSUME Inv, Next, file \in Config PROVE file' \in Config
    OBVIOUS
  <2>1. CASE file' = file
    BY <2>1
  <2>2. ASSUME NEW option \in Mode \cup {NoOption}, Start(option) PROVE file' \in Config
    BY <2>2, Missing DEF Start
  <2>3. ASSUME NEW option \in Mode \cup {NoOption}, Create(option) PROVE file' \in Config
    BY <2>3, DefaultsConfig DEF Create
  <2>4. ASSUME NEW t \in Thread, Rename(t) PROVE file' \in Config
    BY <2>4, CallFields DEF Rename, Inv, TypeOK, At
  <2>5. QED
    BY <2>1, <2>2, <2>3, <2>4
    DEF Next, GoOn, RequestMode, RequestAutoBlock, Copy, Write, WhileWriting, SaveFails,
        Assign, Kill
<1>2. QED
  BY <1>1, Invariance, PTL DEF Spec, FileStaysWhole

(* NoLostUpdate: the copy a thread saves was taken from what the file still  *)
(* holds at its rename.                                                      *)
LEMMA AtMostOne ==
    ASSUME NEW old, NEW new, DiffersByOne(old, new)
    PROVE  Cardinality({k \in Key : old[k] # new[k]}) <= 1
<1>1. PICK name \in Key : \A k \in Key \ {name} : old[k] = new[k]
  BY DEF DiffersByOne
<1>2. {k \in Key : old[k] # new[k]} \subseteq {name}
  BY <1>1
<1>3. IsFiniteSet({name}) /\ Cardinality({name}) = 1
  BY FS_Singleton
<1>4. QED
  BY <1>2, <1>3, FS_Subset

THEOREM EveryUpdateKept == Spec => NoLostUpdate
<1>1. Inv /\ [Next]_vars =>
        [(file \in Config /\ file' \in Config)
            => Cardinality({k \in Key : file[k] # file'[k]}) <= 1]_vars
  <2> SUFFICES ASSUME Inv, Next, file \in Config, file' \in Config
               PROVE  Cardinality({k \in Key : file[k] # file'[k]}) <= 1
    OBVIOUS
  <2>1. DiffersByOne(file, file')
    <3>1. CASE file' = file
      BY <3>1, Keys DEF DiffersByOne
    <3>2. ASSUME NEW option \in Mode \cup {NoOption}, Start(option)
          PROVE  DiffersByOne(file, file')
      BY <3>2, Missing, Keys DEF Start, DiffersByOne
    <3>3. ASSUME NEW option \in Mode \cup {NoOption}, Create(option)
          PROVE  DiffersByOne(file, file')
      BY <3>3 DEF Create, Inv, Phases
    <3>4. ASSUME NEW t \in Thread, Rename(t) PROVE DiffersByOne(file, file')
      BY <3>4 DEF Rename, Inv, SavesOneKey, Saving, At
    <3>5. QED
      BY <3>1, <3>2, <3>3, <3>4
      DEF Next, GoOn, RequestMode, RequestAutoBlock, Copy, Write, WhileWriting, SaveFails,
          Assign, Kill
  <2>2. QED
    BY <2>1, AtMostOne
<1>2. QED
  BY <1>1, Invariance, PTL DEF Spec, NoLostUpdate

-----------------------------------------------------------------------------
(* The dashboard reaches the settings only through their own operations.     *)
THEOREM DashboardUsesSettings == WebSpec => Spec
<1>1. WebInit => Init
  BY DEF WebInit
<1>2. [WebNext]_webVars => [Next]_vars
  <2> SUFFICES ASSUME [WebNext]_webVars PROVE [Next]_vars
    OBVIOUS
  <2>1. CASE UNCHANGED vars
    BY <2>1
  <2>2. ASSUME NEW t \in Web, NEW mode \in Mode, ChangeMode(t, mode) PROVE Next
    BY <2>2 DEF ChangeMode, Next
  <2>3. ASSUME NEW t \in Web, NEW on \in BOOLEAN, ChangeAutoBlock(t, on) PROVE Next
    BY <2>3 DEF ChangeAutoBlock, Next
  <2>4. CASE FinishSettings
    BY <2>4 DEF FinishSettings, Next
  <2>5. CASE Crash
    BY <2>5 DEF Crash, Next
  <2>6. CASE UNCHANGED webVars
    BY <2>1, <2>6 DEF webVars
  <2>7. QED
    BY <2>1, <2>2, <2>3, <2>4, <2>5, <2>6
    DEF WebNext, Serve, Login, Logout, OpenDashboard, ChangePassword, FinishPassword
<1>3. QED
  BY <1>1, <1>2, PTL DEF WebSpec, Spec

-----------------------------------------------------------------------------
(* The sessions: a page with the token of the cookie is of that session.     *)

SessionsInv ==
    /\ serving \in BOOLEAN
    /\ key \in SecretKey
    /\ cookie \in Session \cup {NoSession}
    /\ page \in [Web -> Session \cup {NoSession}]
    /\ \A t \in Web :
          cookie # NoSession /\ page[t] # NoSession /\ page[t].csrf = cookie.csrf
              => page[t] = cookie

LEMMA SessionFields ==
    /\ NoSession \notin Session
    /\ \A s \in Session : s.user \in User /\ s.csrf \in Token /\ s.key \in SecretKey
    /\ \A user \in User, csrf \in Token, k \in SecretKey :
          [user |-> user, csrf |-> csrf, key |-> k] \in Session
<1>1. \A s \in Session : s.user \in User
  BY DEF Session
<1>2. NoSession \notin Session
  BY <1>1, DashboardAssumption DEF NoSession
<1>3. QED
  BY <1>2 DEF Session

THEOREM SessionsInvariance == WebSpec => []SessionsInv
<1>1. WebInit => SessionsInv
  BY DEF WebInit, SessionsInv
<1>2. SessionsInv /\ [WebNext]_webVars => SessionsInv'
  <2> SUFFICES ASSUME SessionsInv, [WebNext]_webVars PROVE SessionsInv'
    OBVIOUS
  <2>1. CASE UNCHANGED browserVars
    BY <2>1 DEF browserVars, SessionsInv
  <2>2. CASE Serve
    BY <2>2 DEF Serve, SessionsInv
  <2>3. ASSUME NEW user \in User, NEW password \in Password, NEW csrf \in Token,
               Login(user, password, csrf)
        PROVE  SessionsInv'
    <3>1. /\ cookie' = [user |-> user, csrf |-> csrf, key |-> key] /\ csrf \notin Held
          /\ UNCHANGED <<serving, key, page>>
      BY <2>3 DEF Login
    <3>2. cookie' \in Session /\ cookie'.csrf = csrf
      BY <3>1, SessionFields DEF SessionsInv
    <3>3. \A t \in Web : page[t] # NoSession => page[t].csrf \in Held
      BY DEF Held
    <3>4. QED
      BY <3>1, <3>2, <3>3 DEF SessionsInv
  <2>4. ASSUME NEW t \in Web, Logout(t) PROVE SessionsInv'
    BY <2>4 DEF Logout, SessionsInv
  <2>5. ASSUME NEW t \in Web, OpenDashboard(t) PROVE SessionsInv'
    BY <2>5 DEF OpenDashboard, SessionsInv
  <2>6. CASE Crash
    BY <2>6 DEF Crash, SessionsInv
  <2>7. QED
    BY <2>1, <2>2, <2>3, <2>4, <2>5, <2>6
    DEF WebNext, webVars, ChangePassword, ChangeMode, ChangeAutoBlock, FinishSettings,
        FinishPassword
<1>3. QED
  BY <1>1, <1>2, PTL DEF WebSpec

(* Whoever gets past the checks has a page of the session in force.          *)
LEMMA AuthorisedPage ==
    ASSUME SessionsInv, NEW t \in Web, Authorised(t)
    PROVE  /\ cookie \in Session /\ page[t] = cookie
           /\ page[t].key = key
BY DEF Authorised, LoggedIn, CsrfOk, SessionsInv

-----------------------------------------------------------------------------
(* The accounts: one thread at most is inside set_password(), with what the  *)
(* file still holds or with nothing, and every account is marked truly.      *)

Marked(accounts) ==
    \A u \in DOMAIN accounts : accounts[u].isDefault <=> accounts[u].password = Default

SettingOK(t) ==
    setting[t].at = "save" =>
        /\ setting[t].seen \in {users, Users!NoUsers}
        /\ Length[setting[t].password] >= 6

AccountsInv ==
    /\ Users!TypeOK
    /\ Marked(users)
    /\ \A t \in Web : SettingOK(t)
    /\ \A t, u \in Web : setting[t].at = "save" /\ setting[u].at = "save" => t = u
    /\ chosen => DOMAIN users # {} /\ ~Users!Validates(Admin, Default)

LEMMA UserFiles ==
    \A accounts :
        accounts \in Users!UserFile <=>
            DOMAIN accounts \subseteq User /\ accounts \in [DOMAIN accounts -> Users!Account]
BY DEF Users!UserFile

LEMMA Nobody == Users!NoUsers \in Users!UserFile /\ DOMAIN Users!NoUsers = {} /\ Marked(Users!NoUsers)
<1>1. DOMAIN Users!NoUsers = {} /\ Users!NoUsers \in [{} -> Users!Account]
  BY DEF Users!NoUsers
<1>2. QED
  BY <1>1, UserFiles DEF Marked

LEMMA FirstAdmin ==
    /\ Users!DefaultAdmin \in Users!UserFile
    /\ Marked(Users!DefaultAdmin)
<1>1. [password |-> Default, isDefault |-> TRUE] \in Users!Account
  BY DashboardAssumption DEF Users!Account
<1>2. /\ DOMAIN Users!DefaultAdmin = {Admin}
      /\ Users!DefaultAdmin[Admin] = [password |-> Default, isDefault |-> TRUE]
      /\ Users!DefaultAdmin \in [{Admin} -> Users!Account]
  BY <1>1 DEF Users!DefaultAdmin
<1>3. QED
  BY <1>1, <1>2, UserFiles, DashboardAssumption DEF Marked

(* What set_password() puts in the place of what it read.                    *)
LEMMA WithOne ==
    ASSUME NEW seen \in Users!UserFile, Marked(seen), NEW user \in User,
           NEW password \in Password, Length[password] >= 6
    PROVE  LET new == Users!With(seen, user, password)
           IN  /\ new \in Users!UserFile
               /\ Marked(new)
               /\ DOMAIN new = DOMAIN seen \cup {user}
               /\ new[user].password # Default
               /\ \A u \in DOMAIN seen \ {user} : new[u] = seen[u]
<1> DEFINE new == Users!With(seen, user, password)
           entry == [password |-> password, isDefault |-> FALSE]
<1>1. entry \in Users!Account /\ entry.password = password /\ entry.isDefault = FALSE
  BY DEF Users!Account
<1> HIDE DEF entry
<1>2. password # Default
  BY DashboardAssumption
<1>3. new = [u \in DOMAIN seen \cup {user} |-> IF u = user THEN entry ELSE seen[u]]
  BY DEF Users!With, entry
<1> HIDE DEF new
<1>4. DOMAIN seen \subseteq User /\ seen \in [DOMAIN seen -> Users!Account]
  BY UserFiles
<1>5. /\ DOMAIN new = DOMAIN seen \cup {user}
      /\ new \in [DOMAIN seen \cup {user} -> Users!Account]
      /\ new[user] = entry
      /\ \A u \in DOMAIN seen \ {user} : new[u] = seen[u]
  BY <1>1, <1>3, <1>4
<1>6. new \in Users!UserFile
  BY <1>4, <1>5, UserFiles
<1>7. Marked(new)
  BY <1>1, <1>2, <1>5 DEF Marked
<1>8. QED
  BY <1>1, <1>2, <1>5, <1>6, <1>7 DEF new

(* Where a thread inside set_password() is.                                  *)
LEMMA SettingFields ==
    /\ Users!Idle.at = "idle"
    /\ \A s \in Users!Setting \cup {Users!Idle} :
          /\ s.at = "save" =>
                s.user \in User /\ s.password \in Password /\ s.seen \in Users!UserFile
          /\ s.at # "save" => s = Users!Idle
BY DEF Users!Setting, Users!Idle

LEMMA EnsureKeeps ==
    ASSUME AccountsInv, Users!EnsureDefaultAdmin
    PROVE  AccountsInv'
<1>1. PICK seen \in Users!Readings :
        /\ users' = IF seen = Users!NoUsers THEN Users!DefaultAdmin ELSE users
        /\ chosen' = (chosen /\ seen = users)
  BY DEF Users!EnsureDefaultAdmin, Users!NeedsDefault
<1>2. setting' = setting /\ \A t \in Web : setting[t].at # "save"
  BY DEF Users!EnsureDefaultAdmin, Users!LockFree
<1>3. Users!TypeOK' /\ Marked(users')
  BY <1>1, <1>2, FirstAdmin DEF AccountsInv, Users!TypeOK
<1>4. chosen' => DOMAIN users' # {} /\ ~Users!Validates(Admin, Default)'
  <2>1. SUFFICES ASSUME chosen' PROVE DOMAIN users' # {} /\ ~Users!Validates(Admin, Default)'
    OBVIOUS
  <2>2. chosen /\ seen = users
    BY <1>1, <2>1
  <2>3. users # Users!NoUsers
    BY <2>2, Nobody DEF AccountsInv
  <2>4. users' = users
    BY <1>1, <2>2, <2>3
  <2>5. QED
    BY <2>2, <2>4 DEF AccountsInv, Users!Validates
<1>5. QED
  BY <1>2, <1>3, <1>4 DEF AccountsInv, SettingOK

LEMMA SetKeeps ==
    ASSUME AccountsInv, NEW t \in Web, NEW user \in User, NEW password \in Password,
           Users!SetPassword(t, user, password)
    PROVE  AccountsInv'
<1>1. PICK seen \in Users!Readings :
        setting' = [setting EXCEPT ![t] =
                      [at |-> "save", user |-> user, password |-> password, seen |-> seen]]
  BY DEF Users!SetPassword
<1>2. /\ users' = users /\ chosen' = chosen
      /\ \A u \in Web : setting[u].at # "save"
      /\ Length[password] >= 6
      /\ seen \in {users, Users!NoUsers}
  <2>1. Length[password] \in Nat
    BY DashboardAssumption
  <2>2. QED
    BY <2>1 DEF Users!SetPassword, Users!LockFree, Users!TooShort, Users!Readings
<1> DEFINE next == [at |-> "save", user |-> user, password |-> password, seen |-> seen]
<1>3. /\ next \in Users!Setting
      /\ next.seen = seen /\ next.password = password
  BY <1>2, Nobody DEF AccountsInv, Users!TypeOK, Users!Setting
<1> HIDE DEF next
<1>4. /\ setting' \in [Web -> Users!Setting \cup {Users!Idle}]
      /\ setting'[t] = next
      /\ \A u \in Web \ {t} : setting'[u] = setting[u]
  BY <1>1, <1>3 DEF AccountsInv, Users!TypeOK, next
<1>5. Users!TypeOK' /\ \A u \in Web : SettingOK(u)'
  BY <1>2, <1>3, <1>4 DEF AccountsInv, Users!TypeOK, SettingOK
<1>6. QED
  BY <1>2, <1>4, <1>5 DEF AccountsInv, Users!Validates

(* What the end of a call leaves.                                            *)
LEMMA CallEnded ==
    ASSUME AccountsInv, NEW t \in Web, setting' = [setting EXCEPT ![t] = Users!Idle]
    PROVE  /\ setting' \in [Web -> Users!Setting \cup {Users!Idle}]
           /\ setting'[t].at # "save"
           /\ \A u \in Web \ {t} : setting'[u] = setting[u]
BY SettingFields DEF AccountsInv, Users!TypeOK

LEMMA SaveKeeps ==
    ASSUME AccountsInv, NEW t \in Web, Users!SaveUsers(t)
    PROVE  AccountsInv'
<1> DEFINE user == setting[t].user
           password == setting[t].password
           seen == setting[t].seen
<1>1. /\ setting[t].at = "save"
      /\ users' = Users!With(seen, user, password)
      /\ chosen' = (chosen \/ user = Admin)
      /\ setting' = [setting EXCEPT ![t] = Users!Idle]
  BY DEF Users!SaveUsers
<1>2. /\ user \in User /\ password \in Password /\ seen \in Users!UserFile
      /\ seen \in {users, Users!NoUsers} /\ Length[password] >= 6
  BY <1>1, SettingFields DEF AccountsInv, Users!TypeOK, SettingOK
<1> HIDE DEF user, password, seen
<1>3. Marked(seen)
  BY <1>2, Nobody DEF AccountsInv
<1>4. /\ users' \in Users!UserFile /\ Marked(users')
      /\ DOMAIN users' = DOMAIN seen \cup {user}
      /\ users'[user].password # Default
      /\ \A u \in DOMAIN seen \ {user} : users'[u] = seen[u]
  BY <1>1, <1>2, <1>3, WithOne
<1>5. \A u \in Web : setting'[u].at # "save"
  BY <1>1, CallEnded DEF AccountsInv
<1>6. Users!TypeOK'
  BY <1>1, <1>4, CallEnded DEF AccountsInv, Users!TypeOK
<1>7. chosen' => DOMAIN users' # {} /\ ~Users!Validates(Admin, Default)'
  <2>1. CASE user = Admin
    BY <1>4, <2>1 DEF Users!Validates
  <2>2. CASE user # Admin
    <3>1. SUFFICES ASSUME chosen, Admin \in DOMAIN users'
                   PROVE  users'[Admin].password # Default
      BY <1>1, <1>4, <2>2 DEF Users!Validates
    <3>2. Admin \in DOMAIN seen /\ users'[Admin] = seen[Admin]
      BY <1>4, <2>2, <3>1
    <3>3. seen = users
      BY <1>2, <3>2, Nobody
    <3>4. QED
      BY <3>1, <3>2, <3>3 DEF AccountsInv, Users!Validates
  <2>3. QED
    BY <2>1, <2>2
<1>8. QED
  BY <1>4, <1>5, <1>6, <1>7 DEF AccountsInv, SettingOK

THEOREM AccountsInvariance == WebSpec => []AccountsInv
<1>1. WebInit => AccountsInv
  <2> SUFFICES ASSUME NEW others \in HandWritten, Users!Init(others) PROVE AccountsInv
    BY DEF WebInit
  <2>1. /\ users = others /\ chosen = FALSE
        /\ setting \in [Web -> Users!Setting \cup {Users!Idle}]
        /\ \A t \in Web : setting[t].at # "save"
    BY SettingFields DEF Users!Init
  <2>2. others \in Users!UserFile /\ Marked(others)
    BY DashboardAssumption DEF Marked
  <2>3. QED
    BY <2>1, <2>2 DEF AccountsInv, SettingOK, Users!TypeOK
<1>2. AccountsInv /\ SessionsInv /\ [WebNext]_webVars => AccountsInv'
  <2> SUFFICES ASSUME AccountsInv, SessionsInv, [WebNext]_webVars PROVE AccountsInv'
    OBVIOUS
  <2>1. CASE UNCHANGED accountVars
    BY <2>1 DEF accountVars, AccountsInv, Users!TypeOK, SettingOK, Users!Validates
  <2>2. CASE Serve
    BY <2>2, EnsureKeeps DEF Serve
  <2>3. ASSUME NEW t \in Web, NEW password \in Password, ChangePassword(t, password)
        PROVE  AccountsInv'
    <3>1. cookie.user \in User
      BY <2>3, AuthorisedPage, SessionFields DEF ChangePassword
    <3>2. QED
      BY <2>3, <3>1, SetKeeps DEF ChangePassword
  <2>4. ASSUME NEW t \in Web, FinishPassword(t) PROVE AccountsInv'
    <3>1. CASE Users!SaveUsers(t)
      BY <3>1, SaveKeeps
    <3>2. CASE Users!SaveFails(t)
      <4>1. setting' = [setting EXCEPT ![t] = Users!Idle] /\ users' = users /\ chosen' = chosen
        BY <3>2 DEF Users!SaveFails
      <4>2. QED
        BY <4>1, CallEnded DEF AccountsInv, Users!TypeOK, SettingOK, Users!Validates
    <3>3. QED
      BY <2>4, <3>1, <3>2 DEF FinishPassword
  <2>5. CASE Crash
    <3>1. /\ users' = users /\ chosen' = chosen
          /\ setting' \in [Web -> Users!Setting \cup {Users!Idle}]
          /\ \A t \in Web : setting'[t].at # "save"
      BY <2>5, SettingFields DEF Crash, Users!Forget
    <3>2. QED
      BY <3>1 DEF AccountsInv, Users!TypeOK, SettingOK, Users!Validates
  <2>6. QED
    BY <2>1, <2>2, <2>3, <2>4, <2>5
    DEF WebNext, webVars, Login, Logout, OpenDashboard, ChangeMode, ChangeAutoBlock,
        FinishSettings
<1>3. QED
  BY <1>1, <1>2, SessionsInvariance, PTL DEF WebSpec

(* FlagIsTrue: the dashboard's warning about the default password is shown   *)
(* for the accounts that have it.                                            *)
THEOREM WarningIsTrue == WebSpec => []FlagIsTrue
<1>1. AccountsInv => FlagIsTrue
  BY DEF AccountsInv, Marked, FlagIsTrue, Users!FlagIsTrue, Users!IsDefaultPassword,
         Users!Validates
<1>2. QED
  BY <1>1, AccountsInvariance, PTL

(* DefaultIsGone, through kills and failing saves and reads.                 *)
THEOREM DefaultStaysGone == WebSpec => []DefaultIsGone
<1>1. AccountsInv => DefaultIsGone
  BY DEF AccountsInv, DefaultIsGone, Users!DefaultIsGone
<1>2. QED
  BY <1>1, AccountsInvariance, PTL

(* OneAccountAtATime: what a thread read under the lock is still the file    *)
(* when it replaces it.                                                      *)
THEOREM OtherAccountsKept == WebSpec => OneAccountAtATime
<1>1. AccountsInv /\ [WebNext]_webVars => [Users!OneAccountAtATime]_webVars
  <2> SUFFICES ASSUME AccountsInv, NEW t \in Web, Users!SaveUsers(t),
                      setting[t].seen # Users!NoUsers,
                      NEW u \in DOMAIN users \ {setting[t].user}
               PROVE  u \in DOMAIN users' /\ users'[u] = users[u]
    BY DEF Users!OneAccountAtATime
  <2>1. setting[t].seen = users
    BY DEF AccountsInv, SettingOK, Users!SaveUsers
  <2>2. users' = Users!With(users, setting[t].user, setting[t].password)
    BY <2>1 DEF Users!SaveUsers
  <2>3. QED
    BY <2>2 DEF Users!With
<1>2. QED
  BY <1>1, AccountsInvariance, PTL DEF WebSpec, OneAccountAtATime

-----------------------------------------------------------------------------
(* ActsForTheUserShown: a call starts only in an action that asks for an     *)
(* authorised page.                                                          *)
THEOREM NobodyElsesPage == WebSpec => ActsForTheUserShown
<1> DEFINE Shown(t) ==
        At(t, "idle") /\ setting[t] = Users!Idle
        /\ (call'[t] # Idle \/ setting'[t] # Users!Idle)
            => /\ page[t].key = key
               /\ page[t].user = cookie.user
               /\ setting'[t] # Users!Idle => setting'[t].user = page[t].user
<1>1. Inv /\ AccountsInv /\ SessionsInv /\ [WebNext]_webVars => [\A t \in Web : Shown(t)]_webVars
  <2> SUFFICES ASSUME Inv, AccountsInv, SessionsInv, WebNext, NEW t \in Web,
                      At(t, "idle"), setting[t] = Users!Idle,
                      call'[t] # Idle \/ setting'[t] # Users!Idle
               PROVE  /\ page[t].key = key
                      /\ page[t].user = cookie.user
                      /\ setting'[t] # Users!Idle => setting'[t].user = page[t].user
    OBVIOUS
  <2>1. call[t] = Idle /\ t # Main
    BY CallFields, Members DEF Inv, TypeOK, At
  <2>2. ASSUME NEW u \in Web, NEW password \in Password, ChangePassword(u, password)
        PROVE  /\ page[t].key = key
               /\ page[t].user = cookie.user
               /\ setting'[t] # Users!Idle => setting'[t].user = page[t].user
    <3>1. call' = call
      BY <2>2 DEF ChangePassword, vars
    <3>2. PICK seen \in Users!Readings :
            setting' = [setting EXCEPT ![u] =
              [at |-> "save", user |-> cookie.user, password |-> password, seen |-> seen]]
      BY <2>2 DEF ChangePassword, Users!SetPassword
    <3>3. u = t /\ setting'[t].user = cookie.user
      BY <2>1, <3>1, <3>2 DEF AccountsInv, Users!TypeOK
    <3>4. QED
      BY <2>2, <3>3, AuthorisedPage DEF ChangePassword
  <2>3. ASSUME NEW u \in Web, Authorised(u), NEW next, Goto(u, next), setting' = setting
        PROVE  page[t].key = key /\ page[t].user = cookie.user
    <3>1. u = t
      BY <2>1, <2>3 DEF Goto, Inv, TypeOK
    <3>2. QED
      BY <2>3, <3>1, AuthorisedPage
  <2>4. ASSUME NEW u \in Web, NEW mode \in Mode, ChangeMode(u, mode)
        PROVE  /\ page[t].key = key /\ page[t].user = cookie.user /\ setting' = setting
    BY <2>3, <2>4 DEF ChangeMode, RequestMode, accountVars
  <2>5. ASSUME NEW u \in Web, NEW on \in BOOLEAN, ChangeAutoBlock(u, on)
        PROVE  /\ page[t].key = key /\ page[t].user = cookie.user /\ setting' = setting
    BY <2>3, <2>5 DEF ChangeAutoBlock, RequestAutoBlock, accountVars
  <2>6. CASE FinishSettings
    <3>1. setting' = setting
      BY <2>6 DEF FinishSettings, accountVars
    <3>2. call'[t] = call[t]
      <4>1. ASSUME NEW u \in Thread \ {t}, NEW next, Goto(u, next) PROVE call'[t] = call[t]
        BY <4>1 DEF Goto, Inv, TypeOK
      <4>2. ASSUME NEW option \in Mode \cup {NoOption}, Start(option) \/ Create(option)
            PROVE  call'[t] = call[t]
        BY <2>1, <4>1, <4>2, Members DEF Start, Create
      <4>3. ASSUME NEW u \in Thread, call[u].at # "idle", NEW next, Goto(u, next)
            PROVE  call'[t] = call[t]
        BY <4>1, <4>3 DEF At
      <4>4. ASSUME NEW u \in Thread,
                   Copy(u) \/ Write(u) \/ Rename(u) \/ SaveFails(u) \/ Assign(u)
            PROVE  call'[t] = call[t]
        BY <4>3, <4>4 DEF Copy, Write, Rename, SaveFails, Assign, At
      <4>5. QED
        BY <2>6, <4>2, <4>4 DEF FinishSettings, GoOn
    <3>3. QED
      BY <2>1, <3>1, <3>2
  <2>7. ASSUME NEW u \in Web, FinishPassword(u) PROVE FALSE
    <3>1. call' = call
      BY <2>7 DEF FinishPassword, vars
    <3>2. setting' = [setting EXCEPT ![u] = Users!Idle]
      BY <2>7 DEF FinishPassword, Users!SaveUsers, Users!SaveFails
    <3>3. QED
      BY <2>1, <3>1, <3>2 DEF AccountsInv, Users!TypeOK
  <2>8. ASSUME Crash PROVE FALSE
    BY <2>8, Members DEF Crash, Kill, Users!Forget
  <2>9. ASSUME UNCHANGED <<call, setting>> PROVE FALSE
    BY <2>1, <2>9
  <2>10. QED
    BY <2>2, <2>4, <2>5, <2>6, <2>7, <2>8, <2>9
    DEF WebNext, vars, accountVars, Serve, Users!EnsureDefaultAdmin, Login, Logout,
        OpenDashboard
<1>2. QED
  BY <1>1, DashboardUsesSettings, Invariance, AccountsInvariance, SessionsInvariance, PTL
  DEF WebSpec, ActsForTheUserShown

-----------------------------------------------------------------------------
(* Types, and the properties of Settings under the dashboard.                *)
THEOREM TypeCorrect == WebSpec => []WebTypeOK
<1>1. Inv /\ AccountsInv /\ SessionsInv => WebTypeOK
  BY DEF Inv, AccountsInv, SessionsInv, WebTypeOK
<1>2. QED
  BY <1>1, DashboardUsesSettings, Invariance, AccountsInvariance, SessionsInvariance, PTL

THEOREM SettingsKept == WebSpec => []EngineAgrees /\ FileStaysWhole /\ NoLostUpdate
BY DashboardUsesSettings, EngineFollowsFile, SavedStaysWhole, EveryUpdateKept
================================================================================
