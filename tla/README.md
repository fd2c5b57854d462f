# Verification of the dynamic firewall

TLA+ models of the firewall in `src/` (a Python program that takes packets from
two netfilter queues, decides them by connection state, rules, detectors and an
anomaly model, and drives the kernel's block sets), the TLC runs that check the
models, and TLAPS proofs about every modelled component.

Contents: 1 the system, 2 the modules and the code, 3 the runs, 4 bounds,
5 fairness, 6 the proofs, 7 known differences, 8 what is not modelled, 9 the plan.

## 1. The system

| Component | State | Operations | Talks to |
|---|---|---|---|
| Decision pipeline, `fwcore/engine.py` | `mode`, `cfg`, two reader threads, a sweeper thread | `_handle`, `_decide`, `_queue_loop`, `_sweep_loop`, `set_mode`, `start`, `stop` | everything below |
| Dynamic blocklist, `fwcore/blocklist.py` | `_active`, `_safe`, a lock, and the kernel's ipsets | `block`, `unblock`, `is_blocked`, `sweep`, `add_safe` | netfilter (`ipset`), storage by callback |
| Connection tracking, `fwcore/conntrack.py` | `_flows`, `_last_sweep`, a lock | `update`, `is_reply_to_us`, `_sweep` | called by the readers |
| Kernel plumbing, `fwcore/netfilter.py` | chains, hooks and sets of the kernel | `install`, `remove`, `block_ip`, `unblock_ip` | `iptables`, `ip6tables`, `ipset` |
| History, `fwcore/storage.py` | a bounded queue, a writer thread, an SQLite file | `log_*`, `_run`, `_trim`, `close` | called by readers, sweeper, web |
| Settings, `fwcore/config.py` | `config.json`, the cache, the engine's copies | `load`, `save`, `update` | engine, dashboard |
| Rule list, `fwcore/rules.py` | `_rules`, `_next_id`, `rules.json`, a lock | `load`, `save`, `add`, `delete`, `update`, `move`, `evaluate`; of a rule `compile`, `matches` | readers, dashboard |
| Detectors, `fwcore/detectors.py` | five sliding windows with `_fired` | `inspect` | called by a reader, under a lock |
| Anomaly model, `fwcore/ai.py` | model, statistics, collected rows, `model.pkl` | `observe`, `train`, `score`, `save`, `load` | readers, dashboard |
| Packet parser, `fwcore/packet.py` | none | `parse` | pipeline |
| Live counters, `fwcore/stats.py` | counters | `record`, `snapshot` | pipeline, dashboard |
| Dashboard, `web/server.py` | the session cookie of each browser, a key made at each start | `create_app`, `login`, `logout`, the page, `/api/...` | accounts, engine, settings, rules |
| Accounts, `web/auth.py` | `users.json`, a lock | `ensure_default_admin`, `validate`, `set_password` | dashboard |
| Launcher, `run.py`, and `tools/cleanup.py` | the process | start, signals, stop | engine, netfilter |

How they interact. Two readers decide packets at the same time, one for each
direction. Both change the flow table; a block of a detector or of the model
goes through the blocklist into the kernel, and by callback into the history.
Web threads change the mode, the settings, the rules and the blocklist while
packets are decided. The sweeper lifts blocks whose time has passed. Only the
kernel's sets, chains and hooks and the files of `data/` survive a process.

What is hard about it, with what makes each part correct:

- *Blocklist.* A block is an entry in the kernel and a record in memory, set one
  after the other, with two clocks that end it. The protected addresses must never
  be blocked, no kernel entry may be without a record or outlive it, and a timed
  block must be lifted in the end.
- *Connection tracking.* A packet that counts as a reply skips the blocklist and
  the rules. So a reply must belong to a flow this machine opened; the table is
  swept by the same call that fills it, in both readers.
- *Pipeline.* Blocklist, mode and auto-block are read at different moments of one
  decision, and acted on later. A packet of a blocked source must not get through, a
  detector's alert must stop its packet, monitor mode must block nobody, and each
  packet needs a verdict.
- *Kernel plumbing.* `install` and `remove` are scripts of commands, any of which may
  fail; a signal may come in between, and a killed run leaves its work behind. A chain
  hooked before its rules are in it, or a chain left behind, cuts off the machine.
- *History.* A queue that fills up, inserts that fail, a writer thread that dies when it
  cannot open its file, and a process that waits three seconds at most when it closes.
  Rows must not be lost without a known cause.
- *Settings and rules.* Two web threads, a save that fails, a kill while a file is
  written. A save must not take back another's change; the files must stay whole.
- *Dashboard and accounts.* Pages stay open over a restart, a logout and the login of
  somebody else in another tab; `users.json` is read without the lock and may not be
  readable at that moment. A page must change something only for the user it shows, the
  default password must not come back, no password change may undo another.
- *Packet parser and rules.* Packets that are cut short, options, protocols without
  ports; rules with lists and ranges of ports, edited while a packet waits. What the rule
  list shows must be what is enforced, and a packet and its answer must share a flow.
- *Detectors.* A burst that straddles two windows, or goes on while its alert is
  silenced. No burst may pass unreported, nothing else may be reported.
- *Anomaly model.* Two trainings at once, and packets scored in between. The model and
  the statistics that explain its verdicts must come from one training.

`PROJECT.json` lists these hazards at the lines where they bite.

## 2. The modules and the code

Every module is one component; its variables are the component's fields and the outside
state it drives, its actions the code between two points at which another thread, the
kernel or a crash can observe something. Where the code holds a lock the model
has one step for what cannot be interrupted, and separate steps where the effect
is visible before the lock is released (an `ipset` command, a file rename).

| Module | Variables that model fields | Actions and the code they model | History variables |
|---|---|---|---|
| `Blocklist` | `safe`, `active`, `until` (the records), `kernel`, `expiry` (the sets), `call`, `due` | `RequestBlock` (`is_safe`), `ExtendKnown`, `KernelAdd`, `KernelAddFails`, `Record`, `LogBlock`: the steps of `block`; `Unblock` and `LogUnblock`: those of `unblock`; `SweepWakes` (reads the clock), `SweepScan`, `SweepLift`, `SweepAborts`: `sweep` in `_sweep_loop`; `AddSafe`; `Tick` lets kernel timeouts lapse | `logged` |
| `ConnTrack` | `table`, `lastSweep`, `call` | `Arrive` reads the clock; `Update` is `update` with its sweep; `Judge` is `is_reply_to_us` | `heard`, `newest` |
| `Engine` | `mode`, `autoBlock`, `opener`, `active`, `kernel`, `call`, `verdict`, `alive` | one action for each stage of `_handle` and `_decide` (`Loopback`, `Track`, `Stateful`, `CheckBlocklist`, `EvaluateRules`, `DetectorAlert`, `DetectorBlock`, `AnomalyScore`, `AnomalyMode`, `AnomalyBlock`, `Raise`, `ReadMode`, `GiveVerdict`, `Record`), `ReaderStops`, `SetMode`, `SetAutoBlock`, `ManualBlock`, `Lift`, `KernelLapse` | `sent`, and the fields `met`, `listed` and `alerts` of a packet |
| `FlowTable` | abstract: who opened each flow | implemented by `ConnTrack`, used by `Engine` | |
| `BlockSet` | abstract: the recorded and the kernel's addresses | implemented by `Blocklist`, used by `Engine` | |
| `Inline` | abstract: a packet is taken, then passed, or condemned and stopped, then released | implemented by `Engine` | |
| `Packets` | a packet's `info`, one `rule` and its `compiled` form | `Parse` (`parse`, `_parse_l4`), `FlowKey` (`_key`), `ParsePorts`, `Compile`, `Matches` (`rules.py`) as operators; `Receive`, `UpdateField`, `Judged` | `raw` |
| `Netfilter` | `sets`, `chain`, `hooks`, `proc`, `todo`, `copies`, `inflight` | `InstallScript` and `RemoveScript` are the commands of `install` and `remove` in order; `RunCommand`, `CommandFails`, `CommandRefused`, `InstallFails`, `Start`, `Stop`, `Interrupt`, `Kill`, `Cleanup`, `LateCommand` | `starts`, `disturbed`, `exit` |
| `Storage` | `queue`, `held`, `rows`, `writer`, `stop`, `closing` | `Submit` (`log_*`), `Connect`, `Get` and `Insert` (`_run` with `_trim`), `WriterEnds`, `Close`, `JoinReturns`, `ProcessEnds` | `submitted`, `lost`, `trimmed`, `atClose` |
| `Settings` | `file`, `cache`, `engMode`, `engCfg` | `Start`, `Create` (`load`), `RequestMode`, `RequestAutoBlock`, `Copy`, `Write`, `Rename`, `SaveFails`, `Assign`, `Kill` | `strayed` |
| `RuleSet` | `rules`, `file`, `nextId` | `Load`, `AddStarter`, `Ready`, `Add`, `Delete`, `Update`, `Move`, `Rename`, `SaveFails`, `Kill`, `Spoil` | `issued`, `unsaved` |
| `Accounts` | `users` (the file), `setting` (where a thread is in `set_password`) | `EnsureDefaultAdmin`, `SetPassword` (takes the lock, reads), `SaveUsers`, `SaveFails`, `Forget` | `chosen` |
| `Dashboard` | `serving`, `key`, `cookie`, `page`, with all of `Settings` and `Accounts` | `Serve` (`create_app`), `Login`, `Logout`, `OpenDashboard`, `ChangePassword`, `ChangeMode`, `ChangeAutoBlock`, `FinishSettings`, `FinishPassword`, `Crash` | the key of a page |
| `Detectors` | `events`, `fired` | `Inspect` (all five detectors of the suite), `Outbound`, `Tick` | `seen`, `alerts` |
| `AnomalyModel` | `learning`, `rows`, `model`, `stats`, `disk` | `StartLearning`, `StopLearning`, `Train`, `Install`, `ReadModel`, `ReadStats`, `Open`, `Dump`, `DumpFails`, `Look`, `Observe`, `Collect`, `Score`, `Kill`, `Start` | `fits`, `overlapped` |

The `MC*` modules give the constants of each instance; the `*Proofs` modules hold the
theorems. The definitions that stand in front of a module's actions and are not used
(`LockAlwaysFree`, `NeverBlocked`, ...) are wrong variants of the definitions that follow:
each names a plausible bug, and putting it in the place of the right one makes TLC
find a violation. `PROJECT.json` pairs every checked property with one.

Composition.
- `Engine` is built on two abstract specifications. `FlowTable` says who opened each flow
  and lets the table forget any other flow at a packet; `ConnTrack`, with its clocks,
  timeouts and sweeps, implements it (`IsFlowTable`). `BlockSet` says which addresses are
  recorded and which the kernel drops; `Blocklist`, with its lock, deadlines, callers and
  sweeper, implements it (`IsBlockSet`): an address counts as recorded from the `ipset add`
  on, which no reader can tell apart as the recording thread holds the lock. `Engine` takes
  its steps on both from the actions of these modules, so what is shown of it rests
  on nothing about the two components but what they are shown to promise.
- `Engine` implements `Inline` under the mapping `held <- FateOf`, `serving <- alive`,
  `mode <- mode` (`IsInlineFilter`): a packet is decided once, and is stopped only if
  enforce mode was in force at a moment of its wait, whatever the stages do. `_handle`
  reads the mode and drops in two steps (`Condemn` and `Stop`), so a packet may still be
  stopped after a switch to monitor mode; that is `DropsInEnforceOnly` of section 7.
- `Dashboard` extends `Settings` and instantiates `Accounts`: a request passes the session and
  token checks, then is a call of the other two. `Settings` and `Accounts` have no run of
  their own; they are run, with their properties, as parts of `Dashboard`.

The address of the machine itself is on the safelist of the `Engine` instance; what
happens when it is not there is the claim `OwnMachineSafe` of section 7. No other property
depends on it: the blocklist is asked about inbound packets only, whose sources are peers.

In `Dashboard` the checks of a password request and the taking of the accounts' lock are one
step: between them the code only reads its request. A login or a logout and
its answer, which the browser stores, are one step too. A text address in `Packets` is
a number, its place in the order of the texts that `_key` compares.

What is abstracted in the data: addresses, flows, rules and packets are model values or
small records of what a decision looks at; reasons, texts and counters are left out.
A rule of `RuleSet` is its action and the kinds of packets it matches; what one rule
matches is in `Packets`. A password hash stands for its password. Time is counted in
units, in the order of the code's timeouts. SQLite, the kernel, `ipset`, `iptables` and
the isolation forest are outside `src/` and modelled by how the code uses them (marked
external in the map).

## 3. The runs

Run one with `tlc -workers 2 -config X.cfg M`.

| Run | Module | What it shows | States, time |
|---|---|---|---|
| `Blocklist_safety` | `MCBlocklist` | Two callers and the sweeper, three addresses, one protected and one whose `ipset del` may fail. No protected address is blocked, no removable kernel entry is without a record, none outlives the deadline, each block and lift is reported once, timed blocks are lifted, `BlockSet` is implemented | 353k, 142 s |
| `Blocklist_sweep_race` | `MCBlocklist` | *violation*: the sweep lifts a block that was extended meanwhile | |
| `ConnTrack_safety` | `MCConnTrack` | Two readers, one TCP and one UDP flow. A reply answers something this machine sent since the flow's entry was made, established means both sides were heard, an idle entry is revived no later than its timeout, one interval and the time since the last packet of any flow, `FlowTable` is implemented | 1.10M, 15 s |
| `Engine_safety` | `MCEngine` | Both readers, either may die, every mode and auto-block change, blocks and lifts at any moment. Blocked sources are stopped, a detector's alert stops its packet, a reply answers a packet of ours, monitor mode blocks nobody, the pipeline implements `Inline` with its liveness | 496k, 131 s |
| `Engine_reject` | `MCEngine` | *violation*: a packet with verdict `reject` passes in enforce mode | |
| `Netfilter_safety` | `MCNetfilter` | Starts, stops, kills, signals inside `install`, failing tools, refused removals and cleanups in any order. A hooked chain is complete, a `remove` none of whose commands was refused leaves nothing, a running engine is hooked exactly once | 492k, 6 s |
| `Storage_safety` | `MCStorage` | A full queue, a writer that may fail to connect, failing inserts, trims and a close. Every row is stored, waiting, trimmed or lost for a known cause; a close in time drained the queue, unless the writer never connected; a trim takes only the oldest; every row settles while the process and its writer live | 225k, 16 s |
| `Dashboard_safety` | `MCDashboard` | Two tabs log in and out, change passwords, mode and auto-block, while saves and reads fail and the program is killed and started. A page changes something only for the user it shows and in the run that made it; the default password does not come back and the warning about it is true; no change of a password or a setting undoes another; the file stays whole; the engine agrees with the settings unless requests overlapped or a save failed | 866k, 134 s |
| `Packets_safety` | `MCPackets` | Packets at and below each size the parser asks for, all conversations of two hosts, every rule of the instance, edited while a packet waits. A compiled rule matches what the stored rule says of the packet on the wire; what was not read matches nothing that asks for it; a packet and its answer share a flow that nothing else shares | 150k, 46 s |
| `RuleSet_safety` | `MCRuleSet` | Two editors, failing saves, kills, spoilt files. Ids are never reused by a process, an edit changes only what the edited rule decides, packets are judged by what is stored unless the last save failed | 1.17M, 70 s |
| `Detectors_safety` | `MCDetectors` | Every sequence of up to four packets and three ticks through all five detectors. The windows agree with the full history: no burst without an alert, no alert without a burst | 597k, 21 s |
| `AnomalyModel_safety` | `MCAnomalyModel` | Two web threads and two readers, up to three trainings, kills and restarts. A reader that saw a model scores with one; unless trainings overlapped, model and statistics belong together in memory, on disk and after a restart | 97k, 2 s |

Deadlock is checked in all runs but two. In `Netfilter` the bound on starts is
reached and the machine is left alone; in `Storage` the process ends.

Some properties carry a condition that a history variable keeps: `strayed`, `unsaved`,
`overlapped`, `disturbed` (a signal came inside `install`, or a command of `remove` was
refused, and nothing has run to its end since), and of the states, `writer = "dead"`. Each
marks the situation in which the code does not keep the property, listed in section 7;
the condition is a claim that nothing else breaks it.

## 4. Bounds

- `Blocklist`: `LastTick` bounds the clock, two ticks past the first moment a block
  can be requested. A timed block of two units can be set, extended, lapse in the kernel
  and be swept. Three addresses are one protected, one ordinary and one whose removal may
  fail; two callers are enough for each pair of operations to overlap with the sweep.
- `ConnTrack`: `LastTick = 6` is twice the longest timeout; `MaxDelay` bounds the wait
  between the clock and the lock. The two flows have timeouts of 3 and 2 units, the sweep
  interval is 1, in the same order as the code's 120, 60 and 15 seconds.
- `Engine`: one remote host and one flow that both readers see packets of, so that every
  race of the two is about the same entry; `MaxAlerts` bounds the alerts of one packet. With
  one flow the table never forgets another one at a packet; that case is left to
  the proofs, which hold for any flows, hosts and alerts.
- `Netfilter`: `MaxStarts = 3` lets a third run meet what two earlier ones left, `MaxUnhook
  = 3` stands for the code's 20. `Contended` lets a command be refused that would have
  succeeded (the calls do not ask `iptables` to wait for its lock): a checked one, and any
  one of `remove`. The proof shows that a hook never has a second copy, so
  the loop that deletes copies never needs its bound.
- `Storage`: `MaxQueue = 2` and `Keep = 1` are reached and passed by `MaxRows = 4` rows.
  `ConnectCanFail` and `InsertCanFail` allow the two errors of the writer.
- `RuleSet`: `MaxRules = 3` puts an edit before, at and behind the rule that decides;
  `MaxId = 4` allows a deletion of the newest rule and two more additions.
- `Detectors`: `MaxPackets = 4` is one more than the highest limit, `MaxTime = 3` one more
  than the longest window. `Traffic` is one busy source and another beside it.
- `AnomalyModel`: `MaxTrainings = 3`: two that overlap and one after; `Cap = 2` is reached.
- `Dashboard`: two tabs, two users and three passwords: the default one, a short one, which
  no request may set, and one long enough. Four tokens and two keys are more than can be
  held at once, so a login and a start always find a fresh one (`DashboardAssumption`).
  Nothing else is bounded: the state space is finite.
- `Packets`: the sizes are those at and one below each comparison of the parser, with IPv4
  headers of 20 and 24 bytes and IPv6; ports 0 to 3 with single ports, ranges, empty and
  reversed ranges and lists of two. A packet that ends inside its IPv4 options is left
  out (the kernel drops it before the queue); IPv6 extension headers count as
  a protocol of their own, as in the code.

Symmetry is used only where threads, tabs, tokens or keys are interchangeable and no
liveness property is checked.

## 5. Fairness

- `Blocklist!FairSpec`: time passes and a thread inside a call goes on, since every call
  ends by itself. The sweeper's wake-up, its scan and its lift of each address are strongly fair: the
  loop of `_sweep_loop` comes round for ever, an exception ends only one round
  (engine.py:253), and it meets a free lock and a working `ipset` again and again.
- `Engine!FairSpec`: a reader that is alive goes on with its packet (`WF(Work(r))`): the
  code of a decision has no wait but short locks. Nothing is assumed about new packets,
  nor about a reader that ended on an `OSError` (engine.py:238); `Inline` says what is
  left then, that only its own packets wait.
- `Storage!FairSpec`: the writer goes on, from its connection (which may be its death) to its
  inserts, as long as the process does. It is a daemon thread (storage.py:36), so
  nothing is assumed after the process ends.

The other runs check safety only and assume none.

## 6. The proofs

Check with `tlapm M.tla`. The theorems hold for every value of the constants that the
named assumptions of the module allow.

`BlocklistProofs` (from `BlocklistAssumption`)
- `TypeCorrect`: types, and the clock is never before the start.
- `LifetimesDoNotAddUp`: no deadline and no kernel timeout lies further ahead than the
  longest lifetime anybody asks for, however often a block is extended.
- `SafelistHolds`: `NeverBlocksProtected`. Not inductive alone: a call that is past
  `is_safe` carries its address to the record. `SafeOK` adds that no such call carries a
  protected address, and that protected addresses stay in `safe`.
- `NoOrphanEntry`: `KernelHasRecord`, for the addresses whose removal cannot fail. The
  invariant itself counts a call between `ipset add` and the record as the record's owner.
- `KernelLetsGo`: `NoKernelOverstay`, for lifetimes that are not negative (`/api/block` accepts
  negative ones, server.py:177). `LockOK` (at most
  one thread is between `ipset add` and the record, and its address is not recorded yet)
  and `OverstayOK` (the entry such a thread has added ends no later than the
  deadline it will write) are needed, since entry and deadline are written by
  different steps and the clock may move in between.
- `EveryChangeReported`: `LogBalanced`, for finitely many callers. Each step moves the count of
  the threads that wait to report by one at most (`WaitingMoves`); `LockOK` gives that a
  record is new when it is written.
- `BlockSetRefinement`: `IsBlockSet`. The step `ipset add` is the abstract block, the record
  a stutter; needs `SafeOK` and `LockOK`.

`ConnTrackProofs` (from `ConnTrackAssumption`, which asks that a wait for the lock be no
longer than a timeout)
- One inductive invariant `Inv`: types, the clocks (`ClockOK`: a reader's clock is at most
  `MaxDelay` old, the last sweep at most one interval behind the newest update),
  `NothingFromFuture` (no entry is younger than the newest update, and neither that nor the
  last sweep lies ahead of the clock) and two of the properties.
- `TypeCorrect` (types and `NothingFromFuture`), `Thorough` (`SweepIsThorough`), `Mutual` (`EstablishedIsMutual`), the
  action properties `NoForgery` (`NoForgedReply`: we have sent on the flow since its present
  entry was made) and `Revival` (`RevivalBound`), and
  `TableRefinement` (`IsFlowTable`): an update is one abstract packet that forgets what
  the sweep drops, and never the flow of the packet itself.

`EngineProofs` (from `EngineAssumption`)
- `Inv` says of the packet each reader is deciding: the mode in force is among those it has
  met; one about to be dropped has met enforce mode; it has its verdict exactly when it is
  about to be recorded; an alert has
  denied it unless an error ended its decision; one whose source stays blocked gets no
  further than the blocklist check, unless it is a reply.
- `TypeCorrect`, `BlockedIsStopped`, `AlertsStop`, `MonitorHarmless`, and `Refinement`: the
  initial states of `Engine` are initial states of `Inline`, every step is a step of
  it or stutters.
- `RepliesAreAnswers`: `RepliesAnswerUs`, with the invariant that a flow opened by us is one
  we sent on; it rests on `FlowTable` alone, hence holds whatever is forgotten.

`NetfilterProofs` (from `NetfilterAssumption`: IPv4 alone or with IPv6, any broken tools, any
number of starts and of copies of a hook)
- The invariant relates what a process has still to run to the kernel. For every chain,
  the commands of `install` are twelve steps, those of `remove` the first four. `Progress`:
  an install or remove that no signal disturbs has come to some step `n` of each chain, its
  script holds exactly the steps from `n` on (`Remain`, with `InOrder` for their
  order), and the kernel is as that step needs it (`StateAt`: no hook after the first step,
  the chain gone from the third to its creation, then filled rule by rule). None of the three
  properties is inductive without it: whether the next command hooks a complete chain
  depends on which commands are gone from the script. `BrokenBare` (a tool that always fails
  makes nothing), `Signals` (a command is in flight only after a signal inside `install`)
  and `InForce` complete it. What a refused command leaves is not followed: from it to the
  end of the next complete script the history variable `disturbed` exempts the state.
- `TypeCorrect`, `OnlyCompleteHooked` (`HookedChainsComplete`), `NothingLeft`
  (`RemoveLeavesNothing`), `InForceWhileRunning` (`RunningMeansHooked`).

`RulesProofs` (about `RuleSet` from `RuleSetAssumption`, about `Packets` from `PacketsAssumption`)
- `Inv` of the list: ids are distinct in memory and in the file (`IdsDistinct`); the next id is
  above every id in use or given out (`NextIdFresh`); a process that is gone holds nothing; and
  whenever the lock is free and the last save did not fail, the file holds the list
  (`Saved`), but for a start that has not added its first starter rule. Without that
  exception, which `JudgedByStoredRules` never meets as it speaks of a process that is up,
  loading a file that cannot be read would break the invariant.
- `TypeCorrect`; `DistinctIds`, on which `Without` rests, as it takes out one rule where
  the code keeps all rules with another id; `StoredBeforeUse` (`JudgedByStoredRules`);
  `FreshIds` (`IdsNotReused`).
- `LocalEdits`: `EditIsLocal`. Each edit maps the places of the rules it does not name to
  places in the new list, in the same order and onto them (`SameBut`; for a move, `Place`). The lemma
  `DecidedByTheEdited` then holds for any two lists so related: were the first match of both another
  rule, each list would have the other's in front of its own.
- `RuleInvariance`: the rule in force compiles, `compiled` is what it compiles to, and the
  packet was parsed for the queue it came from.
- `MatchingIsExact` (`MatchesAsWritten`), `NothingMadeUp` (`UnreadIsUnmatched`) and
  `FlowsAreConversations` (`OneFlowBothWays`), from lemmas on what the parser
  reads, what a compiled list of ports matches, and how two ends are ordered.

`DashboardProofs` (from `SettingsAssumption` and `DashboardAssumption`)
- `Inv`, of `Settings`: at most one thread is between its copy and its rename (the lock), what it will
  save differs from the file in one key, the cache is the file while the file can be read,
  and, unless requests overlapped or a save failed, the engine is exactly as far as the one
  thread at work. The last part is what `EngineAgrees` needs, which speaks of quiet
  moments only.
- `EngineFollowsFile` (`EngineAgrees`), `SavedStaysWhole` (`FileStaysWhole`),
  `EveryUpdateKept` (`NoLostUpdate`).
- `DashboardUsesSettings`: every behaviour of `Dashboard` is one of `Settings`, so its theorems
  hold of the dashboard (`SettingsKept`).
- `SessionsInvariance`: a page with the token of the cookie is of that session. From it,
  `NobodyElsesPage` (`ActsForTheUserShown`).
- `AccountsInvariance`: at most one thread is inside `set_password`, with what the file still
  holds or with nothing read; every account is marked truly; its new password is
  long. From it, `WarningIsTrue`, `DefaultStaysGone`, `OtherAccountsKept`.

`StorageProofs` (from `StorageAssumption`)
- `Inv`: rows are taken, stored and trimmed in the order of submission (`Order`), submitted row is in exactly one place (`Places`), a writer that ends does so only after all
  that was submitted before the close, and one that never connected has taken nothing (`Ending`). `RowsAccounted` needs the order, which keeps a
  row from being in the queue twice.
- `NoRowVanishes`, `JoinedMeansDrained` (`CloseDrains`), `OldestGoFirst` (`TrimsOldest`).

`DetectionProofs` (about `AnomalyModel` from `AnomalyModelAssumption`, about `Detectors` from
`DetectorsAssumption`)
- `Inv`: until trainings overlap, one web thread at most is between its fit and the end of its
  save, and what it carries to the disk is one model with its own statistics.
- `ReadyStaysReady` (`ScoringHasModel`), `ExplainedTruly` (`ExplainedByOwnTraining`),
  `SavedPairs` (`SavedTogether`).
- `DetectorInv`: the history is in order of time (`HistoryInTime`), each deque tracks it
  (`DequesTrack`), and what silences a detector is an alert that was raised (`FiredIsAlert`).
  A deque is cut only when its key is seen again, so it may hold more than the window; what it
  holds is the packets since some earlier moment. `DequesTrack` says so by a map from the
  places of the deque to places in the history, in the same order and onto the packets of the
  key since that moment. The two properties count packets in the history and the code counts
  what is left in a deque; `TracksCount` turns the map into a bijection, so the counts
  agree, and `AddedTracks` gives the map after `Dropped`, for which the least fresh place must
  have only fresh ones behind it: that is where the order of time is used.
- `DetectorTypes`, `WindowsAreExact` (`DequesTrack`), `NoBurstMissed` (`BurstIsAlerted`),
  `NoFalseAlert` (`AlertIsJustified`).

Every safety property of the runs is proved. Only model-checked: the liveness properties
(`TimedBlocksLift`, `EveryRowSettles`, the fairness part of `IsInlineFilter`), which are out of
the prover's reach. A recursive operator cannot be expanded by the prover either: `RuleSet!Without`
is therefore written with `RemoveAt`, not with `SelectSeq`. A module that is proved about
together with another one gives its initial states, steps and types names of its own
(`PacketSpec`, `DetectorSpec`), so that the theorems and the runs speak of the same definitions.

## 7. Known differences

Where a document or comment says one thing and the code does another, the module states
the claim under its own heading. Two have a run that shows the violation:

| Claim | Quoted | What the code does |
|---|---|---|
| `Blocklist!SweepLiftsOnlyExpired` | blocklist.py:110 "Lift blocks whose lifetime has passed" | `sweep` collects expired addresses under the lock and lifts them without it: a block extended or set anew in between is lifted early |
| `Engine!RejectStopsPacket` | engine.py:27 "deny/reject rules and blocks actually stop packets" | `_handle` drops on the verdict `drop` only; `reject` is accepted |

The others are stated as definitions; TLC finds each violated when it is put in the `.cfg`
of its module's run in place of the properties there. Where other constants are needed they are named.

| Claim | Quoted | What the code does |
|---|---|---|
| `Blocklist!ExtensionReachesKernel` | HOW_IT_WORKS.md:210 | extending a block moves the record's deadline, the kernel entry keeps its first timeout and lapses (blocklist.py:79; `Seconds <- JustTimed`) |
| `Blocklist!LongerRequestWins` | blocklist.py:78 "Extend the block if the new one lasts longer" | a request for good does not change a timed block |
| `Blocklist!EveryEntryIsShown` | README.md:163 "See who's blocked" | `unblock` drops the record even if `ipset del` failed (blocklist.py:99) |
| `ConnTrack!ExpiredIsForgotten` | conntrack.py:15 "entries expire after a timeout" | only the sweep looks at the age, and it runs after the update (`LastTick = 7`) |
| `ConnTrack!OwnRepliesRecognised` | engine.py:130 "replies to connections we started are always allowed" | a FIN, a RST or the other reader's sweep removes the entry before it is looked up |
| `ConnTrack!KnownMeansEstablished` | conntrack.py:61 | further packets of the opener stay `NEW` (conntrack.py:83) |
| `Engine!OwnMachineSafe` | blocklist.py:11 "we will never block loopback, your own machine, ..." | outbound packets are scored too and their source, this machine, is blocked unless it is on the safelist (`Safe = {}`) |
| `Engine!DropsInEnforceOnly` | engine.py:99 "In monitor mode we never actually drop" | the mode is read, then the packet dropped: a switch to monitor in between does not save it |
| `Engine!MonitorDropsNothing` | HOW_IT_WORKS.md:329 "nothing is ever dropped" | manual blocks reach the kernel in any mode, and a switch to monitor leaves its set as it is |
| `Netfilter!FailedStartLeavesNothing` | run.py:18 "every kernel rule this program added is removed" | an error of `install` ends the process without `remove` (run.py:76) |
| `Netfilter!InterruptedStartLeavesNothing` | the same | the signal handler runs `remove` while a command of `install` is still running (`MayBreak = {}`, `Prompt = TRUE`, `Contended = FALSE`) |
| `Netfilter!RefusedStopLeavesNothing` | the same | `remove` does not look at the exit codes (netfilter.py:140): what a refused command should have taken away stays |
| `Storage!EveryBlockLogged` | storage.py:8 "a log of every block and unblock" | a full queue drops the row |
| `Storage!JoinMeansDrained` | storage.py:12 "a single background thread drains it" | a writer that cannot connect (storage.py:93, outside any `try`) ends at once: the join of `close` returns with the rows still queued |
| `Dashboard!AlwaysAgrees`, of `Settings`, | config.py:6 "always agree on the settings" | `engine.mode` is assigned before, `engine.cfg` after the update, outside its lock; a failing save leaves the new mode |
| `Dashboard!OnlyOnFirstRun` | auth.py:40 "Create admin/admin on first run" | a start that cannot read `users.json` takes it for a first run and replaces it |
| `Packets!TruncatedIsMarked` | packet.py:16-17 a truncated packet comes back with `malformed=True` | a packet cut in its transport header comes back unmarked, with ports 0 |
| `RuleSet!RulesSurviveRestart` | rules.py:16 "so they survive restarts" | an empty list is taken for a fresh install |
| `RuleSet!OnlyKnownActions` | rules.py:14 | `update` does not check the action as `add` does (`Content <- Contents`) |
| `Detectors!ScanNeedsMoreThanLimit` | detectors.py:80 "more than `ports` distinct dports" | fires at `ports` (detectors.py:95) |
| `Detectors!RemembersOnlyTheWindow` | detectors.py:47 "within the last `window` seconds" | a silent source's events stay; `gc` is never called |
| `AnomalyModel!AlwaysExplained` | HOW_IT_WORKS.md:298, ai.py:88 "Thread-safe" | `save` reads the model and the statistics one by one, without the lock |

Two more limits are part of the properties' wording. `Track` records an outbound packet
before the rules decide it (engine.py:131), so a packet that is then denied opens a flow on
which the peer's packets are accepted as replies; engine.py:11 speaks of "a conversation we
already allowed", and `RepliesAnswerUs` claims only that we sent. `set_password` with a
`users.json` that cannot be read at that moment saves a file with one account (auth.py:68);
`OneAccountAtATime` excepts this.

## 8. Not modelled

- The features of a packet, with the per-source memory of `ai.py`, and the isolation forest:
  numbers that only the forest reads, and the forest is a library. `Score` is any verdict.
- `stats.py`: counters under one lock that no decision reads.
- The read routes of the dashboard and the browser's pages: they change nothing.
- The switches that leave parts out (`detectors.enabled`, `--web-only`, `--no-web`).
- A transient refusal of the unchecked commands inside `install` (those of its opening
  `remove`, `-N` and the `-D` before a hook: a hook left over from a killed run would stay on a
  chain being filled), and a `_init_db` that fails, after which the program does not start.
- IPv6 extension headers: the code reads none and takes the first one for the protocol.
- `tools/lab.py`, a traffic generator, and the tests.

## 9. The plan

The order follows what a fault would cost: first what decides packets and blocks addresses
(`Blocklist`, `ConnTrack`, `Engine`), then what outlives the process (`Netfilter`, `Settings`,
`RuleSet`, `Storage`), then what classifies (`Detectors`, `AnomalyModel`), then what feeds and
commands it (`Packets`, `Accounts`, `Dashboard`). These are done. To come:

1. The per-source memory of `ai.py` with its two readers, as the abstract claim that a packet's
   features depend on its own source's last packets only.
