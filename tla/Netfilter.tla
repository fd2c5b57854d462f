------------------------------ MODULE Netfilter ------------------------------
(***************************************************************************)
(* The kernel plumbing of fwcore/netfilter.py, command by command, through *)
(* starts, stops, failed starts, hard kills and tools/cleanup.py (run.py,  *)
(* engine.start and engine.stop).                                          *)
(*                                                                         *)
(* install() and remove() are scripts of iptables and ipset commands.  A   *)
(* step runs one command; what it does and whether it succeeds is decided  *)
(* by the state of the kernel, as for the real tools, and by a lock that   *)
(* another program may hold.  A process may be killed between any two      *)
(* commands; a signal makes it leave install() for remove() with a command *)
(* perhaps still running.                                                  *)
(***************************************************************************)
EXTENDS Naturals, Sequences, SequencesExt

CONSTANTS
    Families,    \* <<"v4", "v6">>, or <<"v4">> where ip6tables is missing
    MayBreak,    \* families whose iptables tool may be there but always fail
    MaxUnhook,   \* remove() deletes at most so many copies of a hook (20)
    Interrupts,  \* whether a signal may come while install() runs
    Contended,   \* whether another program may hold the lock of iptables,
                 \* for which the commands do not wait (they have no -w)
    Prompt,      \* whether a command such a signal leaves running ends while
                 \* the first command of remove() runs, or at any later time
    MaxStarts    \* bound: how often a process is started

ASSUME NetfilterAssumption ==
    /\ Families \in {<<"v4">>, <<"v4", "v6">>}
    /\ MayBreak \subseteq {"v4", "v6"}
    /\ MaxUnhook \in Nat \ {0}
    /\ Interrupts \in BOOLEAN
    /\ Contended \in BOOLEAN
    /\ Prompt \in BOOLEAN
    /\ MaxStarts \in Nat

Family == Range(Families)
Chain == {"AIFW_IN", "AIFW_OUT"}
Target == {"lo", "drop", "queue"}

VARIABLES
    sets,      \* the families whose blocked set exists
    chain,     \* chain[f][c]: the rules of our chain, or Missing
    hooks,     \* hooks[f][c]: jumps to the chain in INPUT or OUTPUT
    proc,      \* what the process does
    todo,      \* the commands it has still to run
    copies,    \* hooks deleted so far by the loop of remove()
    inflight,  \* commands a signal left running
    exit,      \* how the last process ended, or the present one is ending
    starts,    \* processes started so far
    broken,    \* families whose tool always fails on this machine
    disturbed  \* history: a signal came inside install() or a command of
               \* remove() was refused, and no start, stop or cleanup has
               \* run to its end since

kernel == <<sets, chain, hooks>>
vars == <<sets, chain, hooks, proc, todo, copies, inflight, exit, starts,
          broken, disturbed>>

(* The value of a chain that does not exist; no rule has this name.         *)
Missing == <<"missing">>

-----------------------------------------------------------------------------
(* The scripts.  `must` marks a command whose failure raises.               *)

Command(op, f, c, must) == [op |-> op, family |-> f, chain |-> c, must |-> must]

RemoveChain(f, c) ==
    << Command("unhookAll", f, c, FALSE),
       Command("flush", f, c, FALSE),
       Command("delete", f, c, FALSE) >>

(* Mutant: the set goes before the chains that refer to it.                 *)
SetsFirst(f) ==
    << Command("destroySet", f, "", FALSE) >>
        \o RemoveChain(f, "AIFW_IN") \o RemoveChain(f, "AIFW_OUT")

RemoveFamily(f) ==
    RemoveChain(f, "AIFW_IN") \o RemoveChain(f, "AIFW_OUT")
        \o << Command("destroySet", f, "", FALSE) >>

(* remove()                                                                 *)
RemoveScript == FlattenSeq([i \in DOMAIN Families |-> RemoveFamily(Families[i])])

CreateSets ==
    [i \in DOMAIN Families |-> Command("createSet", Families[i], "", TRUE)]

(* Mutant: the hook goes in before the rules.                               *)
HookFirst(f, c) ==
    << Command("new", f, c, FALSE),
       Command("flush", f, c, TRUE),
       Command("unhook", f, c, FALSE),
       Command("hook", f, c, TRUE),
       Command("lo", f, c, TRUE),
       Command("drop", f, c, TRUE),
       Command("queue", f, c, TRUE) >>

CreateChain(f, c) ==
    << Command("new", f, c, FALSE),
       Command("flush", f, c, TRUE),
       Command("lo", f, c, TRUE),
       Command("drop", f, c, TRUE),
       Command("queue", f, c, TRUE),
       Command("unhook", f, c, FALSE),
       Command("hook", f, c, TRUE) >>

(* Mutant: failures of iptables are ignored.                                *)
Unchecked(f, c) ==
    [i \in DOMAIN CreateChain(f, c) |-> [CreateChain(f, c)[i] EXCEPT !.must = FALSE]]
UncheckedChains(f) == Unchecked(f, "AIFW_IN") \o Unchecked(f, "AIFW_OUT")

CreateChains(f) == CreateChain(f, "AIFW_IN") \o CreateChain(f, "AIFW_OUT")

(* install()                                                                *)
InstallScript ==
    RemoveScript \o CreateSets
        \o FlattenSeq([i \in DOMAIN Families |-> CreateChains(Families[i])])

Commands == Range(InstallScript) \cup Range(RemoveScript)

-----------------------------------------------------------------------------
TypeOK ==
    /\ sets \subseteq Family
    /\ \A f \in Family, c \in Chain :
          /\ chain[f][c] = Missing \/ Range(chain[f][c]) \subseteq Target
          /\ hooks[f][c] \in Nat
    /\ proc \in {"down", "installing", "running", "removing"}
    /\ Range(todo) \subseteq Commands
    /\ copies \in 0..MaxUnhook
    /\ inflight \subseteq Commands
    /\ exit \in {"none", "stopped", "interrupted", "cleaned", "partial", "error", "killed"}
    /\ starts \in 0..MaxStarts
    /\ broken \subseteq MayBreak
    /\ disturbed \in BOOLEAN

(* A machine the program never ran on.                                      *)
Clean ==
    /\ sets = {}
    /\ \A f \in Family, c \in Chain : chain[f][c] = Missing /\ hooks[f][c] = 0

Init ==
    /\ sets = {}
    /\ chain = [f \in Family |-> [c \in Chain |-> Missing]]
    /\ hooks = [f \in Family |-> [c \in Chain |-> 0]]
    /\ proc = "down"
    /\ todo = <<>>
    /\ copies = 0
    /\ inflight = {}
    /\ exit = "none"
    /\ starts = 0
    /\ broken \in SUBSET MayBreak
    /\ disturbed = FALSE

-----------------------------------------------------------------------------
(* What the tools do.                                                       *)

IsSetCommand(cmd) == cmd.op \in {"createSet", "destroySet"}
Exists(f, c) == chain[f][c] # Missing
Uses(f) == \E c \in Chain : Exists(f, c) /\ "drop" \in Range(chain[f][c])

(* Whether the command succeeds; ipset create has -exist.                   *)
Succeeds(cmd) ==
    LET f == cmd.family
        c == cmd.chain
    IN  /\ IsSetCommand(cmd) \/ f \notin broken
        /\ CASE cmd.op = "createSet" -> TRUE
             [] cmd.op = "destroySet" -> f \in sets /\ ~Uses(f)
             [] cmd.op = "new" -> ~Exists(f, c)
             [] cmd.op \in {"flush", "lo", "queue", "hook"} -> Exists(f, c)
             [] cmd.op = "drop" -> Exists(f, c) /\ f \in sets
             [] cmd.op \in {"unhook", "unhookAll"} -> hooks[f][c] > 0
             [] cmd.op = "delete" -> chain[f][c] = <<>> /\ hooks[f][c] = 0

SetChain(f, c, rules) == chain' = [chain EXCEPT ![f][c] = rules]
SetHooks(f, c, n) == hooks' = [hooks EXCEPT ![f][c] = n]

(* The effect of a command that succeeds.                                   *)
Effect(cmd) ==
    LET f == cmd.family
        c == cmd.chain
    IN  \/ /\ cmd.op = "createSet"
           /\ sets' = sets \cup {f}
           /\ UNCHANGED <<chain, hooks>>
        \/ /\ cmd.op = "destroySet"
           /\ sets' = sets \ {f}
           /\ UNCHANGED <<chain, hooks>>
        \/ /\ cmd.op \in {"new", "flush"}
           /\ SetChain(f, c, <<>>)
           /\ UNCHANGED <<sets, hooks>>
        \/ /\ cmd.op = "delete"
           /\ SetChain(f, c, Missing)
           /\ UNCHANGED <<sets, hooks>>
        \/ /\ cmd.op \in Target
           /\ SetChain(f, c, Append(chain[f][c], cmd.op))
           /\ UNCHANGED <<sets, hooks>>
        \/ /\ cmd.op \in {"unhook", "unhookAll"}
           /\ SetHooks(f, c, hooks[f][c] - 1)
           /\ UNCHANGED <<sets, chain>>
        \/ /\ cmd.op = "hook"
           /\ SetHooks(f, c, hooks[f][c] + 1)
           /\ UNCHANGED <<sets, chain>>

-----------------------------------------------------------------------------
(* Running a script.                                                        *)

Working ==
    /\ proc \in {"installing", "removing"}
    /\ todo # <<>>
    /\ Prompt => inflight = {} \/ todo = RemoveScript

(* The command succeeds; the loop of remove() tries the same one again      *)
(* until it fails or MaxUnhook copies are gone.                             *)
RunCommand ==
    /\ Working
    /\ Succeeds(Head(todo))
    /\ Effect(Head(todo))
    /\ IF Head(todo).op = "unhookAll" /\ copies + 1 < MaxUnhook
       THEN copies' = copies + 1 /\ todo' = todo
       ELSE copies' = 0 /\ todo' = Tail(todo)
    /\ UNCHANGED <<proc, inflight, exit, starts, broken, disturbed>>

(* The command fails and its failure is ignored.                            *)
CommandFails ==
    /\ Working
    /\ ~Succeeds(Head(todo))
    /\ ~Head(todo).must
    /\ copies' = 0
    /\ todo' = Tail(todo)
    /\ UNCHANGED <<sets, chain, hooks, proc, inflight, exit, starts, broken, disturbed>>

(* The lock of iptables is held by another program: the command would have  *)
(* worked, does nothing, and remove() goes on with the next one.  The same  *)
(* for the unchecked commands of install() is left out.                     *)
CommandRefused ==
    /\ Contended
    /\ Working
    /\ proc = "removing"
    /\ Succeeds(Head(todo))
    /\ ~IsSetCommand(Head(todo))
    /\ copies' = 0
    /\ todo' = Tail(todo)
    /\ exit' = IF exit = "interrupted" THEN exit ELSE "partial"
    /\ disturbed' = TRUE
    /\ UNCHANGED <<sets, chain, hooks, proc, inflight, starts, broken>>

(* NetfilterError leaves install() and start(); nothing in run.py stops the *)
(* engine on the way out.                                                   *)
InstallFails ==
    /\ Working
    /\ ~Succeeds(Head(todo)) \/ (Contended /\ ~IsSetCommand(Head(todo)))
    /\ Head(todo).must
    /\ proc' = "down"
    /\ exit' = "error"
    /\ todo' = <<>>
    /\ UNCHANGED <<sets, chain, hooks, copies, inflight, starts, broken, disturbed>>

InstallDone ==
    /\ proc = "installing"
    /\ todo = <<>>
    /\ proc' = "running"
    /\ disturbed' = FALSE
    /\ UNCHANGED <<sets, chain, hooks, todo, copies, inflight, exit, starts, broken>>

RemoveDone ==
    /\ proc = "removing"
    /\ todo = <<>>
    /\ proc' = "down"
    /\ disturbed' = (disturbed /\ exit \in {"interrupted", "partial"})
    /\ UNCHANGED <<sets, chain, hooks, todo, copies, inflight, exit, starts, broken>>

-----------------------------------------------------------------------------
(* The life of the process.                                                 *)

(* run.py: engine.start() calls install().  Commands a former process left  *)
(* running have ended by then: they take milliseconds.                      *)
Start ==
    /\ proc = "down"
    /\ inflight = {}
    /\ starts < MaxStarts
    /\ starts' = starts + 1
    /\ proc' = "installing"
    /\ exit' = "none"
    /\ todo' = InstallScript
    /\ UNCHANGED <<sets, chain, hooks, copies, inflight, broken, disturbed>>

(* tools/cleanup.py                                                         *)
Cleanup ==
    /\ proc = "down"
    /\ inflight = {}
    /\ exit \notin {"stopped", "cleaned"}
    /\ proc' = "removing"
    /\ exit' = "cleaned"
    /\ todo' = RemoveScript
    /\ UNCHANGED <<sets, chain, hooks, copies, inflight, starts, broken, disturbed>>

(* SIGINT or SIGTERM while the engine runs: engine.stop().                  *)
Stop ==
    /\ proc = "running"
    /\ proc' = "removing"
    /\ exit' = "stopped"
    /\ todo' = RemoveScript
    /\ UNCHANGED <<sets, chain, hooks, copies, inflight, starts, broken, disturbed>>

(* The same while install() waits for a command: the handler runs stop() in *)
(* the same thread, and the command goes on beside it.                      *)
Interrupt ==
    /\ Interrupts
    /\ proc = "installing"
    /\ todo # <<>>
    /\ inflight' = inflight \cup {Head(todo)}
    /\ proc' = "removing"
    /\ exit' = "interrupted"
    /\ todo' = RemoveScript
    /\ copies' = 0
    /\ disturbed' = TRUE
    /\ UNCHANGED <<sets, chain, hooks, starts, broken>>

(* A command left running has its effect, or fails or is interrupted too.   *)
LateCommand(cmd) ==
    /\ cmd \in inflight
    /\ inflight' = inflight \ {cmd}
    /\ IF Succeeds(cmd) THEN Effect(cmd) \/ UNCHANGED kernel ELSE UNCHANGED kernel
    /\ UNCHANGED <<proc, todo, copies, exit, starts, broken, disturbed>>

(* kill -9, power loss of the process: the kernel keeps what it has.        *)
Kill ==
    /\ proc # "down"
    /\ proc' = "down"
    /\ exit' = "killed"
    /\ todo' = <<>>
    /\ copies' = 0
    /\ UNCHANGED <<sets, chain, hooks, inflight, starts, broken, disturbed>>

Next ==
    \/ RunCommand \/ CommandFails \/ CommandRefused \/ InstallFails \/ InstallDone \/ RemoveDone
    \/ Start \/ Cleanup \/ Stop \/ Interrupt \/ Kill
    \/ \E cmd \in inflight : LateCommand(cmd)

Spec == Init /\ [][Next]_vars

-----------------------------------------------------------------------------
(* Properties.                                                              *)

(* Once a stop of the running firewall or tools/cleanup.py has run remove() *)
(* to its end and no command of it was refused, whatever earlier processes  *)
(* left behind when they failed, were interrupted, refused or killed, the   *)
(* machine is as if the program had never run.                              *)
RemoveLeavesNothing == proc = "down" /\ exit \in {"stopped", "cleaned"} => Clean

(* A chain is hooked only while it is complete, at every command of every   *)
(* install and remove and after every crash: no packet meets a chain whose  *)
(* drop rule or loopback exception is missing.  A signal inside install()   *)
(* or a command of remove() that was refused may break this, until a start, *)
(* stop or cleanup has run to its end.                                      *)
HookedChainsComplete ==
    \A f \in Family, c \in Chain :
        hooks[f][c] > 0 /\ ~disturbed => chain[f][c] = <<"lo", "drop", "queue">>

(* While the engine runs, every chain of every family is in force.          *)
RunningMeansHooked ==
    proc = "running" =>
        \A f \in Family : f \in sets /\ \A c \in Chain : hooks[f][c] = 1

-----------------------------------------------------------------------------
(* What the documents say and the code does not do.                         *)

(* run.py:18: "On exit, every kernel rule this program added is removed":   *)
(* also where install() raised and the start failed.                        *)
FailedStartLeavesNothing == proc = "down" /\ exit = "error" => Clean

(* The same line, of a signal that arrived while install() was running, once *)
(* the command it left running has ended too.                               *)
InterruptedStartLeavesNothing ==
    proc = "down" /\ exit = "interrupted" /\ inflight = {} => Clean

(* The same line, of a stop or cleanup one command of which was refused.    *)
RefusedStopLeavesNothing == proc = "down" /\ exit = "partial" => Clean
=============================================================================
