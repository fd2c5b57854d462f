---------------------------- MODULE NetfilterProofs ----------------------------
(* Proofs about Netfilter, for one family of addresses or two, any number of *)
(* starts and of copies the loop of remove() deletes, and whichever tools    *)
(* are broken.                                                               *)
EXTENDS Netfilter, SequenceTheorems, TLAPS

-----------------------------------------------------------------------------
(* The inductive invariant: an install or a remove that no signal disturbs   *)
(* has, for every chain, come to one of the steps below, what it has still   *)
(* to run are the later ones, and the kernel is as that step needs it.       *)

(* The commands for one chain in the order of install(); remove() is the     *)
(* first four.  The two for the set are shared by the chains of a family.    *)
Op == <<"unhookAll", "flush", "delete", "destroySet", "createSet", "new",
        "flush", "lo", "drop", "queue", "unhook", "hook">>
Must(k) == k \in {5, 7, 8, 9, 10, 12}
ForSet(k) == k \in {4, 5}
Cmd(f, c, k) == Command(Op[k], f, IF ForSet(k) THEN "" ELSE c, Must(k))

Step == 1..12
Cmds(last) == {Cmd(f, c, k) : f \in Family, c \in Chain, k \in 1..last}

(* The second of two commands may come after the first.                      *)
Before(x, y) ==
    \A f \in Family, c \in Chain, k, l \in Step :
        x = Cmd(f, c, k) /\ y = Cmd(f, c, l) => k < l

(* A list of commands that keeps the order of the steps for every chain.     *)
InOrder(s) == \A i, j \in DOMAIN s : i < j => Before(s[i], s[j])

Full == <<"lo", "drop", "queue">>

(* The kernel's state for one chain when step n is the next one.             *)
StateAt(f, c, n) ==
    /\ n >= 2 => hooks[f][c] = IF n = 13 THEN 1 ELSE 0
    /\ n \in {3, 7} => chain[f][c] \in {Missing, <<>>}
    /\ n \in 4..6 => chain[f][c] = Missing
    /\ n = 8 => chain[f][c] = <<>>
    /\ n = 9 => chain[f][c] = <<"lo">>
    /\ n = 10 => chain[f][c] = <<"lo", "drop">>
    /\ n >= 11 => chain[f][c] = Full
    /\ n = 5 => f \notin sets
    /\ n >= 6 => f \in sets

LastStep == IF proc = "installing" THEN 12 ELSE 4

(* A process works on a script that nothing disturbs.                        *)
Undisturbed ==
    \/ proc = "installing"
    \/ proc = "removing" /\ exit \in {"stopped", "cleaned"}

(* Of the first `last` commands for a chain, s holds those from step n on.   *)
Remain(s, f, c, n, last) ==
    \A k \in 1..last : Cmd(f, c, k) \in Range(s) <=> k >= n

Progress ==
    Undisturbed =>
        \A f \in Family, c \in Chain :
            \E n \in 1..(LastStep + 1) :
                Remain(todo, f, c, n, LastStep) /\ StateAt(f, c, n)

Rules == Seq(Target) \cup {Missing}

Types ==
    /\ sets \subseteq Family
    /\ chain \in [Family -> [Chain -> Rules]]
    /\ hooks \in [Family -> [Chain -> {0, 1}]]
    /\ proc \in {"down", "installing", "running", "removing"}
    /\ copies \in 0..MaxUnhook
    /\ inflight \subseteq Cmds(12)
    /\ exit \in {"none", "stopped", "interrupted", "cleaned", "partial", "error", "killed"}
    /\ starts \in 0..MaxStarts
    /\ broken \subseteq MayBreak
    /\ disturbed \in BOOLEAN

Script ==
    /\ todo \in Seq(Cmds(LastStep))
    /\ InOrder(todo)
    /\ proc \in {"down", "running"} => todo = <<>>

(* A tool that always fails makes nothing.                                   *)
BrokenBare ==
    \A f \in Family \cap broken, c \in Chain : chain[f][c] = Missing /\ hooks[f][c] = 0

(* Only a signal inside install() leaves a command running, and a jump it    *)
(* may still make is not there yet.                                          *)
Signals ==
    /\ proc = "removing" => exit \in {"stopped", "cleaned", "interrupted", "partial"}
    /\ proc = "removing" /\ exit \in {"interrupted", "partial"} => disturbed
    /\ inflight # {} => /\ disturbed
                        /\ proc \in {"removing", "down"}
                        /\ exit \in {"interrupted", "killed"}
    /\ \A f \in Family, c \in Chain : Cmd(f, c, 12) \in inflight => hooks[f][c] = 0

InForce ==
    proc = "running" =>
        \A f \in Family, c \in Chain :
            f \in sets /\ hooks[f][c] = 1 /\ chain[f][c] = Full

Inv ==
    /\ Types
    /\ Script
    /\ BrokenBare
    /\ Signals
    /\ Progress
    /\ InForce
    /\ RemoveLeavesNothing
    /\ HookedChainsComplete

-----------------------------------------------------------------------------
(* Commands and the lists of them.                                           *)

(* The operation and whether its failure raises tell the step.               *)
LEMMA OpInjective ==
    ASSUME NEW k \in Step, NEW l \in Step, Op[k] = Op[l], Must(k) <=> Must(l)
    PROVE  k = l
BY DEF Op, Must, Step

(* A command tells its family, its step and, unless it is for the set, its   *)
(* chain.                                                                    *)
LEMMA CmdInjective ==
    ASSUME NEW f \in Family, NEW c \in Chain, NEW k \in Step,
           NEW f2 \in Family, NEW c2 \in Chain, NEW l \in Step,
           Cmd(f, c, k) = Cmd(f2, c2, l)
    PROVE  f = f2 /\ k = l /\ (c = c2 \/ ForSet(k))
<1>1. /\ Op[k] = Op[l] /\ f = f2 /\ Must(k) = Must(l)
      /\ (IF ForSet(k) THEN "" ELSE c) = (IF ForSet(l) THEN "" ELSE c2)
  BY DEF Cmd, Command
<1>2. k = l  BY <1>1, OpInjective
<1> QED  BY <1>1, <1>2

(* The two commands for the set are the same for both chains.                *)
LEMMA CmdShared ==
    ASSUME NEW f, NEW c, NEW c2, NEW k, ForSet(k)
    PROVE  Cmd(f, c, k) = Cmd(f, c2, k)
BY DEF Cmd

(* Commands in the order of the steps, or for different families or chains.  *)
LEMMA CmdBefore ==
    ASSUME NEW f \in Family, NEW c \in Chain, NEW k \in Step,
           NEW f2 \in Family, NEW c2 \in Chain, NEW l \in Step,
           k < l \/ f # f2 \/ (c # c2 /\ ~ForSet(k) /\ ~ForSet(l))
    PROVE  Before(Cmd(f, c, k), Cmd(f2, c2, l))
<1> SUFFICES ASSUME NEW f3 \in Family, NEW c3 \in Chain, NEW m \in Step, NEW n \in Step,
                    Cmd(f, c, k) = Cmd(f3, c3, m), Cmd(f2, c2, l) = Cmd(f3, c3, n)
             PROVE  m < n
  BY DEF Before
<1>1. f = f3 /\ k = m /\ (c = c3 \/ ForSet(k))  BY CmdInjective
<1>2. f2 = f3 /\ l = n /\ (c2 = c3 \/ ForSet(l))  BY CmdInjective
<1> QED  BY <1>1, <1>2

(* The members of a concatenation, and of a list without its first.          *)
LEMMA ConcatRange ==
    ASSUME NEW S, NEW s \in Seq(S), NEW t \in Seq(S)
    PROVE  Range(s \o t) = Range(s) \cup Range(t)
<1>1. /\ s \o t \in Seq(S) /\ Len(s \o t) = Len(s) + Len(t)
      /\ \A i \in 1..Len(s) + Len(t) :
             (s \o t)[i] = IF i <= Len(s) THEN s[i] ELSE t[i - Len(s)]
  BY ConcatProperties
<1>2. /\ DOMAIN s = 1..Len(s) /\ DOMAIN t = 1..Len(t)
      /\ DOMAIN (s \o t) = 1..Len(s) + Len(t)
      /\ Len(s) \in Nat /\ Len(t) \in Nat
  BY <1>1, LenProperties
<1>3. ASSUME NEW x \in Range(s \o t)
      PROVE  x \in Range(s) \cup Range(t)
  <2>1. PICK i \in 1..Len(s) + Len(t) : x = (s \o t)[i]  BY <1>2, <1>3 DEF Range
  <2>2. CASE i <= Len(s)  BY <2>1, <2>2, <1>1, <1>2 DEF Range
  <2>3. CASE ~(i <= Len(s))
    <3>1. i - Len(s) \in 1..Len(t)  BY <2>3, <1>2
    <3> QED  BY <2>1, <2>3, <3>1, <1>1, <1>2 DEF Range
  <2> QED  BY <2>2, <2>3
<1>4. ASSUME NEW x \in Range(s)
      PROVE  x \in Range(s \o t)
  <2>1. PICK i \in 1..Len(s) : x = s[i]  BY <1>2, <1>4 DEF Range
  <2>2. i \in 1..Len(s) + Len(t) /\ (s \o t)[i] = x  BY <2>1, <1>1, <1>2
  <2> QED  BY <2>2, <1>2 DEF Range
<1>5. ASSUME NEW x \in Range(t)
      PROVE  x \in Range(s \o t)
  <2>1. PICK i \in 1..Len(t) : x = t[i]  BY <1>2, <1>5 DEF Range
  <2>2. i + Len(s) \in 1..Len(s) + Len(t) /\ (s \o t)[i + Len(s)] = x
    BY <2>1, <1>1, <1>2
  <2> QED  BY <2>2, <1>2 DEF Range
<1> QED  BY <1>3, <1>4, <1>5

LEMMA ConcatInOrder ==
    ASSUME NEW S, NEW s \in Seq(S), NEW t \in Seq(S), InOrder(s), InOrder(t),
           \A x \in Range(s), y \in Range(t) : Before(x, y)
    PROVE  InOrder(s \o t)
<1>1. /\ s \o t \in Seq(S) /\ Len(s \o t) = Len(s) + Len(t)
      /\ \A i \in 1..Len(s) + Len(t) :
             (s \o t)[i] = IF i <= Len(s) THEN s[i] ELSE t[i - Len(s)]
  BY ConcatProperties
<1>2. /\ DOMAIN s = 1..Len(s) /\ DOMAIN t = 1..Len(t)
      /\ DOMAIN (s \o t) = 1..Len(s) + Len(t)
      /\ Len(s) \in Nat /\ Len(t) \in Nat
  BY <1>1, LenProperties
<1> SUFFICES ASSUME NEW i \in 1..Len(s) + Len(t), NEW j \in 1..Len(s) + Len(t), i < j
             PROVE  Before((s \o t)[i], (s \o t)[j])
  BY <1>2 DEF InOrder
<1>3. CASE j <= Len(s)
  <2>1. (s \o t)[i] = s[i] /\ (s \o t)[j] = s[j] /\ i \in DOMAIN s /\ j \in DOMAIN s
    BY <1>1, <1>2, <1>3
  <2>2. Before(s[i], s[j])  BY <2>1 DEF InOrder
  <2> QED  BY <2>1, <2>2
<1>4. CASE ~(i <= Len(s))
  <2> DEFINE p == i - Len(s)
             q == j - Len(s)
  <2>1. (s \o t)[i] = t[p] /\ (s \o t)[j] = t[q] /\ p \in DOMAIN t /\ q \in DOMAIN t /\ p < q
    BY <1>1, <1>2, <1>4
  <2>2. Before(t[p], t[q])  BY <2>1 DEF InOrder
  <2> QED  BY <2>1, <2>2
<1>5. CASE i <= Len(s) /\ ~(j <= Len(s))
  <2> DEFINE q == j - Len(s)
  <2>1. (s \o t)[i] = s[i] /\ (s \o t)[j] = t[q] /\ i \in DOMAIN s /\ q \in DOMAIN t
    BY <1>1, <1>2, <1>5
  <2>2. s[i] \in Range(s) /\ t[q] \in Range(t)  BY <2>1 DEF Range
  <2> QED  BY <2>1, <2>2
<1> QED  BY <1>2, <1>3, <1>4, <1>5

(* Running the first command of a list leaves the others, and no second one  *)
(* like it.                                                                  *)
LEMMA Pop ==
    ASSUME NEW last \in {4, 12}, NEW s \in Seq(Cmds(last)), s # <<>>, InOrder(s)
    PROVE  /\ Head(s) \in Cmds(last) /\ Head(s) \in Range(s)
           /\ Tail(s) \in Seq(Cmds(last))
           /\ InOrder(Tail(s))
           /\ Range(Tail(s)) = Range(s) \ {Head(s)}
           /\ \A y \in Range(s) : y = Head(s) \/ Before(Head(s), y)
<1>1. /\ Head(s) \in Cmds(last) /\ Tail(s) \in Seq(Cmds(last))
      /\ Len(Tail(s)) = Len(s) - 1
      /\ \A i \in 1..Len(Tail(s)) : Tail(s)[i] = s[i + 1]
  BY HeadTailProperties
<1>2. /\ DOMAIN s = 1..Len(s) /\ DOMAIN Tail(s) = 1..Len(s) - 1
      /\ Len(s) \in Nat \ {0}
  BY <1>1, LenProperties, EmptySeq
<1>3. Head(s) = s[1] /\ 1 \in DOMAIN s  BY <1>2 DEF Head
<1>4. InOrder(Tail(s))
  <2> SUFFICES ASSUME NEW i \in 1..Len(s) - 1, NEW j \in 1..Len(s) - 1, i < j
               PROVE  Before(Tail(s)[i], Tail(s)[j])
    BY <1>2 DEF InOrder
  <2>1. /\ Tail(s)[i] = s[i + 1] /\ Tail(s)[j] = s[j + 1]
        /\ i + 1 \in DOMAIN s /\ j + 1 \in DOMAIN s /\ i + 1 < j + 1
    BY <1>1, <1>2
  <2>2. Before(s[i + 1], s[j + 1])  BY <2>1 DEF InOrder
  <2> QED  BY <2>1, <2>2
<1>5. \A j \in 2..Len(s) : Before(s[1], s[j])
  <2> SUFFICES ASSUME NEW j \in 2..Len(s)
               PROVE  Before(s[1], s[j])
    OBVIOUS
  <2>1. 1 \in DOMAIN s /\ j \in DOMAIN s /\ 1 < j  BY <1>2
  <2> QED  BY <2>1 DEF InOrder
<1>6. ~Before(s[1], s[1])
  <2>1. PICK f \in Family, c \in Chain, k \in 1..last : s[1] = Cmd(f, c, k)
    BY <1>1, <1>3 DEF Cmds
  <2>2. k \in Step  BY DEF Step
  <2> QED  BY <2>1, <2>2 DEF Before, Step
<1>7. Range(Tail(s)) \subseteq Range(s) \ {Head(s)}
  <2> SUFFICES ASSUME NEW i \in 1..Len(s) - 1
               PROVE  Tail(s)[i] \in Range(s) /\ Tail(s)[i] # s[1]
    BY <1>2, <1>3 DEF Range
  <2>1. Tail(s)[i] = s[i + 1] /\ i + 1 \in DOMAIN s /\ i + 1 \in 2..Len(s)
    BY <1>1, <1>2
  <2>2. Before(s[1], s[i + 1])  BY <2>1, <1>5
  <2> QED  BY <2>1, <2>2, <1>6 DEF Range
<1>8. Range(s) \ {Head(s)} \subseteq Range(Tail(s))
  <2> SUFFICES ASSUME NEW j \in 1..Len(s), s[j] # s[1]
               PROVE  s[j] \in Range(Tail(s))
    BY <1>2, <1>3 DEF Range
  <2>1. j # 1  OBVIOUS
  <2> DEFINE i == j - 1
  <2>2. i \in DOMAIN Tail(s) /\ i \in 1..Len(Tail(s)) /\ i + 1 = j  BY <2>1, <1>1, <1>2
  <2>3. Tail(s)[i] = s[j]  BY <2>2, <1>1
  <2> QED  BY <2>2, <2>3 DEF Range
<1>9. \A y \in Range(s) : y = Head(s) \/ Before(Head(s), y)
  <2> SUFFICES ASSUME NEW j \in 1..Len(s)
               PROVE  s[j] = s[1] \/ Before(s[1], s[j])
    BY <1>2, <1>3 DEF Range
  <2>1. CASE j = 1  BY <2>1
  <2>2. CASE j # 1  BY <2>2, <1>2, <1>5
  <2> QED  BY <2>1, <2>2
<1>10. Head(s) \in Range(s)  BY <1>3 DEF Range
<1> QED  BY <1>1, <1>4, <1>7, <1>8, <1>9, <1>10

(* The step a chain has come to, as its next command is run.                 *)
LEMMA PopRemain ==
    ASSUME NEW last \in {4, 12}, NEW s \in Seq(Cmds(last)), s # <<>>, InOrder(s),
           NEW f \in Family, NEW c \in Chain, NEW n \in 1..(last + 1),
           Remain(s, f, c, n, last)
    PROVE  /\ \A k \in Step : Head(s) = Cmd(f, c, k) => k = n /\ n <= last
           /\ Head(s) = Cmd(f, c, n) /\ n <= last => Remain(Tail(s), f, c, n + 1, last)
           /\ (\A k \in Step : Head(s) # Cmd(f, c, k)) => Remain(Tail(s), f, c, n, last)
<1>1. /\ Head(s) \in Cmds(last) /\ Head(s) \in Range(s)
      /\ Range(Tail(s)) = Range(s) \ {Head(s)}
      /\ \A y \in Range(s) : y = Head(s) \/ Before(Head(s), y)
  BY Pop
<1>2. 1..last \subseteq Step  BY DEF Step
<1>3. ASSUME NEW k \in Step, Head(s) = Cmd(f, c, k)
      PROVE  k = n /\ n <= last
  <2>1. PICK f2 \in Family, c2 \in Chain, m \in 1..last : Head(s) = Cmd(f2, c2, m)
    BY <1>1 DEF Cmds
  <2>2. k = m  BY <2>1, <1>2, <1>3, CmdInjective
  <2>3. k >= n  BY <2>2, <1>1, <1>3 DEF Remain
  <2>4. n \in 1..last  BY <2>2, <2>3
  <2>5. Cmd(f, c, n) \in Range(s)  BY <2>4 DEF Remain
  <2>6. CASE Cmd(f, c, n) = Head(s)  BY <2>4, <2>6, <1>2, <1>3, CmdInjective
  <2>7. CASE Before(Head(s), Cmd(f, c, n))
    <3>1. k < n  BY <2>4, <2>7, <1>2, <1>3 DEF Before
    <3> QED  BY <3>1, <2>3, <1>2 DEF Step
  <2> QED  BY <2>5, <2>6, <2>7, <1>1
<1>4. ASSUME Head(s) = Cmd(f, c, n), n <= last
      PROVE  Remain(Tail(s), f, c, n + 1, last)
  <2> SUFFICES ASSUME NEW k \in 1..last
               PROVE  Cmd(f, c, k) \in Range(Tail(s)) <=> k >= n + 1
    BY DEF Remain
  <2>1. Cmd(f, c, k) \in Range(s) <=> k >= n  BY DEF Remain
  <2>2. Cmd(f, c, k) = Head(s) <=> k = n  BY <1>2, <1>4, CmdInjective
  <2> QED  BY <2>1, <2>2, <1>1
<1>5. ASSUME \A k \in Step : Head(s) # Cmd(f, c, k)
      PROVE  Remain(Tail(s), f, c, n, last)
  BY <1>1, <1>2, <1>5 DEF Remain
<1> QED  BY <1>3, <1>4, <1>5
(* FlattenSeq of one list, and of two.                                       *)
LEMMA FlattenOne ==
    ASSUME NEW a
    PROVE  FlattenSeq(<<a>>) = a
<1> DEFINE s == <<a>>
           P(f) == f = [i \in 1..Len(s) |-> IF i = 1 THEN s[i] ELSE f[i-1] \o s[i]]
           W == [i \in 1..Len(s) |-> a]
<1>1. P(W)  OBVIOUS
<1>2. P(CHOOSE f : P(f))  BY <1>1
<1>3. \A f : P(f) => f[1] = a  OBVIOUS
<1>4. FlattenSeq(s) = (CHOOSE f : P(f))[Len(s)]  BY SMT DEF FlattenSeq
<1>5. Len(s) = 1  OBVIOUS
<1> HIDE DEF P
<1>6. (CHOOSE f : P(f))[1] = a  BY <1>2, <1>3
<1> QED  BY <1>4, <1>5, <1>6

LEMMA FlattenTwo ==
    ASSUME NEW a, NEW b
    PROVE  FlattenSeq(<<a, b>>) = a \o b
<1> DEFINE s == <<a, b>>
           P(f) == f = [i \in 1..Len(s) |-> IF i = 1 THEN s[i] ELSE f[i-1] \o s[i]]
           W == [i \in 1..Len(s) |-> IF i = 1 THEN a ELSE a \o b]
<1>1. P(W)  OBVIOUS
<1>2. P(CHOOSE f : P(f))  BY <1>1
<1>3. ASSUME NEW f, P(f)
      PROVE  f[2] = a \o b
  <2>1. f[1] = a  BY <1>3
  <2>2. f[2] = IF 2 = 1 THEN s[2] ELSE f[2-1] \o s[2]
    <3>1. 2 \in 1..Len(s)  OBVIOUS
    <3> HIDE DEF s
    <3> QED  BY <1>3, <3>1, Zenon
  <2>3. 2 - 1 = 1 /\ s[2] = b  OBVIOUS
  <2> QED  BY <1>3, <2>1, <2>2, <2>3
<1>4. FlattenSeq(s) = (CHOOSE f : P(f))[Len(s)]  BY SMT DEF FlattenSeq
<1>5. Len(s) = 2  OBVIOUS
<1> HIDE DEF P
<1>6. (CHOOSE f : P(f))[2] = a \o b  BY <1>2, <1>3
<1> QED  BY <1>4, <1>5, <1>6
-----------------------------------------------------------------------------
(* The scripts: what they hold and in which order.                           *)

LEMMA FamilyCases ==
    \/ Families = <<"v4">> /\ Family = {"v4"}
    \/ Families = <<"v4", "v6">> /\ Family = {"v4", "v6"}
<1>1. CASE Families = <<"v4">>
  <2>1. DOMAIN Families = {1} /\ Families[1] = "v4"  BY <1>1
  <2> QED  BY <1>1, <2>1 DEF Family, Range
<1>2. CASE Families = <<"v4", "v6">>
  <2>1. DOMAIN Families = {1, 2} /\ Families[1] = "v4" /\ Families[2] = "v6"  BY <1>2
  <2> QED  BY <1>2, <2>1 DEF Family, Range
<1> QED  BY <1>1, <1>2, NetfilterAssumption

(* The commands the scripts write out, by their steps.                       *)
LEMMA CmdIs ==
    ASSUME NEW f, NEW c
    PROVE  /\ Cmd(f, c, 1) = Command("unhookAll", f, c, FALSE)
           /\ Cmd(f, c, 2) = Command("flush", f, c, FALSE)
           /\ Cmd(f, c, 3) = Command("delete", f, c, FALSE)
           /\ Cmd(f, c, 4) = Command("destroySet", f, "", FALSE)
           /\ Cmd(f, c, 5) = Command("createSet", f, "", TRUE)
           /\ Cmd(f, c, 6) = Command("new", f, c, FALSE)
           /\ Cmd(f, c, 7) = Command("flush", f, c, TRUE)
           /\ Cmd(f, c, 8) = Command("lo", f, c, TRUE)
           /\ Cmd(f, c, 9) = Command("drop", f, c, TRUE)
           /\ Cmd(f, c, 10) = Command("queue", f, c, TRUE)
           /\ Cmd(f, c, 11) = Command("unhook", f, c, FALSE)
           /\ Cmd(f, c, 12) = Command("hook", f, c, TRUE)
<1>1. /\ Op[1] = "unhookAll" /\ Op[2] = "flush" /\ Op[3] = "delete" /\ Op[4] = "destroySet"
      /\ Op[5] = "createSet" /\ Op[6] = "new" /\ Op[7] = "flush" /\ Op[8] = "lo"
      /\ Op[9] = "drop" /\ Op[10] = "queue" /\ Op[11] = "unhook" /\ Op[12] = "hook"
  BY DEF Op
<1>2. /\ Must(1) = FALSE /\ Must(2) = FALSE /\ Must(3) = FALSE /\ Must(4) = FALSE
      /\ Must(5) = TRUE /\ Must(6) = FALSE /\ Must(7) = TRUE /\ Must(8) = TRUE
      /\ Must(9) = TRUE /\ Must(10) = TRUE /\ Must(11) = FALSE /\ Must(12) = TRUE
  BY DEF Must
<1>3. /\ ForSet(4) /\ ForSet(5)
      /\ ~ForSet(1) /\ ~ForSet(2) /\ ~ForSet(3) /\ ~ForSet(6) /\ ~ForSet(7)
      /\ ~ForSet(8) /\ ~ForSet(9) /\ ~ForSet(10) /\ ~ForSet(11) /\ ~ForSet(12)
  BY DEF ForSet
<1>4. \A k : ForSet(k) => Cmd(f, c, k) = Command(Op[k], f, "", Must(k))  BY DEF Cmd
<1>5. \A k : ~ForSet(k) => Cmd(f, c, k) = Command(Op[k], f, c, Must(k))  BY DEF Cmd
<1> QED  BY <1>1, <1>2, <1>3, <1>4, <1>5

(* The set command of a family is one command, whichever chain is named.     *)
ChainCmds(f, c, first, last) == {Cmd(f, c, k) : k \in first..last}
FamilyCmds(f, first, last) == ChainCmds(f, "AIFW_IN", first, last)
                                  \cup ChainCmds(f, "AIFW_OUT", first, last)

(* The commands of remove() for one chain are its first three steps.         *)
LEMMA RemoveChainList ==
    ASSUME NEW f \in Family, NEW c \in Chain
    PROVE  /\ RemoveChain(f, c) \in Seq(Cmds(4))
           /\ Range(RemoveChain(f, c)) = ChainCmds(f, c, 1, 3)
           /\ InOrder(RemoveChain(f, c))
<1> DEFINE s == RemoveChain(f, c)
<1>1. s = <<Cmd(f, c, 1), Cmd(f, c, 2), Cmd(f, c, 3)>>
  BY CmdIs DEF RemoveChain
<1>2. \A k \in 1..3 : Cmd(f, c, k) \in Cmds(4)  BY DEF Cmds
<1>3. DOMAIN s = 1..3 /\ \A i \in 1..3 : s[i] = Cmd(f, c, i)
  <2> HIDE DEF s
  <2> QED  BY <1>1
<1>4. s \in Seq(Cmds(4))
  <2>1. Cmd(f, c, 1) \in Cmds(4) /\ Cmd(f, c, 2) \in Cmds(4) /\ Cmd(f, c, 3) \in Cmds(4)
    BY <1>2
  <2> HIDE DEF s
  <2> QED  BY <1>1, <2>1
<1>5. Range(s) = ChainCmds(f, c, 1, 3)  BY <1>3 DEF Range, ChainCmds
<1>6. InOrder(s)
  <2> SUFFICES ASSUME NEW i \in 1..3, NEW j \in 1..3, i < j
               PROVE  Before(Cmd(f, c, i), Cmd(f, c, j))
    BY <1>3 DEF InOrder
  <2> QED  BY CmdBefore DEF Step
<1> QED  BY <1>4, <1>5, <1>6

(* The commands of install() for one chain are its last seven steps.         *)
LEMMA CreateChainList ==
    ASSUME NEW f \in Family, NEW c \in Chain
    PROVE  /\ CreateChain(f, c) \in Seq(Cmds(12))
           /\ Range(CreateChain(f, c)) = ChainCmds(f, c, 6, 12)
           /\ InOrder(CreateChain(f, c))
<1> DEFINE s == CreateChain(f, c)
<1>1. s = <<Cmd(f, c, 6), Cmd(f, c, 7), Cmd(f, c, 8), Cmd(f, c, 9), Cmd(f, c, 10),
            Cmd(f, c, 11), Cmd(f, c, 12)>>
  BY CmdIs DEF CreateChain
<1>2. /\ Cmd(f, c, 6) \in Cmds(12) /\ Cmd(f, c, 7) \in Cmds(12) /\ Cmd(f, c, 8) \in Cmds(12)
      /\ Cmd(f, c, 9) \in Cmds(12) /\ Cmd(f, c, 10) \in Cmds(12)
      /\ Cmd(f, c, 11) \in Cmds(12) /\ Cmd(f, c, 12) \in Cmds(12)
  BY DEF Cmds
<1>3. DOMAIN s = 1..7 /\ \A i \in 1..7 : s[i] = Cmd(f, c, i + 5)
  <2> HIDE DEF s
  <2>1. DOMAIN s = 1..7 /\ s[1] = Cmd(f, c, 6) /\ s[2] = Cmd(f, c, 7) /\ s[3] = Cmd(f, c, 8)
        /\ s[4] = Cmd(f, c, 9) /\ s[5] = Cmd(f, c, 10) /\ s[6] = Cmd(f, c, 11)
        /\ s[7] = Cmd(f, c, 12)
    BY <1>1
  <2> QED  BY <2>1
<1>4. s \in Seq(Cmds(12))
  <2> HIDE DEF s
  <2> QED  BY <1>1, <1>2
<1>5. Range(s) = ChainCmds(f, c, 6, 12)
  <2> HIDE DEF s
  <2>1. \A k \in 6..12 : k - 5 \in 1..7 /\ s[k - 5] = Cmd(f, c, k)  BY <1>3
  <2> QED  BY <1>3, <2>1 DEF Range, ChainCmds
<1>6. InOrder(s)
  <2> SUFFICES ASSUME NEW i \in 1..7, NEW j \in 1..7, i < j
               PROVE  Before(Cmd(f, c, i + 5), Cmd(f, c, j + 5))
    BY <1>3 DEF InOrder
  <2> QED  BY CmdBefore DEF Step
<1> QED  BY <1>4, <1>5, <1>6

(* A list of one command.                                                    *)
LEMMA OneCommand ==
    ASSUME NEW S, NEW x \in S
    PROVE  /\ <<x>> \in Seq(S) /\ Range(<<x>>) = {x} /\ InOrder(<<x>>)
<1>1. DOMAIN <<x>> = {1} /\ <<x>>[1] = x  OBVIOUS
<1> QED  BY <1>1 DEF Range, InOrder

(* Both chains of a family, one after the other.                             *)
LEMMA BothChains ==
    ASSUME NEW f \in Family, NEW a \in Nat, NEW b \in Step, a \in Step,
           NEW S, NEW s \in Seq(S), NEW t \in Seq(S), InOrder(s), InOrder(t),
           Range(s) = ChainCmds(f, "AIFW_IN", a, b),
           Range(t) = ChainCmds(f, "AIFW_OUT", a, b),
           \A k \in a..b : ~ForSet(k)
    PROVE  /\ s \o t \in Seq(S)
           /\ Range(s \o t) = FamilyCmds(f, a, b)
           /\ InOrder(s \o t)
<1>1. ASSUME NEW x \in Range(s), NEW y \in Range(t)
      PROVE  Before(x, y)
  <2>1. PICK k \in a..b : x = Cmd(f, "AIFW_IN", k)  BY DEF ChainCmds
  <2>2. PICK l \in a..b : y = Cmd(f, "AIFW_OUT", l)  BY DEF ChainCmds
  <2>3. k \in Step /\ l \in Step  BY DEF Step
  <2>4. "AIFW_IN" \in Chain /\ "AIFW_OUT" \in Chain  BY DEF Chain
  <2> QED  BY <2>1, <2>2, <2>3, <2>4, CmdBefore
<1> QED  BY <1>1, ConcatProperties, ConcatRange, ConcatInOrder DEF FamilyCmds

(* Early steps of a family, then later ones.                                 *)
LEMMA EarlyLate ==
    ASSUME NEW f \in Family, NEW f2 \in Family,
           NEW a \in Step, NEW b \in Step, NEW c \in Step, NEW d \in Step,
           b < c \/ f # f2,
           NEW x \in FamilyCmds(f, a, b), NEW y \in FamilyCmds(f2, c, d)
    PROVE  Before(x, y)
<1>1. PICK ch \in Chain, k \in a..b : x = Cmd(f, ch, k)
  BY DEF FamilyCmds, ChainCmds, Chain
<1>2. PICK ch2 \in Chain, l \in c..d : y = Cmd(f2, ch2, l)
  BY DEF FamilyCmds, ChainCmds, Chain
<1>3. k \in Step /\ l \in Step /\ (k < l \/ f # f2)  BY DEF Step
<1> QED  BY <1>1, <1>2, <1>3, CmdBefore

LEMMA RemoveFamilyList ==
    ASSUME NEW f \in Family
    PROVE  /\ RemoveFamily(f) \in Seq(Cmds(4))
           /\ Range(RemoveFamily(f)) = FamilyCmds(f, 1, 4)
           /\ InOrder(RemoveFamily(f))
<1> DEFINE s == RemoveChain(f, "AIFW_IN") \o RemoveChain(f, "AIFW_OUT")
           x == Cmd(f, "AIFW_IN", 4)
<1>0. "AIFW_IN" \in Chain /\ "AIFW_OUT" \in Chain  BY DEF Chain
<1>1. RemoveFamily(f) = s \o <<x>>
  BY CmdIs DEF RemoveFamily
<1>2. s \in Seq(Cmds(4)) /\ Range(s) = FamilyCmds(f, 1, 3) /\ InOrder(s)
  BY <1>0, RemoveChainList, BothChains DEF Step, ForSet
<1>3. x \in Cmds(4)  BY <1>0 DEF Cmds
<1>4. <<x>> \in Seq(Cmds(4)) /\ Range(<<x>>) = {x} /\ InOrder(<<x>>)
  BY <1>3, OneCommand
<1>5. x = Cmd(f, "AIFW_OUT", 4)  BY CmdShared DEF ForSet
<1>6. FamilyCmds(f, 4, 4) = {x}  BY <1>5 DEF FamilyCmds, ChainCmds
<1>7. FamilyCmds(f, 1, 4) = FamilyCmds(f, 1, 3) \cup {x}
  <2>1. 1..4 = (1..3) \cup {4}  OBVIOUS
  <2> QED  BY <2>1, <1>5 DEF FamilyCmds, ChainCmds
<1> HIDE DEF s, x
<1>8. \A y \in Range(s), z \in Range(<<x>>) : Before(y, z)
  <2>1. 1 \in Step /\ 3 \in Step /\ 4 \in Step /\ 3 < 4  BY DEF Step
  <2> QED  BY <1>2, <1>4, <1>6, <2>1, EarlyLate
<1>9. /\ s \o <<x>> \in Seq(Cmds(4)) /\ InOrder(s \o <<x>>)
      /\ Range(s \o <<x>>) = Range(s) \cup Range(<<x>>)
  <2> DEFINE t == <<x>>
  <2>1. t \in Seq(Cmds(4)) /\ InOrder(t) /\ \A y \in Range(s), z \in Range(t) : Before(y, z)
    BY <1>4, <1>8
  <2> HIDE DEF t
  <2>2. /\ s \o t \in Seq(Cmds(4)) /\ InOrder(s \o t)
        /\ Range(s \o t) = Range(s) \cup Range(t)
    BY <1>2, <2>1, ConcatProperties, ConcatRange, ConcatInOrder
  <2> QED  BY <2>2 DEF t
<1> QED  BY <1>1, <1>2, <1>4, <1>7, <1>9

LEMMA CreateChainsList ==
    ASSUME NEW f \in Family
    PROVE  /\ CreateChains(f) \in Seq(Cmds(12))
           /\ Range(CreateChains(f)) = FamilyCmds(f, 6, 12)
           /\ InOrder(CreateChains(f))
<1>1. "AIFW_IN" \in Chain /\ "AIFW_OUT" \in Chain  BY DEF Chain
<1> QED  BY <1>1, CreateChainList, BothChains DEF CreateChains, Step, ForSet

(* The first steps of every chain of every family.                           *)
AllCmds(first, last) == UNION {FamilyCmds(f, first, last) : f \in Family}

LEMMA AllCmdsSpan ==
    /\ \A last \in Step : AllCmds(1, last) = Cmds(last)
    /\ AllCmds(1, 12) = AllCmds(1, 4) \cup AllCmds(5, 5) \cup AllCmds(6, 12)
<1>1. ASSUME NEW last \in Step
      PROVE  AllCmds(1, last) = Cmds(last)
  BY DEF AllCmds, FamilyCmds, ChainCmds, Cmds, Chain
<1>2. 1..12 = (1..4) \cup (5..5) \cup (6..12)  OBVIOUS
<1> QED  BY <1>1, <1>2 DEF AllCmds, FamilyCmds, ChainCmds

(* The lists of one family or of both, one after the other.                  *)
LEMMA FlattenFamilies ==
    ASSUME NEW q, NEW a \in Step, NEW b \in Step, NEW last \in Step,
           q = [i \in DOMAIN Families |-> q[i]],
           \A i \in DOMAIN Families : /\ q[i] \in Seq(Cmds(last))
                                      /\ Range(q[i]) = FamilyCmds(Families[i], a, b)
                                      /\ InOrder(q[i])
    PROVE  /\ FlattenSeq(q) \in Seq(Cmds(last))
           /\ Range(FlattenSeq(q)) = AllCmds(a, b)
           /\ InOrder(FlattenSeq(q))
<1>1. CASE Families = <<"v4">> /\ Family = {"v4"}
  <2>1. DOMAIN Families = 1..1 /\ Families[1] = "v4"  BY <1>1
  <2>2. q = <<q[1]>>  BY <2>1
  <2>3. FlattenSeq(q) = q[1]  BY <2>2, FlattenOne
  <2>4. AllCmds(a, b) = FamilyCmds("v4", a, b)  BY <1>1 DEF AllCmds
  <2> QED  BY <2>1, <2>3, <2>4
<1>2. CASE Families = <<"v4", "v6">> /\ Family = {"v4", "v6"}
  <2>1. DOMAIN Families = 1..2 /\ Families[1] = "v4" /\ Families[2] = "v6"  BY <1>2
  <2>2. q = <<q[1], q[2]>>  BY <2>1
  <2>3. FlattenSeq(q) = q[1] \o q[2]  BY <2>2, FlattenTwo
  <2>4. /\ q[1] \in Seq(Cmds(last)) /\ Range(q[1]) = FamilyCmds("v4", a, b) /\ InOrder(q[1])
        /\ q[2] \in Seq(Cmds(last)) /\ Range(q[2]) = FamilyCmds("v6", a, b) /\ InOrder(q[2])
    BY <2>1
  <2>5. AllCmds(a, b) = FamilyCmds("v4", a, b) \cup FamilyCmds("v6", a, b)
    BY <1>2 DEF AllCmds
  <2>6. \A x \in Range(q[1]), y \in Range(q[2]) : Before(x, y)
    <3>1. "v4" \in Family /\ "v6" \in Family  BY <1>2
    <3> QED  BY <2>4, <3>1, EarlyLate
  <2>7. FlattenSeq(q) \in Seq(Cmds(last))  BY <2>3, <2>4, ConcatProperties
  <2>8. Range(q[1] \o q[2]) = Range(q[1]) \cup Range(q[2])  BY <2>4, ConcatRange
  <2>9. InOrder(FlattenSeq(q))  BY <2>3, <2>4, <2>6, ConcatInOrder
  <2> QED  BY <2>3, <2>4, <2>5, <2>7, <2>8, <2>9
<1> QED  BY <1>1, <1>2, FamilyCases

(* remove() is the first four steps of every chain, in order.                *)
LEMMA RemoveScriptList ==
    /\ RemoveScript \in Seq(Cmds(4))
    /\ Range(RemoveScript) = Cmds(4)
    /\ InOrder(RemoveScript)
<1> DEFINE q == [i \in DOMAIN Families |-> RemoveFamily(Families[i])]
<1>1. \A i \in DOMAIN Families : q[i] = RemoveFamily(Families[i]) /\ Families[i] \in Family
  BY DEF Family, Range
<1>2. q = [i \in DOMAIN Families |-> q[i]]  OBVIOUS
<1>3. RemoveScript = FlattenSeq(q)  BY DEF RemoveScript
<1>4. \A i \in DOMAIN Families : /\ q[i] \in Seq(Cmds(4))
                                 /\ Range(q[i]) = FamilyCmds(Families[i], 1, 4)
                                 /\ InOrder(q[i])
  BY <1>1, RemoveFamilyList
<1> HIDE DEF q
<1>5. 1 \in Step /\ 4 \in Step  BY DEF Step
<1> QED  BY <1>2, <1>3, <1>4, <1>5, FlattenFamilies, AllCmdsSpan

(* install() is the twelve of every chain, in order.                         *)
LEMMA InstallScriptList ==
    /\ InstallScript \in Seq(Cmds(12))
    /\ Range(InstallScript) = Cmds(12)
    /\ InOrder(InstallScript)
<1> DEFINE q == [i \in DOMAIN Families |-> CreateChains(Families[i])]
           t == FlattenSeq(q)
           u == CreateSets
           s == RemoveScript
<1>0. 1 \in Step /\ 4 \in Step /\ 5 \in Step /\ 6 \in Step /\ 12 \in Step  BY DEF Step
<1>1. t \in Seq(Cmds(12)) /\ Range(t) = AllCmds(6, 12) /\ InOrder(t)
  <2>1. \A i \in DOMAIN Families : q[i] = CreateChains(Families[i]) /\ Families[i] \in Family
    BY DEF Family, Range
  <2>2. q = [i \in DOMAIN Families |-> q[i]]  OBVIOUS
  <2>3. \A i \in DOMAIN Families : /\ q[i] \in Seq(Cmds(12))
                                   /\ Range(q[i]) = FamilyCmds(Families[i], 6, 12)
                                   /\ InOrder(q[i])
    BY <2>1, CreateChainsList
  <2> HIDE DEF q
  <2>4. /\ FlattenSeq(q) \in Seq(Cmds(12)) /\ Range(FlattenSeq(q)) = AllCmds(6, 12)
        /\ InOrder(FlattenSeq(q))
    BY <2>2, <2>3, <1>0, FlattenFamilies, ZenonT(60)
  <2> QED  BY <2>4
<1>2. u \in Seq(Cmds(12)) /\ Range(u) = AllCmds(5, 5) /\ InOrder(u)
  <2>1. "AIFW_IN" \in Chain /\ "AIFW_OUT" \in Chain  BY DEF Chain
  <2>2. \A f \in Family : /\ Command("createSet", f, "", TRUE) = Cmd(f, "AIFW_IN", 5)
                          /\ Command("createSet", f, "", TRUE) = Cmd(f, "AIFW_OUT", 5)
    BY CmdIs
  <2>3. \A i \in DOMAIN Families : /\ u[i] = Cmd(Families[i], "AIFW_IN", 5)
                                   /\ Families[i] \in Family
    BY <2>2 DEF CreateSets, Family, Range
  <2>4. DOMAIN u = DOMAIN Families  BY DEF CreateSets
  <2>5. u = [i \in DOMAIN Families |-> u[i]]  BY DEF CreateSets
  <2> HIDE DEF u
  <2>6. \A f \in Family : Cmd(f, "AIFW_IN", 5) \in Cmds(12)  BY <2>1 DEF Cmds
  <2>7. u \in Seq(Cmds(12))
    <3>1. \A i \in DOMAIN Families : u[i] \in Cmds(12)  BY <2>3, <2>6
    <3>2. DOMAIN Families = 1..1 \/ DOMAIN Families = 1..2  BY FamilyCases
    <3> QED  BY <2>5, <3>1, <3>2
  <2>8. \A f \in Family : FamilyCmds(f, 5, 5) = {Cmd(f, "AIFW_IN", 5)}
    <3>1. 5..5 = {5}  OBVIOUS
    <3>2. \A f \in Family, c \in Chain : ChainCmds(f, c, 5, 5) = {Cmd(f, c, 5)}
      BY <3>1 DEF ChainCmds
    <3> QED  BY <3>2, <2>1, <2>2 DEF FamilyCmds
  <2>9. Range(u) = AllCmds(5, 5)
    <3>1. AllCmds(5, 5) = {Cmd(f, "AIFW_IN", 5) : f \in Family}  BY <2>8 DEF AllCmds
    <3>2. Range(u) = {Cmd(Families[i], "AIFW_IN", 5) : i \in DOMAIN Families}
      BY <2>3, <2>4 DEF Range
    <3>3. Family = {Families[i] : i \in DOMAIN Families}  BY DEF Family, Range
    <3> QED  BY <3>1, <3>2, <3>3
  <2>10. InOrder(u)
    <3> SUFFICES ASSUME NEW i \in DOMAIN Families, NEW j \in DOMAIN Families, i < j
                 PROVE  Before(u[i], u[j])
      BY <2>4 DEF InOrder
    <3>1. Families[i] # Families[j]  BY FamilyCases
    <3> QED  BY <3>1, <2>1, <2>3, <1>0, CmdBefore
  <2> QED  BY <2>7, <2>9, <2>10
<1>3. s \in Seq(Cmds(12)) /\ Range(s) = AllCmds(1, 4) /\ InOrder(s)
  <2>1. Cmds(4) \subseteq Cmds(12)  BY DEF Cmds
  <2> QED  BY <2>1, <1>0, RemoveScriptList, SeqMonotonic, AllCmdsSpan
<1>4. ASSUME NEW a \in Step, NEW b \in Step, NEW c \in Step, NEW d \in Step, b < c,
             NEW x \in AllCmds(a, b), NEW y \in AllCmds(c, d)
      PROVE  Before(x, y)
  BY <1>4, EarlyLate DEF AllCmds
<1>5. InstallScript = (s \o u) \o t  BY DEF InstallScript
<1> HIDE DEF s, t, u
<1> DEFINE v == s \o u
<1>6. /\ v \in Seq(Cmds(12)) /\ Range(v) = AllCmds(1, 4) \cup AllCmds(5, 5)
      /\ InOrder(v)
  <2>1. \A x \in Range(s), y \in Range(u) : Before(x, y)  BY <1>0, <1>2, <1>3, <1>4
  <2> QED  BY <2>1, <1>2, <1>3, ConcatProperties, ConcatRange, ConcatInOrder
<1> HIDE DEF v
<1>7. \A x \in Range(v), y \in Range(t) : Before(x, y)  BY <1>0, <1>1, <1>4, <1>6
<1>8. v \o t \in Seq(Cmds(12)) /\ InOrder(v \o t) /\ Range(v \o t) = Range(v) \cup Range(t)
  BY <1>1, <1>6, <1>7, ConcatProperties, ConcatRange, ConcatInOrder
<1> QED  BY <1>0, <1>1, <1>5, <1>6, <1>8, AllCmdsSpan DEF v
-----------------------------------------------------------------------------
(* What the command of a step does, and when it succeeds.                    *)

LEMMA CmdFields ==
    ASSUME NEW f, NEW c, NEW k
    PROVE  /\ Cmd(f, c, k).op = Op[k]
           /\ Cmd(f, c, k).family = f
           /\ Cmd(f, c, k).must = Must(k)
           /\ ~ForSet(k) => Cmd(f, c, k).chain = c
BY DEF Cmd, Command

LEMMA OpIs ==
    /\ Op[1] = "unhookAll" /\ Op[2] = "flush" /\ Op[3] = "delete" /\ Op[4] = "destroySet"
    /\ Op[5] = "createSet" /\ Op[6] = "new" /\ Op[7] = "flush" /\ Op[8] = "lo"
    /\ Op[9] = "drop" /\ Op[10] = "queue" /\ Op[11] = "unhook" /\ Op[12] = "hook"
BY DEF Op

LEMMA SucceedsIf ==
    ASSUME NEW f \in Family, NEW c \in Chain, NEW k \in Step
    PROVE  /\ k \in {1, 11} => (Succeeds(Cmd(f, c, k)) <=> f \notin broken /\ hooks[f][c] > 0)
           /\ k \in {2, 7, 8, 10, 12} =>
                 (Succeeds(Cmd(f, c, k)) <=> f \notin broken /\ Exists(f, c))
           /\ k = 3 => (Succeeds(Cmd(f, c, k)) <=>
                           f \notin broken /\ chain[f][c] = <<>> /\ hooks[f][c] = 0)
           /\ k = 4 => (Succeeds(Cmd(f, c, k)) <=> f \in sets /\ ~Uses(f))
           /\ k = 5 => Succeeds(Cmd(f, c, k))
           /\ k = 6 => (Succeeds(Cmd(f, c, k)) <=> f \notin broken /\ ~Exists(f, c))
           /\ k = 9 => (Succeeds(Cmd(f, c, k)) <=> f \notin broken /\ Exists(f, c) /\ f \in sets)
<1> DEFINE x == Cmd(f, c, k)
<1>1. x.op = Op[k] /\ x.family = f /\ (k \notin {4, 5} => x.chain = c)
  BY CmdFields DEF ForSet
<1> HIDE DEF x
<1>2. CASE k \in {1, 11}
  <2>1. x.op \in {"unhook", "unhookAll"} /\ x.chain = c  BY <1>1, <1>2, OpIs
  <2>2. Succeeds(x) <=> f \notin broken /\ hooks[f][c] > 0
    BY <2>1, <1>1 DEF Succeeds, IsSetCommand
  <2> QED  BY <2>2, <1>2 DEF x
<1>3. CASE k \in {2, 7, 8, 10, 12}
  <2>1. x.op \in {"flush", "lo", "queue", "hook"} /\ x.chain = c  BY <1>1, <1>3, OpIs
  <2>2. Succeeds(x) <=> f \notin broken /\ Exists(f, c)
    BY <2>1, <1>1 DEF Succeeds, IsSetCommand
  <2> QED  BY <2>2, <1>3 DEF x
<1>4. CASE k = 3
  <2>1. x.op = "delete" /\ x.chain = c  BY <1>1, <1>4, OpIs
  <2>2. Succeeds(x) <=> f \notin broken /\ chain[f][c] = <<>> /\ hooks[f][c] = 0
    BY <2>1, <1>1 DEF Succeeds, IsSetCommand
  <2> QED  BY <2>2, <1>4 DEF x
<1>5. CASE k = 4
  <2>1. x.op = "destroySet"  BY <1>1, <1>5, OpIs
  <2>2. Succeeds(x) <=> f \in sets /\ ~Uses(f)
    BY <2>1, <1>1 DEF Succeeds, IsSetCommand
  <2> QED  BY <2>2, <1>5 DEF x
<1>6. CASE k = 5
  <2>1. x.op = "createSet"  BY <1>1, <1>6, OpIs
  <2>2. Succeeds(x)
    BY <2>1, <1>1 DEF Succeeds, IsSetCommand
  <2> QED  BY <2>2, <1>6 DEF x
<1>7. CASE k = 6
  <2>1. x.op = "new" /\ x.chain = c  BY <1>1, <1>7, OpIs
  <2>2. Succeeds(x) <=> f \notin broken /\ ~Exists(f, c)
    BY <2>1, <1>1 DEF Succeeds, IsSetCommand
  <2> QED  BY <2>2, <1>7 DEF x
<1>8. CASE k = 9
  <2>1. x.op = "drop" /\ x.chain = c  BY <1>1, <1>8, OpIs
  <2>2. Succeeds(x) <=> f \notin broken /\ Exists(f, c) /\ f \in sets
    BY <2>1, <1>1 DEF Succeeds, IsSetCommand
  <2> QED  BY <2>2, <1>8 DEF x
<1> QED  BY <1>2, <1>3, <1>4, <1>5, <1>6, <1>7, <1>8 DEF Step

LEMMA EffectOf ==
    ASSUME NEW f \in Family, NEW c \in Chain, NEW k \in Step, Effect(Cmd(f, c, k))
    PROVE  /\ k \in {1, 11} => SetHooks(f, c, hooks[f][c] - 1) /\ UNCHANGED <<sets, chain>>
           /\ k \in {2, 6, 7} => SetChain(f, c, <<>>) /\ UNCHANGED <<sets, hooks>>
           /\ k = 3 => SetChain(f, c, Missing) /\ UNCHANGED <<sets, hooks>>
           /\ k = 4 => sets' = sets \ {f} /\ UNCHANGED <<chain, hooks>>
           /\ k = 5 => sets' = sets \cup {f} /\ UNCHANGED <<chain, hooks>>
           /\ k \in {8, 9, 10} => /\ SetChain(f, c, Append(chain[f][c], Op[k]))
                                  /\ UNCHANGED <<sets, hooks>>
           /\ k = 12 => SetHooks(f, c, hooks[f][c] + 1) /\ UNCHANGED <<sets, chain>>
<1> DEFINE x == Cmd(f, c, k)
<1>1. x.op = Op[k] /\ x.family = f /\ (k \notin {4, 5} => x.chain = c) /\ Effect(x)
  BY CmdFields DEF ForSet
<1> HIDE DEF x
<1>2. CASE k \in {1, 11}
  <2>1. x.op \in {"unhook", "unhookAll"} /\ x.chain = c  BY <1>1, <1>2, OpIs
  <2>2. SetHooks(f, c, hooks[f][c] - 1) /\ UNCHANGED <<sets, chain>>
    BY <2>1, <1>1 DEF Effect, Target
  <2> QED  BY <2>2, <1>2
<1>3. CASE k \in {2, 6, 7}
  <2>1. x.op \in {"new", "flush"} /\ x.chain = c  BY <1>1, <1>3, OpIs
  <2>2. SetChain(f, c, <<>>) /\ UNCHANGED <<sets, hooks>>
    BY <2>1, <1>1 DEF Effect, Target
  <2> QED  BY <2>2, <1>3
<1>4. CASE k = 3
  <2>1. x.op = "delete" /\ x.chain = c  BY <1>1, <1>4, OpIs
  <2>2. SetChain(f, c, Missing) /\ UNCHANGED <<sets, hooks>>
    BY <2>1, <1>1 DEF Effect, Target
  <2> QED  BY <2>2, <1>4
<1>5. CASE k = 4
  <2>1. x.op = "destroySet"  BY <1>1, <1>5, OpIs
  <2>2. sets' = sets \ {f} /\ UNCHANGED <<chain, hooks>>
    BY <2>1, <1>1 DEF Effect, Target
  <2> QED  BY <2>2, <1>5
<1>6. CASE k = 5
  <2>1. x.op = "createSet"  BY <1>1, <1>6, OpIs
  <2>2. sets' = sets \cup {f} /\ UNCHANGED <<chain, hooks>>
    BY <2>1, <1>1 DEF Effect, Target
  <2> QED  BY <2>2, <1>6
<1>7. CASE k \in {8, 9, 10}
  <2>1. x.op \in {"lo", "drop", "queue"} /\ x.op = Op[k] /\ x.chain = c  BY <1>1, <1>7, OpIs
  <2>2. SetChain(f, c, Append(chain[f][c], Op[k])) /\ UNCHANGED <<sets, hooks>>
    BY <2>1, <1>1 DEF Effect, Target
  <2> QED  BY <2>2, <1>7
<1>8. CASE k = 12
  <2>1. x.op = "hook" /\ x.chain = c  BY <1>1, <1>8, OpIs
  <2>2. SetHooks(f, c, hooks[f][c] + 1) /\ UNCHANGED <<sets, chain>>
    BY <2>1, <1>1 DEF Effect, Target
  <2> QED  BY <2>2, <1>8
<1> QED  BY <1>2, <1>3, <1>4, <1>5, <1>6, <1>7, <1>8 DEF Step

(* One entry of the chains, and of the hooks, changes.                       *)
LEMMA SetChainAt ==
    ASSUME Types, NEW f \in Family, NEW c \in Chain, NEW v, SetChain(f, c, v)
    PROVE  /\ chain'[f][c] = v
           /\ \A g \in Family, d \in Chain :
                 g # f \/ d # c => chain'[g][d] = chain[g][d]
           /\ v \in Rules => chain' \in [Family -> [Chain -> Rules]]
BY DEF Types, SetChain

LEMMA SetHooksAt ==
    ASSUME Types, NEW f \in Family, NEW c \in Chain, NEW v, SetHooks(f, c, v)
    PROVE  /\ hooks'[f][c] = v
           /\ \A g \in Family, d \in Chain :
                 g # f \/ d # c => hooks'[g][d] = hooks[g][d]
           /\ v \in {0, 1} => hooks' \in [Family -> [Chain -> {0, 1}]]
BY DEF Types, SetHooks

(* A command leaves the other chains alone, and those of other families.     *)
LEMMA EffectElsewhere ==
    ASSUME Types, NEW f \in Family, NEW c \in Chain, NEW k \in Step, Effect(Cmd(f, c, k)),
           NEW g \in Family, NEW d \in Chain, g # f \/ (d # c /\ ~ForSet(k))
    PROVE  /\ chain'[g][d] = chain[g][d]
           /\ hooks'[g][d] = hooks[g][d]
           /\ g \in sets' <=> g \in sets
<1>1. CASE k \in {1, 11, 12}
  <2>1. PICK v : SetHooks(f, c, v) /\ UNCHANGED <<sets, chain>>  BY <1>1, EffectOf
  <2> QED  BY <2>1, <1>1, SetHooksAt DEF ForSet
<1>2. CASE k \in {2, 3, 6, 7, 8, 9, 10}
  <2>1. PICK v : SetChain(f, c, v) /\ UNCHANGED <<sets, hooks>>  BY <1>2, EffectOf
  <2> QED  BY <2>1, <1>2, SetChainAt DEF ForSet
<1>3. CASE k \in {4, 5}
  <2>1. sets' \in {sets \ {f}, sets \cup {f}} /\ UNCHANGED <<chain, hooks>>
    BY <1>3, EffectOf
  <2> QED  BY <2>1, <1>3 DEF ForSet
<1> QED  BY <1>1, <1>2, <1>3 DEF Step

(* Commands keep the types, if a jump is made only where there is none.      *)
LEMMA EffectTypes ==
    ASSUME Types, NEW f \in Family, NEW c \in Chain, NEW k \in Step, Succeeds(Cmd(f, c, k)),
           Effect(Cmd(f, c, k)), k = 12 => hooks[f][c] = 0
    PROVE  /\ sets' \subseteq Family
           /\ chain' \in [Family -> [Chain -> Rules]]
           /\ hooks' \in [Family -> [Chain -> {0, 1}]]
<1>0. /\ hooks[f][c] \in {0, 1} /\ chain[f][c] \in Rules
      /\ sets \subseteq Family /\ chain \in [Family -> [Chain -> Rules]]
      /\ hooks \in [Family -> [Chain -> {0, 1}]]
  BY DEF Types
<1>1. CASE k \in {1, 11}
  <2>1. hooks[f][c] > 0  BY <1>1, SucceedsIf
  <2>2. hooks[f][c] - 1 \in {0, 1}  BY <2>1, <1>0
  <2>3. SetHooks(f, c, hooks[f][c] - 1) /\ UNCHANGED <<sets, chain>>  BY <1>1, EffectOf
  <2> QED  BY <2>2, <2>3, <1>0, SetHooksAt
<1>2. CASE k = 12
  <2>1. hooks[f][c] + 1 \in {0, 1}  BY <1>2
  <2>2. SetHooks(f, c, hooks[f][c] + 1) /\ UNCHANGED <<sets, chain>>  BY <1>2, EffectOf
  <2> QED  BY <2>1, <2>2, <1>0, SetHooksAt
<1>3. CASE k \in {2, 3, 6, 7}
  <2>1. <<>> \in Rules /\ Missing \in Rules  BY DEF Rules
  <2>2. PICK v \in Rules : SetChain(f, c, v) /\ UNCHANGED <<sets, hooks>>
    BY <2>1, <1>3, EffectOf
  <2> QED  BY <2>2, <1>0, SetChainAt
<1>4. CASE k \in {8, 9, 10}
  <2>1. Exists(f, c)  BY <1>4, SucceedsIf
  <2>2. chain[f][c] \in Seq(Target)  BY <2>1, <1>0 DEF Exists, Rules
  <2>3. Op[k] \in Target  BY <1>4, OpIs DEF Target
  <2>4. Append(chain[f][c], Op[k]) \in Rules  BY <2>2, <2>3 DEF Rules
  <2>5. SetChain(f, c, Append(chain[f][c], Op[k])) /\ UNCHANGED <<sets, hooks>>
    BY <1>4, EffectOf
  <2> QED  BY <2>4, <2>5, <1>0, SetChainAt
<1>5. CASE k \in {4, 5}
  <2>1. sets' \in {sets \ {f}, sets \cup {f}} /\ UNCHANGED <<chain, hooks>>
    BY <1>5, EffectOf
  <2> QED  BY <2>1, <1>0
<1> QED  BY <1>1, <1>2, <1>3, <1>4, <1>5 DEF Step
(* Appending to a list of one, and of two.                                   *)
LEMMA AppendSecond ==
    ASSUME NEW a, NEW b
    PROVE  Append(<<a>>, b) = <<a, b>>
<1> DEFINE S == {a, b}
           s == <<a>>
           t == <<a, b>>
<1>1. s \in Seq(S) /\ Len(s) = 1 /\ s[1] = a /\ b \in S  OBVIOUS
<1>2. t \in Seq(S) /\ Len(t) = 2 /\ t[1] = a /\ t[2] = b  OBVIOUS
<1> HIDE DEF s, t, S
<1>3. /\ Append(s, b) \in Seq(S) /\ Len(Append(s, b)) = Len(s) + 1
      /\ \A i \in 1..Len(s) : Append(s, b)[i] = s[i]
      /\ Append(s, b)[Len(s) + 1] = b
  BY <1>1, AppendProperties
<1>4. Len(Append(s, b)) = Len(t) /\ \A i \in 1..Len(Append(s, b)) : Append(s, b)[i] = t[i]
  BY <1>1, <1>2, <1>3
<1>5. Append(s, b) = t  BY <1>2, <1>3, <1>4, SeqEqual
<1> QED  BY <1>5 DEF s, t

LEMMA AppendThird ==
    ASSUME NEW a, NEW b, NEW c
    PROVE  Append(<<a, b>>, c) = <<a, b, c>>
<1> DEFINE S == {a, b, c}
           s == <<a, b>>
           t == <<a, b, c>>
<1>1. s \in Seq(S) /\ Len(s) = 2 /\ s[1] = a /\ s[2] = b /\ c \in S  OBVIOUS
<1>2. t \in Seq(S) /\ Len(t) = 3 /\ t[1] = a /\ t[2] = b /\ t[3] = c  OBVIOUS
<1> HIDE DEF s, t, S
<1>3. /\ Append(s, c) \in Seq(S) /\ Len(Append(s, c)) = Len(s) + 1
      /\ \A i \in 1..Len(s) : Append(s, c)[i] = s[i]
      /\ Append(s, c)[Len(s) + 1] = c
  <2>1. s \in Seq(S) /\ c \in S  BY <1>1
  <2> QED  BY <2>1, AppendProperties
<1>4. Len(Append(s, c)) = Len(t) /\ \A i \in 1..Len(Append(s, c)) : Append(s, c)[i] = t[i]
  BY <1>1, <1>2, <1>3
<1>5. Append(s, c) = t  BY <1>2, <1>3, <1>4, SeqEqual
<1> QED  BY <1>5 DEF s, t

(* A command that succeeds makes no jump but the last step's, and touches no *)
(* chain whose tool is broken.                                               *)
LEMMA EffectKeepsBare ==
    ASSUME Types, NEW f \in Family, NEW c \in Chain, NEW k \in Step, Succeeds(Cmd(f, c, k)),
           Effect(Cmd(f, c, k)), NEW g \in Family, NEW d \in Chain
    PROVE  /\ k # 12 /\ hooks[g][d] = 0 => hooks'[g][d] = 0
           /\ g \in broken => chain'[g][d] = chain[g][d] /\ hooks'[g][d] = hooks[g][d]
<1>1. CASE g # f \/ (d # c /\ ~ForSet(k))  BY <1>1, EffectElsewhere
<1>2. CASE k \in {4, 5}
  <2>1. UNCHANGED <<chain, hooks>>  BY <1>2, EffectOf
  <2> QED  BY <2>1
<1>3. CASE g = f /\ d = c /\ k \notin {4, 5}
  <2>1. f \notin broken  BY <1>3, SucceedsIf DEF Step
  <2>2. CASE k \in {1, 11}  BY <1>3, <2>1, <2>2, SucceedsIf
  <2>3. CASE k \in {2, 3, 6, 7, 8, 9, 10}
    <3>1. UNCHANGED hooks  BY <2>3, EffectOf
    <3> QED  BY <1>3, <2>1, <3>1
  <2>4. CASE k = 12  BY <1>3, <2>1, <2>4
  <2> QED  BY <1>3, <2>2, <2>3, <2>4 DEF Step
<1> QED  BY <1>1, <1>2, <1>3 DEF ForSet

-----------------------------------------------------------------------------
(* A command takes its chain to the next step, whether it succeeds or its    *)
(* failure is ignored.                                                       *)

LEMMA NextStep ==
    ASSUME Types, BrokenBare, NEW f \in Family, NEW c \in Chain, NEW k \in Step,
           StateAt(f, c, k), k = 4 => ~Uses(f),
           \/ Succeeds(Cmd(f, c, k)) /\ Effect(Cmd(f, c, k))
           \/ ~Succeeds(Cmd(f, c, k)) /\ ~Must(k) /\ UNCHANGED <<sets, chain, hooks>>
    PROVE  StateAt(f, c, k + 1)'
<1> DEFINE Done == Succeeds(Cmd(f, c, k)) /\ Effect(Cmd(f, c, k))
           Failed == ~Succeeds(Cmd(f, c, k)) /\ ~Must(k) /\ UNCHANGED <<sets, chain, hooks>>
<1>0. /\ Done \/ Failed
      /\ hooks[f][c] \in {0, 1}
      /\ f \in broken => chain[f][c] = Missing /\ hooks[f][c] = 0
      /\ Missing # <<>>
  BY DEF Types, BrokenBare, Missing
<1>1. CASE k = 1
  <2>1. hooks'[f][c] = 0
    <3>1. CASE Done
      <4>1. hooks[f][c] > 0 /\ SetHooks(f, c, hooks[f][c] - 1)
        BY <1>1, <3>1, SucceedsIf, EffectOf
      <4> QED  BY <4>1, <1>0, SetHooksAt
    <3>2. CASE Failed  BY <1>0, <1>1, <3>2, SucceedsIf
    <3> QED  BY <1>0, <3>1, <3>2
  <2> QED  BY <1>1, <2>1 DEF StateAt
<1>2. CASE k = 2
  <2>1. hooks[f][c] = 0  BY <1>2 DEF StateAt
  <2>2. hooks'[f][c] = 0 /\ chain'[f][c] \in {Missing, <<>>}
    <3>1. CASE Done
      <4>1. SetChain(f, c, <<>>) /\ UNCHANGED hooks  BY <1>2, <3>1, EffectOf
      <4> QED  BY <4>1, <2>1, SetChainAt
    <3>2. CASE Failed  BY <1>0, <1>2, <2>1, <3>2, SucceedsIf DEF Exists
    <3> QED  BY <1>0, <3>1, <3>2
  <2> QED  BY <1>2, <2>2 DEF StateAt
<1>3. CASE k = 3
  <2>1. hooks[f][c] = 0 /\ chain[f][c] \in {Missing, <<>>}  BY <1>3 DEF StateAt
  <2>2. hooks'[f][c] = 0 /\ chain'[f][c] = Missing
    <3>1. CASE Done
      <4>1. SetChain(f, c, Missing) /\ UNCHANGED hooks  BY <1>3, <3>1, EffectOf
      <4> QED  BY <4>1, <2>1, SetChainAt
    <3>2. CASE Failed  BY <1>0, <1>3, <2>1, <3>2, SucceedsIf
    <3> QED  BY <1>0, <3>1, <3>2
  <2> QED  BY <1>3, <2>2 DEF StateAt
<1>4. CASE k = 4
  <2>1. hooks[f][c] = 0 /\ chain[f][c] = Missing  BY <1>4 DEF StateAt
  <2>2. hooks'[f][c] = 0 /\ chain'[f][c] = Missing /\ f \notin sets'
    <3>1. CASE Done
      <4>1. sets' = sets \ {f} /\ UNCHANGED <<chain, hooks>>  BY <1>4, <3>1, EffectOf
      <4> QED  BY <4>1, <2>1
    <3>2. CASE Failed  BY <1>4, <2>1, <3>2, SucceedsIf
    <3> QED  BY <1>0, <3>1, <3>2
  <2> QED  BY <1>4, <2>2 DEF StateAt
<1>5. CASE k = 5
  <2>1. hooks[f][c] = 0 /\ chain[f][c] = Missing  BY <1>5 DEF StateAt
  <2>2. Done  BY <1>0, <1>5 DEF Must
  <2>3. sets' = sets \cup {f} /\ UNCHANGED <<chain, hooks>>  BY <1>5, <2>2, EffectOf
  <2> QED  BY <1>5, <2>1, <2>3 DEF StateAt
<1>6. CASE k = 6
  <2>1. hooks[f][c] = 0 /\ chain[f][c] = Missing /\ f \in sets  BY <1>6 DEF StateAt
  <2>2. hooks'[f][c] = 0 /\ chain'[f][c] \in {Missing, <<>>} /\ f \in sets'
    <3>1. CASE Done
      <4>1. SetChain(f, c, <<>>) /\ UNCHANGED <<sets, hooks>>  BY <1>6, <3>1, EffectOf
      <4> QED  BY <4>1, <2>1, SetChainAt
    <3>2. CASE Failed  BY <2>1, <3>2
    <3> QED  BY <1>0, <3>1, <3>2
  <2> QED  BY <1>6, <2>2 DEF StateAt
<1>7. CASE k \in {7, 8, 9, 10}
  <2>1. hooks[f][c] = 0 /\ f \in sets  BY <1>7 DEF StateAt
  <2>2. Done  BY <1>0, <1>7 DEF Must
  <2>3. UNCHANGED <<sets, hooks>>  BY <1>7, <2>2, EffectOf
  <2>4. CASE k = 7
    <3>1. chain'[f][c] = <<>>  BY <2>2, <2>4, EffectOf, SetChainAt
    <3> QED  BY <2>1, <2>3, <2>4, <3>1 DEF StateAt
  <2>5. CASE k = 8
    <3>1. chain[f][c] = <<>>  BY <2>5 DEF StateAt
    <3>2. chain'[f][c] = Append(chain[f][c], "lo")  BY <2>2, <2>5, EffectOf, SetChainAt, OpIs
    <3> QED  BY <2>1, <2>3, <2>5, <3>1, <3>2 DEF StateAt
  <2>6. CASE k = 9
    <3>1. chain[f][c] = <<"lo">>  BY <2>6 DEF StateAt
    <3>2. chain'[f][c] = Append(chain[f][c], "drop")  BY <2>2, <2>6, EffectOf, SetChainAt, OpIs
    <3>3. Append(<<"lo">>, "drop") = <<"lo", "drop">>  BY AppendSecond
    <3>4. chain'[f][c] = <<"lo", "drop">>  BY <3>1, <3>2, <3>3
    <3> QED  BY <2>1, <2>3, <2>6, <3>4 DEF StateAt
  <2>7. CASE k = 10
    <3>1. chain[f][c] = <<"lo", "drop">>  BY <2>7 DEF StateAt
    <3>2. chain'[f][c] = Append(chain[f][c], "queue")  BY <2>2, <2>7, EffectOf, SetChainAt, OpIs
    <3>3. Append(<<"lo", "drop">>, "queue") = <<"lo", "drop", "queue">>  BY AppendThird
    <3>4. chain'[f][c] = <<"lo", "drop", "queue">>  BY <3>1, <3>2, <3>3
    <3> QED  BY <2>1, <2>3, <2>7, <3>4 DEF StateAt, Full
  <2> QED  BY <1>7, <2>4, <2>5, <2>6, <2>7
<1>8. CASE k = 11
  <2>1. hooks[f][c] = 0 /\ chain[f][c] = Full /\ f \in sets  BY <1>8 DEF StateAt
  <2>2. Failed  BY <1>0, <1>8, <2>1, SucceedsIf
  <2> QED  BY <1>8, <2>1, <2>2 DEF StateAt
<1>9. CASE k = 12
  <2>1. hooks[f][c] = 0 /\ chain[f][c] = Full /\ f \in sets  BY <1>9 DEF StateAt
  <2>2. Done  BY <1>0, <1>9 DEF Must
  <2>3. SetHooks(f, c, hooks[f][c] + 1) /\ UNCHANGED <<sets, chain>>  BY <1>9, <2>2, EffectOf
  <2>4. hooks'[f][c] = 1  BY <2>1, <2>3, SetHooksAt
  <2> QED  BY <1>9, <2>1, <2>3, <2>4 DEF StateAt
<1> QED
  BY <1>1, <1>2, <1>3, <1>4, <1>5, <1>6, <1>7, <1>8, <1>9 DEF Step
-----------------------------------------------------------------------------
(* Commands of a script.                                                     *)

(* A working process has a next command, of its script.                      *)
LEMMA NextCommand ==
    ASSUME Inv, Working
    PROVE  /\ LastStep \in {4, 12} /\ todo \in Seq(Cmds(LastStep)) /\ todo # <<>> /\ InOrder(todo)
           /\ \E f \in Family, c \in Chain, k \in Step :
                 k <= LastStep /\ Head(todo) = Cmd(f, c, k)
<1>1. /\ LastStep \in {4, 12} /\ todo \in Seq(Cmds(LastStep)) /\ todo # <<>> /\ InOrder(todo)
  BY DEF Inv, Script, Working, LastStep
<1>2. Head(todo) \in Cmds(LastStep)  BY <1>1, Pop
<1>3. 1..LastStep \subseteq Step /\ \A k \in 1..LastStep : k <= LastStep
  BY <1>1 DEF Step
<1>4. PICK f \in Family, c \in Chain, k \in 1..LastStep : Head(todo) = Cmd(f, c, k)
  BY <1>2 DEF Cmds
<1> QED  BY <1>1, <1>3, <1>4

(* What a command of a script does, in short: it succeeds, or its failure is *)
(* ignored, and it is done with, or tried again.                             *)
Ran ==
    /\ Working
    /\ \/ Succeeds(Head(todo)) /\ Effect(Head(todo))
       \/ ~Succeeds(Head(todo)) /\ ~Head(todo).must /\ UNCHANGED <<sets, chain, hooks>>
    /\ todo' = Tail(todo) \/ (todo' = todo /\ Head(todo).op = "unhookAll")
    /\ copies' \in 0..MaxUnhook
    /\ UNCHANGED <<proc, inflight, exit, starts, broken, disturbed>>

LEMMA CommandRuns ==
    ASSUME Inv, RunCommand \/ CommandFails
    PROVE  Ran
<1>1. copies \in 0..MaxUnhook /\ MaxUnhook \in Nat \ {0}
  BY NetfilterAssumption DEF Inv, Types
<1>2. CASE RunCommand  BY <1>1, <1>2 DEF RunCommand, Ran
<1>3. CASE CommandFails  BY <1>1, <1>3 DEF CommandFails, Ran
<1> QED  BY <1>2, <1>3

(* Undisturbed, the next command is the one of the step its chain is at, and *)
(* before the set goes both chains of the family are gone.                   *)
LEMMA HeadAt ==
    ASSUME Inv, Working, Undisturbed, NEW f \in Family, NEW c \in Chain, NEW k \in Step,
           Head(todo) = Cmd(f, c, k)
    PROVE  /\ k <= LastStep
           /\ Remain(todo, f, c, k, LastStep)
           /\ StateAt(f, c, k)
           /\ k = 4 => ~Uses(f)
<1>1. /\ LastStep \in {4, 12} /\ todo \in Seq(Cmds(LastStep)) /\ todo # <<>> /\ InOrder(todo)
  BY NextCommand
<1>2. ASSUME NEW d \in Chain, Head(todo) = Cmd(f, d, k)
      PROVE  k <= LastStep /\ Remain(todo, f, d, k, LastStep) /\ StateAt(f, d, k)
  <2>1. PICK n \in 1..(LastStep + 1) : Remain(todo, f, d, n, LastStep) /\ StateAt(f, d, n)
    BY DEF Inv, Progress
  <2>2. k = n /\ n <= LastStep  BY <1>1, <1>2, <2>1, PopRemain
  <2> QED  BY <2>1, <2>2
<1>3. ASSUME k = 4
      PROVE  ~Uses(f)
  <2>1. \A d \in Chain : Head(todo) = Cmd(f, d, k)  BY <1>3, CmdShared DEF ForSet
  <2>2. \A d \in Chain : StateAt(f, d, 4)  BY <1>2, <1>3, <2>1
  <2>3. \A d \in Chain : chain[f][d] = Missing  BY <2>2 DEF StateAt
  <2> QED  BY <2>3 DEF Uses, Exists
<1> QED  BY <1>2, <1>3

(* A chain goes to its next step or stays where it is.                       *)
LEMMA ChainAdvances ==
    ASSUME Inv, Ran, Undisturbed, NEW g \in Family, NEW d \in Chain
    PROVE  \E n \in 1..(LastStep + 1) :
              /\ Remain(todo', g, d, n, LastStep)
              /\ StateAt(g, d, n)'
              /\ n = 1 => chain'[g][d] = chain[g][d] /\ hooks'[g][d] \in {0, hooks[g][d]}
<1>0. Types /\ BrokenBare /\ Working  BY DEF Inv, Ran
<1>1. /\ LastStep \in {4, 12} /\ todo \in Seq(Cmds(LastStep)) /\ todo # <<>> /\ InOrder(todo)
  BY <1>0, NextCommand
<1>2. PICK f \in Family, c \in Chain, k \in Step :
         k <= LastStep /\ Head(todo) = Cmd(f, c, k)
  BY <1>0, NextCommand
<1>3. CASE \E m \in Step : Head(todo) = Cmd(g, d, m)
  <2>1. PICK m \in Step : Head(todo) = Cmd(g, d, m)  BY <1>3
  <2>2. m <= LastStep /\ Remain(todo, g, d, m, LastStep) /\ StateAt(g, d, m)
        /\ (m = 4 => ~Uses(g))
    BY <1>0, <2>1, HeadAt
  <2>3. \/ Succeeds(Cmd(g, d, m)) /\ Effect(Cmd(g, d, m))
        \/ ~Succeeds(Cmd(g, d, m)) /\ ~Must(m) /\ UNCHANGED <<sets, chain, hooks>>
    BY <2>1, CmdFields DEF Ran
  <2>4. StateAt(g, d, m + 1)'  BY <1>0, <2>2, <2>3, NextStep
  <2>5. CASE todo' = Tail(todo)
    <3>1. m \in 1..(LastStep + 1)  BY <1>1, <2>2 DEF Step
    <3>2. Remain(todo', g, d, m + 1, LastStep)  BY <1>1, <2>1, <2>2, <2>5, <3>1, PopRemain
    <3>3. m + 1 \in 1..(LastStep + 1) /\ m + 1 # 1  BY <1>1, <2>2 DEF Step
    <3> QED  BY <2>4, <3>2, <3>3
  <2>6. CASE todo' = todo /\ Head(todo).op = "unhookAll"
    <3>1. Op[m] = "unhookAll"  BY <2>1, <2>6, CmdFields
    <3>2. m = 1  BY <3>1 DEF Op, Step
    <3>3. StateAt(g, d, 1)'  BY DEF StateAt
    <3>4. hooks[g][d] \in {0, 1}  BY <1>0 DEF Types
    <3>5. chain'[g][d] = chain[g][d] /\ hooks'[g][d] \in {0, hooks[g][d]}
      <4>1. CASE Succeeds(Cmd(g, d, 1)) /\ Effect(Cmd(g, d, 1))
        <5>1. 1 \in Step  BY DEF Step
        <5>2. SetHooks(g, d, hooks[g][d] - 1) /\ UNCHANGED chain  BY <4>1, <5>1, EffectOf
        <5>3. hooks[g][d] > 0  BY <4>1, <5>1, SucceedsIf
        <5>4. hooks'[g][d] = hooks[g][d] - 1  BY <1>0, <5>2, SetHooksAt
        <5> QED  BY <3>4, <5>2, <5>3, <5>4
      <4>2. CASE UNCHANGED <<sets, chain, hooks>>  BY <3>4, <4>2
      <4> QED  BY <2>3, <3>2, <4>1, <4>2
    <3>6. Remain(todo', g, d, 1, LastStep)  BY <2>2, <2>6, <3>2
    <3>7. 1 \in 1..(LastStep + 1)  BY <1>1
    <3> QED  BY <3>3, <3>5, <3>6, <3>7
  <2> QED  BY <2>5, <2>6 DEF Ran
<1>4. CASE \A m \in Step : Head(todo) # Cmd(g, d, m)
  <2>1. g # f \/ (d # c /\ ~ForSet(k))  BY <1>2, <1>4, CmdShared
  <2>2. chain'[g][d] = chain[g][d] /\ hooks'[g][d] = hooks[g][d] /\ (g \in sets' <=> g \in sets)
    <3>1. CASE Effect(Head(todo))  BY <1>0, <1>2, <2>1, <3>1, EffectElsewhere
    <3>2. CASE UNCHANGED <<sets, chain, hooks>>  BY <3>2
    <3> QED  BY <3>1, <3>2 DEF Ran
  <2>3. PICK n \in 1..(LastStep + 1) : Remain(todo, g, d, n, LastStep) /\ StateAt(g, d, n)
    BY DEF Inv, Progress
  <2>4. StateAt(g, d, n)'  BY <2>2, <2>3 DEF StateAt
  <2>5. Remain(todo', g, d, n, LastStep)
    <3>1. CASE todo' = Tail(todo)  BY <1>1, <1>4, <2>3, <3>1, PopRemain
    <3>2. CASE todo' = todo  BY <2>3, <3>2
    <3> QED  BY <3>1, <3>2 DEF Ran
  <2>6. hooks[g][d] \in {0, 1}  BY <1>0 DEF Types
  <2> QED  BY <2>2, <2>4, <2>5, <2>6
<1> QED  BY <1>3, <1>4

(* A complete chain stays complete for as long as it is hooked.              *)
LEMMA CommandComplete ==
    ASSUME Inv, Ran
    PROVE  HookedChainsComplete'
<1> SUFFICES ASSUME NEW g \in Family, NEW d \in Chain, hooks'[g][d] > 0, ~disturbed'
             PROVE  chain'[g][d] = Full
  BY DEF HookedChainsComplete, Full
<1>1. ~disturbed  BY DEF Ran
<1>2. Undisturbed  BY <1>1 DEF Inv, Types, Signals, Undisturbed, Ran, Working
<1>3. PICK n \in 1..(LastStep + 1) :
         /\ StateAt(g, d, n)'
         /\ n = 1 => chain'[g][d] = chain[g][d] /\ hooks'[g][d] \in {0, hooks[g][d]}
  BY <1>2, ChainAdvances
<1>4. LastStep \in {4, 12}  BY DEF LastStep
<1>5. CASE n = 1
  <2>1. hooks[g][d] \in {0, 1}  BY DEF Inv, Types
  <2>2. hooks[g][d] > 0  BY <1>3, <1>5, <2>1
  <2>3. chain[g][d] = Full  BY <1>1, <2>2 DEF Inv, HookedChainsComplete, Full
  <2> QED  BY <1>3, <1>5, <2>3
<1>6. CASE n # 1
  <2>1. n >= 2  BY <1>4, <1>6
  <2>2. n = 13  BY <1>3, <2>1 DEF StateAt
  <2> QED  BY <1>3, <2>2 DEF StateAt
<1> QED  BY <1>5, <1>6
LEMMA CommandKeeps ==
    ASSUME Inv, Ran
    PROVE  Inv'
<1>0. Types /\ BrokenBare /\ Signals /\ Working  BY DEF Inv, Ran
<1>1. /\ LastStep \in {4, 12} /\ todo \in Seq(Cmds(LastStep)) /\ todo # <<>> /\ InOrder(todo)
  BY <1>0, NextCommand
<1>2. PICK f \in Family, c \in Chain, k \in Step :
         k <= LastStep /\ Head(todo) = Cmd(f, c, k)
  BY <1>0, NextCommand
<1>3. LastStep' = LastStep /\ (Undisturbed' <=> Undisturbed) /\ proc' \in {"installing", "removing"}
  BY DEF Ran, LastStep, Undisturbed, Working
<1>4. ASSUME UNCHANGED <<sets, chain, hooks>>
      PROVE  Types' /\ BrokenBare' /\ Signals'
  <2>1. Types'  BY <1>0, <1>4 DEF Types, Ran
  <2>2. BrokenBare'  BY <1>0, <1>4 DEF BrokenBare, Ran
  <2>3. Signals'  BY <1>0, <1>4 DEF Signals, Ran
  <2> QED  BY <2>1, <2>2, <2>3
<1>5. ASSUME Succeeds(Head(todo)), Effect(Head(todo))
      PROVE  Types' /\ BrokenBare' /\ Signals'
  <2>1. k = 12 => hooks[f][c] = 0
    <3> SUFFICES ASSUME k = 12
                 PROVE  hooks[f][c] = 0
      OBVIOUS
    <3>1. Undisturbed  BY <1>1, <1>2, <1>0 DEF LastStep, Undisturbed
    <3>2. StateAt(f, c, k)  BY <1>0, <1>2, <3>1, HeadAt
    <3> QED  BY <3>2 DEF StateAt
  <2>2. /\ sets' \subseteq Family
        /\ chain' \in [Family -> [Chain -> Rules]]
        /\ hooks' \in [Family -> [Chain -> {0, 1}]]
    BY <1>0, <1>2, <1>5, <2>1, EffectTypes
  <2>3. Types'  BY <1>0, <2>2 DEF Types, Ran
  <2>4. \A g \in Family, d \in Chain :
           /\ k # 12 /\ hooks[g][d] = 0 => hooks'[g][d] = 0
           /\ g \in broken => chain'[g][d] = chain[g][d] /\ hooks'[g][d] = hooks[g][d]
    BY <1>0, <1>2, <1>5, EffectKeepsBare
  <2>5. BrokenBare'  BY <1>0, <2>4 DEF BrokenBare, Ran
  <2>6. inflight # {} => k # 12
    <3>1. inflight # {} => proc = "removing"  BY <1>0 DEF Signals, Working
    <3> QED  BY <3>1, <1>2 DEF LastStep
  <2>7. \A g \in Family, d \in Chain : Cmd(g, d, 12) \in inflight => hooks'[g][d] = 0
    BY <1>0, <2>4, <2>6 DEF Signals
  <2>8. Signals'  BY <1>0, <2>7 DEF Signals, Ran
  <2> QED  BY <2>3, <2>5, <2>8
<1>6. Types' /\ BrokenBare' /\ Signals'  BY <1>2, <1>4, <1>5 DEF Ran
<1>7. Script'
  <2>1. todo' \in Seq(Cmds(LastStep)) /\ InOrder(todo')  BY <1>1, Pop DEF Ran
  <2> QED  BY <1>3, <2>1 DEF Script
<1>8. Progress'
  <2>1. Undisturbed => \A g \in Family, d \in Chain :
           \E n \in 1..(LastStep + 1) : Remain(todo', g, d, n, LastStep) /\ StateAt(g, d, n)'
    BY ChainAdvances
  <2> QED  BY <1>3, <2>1 DEF Progress
<1>9. InForce' /\ RemoveLeavesNothing'  BY <1>3 DEF InForce, RemoveLeavesNothing
<1>10. HookedChainsComplete'  BY CommandComplete
<1> QED  BY <1>6, <1>7, <1>8, <1>9, <1>10 DEF Inv

-----------------------------------------------------------------------------
(* Starts, stops and ends.                                                   *)

(* The empty script.                                                         *)
LEMMA Idle ==
    ASSUME NEW S
    PROVE  <<>> \in Seq(S) /\ Range(<<>>) = {} /\ InOrder(<<>>)
<1>1. <<>> \in Seq(S) /\ DOMAIN <<>> = {}  BY EmptySeq
<1> QED  BY <1>1 DEF Range, InOrder

(* A whole script starts every chain at the first step.                      *)
LEMMA Fresh ==
    ASSUME NEW last \in {4, 12}, NEW s, Range(s) = Cmds(last), NEW f \in Family, NEW c \in Chain
    PROVE  Remain(s, f, c, 1, last) /\ StateAt(f, c, 1)
<1>1. \A k \in 1..last : Cmd(f, c, k) \in Cmds(last)  BY DEF Cmds
<1> QED  BY <1>1 DEF Remain, StateAt

(* Nothing left to run: every chain is past the last step.                   *)
LEMMA Finished ==
    ASSUME Inv, Undisturbed, todo = <<>>, NEW f \in Family, NEW c \in Chain
    PROVE  StateAt(f, c, LastStep + 1)
<1>1. PICK n \in 1..(LastStep + 1) : Remain(todo, f, c, n, LastStep) /\ StateAt(f, c, n)
  BY DEF Inv, Progress
<1>2. Range(todo) = {}  BY Idle
<1>3. LastStep \in {4, 12}  BY DEF LastStep
<1>4. \A k \in 1..LastStep : ~(k >= n)  BY <1>1, <1>2 DEF Remain
<1>5. n = LastStep + 1  BY <1>3, <1>4
<1> QED  BY <1>1, <1>5

(* Only a signal leaves a command running.                                   *)
LEMMA NothingRuns ==
    ASSUME Inv, proc \in {"installing", "running"} \/ Undisturbed
    PROVE  inflight = {}
BY DEF Inv, Signals, Undisturbed

LEMMA InitKeeps == Init => Inv
<1> SUFFICES ASSUME Init PROVE Inv
  OBVIOUS
<1> USE DEF Init
<1>1. Types
  <2>1. Missing \in Rules  BY DEF Rules
  <2>2. chain \in [Family -> [Chain -> Rules]]  BY <2>1
  <2>3. hooks \in [Family -> [Chain -> {0, 1}]]  OBVIOUS
  <2>4. copies \in 0..MaxUnhook /\ starts \in 0..MaxStarts  BY NetfilterAssumption
  <2> QED  BY <2>2, <2>3, <2>4 DEF Types
<1>2. Script  BY Idle DEF Script
<1>3. BrokenBare  BY DEF BrokenBare
<1>4. Signals  BY DEF Signals
<1>5. Progress /\ InForce /\ RemoveLeavesNothing /\ HookedChainsComplete
  BY DEF Progress, Undisturbed, InForce, RemoveLeavesNothing, HookedChainsComplete
<1> QED  BY <1>1, <1>2, <1>3, <1>4, <1>5 DEF Inv

LEMMA InstallFailsKeeps == ASSUME Inv, InstallFails PROVE Inv'
<1>0. Types /\ BrokenBare /\ Signals /\ Working /\ HookedChainsComplete
  BY DEF Inv, InstallFails
<1>1. proc = "installing"
  <2>1. PICK f \in Family, c \in Chain, k \in Step :
           k <= LastStep /\ Head(todo) = Cmd(f, c, k)
    BY <1>0, NextCommand
  <2>2. Must(k)  BY <2>1, CmdFields DEF InstallFails
  <2>3. LastStep # 4  BY <2>1, <2>2 DEF Must, Step
  <2> QED  BY <2>3 DEF LastStep
<1>2. inflight = {}  BY <1>1, NothingRuns
<1>3. Types'  BY <1>0 DEF InstallFails, Types
<1>4. Script'  BY Idle DEF InstallFails, Script
<1>5. BrokenBare'  BY <1>0 DEF InstallFails, BrokenBare
<1>6. Signals'  BY <1>2 DEF InstallFails, Signals
<1>7. HookedChainsComplete'  BY <1>0 DEF InstallFails, HookedChainsComplete
<1>8. Progress' /\ InForce' /\ RemoveLeavesNothing'
  BY DEF InstallFails, Progress, Undisturbed, InForce, RemoveLeavesNothing
<1> QED  BY <1>3, <1>4, <1>5, <1>6, <1>7, <1>8 DEF Inv

LEMMA RefusedKeeps == ASSUME Inv, CommandRefused PROVE Inv'
<1>0. Types /\ BrokenBare /\ Signals /\ Working /\ proc = "removing"
  BY DEF Inv, CommandRefused
<1>1. /\ LastStep \in {4, 12} /\ todo \in Seq(Cmds(LastStep)) /\ todo # <<>> /\ InOrder(todo)
  BY <1>0, NextCommand
<1>2. exit' \in {"interrupted", "partial"} /\ disturbed'
      /\ (inflight # {} => exit' = "interrupted")
  BY <1>0 DEF CommandRefused, Signals
<1>3. Types'
  <2>1. copies' \in 0..MaxUnhook  BY NetfilterAssumption DEF CommandRefused
  <2> QED  BY <1>0, <1>2, <2>1 DEF CommandRefused, Types
<1>4. Script'
  <2>1. todo' \in Seq(Cmds(LastStep)) /\ InOrder(todo')  BY <1>1, Pop DEF CommandRefused
  <2>2. LastStep' = LastStep /\ proc' = "removing"  BY <1>0 DEF CommandRefused, LastStep
  <2> QED  BY <2>1, <2>2 DEF Script
<1>5. BrokenBare'  BY <1>0 DEF CommandRefused, BrokenBare
<1>6. Signals'  BY <1>0, <1>2 DEF CommandRefused, Signals
<1>7. Progress' /\ InForce' /\ RemoveLeavesNothing' /\ HookedChainsComplete'
  BY <1>0, <1>2
  DEF CommandRefused, Progress, Undisturbed, InForce, RemoveLeavesNothing, HookedChainsComplete
<1> QED  BY <1>3, <1>4, <1>5, <1>6, <1>7 DEF Inv

LEMMA InstallDoneKeeps == ASSUME Inv, InstallDone PROVE Inv'
<1>0. Types /\ BrokenBare /\ Undisturbed /\ todo = <<>>
  BY DEF Inv, InstallDone, Undisturbed
<1>1. \A f \in Family, c \in Chain : StateAt(f, c, 13)
  <2>1. LastStep = 12  BY DEF InstallDone, LastStep
  <2> QED  BY <1>0, <2>1, Finished
<1>2. \A f \in Family, c \in Chain : f \in sets /\ hooks[f][c] = 1 /\ chain[f][c] = Full
  BY <1>1 DEF StateAt
<1>3. inflight = {}  BY NothingRuns DEF InstallDone
<1>4. Types'  BY <1>0 DEF InstallDone, Types
<1>5. Script'  BY <1>0, Idle DEF InstallDone, Script
<1>6. BrokenBare'  BY <1>0 DEF InstallDone, BrokenBare
<1>7. Signals'  BY <1>3 DEF InstallDone, Signals
<1>8. HookedChainsComplete' /\ InForce'
  BY <1>2 DEF InstallDone, HookedChainsComplete, InForce, Full
<1>9. Progress' /\ RemoveLeavesNothing'
  BY DEF InstallDone, Progress, Undisturbed, RemoveLeavesNothing
<1> QED  BY <1>4, <1>5, <1>6, <1>7, <1>8, <1>9 DEF Inv

LEMMA RemoveDoneKeeps == ASSUME Inv, RemoveDone PROVE Inv'
<1>0. Types /\ BrokenBare /\ Signals /\ todo = <<>> /\ HookedChainsComplete
  BY DEF Inv, RemoveDone
<1>1. exit \in {"stopped", "cleaned"} => Clean
  <2> SUFFICES ASSUME exit \in {"stopped", "cleaned"}
               PROVE  Clean
    OBVIOUS
  <2>1. Undisturbed /\ LastStep = 4  BY DEF RemoveDone, Undisturbed, LastStep
  <2>2. \A f \in Family, c \in Chain : StateAt(f, c, 5)  BY <1>0, <2>1, Finished
  <2>3. \A f \in Family, c \in Chain :
           chain[f][c] = Missing /\ hooks[f][c] = 0 /\ f \notin sets
    BY <2>2 DEF StateAt
  <2>4. sets = {}  BY <1>0, <2>3 DEF Types, Chain
  <2> QED  BY <2>3, <2>4 DEF Clean
<1>2. Types'  BY <1>0 DEF RemoveDone, Types
<1>3. Script'  BY <1>0, Idle DEF RemoveDone, Script
<1>4. BrokenBare'  BY <1>0 DEF RemoveDone, BrokenBare
<1>5. Signals'
  <2>1. inflight # {} => disturbed /\ exit = "interrupted"
    BY <1>0 DEF RemoveDone, Signals
  <2> QED  BY <1>0, <2>1 DEF RemoveDone, Signals
<1>6. RemoveLeavesNothing'  BY <1>1 DEF RemoveDone, RemoveLeavesNothing, Clean
<1>7. HookedChainsComplete'
  <2>1. CASE exit \in {"stopped", "cleaned"}
    <3>1. \A f \in Family, c \in Chain : hooks'[f][c] = 0  BY <1>1, <2>1 DEF Clean, RemoveDone
    <3> QED  BY <3>1 DEF HookedChainsComplete
  <2>2. CASE exit \in {"interrupted", "partial"}
    <3>1. disturbed'  BY <1>0, <2>2 DEF RemoveDone, Signals
    <3> QED  BY <3>1 DEF HookedChainsComplete
  <2> QED  BY <1>0, <2>1, <2>2 DEF RemoveDone, Signals
<1>8. Progress' /\ InForce'  BY DEF RemoveDone, Progress, Undisturbed, InForce
<1> QED  BY <1>2, <1>3, <1>4, <1>5, <1>6, <1>7, <1>8 DEF Inv

LEMMA StartKeeps == ASSUME Inv, Start PROVE Inv'
<1>0. Types /\ BrokenBare /\ HookedChainsComplete  BY DEF Inv
<1>1. Types'
  <2>1. starts' \in 0..MaxStarts  BY <1>0, NetfilterAssumption DEF Types, Start
  <2> QED  BY <1>0, <2>1 DEF Start, Types
<1>2. LastStep' = 12  BY DEF Start, LastStep
<1>3. Script'  BY <1>2, InstallScriptList DEF Start, Script
<1>4. Progress'
  <2>1. \A f \in Family, c \in Chain : Remain(todo', f, c, 1, 12)
    BY InstallScriptList, Fresh DEF Start
  <2>2. \A f \in Family, c \in Chain : StateAt(f, c, 1)'  BY DEF StateAt
  <2> QED  BY <1>2, <2>1, <2>2 DEF Progress
<1>5. BrokenBare' /\ HookedChainsComplete'
  BY <1>0 DEF Start, BrokenBare, HookedChainsComplete
<1>6. Signals' /\ InForce' /\ RemoveLeavesNothing'
  BY DEF Start, Signals, InForce, RemoveLeavesNothing
<1> QED  BY <1>1, <1>3, <1>4, <1>5, <1>6 DEF Inv

LEMMA RemoveStartsKeeps == ASSUME Inv, Cleanup \/ Stop PROVE Inv'
<1>0. Types /\ BrokenBare /\ HookedChainsComplete  BY DEF Inv
<1>1. /\ proc' = "removing" /\ exit' \in {"stopped", "cleaned"} /\ todo' = RemoveScript
      /\ UNCHANGED <<sets, chain, hooks, copies, inflight, starts, broken, disturbed>>
  BY DEF Cleanup, Stop
<1>2. inflight = {}
  <2>1. CASE Cleanup  BY <2>1 DEF Cleanup
  <2>2. CASE Stop  BY <2>2, NothingRuns DEF Stop
  <2> QED  BY <2>1, <2>2
<1>3. LastStep' = 4  BY <1>1 DEF LastStep
<1>4. Types'  BY <1>0, <1>1 DEF Types
<1>5. Script'  BY <1>1, <1>3, RemoveScriptList DEF Script
<1>6. Progress'
  <2>1. \A f \in Family, c \in Chain : Remain(todo', f, c, 1, 4)
    BY <1>1, RemoveScriptList, Fresh
  <2>2. \A f \in Family, c \in Chain : StateAt(f, c, 1)'  BY DEF StateAt
  <2> QED  BY <1>3, <2>1, <2>2 DEF Progress
<1>7. BrokenBare' /\ HookedChainsComplete'
  BY <1>0, <1>1 DEF BrokenBare, HookedChainsComplete
<1>8. Signals' /\ InForce' /\ RemoveLeavesNothing'
  BY <1>1, <1>2 DEF Signals, InForce, RemoveLeavesNothing
<1> QED  BY <1>4, <1>5, <1>6, <1>7, <1>8 DEF Inv

LEMMA InterruptKeeps == ASSUME Inv, Interrupt PROVE Inv'
<1>0. Types /\ BrokenBare /\ proc = "installing" /\ todo # <<>>  BY DEF Inv, Interrupt
<1>1. /\ LastStep \in {4, 12} /\ todo \in Seq(Cmds(LastStep)) /\ InOrder(todo)
  BY <1>0 DEF Inv, Script, LastStep
<1>2. LastStep = 12 /\ Undisturbed  BY <1>0 DEF LastStep, Undisturbed
<1>3. Head(todo) \in Cmds(12)  BY <1>0, <1>1, <1>2, Pop
<1>4. inflight' = {Head(todo)}  BY <1>0, NothingRuns DEF Interrupt
<1>5. Types'
  <2>1. copies' \in 0..MaxUnhook  BY NetfilterAssumption DEF Interrupt
  <2> QED  BY <1>0, <1>3, <1>4, <2>1 DEF Interrupt, Types
<1>6. Script'
  <2>1. LastStep' = 4  BY DEF Interrupt, LastStep
  <2> QED  BY <2>1, RemoveScriptList DEF Interrupt, Script
<1>7. BrokenBare'  BY <1>0 DEF Interrupt, BrokenBare
<1>8. Signals'
  <2>1. ASSUME NEW f \in Family, NEW c \in Chain, Cmd(f, c, 12) \in inflight'
        PROVE  hooks'[f][c] = 0
    <3>1. Head(todo) = Cmd(f, c, 12) /\ 12 \in Step  BY <1>4, <2>1 DEF Step
    <3>2. PICK n \in 1..(LastStep + 1) : Remain(todo, f, c, n, LastStep) /\ StateAt(f, c, n)
      BY <1>2 DEF Inv, Progress
    <3>3. n = 12  BY <1>0, <1>1, <3>1, <3>2, PopRemain
    <3>4. hooks[f][c] = 0  BY <3>2, <3>3 DEF StateAt
    <3> QED  BY <3>4 DEF Interrupt
  <2> QED  BY <2>1 DEF Interrupt, Signals
<1>9. Progress' /\ InForce' /\ RemoveLeavesNothing' /\ HookedChainsComplete'
  BY DEF Interrupt, Progress, Undisturbed, InForce, RemoveLeavesNothing, HookedChainsComplete
<1> QED  BY <1>5, <1>6, <1>7, <1>8, <1>9 DEF Inv

LEMMA KillKeeps == ASSUME Inv, Kill PROVE Inv'
<1>0. Types /\ BrokenBare /\ Signals /\ HookedChainsComplete  BY DEF Inv
<1>1. Types'
  <2>1. copies' \in 0..MaxUnhook  BY NetfilterAssumption DEF Kill
  <2> QED  BY <1>0, <2>1 DEF Kill, Types
<1>2. Script'  BY Idle DEF Kill, Script
<1>3. BrokenBare' /\ HookedChainsComplete'  BY <1>0 DEF Kill, BrokenBare, HookedChainsComplete
<1>4. Signals'  BY <1>0 DEF Kill, Signals
<1>5. Progress' /\ InForce' /\ RemoveLeavesNothing'
  BY DEF Kill, Progress, Undisturbed, InForce, RemoveLeavesNothing
<1> QED  BY <1>1, <1>2, <1>3, <1>4, <1>5 DEF Inv

LEMMA LateCommandKeeps ==
    ASSUME Inv, NEW cmd \in inflight, LateCommand(cmd)
    PROVE  Inv'
<1>0. Types /\ Script /\ BrokenBare /\ Signals  BY DEF Inv
<1>1. /\ disturbed /\ proc \in {"removing", "down"} /\ exit \in {"interrupted", "killed"}
      /\ inflight' = inflight \ {cmd}
      /\ UNCHANGED <<proc, todo, copies, exit, starts, broken, disturbed>>
  BY <1>0 DEF Signals, LateCommand
<1>2. PICK f \in Family, c \in Chain, k \in 1..12 : cmd = Cmd(f, c, k)
  BY <1>0 DEF Types, Cmds
<1>3. k \in Step  BY DEF Step
<1>4. ASSUME UNCHANGED <<sets, chain, hooks>>
      PROVE  Types' /\ BrokenBare' /\ Signals'
  <2>1. Types' /\ BrokenBare'  BY <1>0, <1>1, <1>4 DEF Types, BrokenBare
  <2>2. Signals'  BY <1>0, <1>1, <1>4 DEF Signals
  <2> QED  BY <2>1, <2>2
<1>5. ASSUME Succeeds(cmd), Effect(cmd)
      PROVE  Types' /\ BrokenBare' /\ Signals'
  <2>1. k = 12 => hooks[f][c] = 0  BY <1>0, <1>2 DEF Signals
  <2>2. /\ sets' \subseteq Family
        /\ chain' \in [Family -> [Chain -> Rules]]
        /\ hooks' \in [Family -> [Chain -> {0, 1}]]
    BY <1>0, <1>2, <1>3, <1>5, <2>1, EffectTypes
  <2>3. Types'  BY <1>0, <1>1, <2>2 DEF Types
  <2>4. \A g \in Family, d \in Chain :
           /\ k # 12 /\ hooks[g][d] = 0 => hooks'[g][d] = 0
           /\ g \in broken => chain'[g][d] = chain[g][d] /\ hooks'[g][d] = hooks[g][d]
    BY <1>0, <1>2, <1>3, <1>5, EffectKeepsBare
  <2>5. BrokenBare'  BY <1>0, <1>1, <2>4 DEF BrokenBare
  <2>6. ASSUME NEW g \in Family, NEW d \in Chain, Cmd(g, d, 12) \in inflight'
        PROVE  hooks'[g][d] = 0
    <3>1. hooks[g][d] = 0 /\ Cmd(g, d, 12) # cmd  BY <1>0, <1>1, <2>6 DEF Signals
    <3>2. CASE k # 12  BY <2>4, <3>1, <3>2
    <3>3. CASE k = 12
      <4>1. g # f \/ d # c  BY <1>2, <3>1, <3>3
      <4>2. g # f \/ (d # c /\ ~ForSet(k))  BY <3>3, <4>1 DEF ForSet
      <4> QED  BY <1>0, <1>2, <1>3, <1>5, <3>1, <4>2, EffectElsewhere
    <3> QED  BY <3>2, <3>3
  <2>7. Signals'
    <3>1. \A g \in Family, d \in Chain : Cmd(g, d, 12) \in inflight' => hooks'[g][d] = 0
      BY <2>6
    <3> QED  BY <1>0, <1>1, <3>1 DEF Signals
  <2> QED  BY <2>3, <2>5, <2>7
<1>6. Types' /\ BrokenBare' /\ Signals'  BY <1>4, <1>5 DEF LateCommand, kernel
<1>7. Script'  BY <1>0, <1>1 DEF Script, LastStep
<1>8. Progress' /\ InForce' /\ RemoveLeavesNothing' /\ HookedChainsComplete'
  BY <1>1 DEF Progress, Undisturbed, InForce, RemoveLeavesNothing, HookedChainsComplete
<1> QED  BY <1>6, <1>7, <1>8 DEF Inv

-----------------------------------------------------------------------------
(* The invariant, and what it says of the properties the runs check.         *)

LEMMA StepKeeps == Inv /\ [Next]_vars => Inv'
<1> SUFFICES ASSUME Inv, [Next]_vars PROVE Inv'
  OBVIOUS
<1>1. CASE RunCommand \/ CommandFails  BY <1>1, CommandRuns, CommandKeeps
<1>2. CASE InstallFails  BY <1>2, InstallFailsKeeps
<1>11. CASE CommandRefused  BY <1>11, RefusedKeeps
<1>3. CASE InstallDone  BY <1>3, InstallDoneKeeps
<1>4. CASE RemoveDone  BY <1>4, RemoveDoneKeeps
<1>5. CASE Start  BY <1>5, StartKeeps
<1>6. CASE Cleanup \/ Stop  BY <1>6, RemoveStartsKeeps
<1>7. CASE Interrupt  BY <1>7, InterruptKeeps
<1>8. CASE Kill  BY <1>8, KillKeeps
<1>9. CASE \E cmd \in inflight : LateCommand(cmd)  BY <1>9, LateCommandKeeps
<1>10. CASE UNCHANGED vars
  <2>1. UNCHANGED <<sets, chain, hooks, proc, todo, copies, inflight, exit, starts,
                    broken, disturbed>>
    BY <1>10 DEF vars
  <2>2. Types' /\ Script' /\ BrokenBare' /\ Signals'
    BY <2>1 DEF Inv, Types, Script, LastStep, BrokenBare, Signals
  <2>3. Progress'
    <3>1. (Undisturbed' <=> Undisturbed) /\ LastStep' = LastStep
      BY <2>1 DEF Undisturbed, LastStep
    <3>2. \A f \in Family, c \in Chain : \A n : StateAt(f, c, n)' <=> StateAt(f, c, n)
      BY <2>1 DEF StateAt
    <3> QED  BY <2>1, <3>1, <3>2 DEF Inv, Progress
  <2>4. InForce' /\ RemoveLeavesNothing' /\ HookedChainsComplete'
    BY <2>1 DEF Inv, InForce, RemoveLeavesNothing, Clean, HookedChainsComplete
  <2> QED  BY <2>2, <2>3, <2>4 DEF Inv
<1> QED  BY <1>1, <1>2, <1>3, <1>4, <1>5, <1>6, <1>7, <1>8, <1>9, <1>10, <1>11
  DEF Next

LEMMA Invariance == Spec => []Inv
BY InitKeeps, StepKeeps, PTL DEF Spec

(* Every variable keeps its type.                                            *)
THEOREM TypeCorrect == Spec => []TypeOK
<1>1. Inv => TypeOK
  <2> SUFFICES ASSUME Inv PROVE TypeOK
    OBVIOUS
  <2>1. Types /\ Script  BY DEF Inv
  <2>2. \A f \in Family, c \in Chain :
           /\ chain[f][c] = Missing \/ Range(chain[f][c]) \subseteq Target
           /\ hooks[f][c] \in Nat
    <3> SUFFICES ASSUME NEW f \in Family, NEW c \in Chain
                 PROVE  /\ chain[f][c] = Missing \/ Range(chain[f][c]) \subseteq Target
                        /\ hooks[f][c] \in Nat
      OBVIOUS
    <3>1. hooks[f][c] \in {0, 1} /\ chain[f][c] \in Rules  BY <2>1 DEF Types
    <3>2. CASE chain[f][c] \in Seq(Target)
      <4>1. /\ DOMAIN chain[f][c] = 1..Len(chain[f][c])
            /\ \A i \in 1..Len(chain[f][c]) : chain[f][c][i] \in Target
        BY <3>2, LenProperties, ElementOfSeq
      <4> QED  BY <3>1, <4>1 DEF Range
    <3> QED  BY <3>1, <3>2 DEF Rules
  <2>3. Commands = Cmds(12)
    <3>1. Cmds(4) \subseteq Cmds(12)  BY DEF Cmds
    <3> QED  BY <3>1, InstallScriptList, RemoveScriptList DEF Commands
  <2>4. Range(todo) \subseteq Commands
    <3>1. LastStep \in {4, 12} /\ todo \in Seq(Cmds(LastStep))  BY <2>1 DEF Script, LastStep
    <3>2. DOMAIN todo = 1..Len(todo) /\ \A i \in 1..Len(todo) : todo[i] \in Cmds(LastStep)
      BY <3>1, LenProperties, ElementOfSeq
    <3>3. Cmds(4) \subseteq Cmds(12)  BY DEF Cmds
    <3>4. Cmds(LastStep) \subseteq Cmds(12)  BY <3>1, <3>3
    <3> QED  BY <2>3, <3>2, <3>4 DEF Range
  <2> QED  BY <2>1, <2>2, <2>3, <2>4 DEF Types, TypeOK
<1> QED  BY <1>1, Invariance, PTL

(* A chain is hooked only while it is complete, except from a signal inside  *)
(* install() or a refused command of remove() until a start, stop or cleanup *)
(* has run to its end.                                                       *)
THEOREM OnlyCompleteHooked == Spec => []HookedChainsComplete
<1>1. Inv => HookedChainsComplete  BY DEF Inv
<1> QED  BY <1>1, Invariance, PTL

(* A stop of the running firewall, or tools/cleanup.py, that ran to its end  *)
(* without a refused command leaves the machine as if the program had never  *)
(* run.                                                                      *)
THEOREM NothingLeft == Spec => []RemoveLeavesNothing
<1>1. Inv => RemoveLeavesNothing  BY DEF Inv
<1> QED  BY <1>1, Invariance, PTL

(* While the engine runs, every chain of every family is in force.           *)
THEOREM InForceWhileRunning == Spec => []RunningMeansHooked
<1>1. Inv => RunningMeansHooked
  <2>1. Inv => InForce  BY DEF Inv
  <2>2. InForce => RunningMeansHooked  BY DEF InForce, RunningMeansHooked, Chain
  <2> QED  BY <2>1, <2>2
<1> QED  BY <1>1, Invariance, PTL
=============================================================================
