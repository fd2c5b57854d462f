------------------------------ MODULE RulesProofs ------------------------------
(***************************************************************************)
(* Proofs about the rules.  First the list of them: RuleSet, for any        *)
(* threads of the dashboard, kinds of packets, starter rules and bounds.    *)
(* Then what one rule says: Packets, for any packets, rules, addresses and  *)
(* ports.                                                                   *)
(***************************************************************************)
EXTENDS RuleSet, Packets, SequenceTheorems, WellFoundedInduction, TLAPS

-----------------------------------------------------------------------------
(* Least and greatest of a set of numbers.                                   *)

LEMMA MinIs ==
    ASSUME NEW S \in SUBSET Nat, S # {}
    PROVE  Min(S) \in S /\ \A y \in S : Min(S) <= y
<1> DEFINE P(x) == x \in S /\ \A y \in S : x <= y
<1>1. \E x \in Nat : P(x)
  <2>1. IsWellFoundedOn(OpToRel(<, Nat), Nat)  BY NatLessThanWellFounded
  <2>2. PICK x \in S : \A y \in S : ~(<<y, x>> \in OpToRel(<, Nat))  BY <2>1, WFMin
  <2>3. \A y \in S : ~(y < x)  BY <2>2 DEF OpToRel
  <2> QED  BY <2>3
<1>2. P(CHOOSE x \in S : \A y \in S : x <= y)  BY <1>1
<1> QED  BY <1>2 DEF Min

LEMMA MaxIs ==
    ASSUME NEW N \in Nat, NEW S \in SUBSET (1..N), S # {}
    PROVE  Max(S) \in S /\ \A y \in S : Max(S) >= y
<1> DEFINE T == {N - x : x \in S}
           P(x) == x \in S /\ \A y \in S : x >= y
<1>1. \E x \in S : P(x)
  <2>1. T \in SUBSET Nat /\ T # {}
    <3>1. \A x \in S : N - x \in Nat  OBVIOUS
    <3>2. PICK x \in S : TRUE  OBVIOUS
    <3>3. N - x \in T  BY <3>2
    <3> QED  BY <3>1, <3>3
  <2>2. Min(T) \in T /\ \A y \in T : Min(T) <= y
    <3> HIDE DEF T
    <3> QED  BY <2>1, MinIs
  <2>3. PICK x \in S : Min(T) = N - x  BY <2>2
  <2>4. \A y \in S : N - x <= N - y  BY <2>2, <2>3
  <2> QED  BY <2>4
<1>2. P(CHOOSE x \in S : \A y \in S : x >= y)  BY <1>1
<1> QED  BY <1>2 DEF Max

-----------------------------------------------------------------------------
(* Taking a rule out of a list and putting one in.                           *)

LEMMA RemoveAtIs ==
    ASSUME NEW S, NEW s \in Seq(S), NEW i \in 1..Len(s)
    PROVE  /\ RemoveAt(s, i) \in Seq(S)
           /\ Len(RemoveAt(s, i)) = Len(s) - 1
           /\ \A j \in 1..(Len(s) - 1) : RemoveAt(s, i)[j] = s[IF j < i THEN j ELSE j + 1]
<1> DEFINE a == SubSeq(s, 1, i - 1)
           b == SubSeq(s, i + 1, Len(s))
<1>1. Len(s) \in Nat /\ \A j \in 1..Len(s) : s[j] \in S  BY LenProperties, ElementOfSeq
<1>2. /\ a \in Seq(S) /\ Len(a) = i - 1
      /\ \A j \in 1..(i - 1) : a[j] = s[j]
  <2>1. 1 \in Int /\ i - 1 \in Int /\ \A j \in 1..(i - 1) : s[j] \in S  BY <1>1
  <2>2. /\ a \in Seq(S) /\ Len(a) = (IF 1 <= i - 1 THEN i - 1 - 1 + 1 ELSE 0)
        /\ \A j \in 1..(i - 1 - 1 + 1) : a[j] = s[1 + j - 1]
    BY <2>1, SubSeqProperties
  <2> QED  BY <2>2, <1>1
<1>3. /\ b \in Seq(S) /\ Len(b) = Len(s) - i
      /\ \A j \in 1..(Len(s) - i) : b[j] = s[i + j]
  <2>1. i + 1 \in Int /\ Len(s) \in Int /\ \A j \in (i + 1)..Len(s) : s[j] \in S  BY <1>1
  <2>2. /\ b \in Seq(S) /\ Len(b) = (IF i + 1 <= Len(s) THEN Len(s) - (i + 1) + 1 ELSE 0)
        /\ \A j \in 1..(Len(s) - (i + 1) + 1) : b[j] = s[i + 1 + j - 1]
    BY <2>1, SubSeqProperties
  <2> QED  BY <2>2, <1>1
<1>4. RemoveAt(s, i) = a \o b  BY DEF RemoveAt
<1> HIDE DEF a, b
<1>5. /\ a \o b \in Seq(S) /\ Len(a \o b) = Len(a) + Len(b)
      /\ \A j \in 1..(Len(a) + Len(b)) : (a \o b)[j] = IF j <= Len(a) THEN a[j] ELSE b[j - Len(a)]
  BY <1>2, <1>3, ConcatProperties
<1>6. ASSUME NEW j \in 1..(Len(s) - 1)
      PROVE  (a \o b)[j] = s[IF j < i THEN j ELSE j + 1]
  <2>1. CASE j < i  BY <1>1, <1>2, <1>3, <1>5, <2>1
  <2>2. CASE ~(j < i)
    <3>1. j - Len(a) \in 1..(Len(s) - i) /\ i + (j - Len(a)) = j + 1  BY <1>1, <1>2, <2>2
    <3>2. (a \o b)[j] = b[j - Len(a)]  BY <1>1, <1>2, <1>3, <1>5, <2>2
    <3> QED  BY <1>3, <2>2, <3>1, <3>2
  <2> QED  BY <2>1, <2>2
<1> QED  BY <1>1, <1>2, <1>3, <1>4, <1>5, <1>6

LEMMA InsertAtIs ==
    ASSUME NEW S, NEW s \in Seq(S), NEW i \in 1..(Len(s) + 1), NEW e \in S
    PROVE  /\ InsertAt(s, i, e) \in Seq(S)
           /\ Len(InsertAt(s, i, e)) = Len(s) + 1
           /\ \A j \in 1..(Len(s) + 1) :
                 InsertAt(s, i, e)[j] = IF j < i THEN s[j] ELSE IF j = i THEN e ELSE s[j - 1]
<1> DEFINE a == SubSeq(s, 1, i - 1)
           m == <<e>>
           b == SubSeq(s, i, Len(s))
<1>1. Len(s) \in Nat /\ \A j \in 1..Len(s) : s[j] \in S  BY LenProperties, ElementOfSeq
<1>2. /\ a \in Seq(S) /\ Len(a) = i - 1
      /\ \A j \in 1..(i - 1) : a[j] = s[j]
  <2>1. 1 \in Int /\ i - 1 \in Int /\ \A j \in 1..(i - 1) : s[j] \in S  BY <1>1
  <2>2. /\ a \in Seq(S) /\ Len(a) = (IF 1 <= i - 1 THEN i - 1 - 1 + 1 ELSE 0)
        /\ \A j \in 1..(i - 1 - 1 + 1) : a[j] = s[1 + j - 1]
    BY <2>1, SubSeqProperties
  <2> QED  BY <2>2, <1>1
<1>3. /\ b \in Seq(S) /\ Len(b) = Len(s) - i + 1
      /\ \A j \in 1..(Len(s) - i + 1) : b[j] = s[i + j - 1]
  <2>1. i \in Int /\ Len(s) \in Int /\ \A j \in i..Len(s) : s[j] \in S  BY <1>1
  <2>2. /\ b \in Seq(S) /\ Len(b) = (IF i <= Len(s) THEN Len(s) - i + 1 ELSE 0)
        /\ \A j \in 1..(Len(s) - i + 1) : b[j] = s[i + j - 1]
    BY <2>1, SubSeqProperties
  <2> QED  BY <2>2, <1>1
<1>4. m \in Seq(S) /\ Len(m) = 1 /\ m[1] = e  OBVIOUS
<1>5. InsertAt(s, i, e) = (a \o m) \o b  BY DEF InsertAt
<1> HIDE DEF a, b, m
<1> DEFINE c == a \o m
<1>6. /\ c \in Seq(S) /\ Len(c) = i
      /\ \A j \in 1..i : c[j] = IF j < i THEN s[j] ELSE e
  <2>1. /\ c \in Seq(S) /\ Len(c) = Len(a) + Len(m)
        /\ \A j \in 1..(Len(a) + Len(m)) : c[j] = IF j <= Len(a) THEN a[j] ELSE m[j - Len(a)]
    BY <1>2, <1>4, ConcatProperties
  <2> QED  BY <1>1, <1>2, <1>4, <2>1
<1> HIDE DEF c
<1>7. /\ c \o b \in Seq(S) /\ Len(c \o b) = Len(c) + Len(b)
      /\ \A j \in 1..(Len(c) + Len(b)) : (c \o b)[j] = IF j <= Len(c) THEN c[j] ELSE b[j - Len(c)]
  BY <1>3, <1>6, ConcatProperties
<1>8. ASSUME NEW j \in 1..(Len(s) + 1)
      PROVE  (c \o b)[j] = IF j < i THEN s[j] ELSE IF j = i THEN e ELSE s[j - 1]
  <2>1. CASE j <= i  BY <1>1, <1>3, <1>6, <1>7, <2>1
  <2>2. CASE ~(j <= i)
    <3>1. j - Len(c) \in 1..(Len(s) - i + 1) /\ i + (j - Len(c)) - 1 = j - 1
      BY <1>1, <1>6, <2>2
    <3>2. (c \o b)[j] = b[j - Len(c)]  BY <1>1, <1>3, <1>6, <1>7, <2>2
    <3> QED  BY <1>3, <2>2, <3>1, <3>2
  <2> QED  BY <2>1, <2>2
<1> QED  BY <1>1, <1>3, <1>5, <1>6, <1>7, <1>8 DEF c

-----------------------------------------------------------------------------
(* What the rule list of an edit is.                                         *)

LEMMA AppendIs ==
    ASSUME NEW list \in Lists, NEW r \in Rule
    PROVE  /\ Append(list, r) \in Lists
           /\ DOMAIN Append(list, r) = 1..(Len(list) + 1)
           /\ \A j \in 1..(Len(list) + 1) :
                 Append(list, r)[j] = IF j <= Len(list) THEN list[j] ELSE r
<1>1. Len(list) \in Nat /\ DOMAIN list = 1..Len(list)  BY LenProperties DEF Lists
<1>2. /\ Append(list, r) \in Seq(Rule)
      /\ Len(Append(list, r)) = Len(list) + 1
      /\ \A j \in 1..Len(list) : Append(list, r)[j] = list[j]
      /\ Append(list, r)[Len(list) + 1] = r
  BY AppendProperties DEF Lists
<1>3. DOMAIN Append(list, r) = 1..Len(Append(list, r))  BY <1>2, LenProperties
<1> QED  BY <1>1, <1>2, <1>3 DEF Lists

(* delete(): the rules behind the deleted one move up.                       *)
LEMMA WithoutIs ==
    ASSUME NEW list \in Lists, NEW id \in Ids(list)
    PROVE  \E k \in 1..Len(list) :
              /\ list[k].id = id
              /\ Without(list, id) \in Lists
              /\ DOMAIN Without(list, id) = 1..(Len(list) - 1)
              /\ \A j \in 1..(Len(list) - 1) :
                    Without(list, id)[j] = list[IF j < k THEN j ELSE j + 1]
<1> DEFINE k == CHOOSE i \in DOMAIN list : list[i].id = id
<1>1. Len(list) \in Nat /\ DOMAIN list = 1..Len(list)  BY LenProperties DEF Lists
<1>2. k \in 1..Len(list) /\ list[k].id = id  BY <1>1 DEF Ids
<1>3. Without(list, id) = RemoveAt(list, k)  BY DEF Without
<1> HIDE DEF k
<1>4. list \in Seq(Rule)  BY DEF Lists
<1>5. /\ RemoveAt(list, k) \in Seq(Rule)
      /\ Len(RemoveAt(list, k)) = Len(list) - 1
      /\ \A j \in 1..(Len(list) - 1) :
            RemoveAt(list, k)[j] = list[IF j < k THEN j ELSE j + 1]
  BY <1>2, <1>4, RemoveAtIs
<1>6. DOMAIN RemoveAt(list, k) = 1..(Len(list) - 1)  BY <1>5, LenProperties
<1> QED  BY <1>2, <1>3, <1>5, <1>6 DEF Lists

(* update(): the rule keeps its place and its id.                            *)
LEMMA UpdatedIs ==
    ASSUME NEW list \in Lists, NEW i \in DOMAIN list, NEW r \in Rule
    PROVE  /\ [list EXCEPT ![i] = r] \in Lists
           /\ DOMAIN [list EXCEPT ![i] = r] = DOMAIN list
           /\ \A j \in DOMAIN list : [list EXCEPT ![i] = r][j] = IF j = i THEN r ELSE list[j]
BY ExceptSeq DEF Lists

(* Where a rule goes when the one at i is moved to n.                        *)
Place(i, n, j) ==
    LET k == IF j < i THEN j ELSE j - 1
    IN IF j = i THEN n ELSE IF k < n THEN k ELSE k + 1

(* move(): every rule goes to its place.                                     *)
LEMMA MovedIs ==
    ASSUME NEW list \in Lists, NEW i \in DOMAIN list, NEW new \in Nat \ {0}
    PROVE  \E n \in 1..Len(list) :
              /\ Moved(list, i, new) \in Lists
              /\ DOMAIN Moved(list, i, new) = 1..Len(list)
              /\ \A j \in 1..Len(list) : /\ Place(i, n, j) \in 1..Len(list)
                                         /\ Moved(list, i, new)[Place(i, n, j)] = list[j]
              /\ \A m \in 1..Len(list) : \E j \in 1..Len(list) : Place(i, n, j) = m
<1> DEFINE others == RemoveAt(list, i)
           n == IF new <= Len(others) THEN new ELSE Len(list)
           M == InsertAt(others, n, list[i])
<1>1. Len(list) \in Nat /\ DOMAIN list = 1..Len(list)  BY LenProperties DEF Lists
<1>2. list \in Seq(Rule) /\ list[i] \in Rule  BY <1>1, ElementOfSeq DEF Lists
<1>3. /\ others \in Seq(Rule)
      /\ Len(others) = Len(list) - 1
      /\ \A j \in 1..(Len(list) - 1) : others[j] = list[IF j < i THEN j ELSE j + 1]
  BY <1>1, <1>2, RemoveAtIs
<1>4. n \in 1..Len(list)  BY <1>1, <1>3
<1>5. Moved(list, i, new) = M  BY DEF Moved
<1> HIDE DEF others, n
<1>6. /\ M \in Seq(Rule)
      /\ Len(M) = Len(others) + 1
      /\ \A j \in 1..(Len(others) + 1) :
            M[j] = IF j < n THEN others[j] ELSE IF j = n THEN list[i] ELSE others[j - 1]
  <2>1. n \in 1..(Len(others) + 1)  BY <1>1, <1>3, <1>4
  <2> QED  BY <1>2, <1>3, <2>1, InsertAtIs
<1>7. DOMAIN M = 1..Len(list)  BY <1>1, <1>3, <1>6, LenProperties
<1> HIDE DEF M
<1>8. ASSUME NEW j \in 1..Len(list)
      PROVE  Place(i, n, j) \in 1..Len(list) /\ M[Place(i, n, j)] = list[j]
  <2>1. CASE j = i
    <3>1. Place(i, n, j) = n  BY <2>1 DEF Place
    <3>2. M[n] = list[i]  BY <1>1, <1>3, <1>4, <1>6
    <3> QED  BY <2>1, <3>1, <3>2, <1>4
  <2>2. CASE j # i
    <3> DEFINE k == IF j < i THEN j ELSE j - 1
    <3>1. k \in 1..(Len(list) - 1) /\ (IF k < i THEN k ELSE k + 1) = j
      BY <1>1, <2>2
    <3>2. others[k] = list[j]  BY <3>1, <1>3
    <3>3. Place(i, n, j) = IF k < n THEN k ELSE k + 1  BY <2>2 DEF Place
    <3> HIDE DEF k
    <3>4. CASE k < n
      <4>1. k \in 1..(Len(others) + 1)  BY <1>1, <1>3, <3>1
      <4>2. M[k] = others[k]  BY <1>6, <3>4, <4>1
      <4> QED  BY <1>1, <3>1, <3>2, <3>3, <3>4, <4>2
    <3>5. CASE ~(k < n)
      <4>1. k + 1 \in 1..(Len(others) + 1) /\ ~(k + 1 < n) /\ k + 1 # n /\ (k + 1) - 1 = k
        BY <1>1, <1>3, <1>4, <3>1, <3>5
      <4>2. M[k + 1] = others[(k + 1) - 1]  BY <1>6, <4>1
      <4> QED  BY <1>1, <1>3, <3>1, <3>2, <3>3, <3>5, <4>1, <4>2
    <3> QED  BY <3>4, <3>5
  <2> QED  BY <2>1, <2>2
<1>9. ASSUME NEW m \in 1..Len(list)
      PROVE  \E j \in 1..Len(list) : Place(i, n, j) = m
  <2>1. CASE m = n  BY <1>1, <2>1 DEF Place
  <2>2. CASE m # n
    <3> DEFINE k == IF m < n THEN m ELSE m - 1
               j == IF k < i THEN k ELSE k + 1
    <3>1. k \in 1..(Len(list) - 1)  BY <1>1, <1>4, <2>2
    <3>2. j \in 1..Len(list) /\ j # i /\ (IF j < i THEN j ELSE j - 1) = k  BY <1>1, <3>1
    <3>3. Place(i, n, j) = IF k < n THEN k ELSE k + 1
      <4> HIDE DEF k, j
      <4> QED  BY <3>2 DEF Place
    <3>4. (IF k < n THEN k ELSE k + 1) = m  BY <1>1, <1>4, <2>2
    <3> HIDE DEF k, j
    <3> QED  BY <3>2, <3>3, <3>4
  <2> QED  BY <2>1, <2>2
<1> QED  BY <1>4, <1>5, <1>6, <1>7, <1>8, <1>9 DEF Lists

-----------------------------------------------------------------------------
(* What decides a packet.                                                    *)

Matching(list, p) == {i \in DOMAIN list : p \in list[i].matches}

LEMMA FirstMatchIs ==
    ASSUME NEW list \in Lists, NEW p
    PROVE  \/ /\ \A j \in DOMAIN list : p \notin list[j].matches
              /\ FirstMatch(list, p) = Nobody
           \/ \E i \in DOMAIN list :
                 /\ p \in list[i].matches
                 /\ \A j \in DOMAIN list : p \in list[j].matches => i <= j
                 /\ FirstMatch(list, p) = [id |-> list[i].id, action |-> list[i].action]
<1>1. Len(list) \in Nat /\ DOMAIN list = 1..Len(list)  BY LenProperties DEF Lists
<1>2. Matching(list, p) \in SUBSET Nat  BY <1>1 DEF Matching
<1>3. FirstMatch(list, p) =
        IF Matching(list, p) = {} THEN Nobody
        ELSE [id |-> list[Min(Matching(list, p))].id,
              action |-> list[Min(Matching(list, p))].action]
  BY DEF FirstMatch, Matching
<1>4. CASE Matching(list, p) = {}  BY <1>3, <1>4 DEF Matching
<1>5. CASE Matching(list, p) # {}
  <2>1. /\ Min(Matching(list, p)) \in Matching(list, p)
        /\ \A y \in Matching(list, p) : Min(Matching(list, p)) <= y
    BY <1>2, <1>5, MinIs
  <2> DEFINE i == Min(Matching(list, p))
  <2>2. FirstMatch(list, p) = [id |-> list[i].id, action |-> list[i].action]  BY <1>3, <1>5
  <2>3. i \in Matching(list, p) /\ \A y \in Matching(list, p) : i <= y  BY <2>1
  <2> HIDE DEF i
  <2> QED  BY <2>2, <2>3 DEF Matching
<1> QED  BY <1>4, <1>5

(* Where the rules of a list are in another: the ones that do not have the   *)
(* id e are in both, in the same order.                                      *)
SameBut(e, list, other, at) ==
    /\ \A i \in DOMAIN list : list[i].id # e =>
          at[i] \in DOMAIN other /\ other[at[i]] = list[i]
    /\ \A i, k \in DOMAIN list : list[i].id # e /\ list[k].id # e /\ i < k => at[i] < at[k]
    /\ \A j \in DOMAIN other : other[j].id # e =>
          \E i \in DOMAIN list : at[i] = j /\ list[i].id # e

(* First match wins: what is decided differently by two lists is decided by  *)
(* a rule in which they differ.                                              *)
LEMMA DecidedByTheEdited ==
    ASSUME NEW list \in Lists, NEW other \in Lists, NEW p, NEW e, NEW at,
           SameBut(e, list, other, at),
           FirstMatch(list, p) # FirstMatch(other, p)
    PROVE  e \in {FirstMatch(list, p).id, FirstMatch(other, p).id}
<1> SUFFICES ASSUME FirstMatch(list, p).id # e, FirstMatch(other, p).id # e
             PROVE  FALSE
  OBVIOUS
<1>1. DOMAIN list \subseteq Nat /\ DOMAIN other \subseteq Nat  BY LenProperties DEF Lists
<1>2. \/ /\ \A j \in DOMAIN list : p \notin list[j].matches
         /\ FirstMatch(list, p) = Nobody
      \/ \E i \in DOMAIN list :
            /\ p \in list[i].matches /\ list[i].id # e
            /\ \A j \in DOMAIN list : p \in list[j].matches => i <= j
            /\ FirstMatch(list, p) = [id |-> list[i].id, action |-> list[i].action]
  BY FirstMatchIs
<1>3. \/ /\ \A j \in DOMAIN other : p \notin other[j].matches
         /\ FirstMatch(other, p) = Nobody
      \/ \E i \in DOMAIN other :
            /\ p \in other[i].matches /\ other[i].id # e
            /\ \A j \in DOMAIN other : p \in other[j].matches => i <= j
            /\ FirstMatch(other, p) = [id |-> other[i].id, action |-> other[i].action]
  BY FirstMatchIs
<1>4. ASSUME NEW i \in DOMAIN list, p \in list[i].matches, list[i].id # e,
             \A j \in DOMAIN list : p \in list[j].matches => i <= j,
             FirstMatch(list, p) = [id |-> list[i].id, action |-> list[i].action]
      PROVE  FALSE
  <2>1. at[i] \in DOMAIN other /\ other[at[i]] = list[i]  BY <1>4 DEF SameBut
  <2>2. PICK j \in DOMAIN other :
            /\ p \in other[j].matches /\ other[j].id # e
            /\ \A m \in DOMAIN other : p \in other[m].matches => j <= m
            /\ FirstMatch(other, p) = [id |-> other[j].id, action |-> other[j].action]
    BY <1>3, <1>4, <2>1
  <2>3. PICK k \in DOMAIN list : at[k] = j /\ list[k].id # e  BY <2>2 DEF SameBut
  <2>4. other[j] = list[k]  BY <2>3 DEF SameBut
  <2>5. i <= k /\ j <= at[i]  BY <1>4, <2>1, <2>2, <2>4
  <2>6. i < k => at[i] < j  BY <1>4, <2>3 DEF SameBut
  <2>7. i = k  BY <1>1, <2>1, <2>5, <2>6
  <2> QED  BY <1>4, <2>2, <2>4, <2>7
<1>5. CASE /\ \A j \in DOMAIN list : p \notin list[j].matches
           /\ FirstMatch(list, p) = Nobody
  <2>1. ASSUME NEW j \in DOMAIN other, p \in other[j].matches, other[j].id # e
        PROVE  FALSE
    <3>1. PICK k \in DOMAIN list : at[k] = j /\ list[k].id # e  BY <2>1 DEF SameBut
    <3>2. other[j] = list[k]  BY <3>1 DEF SameBut
    <3> QED  BY <1>5, <2>1, <3>2
  <2>2. FirstMatch(other, p) = Nobody  BY <1>3, <2>1
  <2> QED  BY <1>5, <2>2
<1> QED  BY <1>2, <1>4, <1>5

-----------------------------------------------------------------------------
(* What an edit does to the ids and to the order.                            *)

Unique(list) == \A i, j \in DOMAIN list : list[i].id = list[j].id => i = j

(* SameBut, from what the domains are.                                       *)
LEMMA SameButIs ==
    ASSUME NEW e, NEW list, NEW other, NEW at, NEW D, NEW E,
           DOMAIN list = D, DOMAIN other = E,
           \A i \in D : list[i].id # e => at[i] \in E /\ other[at[i]] = list[i],
           \A i, k \in D : list[i].id # e /\ list[k].id # e /\ i < k => at[i] < at[k],
           \A j \in E : other[j].id # e => \E i \in D : at[i] = j /\ list[i].id # e
    PROVE  SameBut(e, list, other, at)
BY DEF SameBut

LEMMA AppendKeeps ==
    ASSUME NEW list \in Lists, NEW r \in Rule
    PROVE  /\ Append(list, r) \in Lists
           /\ Ids(Append(list, r)) = Ids(list) \cup {r.id}
           /\ Unique(list) /\ r.id \notin Ids(list) => Unique(Append(list, r))
           /\ \E at : SameBut(r.id, list, Append(list, r), at)
<1> DEFINE new == Append(list, r)
           n == Len(list)
           at == [j \in DOMAIN list |-> j]
<1>1. n \in Nat /\ DOMAIN list = 1..n  BY LenProperties DEF Lists
<1>2. /\ new \in Lists
      /\ DOMAIN new = 1..(n + 1)
      /\ \A j \in 1..(n + 1) : new[j] = IF j <= n THEN list[j] ELSE r
  BY AppendIs
<1> HIDE DEF new, n
<1>3. Ids(new) = Ids(list) \cup {r.id}
  <2>1. ASSUME NEW j \in 1..(n + 1)
        PROVE  new[j].id \in Ids(list) \cup {r.id}
    BY <1>1, <1>2 DEF Ids
  <2>2. ASSUME NEW j \in 1..n  PROVE list[j].id \in Ids(new)
    <3>1. j \in 1..(n + 1) /\ new[j] = list[j]  BY <1>1, <1>2
    <3> QED  BY <1>2, <3>1 DEF Ids
  <2>3. r.id \in Ids(new)
    <3>1. n + 1 \in 1..(n + 1) /\ new[n + 1] = r  BY <1>1, <1>2
    <3> QED  BY <1>2, <3>1 DEF Ids
  <2>4. Ids(new) \subseteq Ids(list) \cup {r.id}
    <3>1. Ids(new) = {new[j].id : j \in 1..(n + 1)}  BY <1>2 DEF Ids
    <3> QED  BY <2>1, <3>1
  <2>5. Ids(list) \subseteq Ids(new)
    <3>1. Ids(list) = {list[j].id : j \in 1..n}  BY <1>1 DEF Ids
    <3> QED  BY <2>2, <3>1
  <2> QED  BY <2>3, <2>4, <2>5
<1>4. ASSUME Unique(list), r.id \notin Ids(list)
      PROVE  Unique(new)
  <2>1. \A j \in 1..n : list[j].id # r.id  BY <1>1, <1>4 DEF Ids
  <2> QED  BY <1>1, <1>2, <1>4, <2>1 DEF Unique
<1>5. SameBut(r.id, list, new, at)  BY <1>1, <1>2 DEF SameBut
<1> QED  BY <1>2, <1>3, <1>4, <1>5 DEF new

LEMMA WithoutKeeps ==
    ASSUME NEW list \in Lists, NEW id \in Ids(list)
    PROVE  /\ Without(list, id) \in Lists
           /\ Ids(Without(list, id)) \subseteq Ids(list)
           /\ Unique(list) => Unique(Without(list, id)) /\ id \notin Ids(Without(list, id))
           /\ \E at : SameBut(id, list, Without(list, id), at)
<1> DEFINE new == Without(list, id)
           n == Len(list)
<1>1. n \in Nat /\ DOMAIN list = 1..n  BY LenProperties DEF Lists
<1>2. PICK k \in 1..n :
         /\ list[k].id = id
         /\ new \in Lists
         /\ DOMAIN new = 1..(n - 1)
         /\ \A j \in 1..(n - 1) : new[j] = list[IF j < k THEN j ELSE j + 1]
  BY WithoutIs
<1> DEFINE at == [j \in DOMAIN list |-> IF j < k THEN j ELSE j - 1]
<1> HIDE DEF new, n
<1>3. ASSUME NEW j \in 1..(n - 1)
      PROVE  \E i \in 1..n : i # k /\ new[j] = list[i]
  <2>1. CASE j < k  BY <1>1, <1>2, <2>1
  <2>2. CASE ~(j < k)
    <3>1. j + 1 \in 1..n /\ j + 1 # k /\ new[j] = list[j + 1]  BY <1>1, <1>2, <2>2
    <3> QED  BY <3>1
  <2> QED  BY <2>1, <2>2
<1>4. Ids(new) \subseteq Ids(list)
  <2>1. ASSUME NEW j \in DOMAIN new  PROVE new[j].id \in Ids(list)
    <3>1. PICK i \in 1..n : new[j] = list[i]  BY <1>2, <1>3
    <3> QED  BY <1>1, <3>1 DEF Ids
  <2> QED  BY <2>1 DEF Ids
<1>5. ASSUME Unique(list)
      PROVE  Unique(new) /\ id \notin Ids(new)
  <2>1. \A i, j \in 1..n : list[i].id = list[j].id => i = j  BY <1>1, <1>5 DEF Unique
  <2>2. ASSUME NEW j \in 1..(n - 1)  PROVE new[j].id # id
    <3>1. PICK i \in 1..n : i # k /\ new[j] = list[i]  BY <1>3
    <3> QED  BY <1>2, <2>1, <3>1
  <2>3. ASSUME NEW i \in 1..(n - 1), NEW j \in 1..(n - 1), new[i].id = new[j].id
        PROVE  i = j
    <3> DEFINE a == IF i < k THEN i ELSE i + 1
               b == IF j < k THEN j ELSE j + 1
    <3>1. a \in 1..n /\ b \in 1..n /\ new[i] = list[a] /\ new[j] = list[b]  BY <1>1, <1>2
    <3>2. a = b  BY <2>1, <2>3, <3>1
    <3> QED  BY <1>1, <3>2
  <2>4. Unique(new)  BY <1>2, <2>3 DEF Unique
  <2>5. id \notin Ids(new)  BY <1>2, <2>2 DEF Ids
  <2> QED  BY <2>4, <2>5
<1>6. SameBut(id, list, new, at)
  <2>1. \A j \in 1..n : at[j] = IF j < k THEN j ELSE j - 1  BY <1>1
  <2> HIDE DEF at
  <2>2. ASSUME NEW i \in 1..n, list[i].id # id
        PROVE  at[i] \in 1..(n - 1) /\ new[at[i]] = list[i]
    <3>1. i # k  BY <1>2, <2>2
    <3> QED  BY <1>1, <1>2, <2>1, <3>1
  <2>3. ASSUME NEW i \in 1..n, NEW j \in 1..n, list[i].id # id, list[j].id # id, i < j
        PROVE  at[i] < at[j]
    BY <1>1, <1>2, <2>1, <2>3
  <2>4. ASSUME NEW j \in 1..(n - 1), new[j].id # id
        PROVE  \E i \in 1..n : at[i] = j /\ list[i].id # id
    <3> DEFINE i == IF j < k THEN j ELSE j + 1
    <3>1. i \in 1..n /\ at[i] = j  BY <1>1, <2>1
    <3>2. list[i].id # id  BY <1>2, <2>4
    <3> QED  BY <3>1, <3>2
  <2>5. DOMAIN list = 1..n /\ DOMAIN new = 1..(n - 1)  BY <1>1, <1>2
  <2> QED  BY <2>2, <2>3, <2>4, <2>5, SameButIs, ZenonT(60)
<1> QED  BY <1>2, <1>4, <1>5, <1>6 DEF new

LEMMA UpdatedKeeps ==
    ASSUME NEW list \in Lists, NEW i \in DOMAIN list, NEW r \in Rule, r.id = list[i].id
    PROVE  /\ [list EXCEPT ![i] = r] \in Lists
           /\ Ids([list EXCEPT ![i] = r]) \subseteq Ids(list)
           /\ Unique(list) => Unique([list EXCEPT ![i] = r])
           /\ \E at : SameBut(list[i].id, list, [list EXCEPT ![i] = r], at)
<1> DEFINE new == [list EXCEPT ![i] = r]
           at == [j \in DOMAIN list |-> j]
<1>1. /\ new \in Lists
      /\ DOMAIN new = DOMAIN list
      /\ \A j \in DOMAIN list : new[j] = IF j = i THEN r ELSE list[j]
  BY UpdatedIs
<1> HIDE DEF new
<1>2. \A j \in DOMAIN list : new[j].id = list[j].id  BY <1>1
<1>3. Ids(new) \subseteq Ids(list)  BY <1>1, <1>2 DEF Ids
<1>4. Unique(list) => Unique(new)  BY <1>1, <1>2 DEF Unique
<1>5. SameBut(list[i].id, list, new, at)  BY <1>1, <1>2 DEF SameBut
<1> QED  BY <1>1, <1>3, <1>4, <1>5 DEF new

LEMMA MovedKeeps ==
    ASSUME NEW list \in Lists, NEW i \in DOMAIN list, NEW new \in Nat \ {0}
    PROVE  /\ Moved(list, i, new) \in Lists
           /\ Ids(Moved(list, i, new)) \subseteq Ids(list)
           /\ Unique(list) => Unique(Moved(list, i, new))
           /\ \E at : SameBut(list[i].id, list, Moved(list, i, new), at)
<1> DEFINE M == Moved(list, i, new)
           l == Len(list)
<1>1. l \in Nat /\ DOMAIN list = 1..l  BY LenProperties DEF Lists
<1>2. PICK n \in 1..l :
         /\ M \in Lists
         /\ DOMAIN M = 1..l
         /\ \A j \in 1..l : Place(i, n, j) \in 1..l /\ M[Place(i, n, j)] = list[j]
         /\ \A m \in 1..l : \E j \in 1..l : Place(i, n, j) = m
  BY MovedIs
<1> DEFINE at == [j \in DOMAIN list |-> Place(i, n, j)]
<1> HIDE DEF M, l
<1> HIDE DEF at
<1>3. ASSUME NEW m \in 1..l
      PROVE  \E j \in 1..l : Place(i, n, j) = m /\ M[m] = list[j]
  <2>1. PICK j \in 1..l : Place(i, n, j) = m  BY <1>2
  <2>2. M[Place(i, n, j)] = list[j]  BY <1>2
  <2> QED  BY <2>1, <2>2
<1>4. Ids(M) \subseteq Ids(list)
  <2>1. ASSUME NEW m \in DOMAIN M  PROVE M[m].id \in Ids(list)
    <3>1. PICK j \in 1..l : M[m] = list[j]  BY <1>2, <1>3
    <3> QED  BY <1>1, <3>1 DEF Ids
  <2> QED  BY <2>1 DEF Ids
<1>5. ASSUME Unique(list)
      PROVE  Unique(M)
  <2>1. ASSUME NEW a \in DOMAIN M, NEW b \in DOMAIN M, M[a].id = M[b].id
        PROVE  a = b
    <3>1. PICK j \in 1..l : Place(i, n, j) = a /\ M[a] = list[j]  BY <1>2, <1>3
    <3>2. PICK k \in 1..l : Place(i, n, k) = b /\ M[b] = list[k]  BY <1>2, <1>3
    <3>3. j = k  BY <1>1, <1>5, <2>1, <3>1, <3>2 DEF Unique
    <3> QED  BY <3>1, <3>2, <3>3
  <2> QED  BY <2>1 DEF Unique
<1>6. SameBut(list[i].id, list, M, at)
  <2>1. \A j \in 1..l : at[j] = Place(i, n, j)  BY <1>1 DEF at
  <2>2. ASSUME NEW j \in 1..l, NEW k \in 1..l, j # i, k # i, j < k
        PROVE  at[j] < at[k]
    BY <1>1, <2>1, <2>2 DEF Place
  <2>3. ASSUME NEW m \in 1..l, M[m].id # list[i].id
        PROVE  \E j \in 1..l : at[j] = m /\ list[j].id # list[i].id
    BY <1>3, <2>1, <2>3
  <2>4. DOMAIN list = 1..l /\ DOMAIN M = 1..l  BY <1>1, <1>2
  <2>5. \A j \in 1..l : list[j].id # list[i].id => at[j] \in 1..l /\ M[at[j]] = list[j]
    BY <1>2, <2>1
  <2>6. \A j, k \in 1..l : list[j].id # list[i].id /\ list[k].id # list[i].id /\ j < k
                              => at[j] < at[k]
    BY <2>2
  <2>7. \A j \in DOMAIN list : list[j].id # list[i].id =>
            at[j] \in DOMAIN M /\ M[at[j]] = list[j]
    BY <2>4, <2>5
  <2>8. \A j, k \in DOMAIN list : list[j].id # list[i].id /\ list[k].id # list[i].id /\ j < k
                              => at[j] < at[k]
    BY <2>4, <2>6
  <2>9. \A m \in DOMAIN M : M[m].id # list[i].id =>
            \E j \in DOMAIN list : at[j] = m /\ list[j].id # list[i].id
    BY <2>3, <2>4
  <2> QED  BY <2>7, <2>8, <2>9 DEF SameBut
<1> QED  BY <1>2, <1>4, <1>5, <1>6 DEF M

-----------------------------------------------------------------------------
(* The inductive invariant.                                                  *)

(* No two rules have one id, in memory or in the file.                       *)
IdsDistinct == Unique(rules) /\ Unique(file.rules)

(* The next id is above every id in use and every id given out.              *)
NextIdFresh ==
    /\ \A id \in issued : id < nextId
    /\ process # "down" => \A id \in Ids(rules) : id < nextId

(* A process that is gone holds nothing.                                     *)
DownIsEmpty == process = "down" => rules = <<>> /\ LockFree

(* Whenever the lock is free and the last save did not fail, the file holds  *)
(* the list, but for a start that has not yet added its first starter rule.  *)
Saved ==
    process # "down" /\ LockFree /\ ~unsaved =>
        file = Stored(rules) \/ (process = "loading" /\ starter = Len(Starter))

Inv == TypeOK /\ IdsDistinct /\ NextIdFresh /\ DownIsEmpty /\ Saved

(* The id after a list is above all of its ids.                              *)
LEMMA IdAfterIs ==
    ASSUME NEW list \in Lists
    PROVE  /\ IdAfter(list) \in 1..(MaxId + 1)
           /\ \A id \in Ids(list) : id < IdAfter(list)
<1>1. Len(list) \in Nat /\ DOMAIN list = 1..Len(list)  BY LenProperties DEF Lists
<1>2. \A j \in DOMAIN list : list[j].id \in 1..MaxId
  <2>1. \A j \in 1..Len(list) : list[j] \in Rule  BY ElementOfSeq DEF Lists
  <2> QED  BY <1>1, <2>1 DEF Rule
<1>3. Ids(list) \in SUBSET (1..MaxId)  BY <1>2 DEF Ids
<1>4. MaxId \in Nat  BY RuleSetAssumption
<1>5. CASE list = <<>>
  <2>1. Ids(list) = {}  BY <1>5 DEF Ids
  <2> QED  BY <1>4, <1>5, <2>1 DEF IdAfter
<1>6. CASE list # <<>>
  <2>1. list \in Seq(Rule)  BY DEF Lists
  <2>2. 1 \in DOMAIN list  BY <1>1, <1>6, <2>1, EmptySeq
  <2>3. Ids(list) # {}  BY <2>2 DEF Ids
  <2>4. Max(Ids(list)) \in Ids(list) /\ \A id \in Ids(list) : Max(Ids(list)) >= id
    BY <1>3, <1>4, <2>3, MaxIs
  <2>5. IdAfter(list) = Max(Ids(list)) + 1  BY <1>6 DEF IdAfter
  <2>6. Max(Ids(list)) \in 1..MaxId  BY <1>3, <2>4
  <2> QED  BY <1>3, <1>4, <2>4, <2>5, <2>6
<1> QED  BY <1>5, <1>6

LEMMA InitInv == Init => Inv
<1> SUFFICES ASSUME Init PROVE Inv  OBVIOUS
<1>1. <<>> \in Lists  BY DEF Lists
<1>2. Len(Starter) \in Nat  BY RuleSetAssumption, LenProperties
<1>3. MaxId \in Nat  BY RuleSetAssumption
<1>4. TypeOK
  <2>1. call \in [Thread -> [at : {"saving"}, id : 1..MaxId] \cup {Idle}]  BY DEF Init
  <2>2. rules \in Lists /\ issued \subseteq 1..MaxId /\ unsaved \in BOOLEAN  BY <1>1 DEF Init
  <2>3. nextId \in 1..(MaxId + 1) /\ starter \in 0..Len(Starter)  BY <1>2, <1>3 DEF Init
  <2>4. file \in [kind : {"list"}, rules : Lists] \cup {Absent, Torn}  BY DEF Init
  <2>5. process \in {"down", "loading", "up"}  BY DEF Init
  <2> QED  BY <2>1, <2>2, <2>3, <2>4, <2>5 DEF TypeOK
<1>5. IdsDistinct  BY DEF Init, IdsDistinct, Unique, Absent
<1>6. NextIdFresh  BY DEF Init, NextIdFresh
<1>7. DownIsEmpty  BY DEF Init, DownIsEmpty, LockFree, Idle
<1>8. Saved  BY DEF Init, Saved
<1> QED  BY <1>4, <1>5, <1>6, <1>7, <1>8 DEF Inv

(* An edit that puts a list of distinct ids in the place of the rules.       *)
LEMMA EditInv ==
    ASSUME Inv, process # "down", NEW t \in Thread, NEW id \in 1..MaxId, NEW list,
           Edit(t, id, list),
           list \in Lists, Unique(list), \A n \in Ids(list) : n < nextId',
           nextId' \in 1..(MaxId + 1), issued' \subseteq 1..MaxId,
           \A n \in issued' : n < nextId',
           starter' \in 0..Len(Starter)
    PROVE  Inv'
<1>1. rules' = list /\ file' = file /\ process' = process /\ unsaved' = unsaved  BY DEF Edit
<1>2. call' = [call EXCEPT ![t] = [at |-> "saving", id |-> id]]  BY DEF Edit
<1>3. call \in [Thread -> [at : {"saving"}, id : 1..MaxId] \cup {Idle}]  BY DEF Inv, TypeOK
<1>4. call' \in [Thread -> [at : {"saving"}, id : 1..MaxId] \cup {Idle}]  BY <1>2, <1>3
<1>5. ~LockFree'  BY <1>2, <1>3 DEF LockFree
<1>6. TypeOK'  BY <1>1, <1>4 DEF Inv, TypeOK
<1>7. IdsDistinct'  BY <1>1 DEF Inv, IdsDistinct
<1>8. NextIdFresh'  BY <1>1 DEF NextIdFresh
<1>9. DownIsEmpty'  BY <1>1 DEF DownIsEmpty
<1>10. Saved'  BY <1>5 DEF Saved
<1> QED  BY <1>6, <1>7, <1>8, <1>9, <1>10 DEF Inv

LEMMA RuleIsMade ==
    ASSUME NEW id \in 1..MaxId, NEW body \in Body
    PROVE  WithId(body, id) \in Rule /\ WithId(body, id).id = id
BY DEF WithId, Rule, Body

LEMMA AddRuleInv ==
    ASSUME Inv, process # "down", NEW t \in Thread, NEW body \in Body, AddRule(t, body),
           starter' \in 0..Len(Starter)
    PROVE  Inv'
<1>1. rules \in Lists /\ nextId \in 1..(MaxId + 1) /\ issued \subseteq 1..MaxId
  BY DEF Inv, TypeOK
<1>2. MaxId \in Nat  BY RuleSetAssumption
<1>3. nextId \in 1..MaxId /\ nextId' = nextId + 1  BY <1>1, <1>2 DEF AddRule
<1>4. issued' = issued \cup {nextId}  BY DEF AddRule, NewId
<1> DEFINE r == WithId(body, nextId)
           list == Append(rules, r)
<1>5. Edit(t, nextId, list)  BY DEF AddRule, NewId
<1>6. r \in Rule /\ r.id = nextId  BY <1>3, RuleIsMade
<1> HIDE DEF r
<1>7. \A n \in Ids(rules) : n < nextId  BY DEF Inv, NextIdFresh
<1>8. nextId \notin Ids(rules)  BY <1>1, <1>7
<1>9. /\ list \in Lists
      /\ Ids(list) = Ids(rules) \cup {nextId}
      /\ Unique(list)
  BY <1>1, <1>6, <1>8, AppendKeeps DEF Inv, IdsDistinct
<1> HIDE DEF list
<1>10. Ids(rules) \subseteq 1..MaxId
  <2>1. \A j \in DOMAIN rules : rules[j] \in Rule  BY <1>1, ElementOfSeq, LenProperties DEF Lists
  <2> QED  BY <2>1 DEF Ids, Rule
<1>11. \A n \in Ids(list) : n < nextId'  BY <1>3, <1>7, <1>9, <1>10
<1>12. nextId' \in 1..(MaxId + 1)  BY <1>2, <1>3
<1>13. issued' \subseteq 1..MaxId  BY <1>1, <1>3, <1>4
<1>14. \A n \in issued' : n < nextId'  BY <1>1, <1>3, <1>4 DEF Inv, NextIdFresh
<1> QED  BY <1>3, <1>5, <1>9, <1>11, <1>12, <1>13, <1>14, EditInv

LEMMA GoneInv ==
    ASSUME Inv, Gone, UNCHANGED file
    PROVE  Inv'
<1>1. <<>> \in Lists  BY DEF Lists
<1>2. Len(Starter) \in Nat  BY RuleSetAssumption, LenProperties
<1>3. MaxId \in Nat  BY RuleSetAssumption
<1>4. TypeOK'
  <2>1. call' \in [Thread -> [at : {"saving"}, id : 1..MaxId] \cup {Idle}]  BY DEF Gone
  <2>2. rules' \in Lists /\ issued' \subseteq 1..MaxId /\ unsaved' \in BOOLEAN  BY <1>1 DEF Gone
  <2>3. nextId' \in 1..(MaxId + 1) /\ starter' \in 0..Len(Starter)  BY <1>2, <1>3 DEF Gone
  <2>4. file' \in [kind : {"list"}, rules : Lists] \cup {Absent, Torn}  BY DEF Inv, TypeOK
  <2>5. process' \in {"down", "loading", "up"}  BY DEF Gone
  <2> QED  BY <2>1, <2>2, <2>3, <2>4, <2>5 DEF TypeOK
<1>5. IdsDistinct'  BY DEF Inv, Gone, IdsDistinct, Unique
<1>6. NextIdFresh'  BY DEF Gone, NextIdFresh
<1>7. DownIsEmpty'  BY DEF Gone, DownIsEmpty, LockFree, Idle
<1>8. Saved'  BY DEF Gone, Saved
<1> QED  BY <1>4, <1>5, <1>6, <1>7, <1>8 DEF Inv

LEMMA NextInv ==
    ASSUME Inv, [Next]_vars
    PROVE  Inv'
<1>1. /\ rules \in Lists /\ nextId \in 1..(MaxId + 1) /\ issued \subseteq 1..MaxId
      /\ starter \in 0..Len(Starter) /\ Len(Starter) \in Nat /\ MaxId \in Nat
      /\ Len(rules) \in Nat /\ DOMAIN rules = 1..Len(rules)
  BY RuleSetAssumption, LenProperties DEF Inv, TypeOK, Lists
<1>2. \A i \in DOMAIN rules : rules[i] \in Rule /\ rules[i].id \in 1..MaxId
  <2>1. \A i \in 1..Len(rules) : rules[i] \in Rule  BY <1>1, ElementOfSeq DEF Lists
  <2> QED  BY <1>1, <2>1 DEF Rule
<1>3. Unique(rules)  BY DEF Inv, IdsDistinct
<1>4. Web \subseteq Thread /\ Main \in Thread /\ Content \subseteq Body
  BY RuleSetAssumption DEF Thread
(* An edit of the list that brings no id keeps the invariant.                *)
<1>5. ASSUME process = "up", NEW t \in Web, NEW id \in 1..MaxId, NEW list, Edit(t, id, list),
             UNCHANGED <<nextId, issued, starter>>,
             list \in Lists, Unique(list), Ids(list) \subseteq Ids(rules)
      PROVE  Inv'
  <2>1. \A n \in Ids(list) : n < nextId'  BY <1>5 DEF Inv, NextIdFresh
  <2>2. \A n \in issued' : n < nextId'  BY <1>5 DEF Inv, NextIdFresh
  <2>3. process # "down" /\ t \in Thread  BY <1>4, <1>5
  <2> QED  BY <1>1, <1>5, <2>1, <2>2, <2>3, EditInv
<1>6. ASSUME NEW t \in Web, NEW body \in Content, Add(t, body)
      PROVE  Inv'
  BY <1>1, <1>4, <1>6, AddRuleInv DEF Add
<1>7. ASSUME NEW t \in Web, NEW id \in 1..MaxId, Delete(t, id)
      PROVE  Inv'
  <2>1. id \in Ids(rules) /\ process = "up"  BY <1>7 DEF Delete
  <2>2. /\ Without(rules, id) \in Lists
        /\ Ids(Without(rules, id)) \subseteq Ids(rules)
        /\ Unique(Without(rules, id))
    BY <1>1, <1>3, <2>1, WithoutKeeps
  <2> QED  BY <1>5, <1>7, <2>1, <2>2 DEF Delete
<1>8. ASSUME NEW t \in Web, NEW i \in DOMAIN rules, NEW body \in Content, Update(t, i, body)
      PROVE  Inv'
  <2> DEFINE r == WithId(body, rules[i].id)
             list == [rules EXCEPT ![i] = r]
  <2>1. r \in Rule /\ r.id = rules[i].id  BY <1>2, <1>4, RuleIsMade
  <2>2. Edit(t, rules[i].id, list) /\ process = "up"  BY <1>8 DEF Update
  <2> HIDE DEF r
  <2>3. list \in Lists /\ Ids(list) \subseteq Ids(rules) /\ Unique(list)
    BY <1>1, <1>3, <2>1, UpdatedKeeps
  <2> HIDE DEF list
  <2> QED  BY <1>2, <1>5, <1>8, <2>2, <2>3 DEF Update
<1>9. ASSUME NEW t \in Web, NEW i \in DOMAIN rules, NEW new \in 1..MaxRules, Move(t, i, new)
      PROVE  Inv'
  <2>1. new \in Nat \ {0}  BY RuleSetAssumption
  <2>2. /\ Moved(rules, i, new) \in Lists
        /\ Ids(Moved(rules, i, new)) \subseteq Ids(rules)
        /\ Unique(Moved(rules, i, new))
    BY <1>1, <1>3, <2>1, MovedKeeps
  <2>3. Edit(t, rules[i].id, Moved(rules, i, new)) /\ process = "up"  BY <1>9 DEF Move
  <2> QED  BY <1>2, <1>5, <1>9, <2>2, <2>3 DEF Move
<1>10. ASSUME NEW t \in Thread, Rename(t)
       PROVE  Inv'
  <2>1. /\ file' = Stored(rules) /\ rules' = rules /\ nextId' = nextId /\ process' = process
        /\ starter' = starter /\ issued' = issued /\ unsaved' = FALSE
        /\ call' = [call EXCEPT ![t] = Idle]
    BY <1>10 DEF Rename
  <2>2. call \in [Thread -> [at : {"saving"}, id : 1..MaxId] \cup {Idle}]  BY DEF Inv, TypeOK
  <2>3. call' \in [Thread -> [at : {"saving"}, id : 1..MaxId] \cup {Idle}]  BY <2>1, <2>2
  <2>4. file' \in [kind : {"list"}, rules : Lists]  BY <1>1, <2>1 DEF Stored
  <2>5. TypeOK'  BY <2>1, <2>3, <2>4 DEF Inv, TypeOK
  <2>6. IdsDistinct'  BY <1>3, <2>1 DEF IdsDistinct, Stored
  <2>7. NextIdFresh'  BY <2>1 DEF Inv, NextIdFresh
  <2>8. process # "down"
    <3>1. ~LockFree  BY <1>10 DEF Rename, LockFree
    <3> QED  BY <3>1 DEF Inv, DownIsEmpty
  <2>9. DownIsEmpty'  BY <2>1, <2>8 DEF DownIsEmpty
  <2>10. Saved'  BY <2>1 DEF Saved, Stored
  <2> QED  BY <2>5, <2>6, <2>7, <2>9, <2>10 DEF Inv
<1>11. ASSUME NEW t \in Thread, SaveFails(t)
       PROVE  Inv'
  <2>1. CASE t = Main
    <3>1. Gone /\ UNCHANGED file  BY <1>11, <2>1 DEF SaveFails
    <3> QED  BY <3>1, GoneInv
  <2>2. CASE t # Main
    <3>1. /\ file' = file /\ rules' = rules /\ nextId' = nextId /\ process' = process
          /\ starter' = starter /\ issued' = issued /\ unsaved' = TRUE
          /\ call' = [call EXCEPT ![t] = Idle]
      BY <1>11, <2>2 DEF SaveFails
    <3>2. call \in [Thread -> [at : {"saving"}, id : 1..MaxId] \cup {Idle}]  BY DEF Inv, TypeOK
    <3>3. call' \in [Thread -> [at : {"saving"}, id : 1..MaxId] \cup {Idle}]  BY <3>1, <3>2
    <3>4. TypeOK'  BY <3>1, <3>3 DEF Inv, TypeOK
    <3>5. IdsDistinct'  BY <3>1 DEF Inv, IdsDistinct
    <3>6. NextIdFresh'  BY <3>1 DEF Inv, NextIdFresh
    <3>7. process # "down"
      <4>1. ~LockFree  BY <1>11 DEF SaveFails, LockFree
      <4> QED  BY <4>1 DEF Inv, DownIsEmpty
    <3>8. DownIsEmpty'  BY <3>1, <3>7 DEF DownIsEmpty
    <3>9. Saved'  BY <3>1 DEF Saved
    <3> QED  BY <3>4, <3>5, <3>6, <3>8, <3>9 DEF Inv
  <2> QED  BY <2>1, <2>2
<1>12. ASSUME Load
       PROVE  Inv'
  <2>1. /\ process = "down" /\ process' = "loading" /\ rules' = file.rules
        /\ nextId' = IdAfter(file.rules) /\ issued' = {}
        /\ starter' = IF file.rules = <<>> THEN Len(Starter) ELSE 0
        /\ file' = file /\ call' = call /\ unsaved' = unsaved
    BY <1>12 DEF Load, Loaded, NeedsStarter
  <2>2. file \in [kind : {"list"}, rules : Lists] \cup {Absent, Torn}  BY DEF Inv, TypeOK
  <2>3. file.rules \in Lists
    <3>1. <<>> \in Lists  BY DEF Lists
    <3> QED  BY <2>2, <3>1 DEF Absent, Torn
  <2>4. file.rules = <<>> \/ file = Stored(file.rules)  BY <2>2 DEF Absent, Torn, Stored
  <2>5. /\ IdAfter(file.rules) \in 1..(MaxId + 1)
        /\ \A id \in Ids(file.rules) : id < IdAfter(file.rules)
    BY <2>3, IdAfterIs
  <2>6. TypeOK'  BY <1>1, <2>1, <2>3, <2>5 DEF Inv, TypeOK
  <2>7. IdsDistinct'  BY <2>1 DEF Inv, IdsDistinct
  <2>8. NextIdFresh'  BY <2>1, <2>5 DEF NextIdFresh
  <2>9. DownIsEmpty'  BY <2>1 DEF DownIsEmpty
  <2>10. Saved'  BY <2>1, <2>4 DEF Saved
  <2> QED  BY <2>6, <2>7, <2>8, <2>9, <2>10 DEF Inv
<1>13. ASSUME AddStarter
       PROVE  Inv'
  <2> DEFINE body == Starter[Len(Starter) - starter + 1]
  <2>1. process = "loading" /\ starter > 0 /\ AddRule(Main, body) /\ starter' = starter - 1
    BY <1>13 DEF AddStarter
  <2>2. Len(Starter) - starter + 1 \in 1..Len(Starter)  BY <1>1, <2>1
  <2>3. body \in Body  BY <2>2, RuleSetAssumption, ElementOfSeq
  <2>4. starter' \in 0..Len(Starter)  BY <1>1, <2>1
  <2> HIDE DEF body
  <2> QED  BY <1>4, <2>1, <2>3, <2>4, AddRuleInv
<1>14. ASSUME Ready
       PROVE  Inv'
  <2>1. /\ process = "loading" /\ process' = "up" /\ starter = 0
        /\ UNCHANGED <<rules, file, nextId, call, starter, issued, unsaved>>
    BY <1>14 DEF Ready
  <2>2. starter # Len(Starter)  BY <2>1, RuleSetAssumption, EmptySeq
  <2>3. TypeOK'  BY <2>1 DEF Inv, TypeOK
  <2>4. IdsDistinct'  BY <2>1 DEF Inv, IdsDistinct
  <2>5. NextIdFresh'  BY <2>1 DEF Inv, NextIdFresh
  <2>6. DownIsEmpty'  BY <2>1 DEF DownIsEmpty
  <2>7. Saved'  BY <2>1, <2>2 DEF Inv, Saved, LockFree, Stored
  <2> QED  BY <2>3, <2>4, <2>5, <2>6, <2>7 DEF Inv
<1>15. ASSUME Kill
       PROVE  Inv'
  BY <1>15, GoneInv DEF Kill
<1>16. ASSUME Spoil
       PROVE  Inv'
  <2>1. /\ process = "down" /\ file' = Torn
        /\ UNCHANGED <<rules, nextId, process, call, starter, issued, unsaved>>
    BY <1>16 DEF Spoil
  <2>2. TypeOK'  BY <2>1 DEF Inv, TypeOK
  <2>3. IdsDistinct'  BY <2>1 DEF Inv, IdsDistinct, Unique, Torn
  <2>4. NextIdFresh'  BY <2>1 DEF Inv, NextIdFresh
  <2>5. DownIsEmpty'  BY <2>1 DEF Inv, DownIsEmpty, LockFree
  <2>6. Saved'  BY <2>1 DEF Saved
  <2> QED  BY <2>2, <2>3, <2>4, <2>5, <2>6 DEF Inv
<1>17. CASE UNCHANGED vars
  <2>1. UNCHANGED <<rules, file, nextId, process, call, starter, issued, unsaved>>
    BY <1>17 DEF vars
  <2> QED
    BY <2>1 DEF Inv, TypeOK, IdsDistinct, NextIdFresh, DownIsEmpty, Saved, LockFree, Stored, Unique
<1> QED
  BY <1>6, <1>7, <1>8, <1>9, <1>10, <1>11, <1>12, <1>13, <1>14, <1>15, <1>16, <1>17 DEF Next

-----------------------------------------------------------------------------
(* The theorems.                                                             *)

(* The rule list stays within the invariant.                                 *)
LEMMA Invariance == Spec => []Inv
BY InitInv, NextInv, PTL DEF Spec

(* The list, the file and the counters are what the model says they are.     *)
THEOREM TypeCorrect == Spec => []TypeOK
<1>1. Inv => TypeOK  BY DEF Inv
<1> QED  BY <1>1, Invariance, PTL

(* No two rules of a list share an id, in memory or in the file.             *)
THEOREM DistinctIds == Spec => []IdsDistinct
<1>1. Inv => IdsDistinct  BY DEF Inv
<1> QED  BY <1>1, Invariance, PTL

(* evaluate() waits for the lock: unless the last save failed, what judges a *)
(* packet is what a restart would read.                                      *)
THEOREM StoredBeforeUse == Spec => []JudgedByStoredRules
<1>1. Inv => JudgedByStoredRules  BY DEF Inv, Saved, JudgedByStoredRules
<1> QED  BY <1>1, Invariance, PTL

(* The ids an edit leaves are the ones that were there and, after add(), the *)
(* next one.                                                                 *)
LEMMA EditIds ==
    ASSUME Inv, [Next]_vars, process = "up", process' = "up"
    PROVE  Ids(rules') \subseteq Ids(rules) \cup {nextId}
<1>1. rules \in Lists  BY DEF Inv, TypeOK
<1>2. \A i \in DOMAIN rules : rules[i].id \in 1..MaxId
  <2>1. \A i \in DOMAIN rules : rules[i] \in Rule  BY <1>1, ElementOfSeq, LenProperties DEF Lists
  <2> QED  BY <2>1 DEF Rule
<1>3. Content \subseteq Body /\ MaxId \in Nat /\ MaxRules \in Nat  BY RuleSetAssumption
<1>4. ASSUME NEW t \in Web, NEW body \in Content, Add(t, body)
      PROVE  Ids(rules') \subseteq Ids(rules) \cup {nextId}
  <2>1. nextId \in 1..MaxId  BY <1>3, <1>4 DEF Add, AddRule, Inv, TypeOK
  <2>2. rules' = Append(rules, WithId(body, nextId))  BY <1>4 DEF Add, AddRule, Edit, NewId
  <2>3. WithId(body, nextId) \in Rule /\ WithId(body, nextId).id = nextId
    BY <1>3, <2>1, RuleIsMade
  <2> QED  BY <1>1, <2>2, <2>3, AppendKeeps
<1>5. ASSUME NEW t \in Web, NEW id \in 1..MaxId, Delete(t, id)
      PROVE  Ids(rules') \subseteq Ids(rules) \cup {nextId}
  BY <1>1, <1>5, WithoutKeeps DEF Delete, Edit
<1>6. ASSUME NEW t \in Web, NEW i \in DOMAIN rules, NEW body \in Content, Update(t, i, body)
      PROVE  Ids(rules') \subseteq Ids(rules) \cup {nextId}
  <2>1. rules' = [rules EXCEPT ![i] = WithId(body, rules[i].id)]  BY <1>6 DEF Update, Edit
  <2>2. WithId(body, rules[i].id) \in Rule /\ WithId(body, rules[i].id).id = rules[i].id
    BY <1>2, <1>3, RuleIsMade
  <2> QED  BY <1>1, <2>1, <2>2, UpdatedKeeps
<1>7. ASSUME NEW t \in Web, NEW i \in DOMAIN rules, NEW new \in 1..MaxRules, Move(t, i, new)
      PROVE  Ids(rules') \subseteq Ids(rules) \cup {nextId}
  <2>1. rules' = Moved(rules, i, new) /\ new \in Nat \ {0}  BY <1>3, <1>7 DEF Move, Edit
  <2> QED  BY <1>1, <2>1, MovedKeeps
<1>8. ASSUME NEW t \in Thread, Rename(t) \/ SaveFails(t)
      PROVE  Ids(rules') \subseteq Ids(rules) \cup {nextId}
  <2>1. rules' = rules  BY <1>8 DEF Rename, SaveFails, Gone
  <2> QED  BY <2>1
<1>9. ASSUME Load \/ AddStarter \/ Ready \/ Kill \/ Spoil
      PROVE  FALSE
  BY <1>9 DEF Load, AddStarter, Ready, Kill, Gone, Spoil
<1>10. CASE UNCHANGED vars
  <2>1. rules' = rules  BY <1>10 DEF vars
  <2> QED  BY <2>1
<1> QED  BY <1>4, <1>5, <1>6, <1>7, <1>8, <1>9, <1>10 DEF Next

(* An id that comes into the list has never been there in this process.      *)
THEOREM FreshIds == Spec => IdsNotReused
<1>1. ASSUME Inv, [Next]_vars
      PROVE  [(process = "up" /\ process' = "up") =>
                \A id \in Ids(rules') \ Ids(rules) : id \notin issued /\ id >= nextId]_vars
  <2> SUFFICES ASSUME process = "up", process' = "up", NEW id \in Ids(rules') \ Ids(rules)
               PROVE  id \notin issued /\ id >= nextId
    OBVIOUS
  <2>1. id = nextId  BY <1>1, EditIds
  <2>2. nextId \in Nat /\ issued \subseteq Nat  BY <1>1 DEF Inv, TypeOK
  <2>3. \A n \in issued : n < nextId  BY <1>1 DEF Inv, NextIdFresh
  <2> QED  BY <2>1, <2>2, <2>3
<1> QED  BY <1>1, Invariance, PTL DEF Spec, IdsNotReused

(* The thread that edits is the one that then saves.                         *)
LEMMA EditSaves ==
    ASSUME Inv, NEW t \in Thread, NEW id, NEW list, Edit(t, id, list)
    PROVE  rules' = list /\ \E u \in Thread : call'[u].at = "saving" /\ call'[u].id = id
<1>1. call \in [Thread -> [at : {"saving"}, id : 1..MaxId] \cup {Idle}]  BY DEF Inv, TypeOK
<1>2. rules' = list /\ call' = [call EXCEPT ![t] = [at |-> "saving", id |-> id]]  BY DEF Edit
<1>3. call'[t].at = "saving" /\ call'[t].id = id  BY <1>1, <1>2
<1> QED  BY <1>2, <1>3

(* An edit, in a process that runs, leaves every rule but the one it names   *)
(* where it was among the others.                                            *)
LEMMA EditKeepsOthers ==
    ASSUME Inv, [Next]_vars, process = "up", process' = "up"
    PROVE  \/ rules' = rules
           \/ \E e, at : /\ rules' \in Lists /\ SameBut(e, rules, rules', at)
                         /\ \E u \in Thread : call'[u].at = "saving" /\ call'[u].id = e
<1> DEFINE Goal == \E e, at : /\ rules' \in Lists /\ SameBut(e, rules, rules', at)
                              /\ \E u \in Thread : call'[u].at = "saving" /\ call'[u].id = e
<1>1. rules \in Lists  BY DEF Inv, TypeOK
<1>2. \A i \in DOMAIN rules : rules[i].id \in 1..MaxId
  <2>1. \A i \in DOMAIN rules : rules[i] \in Rule  BY <1>1, ElementOfSeq, LenProperties DEF Lists
  <2> QED  BY <2>1 DEF Rule
<1>3. Content \subseteq Body /\ MaxId \in Nat /\ MaxRules \in Nat /\ Web \subseteq Thread
  BY RuleSetAssumption DEF Thread
<1>4. ASSUME NEW t \in Web, NEW body \in Content, Add(t, body)
      PROVE  Goal
  <2>1. nextId \in 1..MaxId  BY <1>3, <1>4 DEF Add, AddRule, Inv, TypeOK
  <2> DEFINE r == WithId(body, nextId)
  <2>2. Edit(t, nextId, Append(rules, r))  BY <1>4 DEF Add, AddRule, NewId
  <2>3. r \in Rule /\ r.id = nextId  BY <1>3, <2>1, RuleIsMade
  <2> HIDE DEF r
  <2>4. /\ Append(rules, r) \in Lists
        /\ \E at : SameBut(nextId, rules, Append(rules, r), at)
    BY <1>1, <2>3, AppendKeeps
  <2>5. /\ rules' = Append(rules, r)
        /\ \E u \in Thread : call'[u].at = "saving" /\ call'[u].id = nextId
    BY <1>3, <2>2, EditSaves
  <2> QED  BY <2>4, <2>5
<1>5. ASSUME NEW t \in Web, NEW id \in 1..MaxId, Delete(t, id)
      PROVE  Goal
  <2>1. id \in Ids(rules) /\ Edit(t, id, Without(rules, id))  BY <1>5 DEF Delete
  <2>2. /\ Without(rules, id) \in Lists
        /\ \E at : SameBut(id, rules, Without(rules, id), at)
    BY <1>1, <2>1, WithoutKeeps
  <2>3. /\ rules' = Without(rules, id)
        /\ \E u \in Thread : call'[u].at = "saving" /\ call'[u].id = id
    BY <1>3, <2>1, EditSaves
  <2> QED  BY <2>2, <2>3
<1>6. ASSUME NEW t \in Web, NEW i \in DOMAIN rules, NEW body \in Content, Update(t, i, body)
      PROVE  Goal
  <2> DEFINE r == WithId(body, rules[i].id)
             list == [rules EXCEPT ![i] = r]
  <2>1. Edit(t, rules[i].id, list)  BY <1>6 DEF Update
  <2>2. r \in Rule /\ r.id = rules[i].id  BY <1>2, <1>3, RuleIsMade
  <2> HIDE DEF r
  <2>3. list \in Lists /\ \E at : SameBut(rules[i].id, rules, list, at)
    BY <1>1, <2>2, UpdatedKeeps
  <2> HIDE DEF list
  <2>4. /\ rules' = list
        /\ \E u \in Thread : call'[u].at = "saving" /\ call'[u].id = rules[i].id
    BY <1>3, <2>1, EditSaves
  <2> QED  BY <2>3, <2>4
<1>7. ASSUME NEW t \in Web, NEW i \in DOMAIN rules, NEW new \in 1..MaxRules, Move(t, i, new)
      PROVE  Goal
  <2>1. Edit(t, rules[i].id, Moved(rules, i, new)) /\ new \in Nat \ {0}
    BY <1>3, <1>7 DEF Move
  <2>2. /\ Moved(rules, i, new) \in Lists
        /\ \E at : SameBut(rules[i].id, rules, Moved(rules, i, new), at)
    BY <1>1, <2>1, MovedKeeps
  <2>3. /\ rules' = Moved(rules, i, new)
        /\ \E u \in Thread : call'[u].at = "saving" /\ call'[u].id = rules[i].id
    BY <1>3, <2>1, EditSaves
  <2> QED  BY <2>2, <2>3
<1>8. ASSUME NEW t \in Thread, Rename(t) \/ SaveFails(t)
      PROVE  rules' = rules
  BY <1>8 DEF Rename, SaveFails, Gone
<1>9. ASSUME Load \/ AddStarter \/ Ready \/ Kill \/ Spoil
      PROVE  FALSE
  BY <1>9 DEF Load, AddStarter, Ready, Kill, Gone, Spoil
<1>10. ASSUME UNCHANGED vars
       PROVE  rules' = rules
  BY <1>10 DEF vars
<1> HIDE DEF Goal
<1>11. rules' = rules \/ Goal
  BY <1>4, <1>5, <1>6, <1>7, <1>8, <1>9, <1>10 DEF Next
<1> QED  BY <1>11 DEF Goal

(* First match wins: an edit changes what decides a packet only if the rule  *)
(* it names decided the packet before or decides it now.                     *)
THEOREM LocalEdits == Spec => EditIsLocal
<1> DEFINE A == \A p \in Packet :
                  LET before == FirstMatch(rules, p)
                      after == FirstMatch(rules', p)
                  IN (process = "up" /\ process' = "up" /\ before # after)
                       => \E t \in Thread : call'[t].at = "saving"
                                            /\ call'[t].id \in {before.id, after.id}
<1>1. ASSUME Inv, [Next]_vars
      PROVE  A
  <2> SUFFICES ASSUME process = "up", process' = "up", NEW p \in Packet,
                      FirstMatch(rules, p) # FirstMatch(rules', p)
               PROVE  \E t \in Thread :
                         /\ call'[t].at = "saving"
                         /\ call'[t].id \in {FirstMatch(rules, p).id, FirstMatch(rules', p).id}
    OBVIOUS
  <2>1. PICK e, at : /\ rules' \in Lists /\ SameBut(e, rules, rules', at)
                     /\ \E u \in Thread : call'[u].at = "saving" /\ call'[u].id = e
    BY <1>1, EditKeepsOthers
  <2>2. rules \in Lists  BY <1>1 DEF Inv, TypeOK
  <2>3. e \in {FirstMatch(rules, p).id, FirstMatch(rules', p).id}
    BY <2>1, <2>2, DecidedByTheEdited
  <2> QED  BY <2>1, <2>3
<1>2. ASSUME Inv, [Next]_vars
      PROVE  [A]_vars
  BY <1>1, <1>2
<1> QED  BY <1>2, Invariance, PTL DEF Spec, EditIsLocal

-----------------------------------------------------------------------------
(* What the parser reads.                                                    *)

(* The IP header is read when it is there, and its end is found.             *)
LEMMA HeaderFacts ==
    ASSUME NEW r \in Raw
    PROVE  /\ HeaderThere(r) <=> HeaderRead(r)
           /\ HeaderThere(r) => r.size - HeaderEnd(r) = r.transport
           /\ HeaderThere(r) => (PortsRead(r) <=> HasPorts(r) /\ Carries(r))
<1>1. /\ r.ihl \in 5..15 /\ (r.version = 6 => r.ihl = 10)
      /\ r.size \in Nat /\ r.transport \in Nat
      /\ \/ r.size = r.ihl * 4 + r.transport
         \/ r.transport = 0 /\ r.size < (IF r.version = 6 THEN 40 ELSE 20)
  BY PacketsAssumption
<1>2. HeaderThere(r) <=> HeaderRead(r)
  BY <1>1 DEF HeaderThere, HeaderRead
<1>3. HeaderThere(r) => r.size - HeaderEnd(r) = r.transport
  BY <1>1 DEF HeaderThere, HeaderEnd
<1>4. HeaderThere(r) => (PortsRead(r) <=> HasPorts(r) /\ Carries(r))
  BY <1>3 DEF PortsRead, HasPorts, Carries
<1>5. QED
  BY <1>2, <1>3, <1>4

LEMMA ParsedWhole ==
    ASSUME NEW r \in Raw, HeaderThere(r)
    PROVE  /\ Parse(r).protocol = r.protocol
           /\ Parse(r).proto = proto_name(r.protocol)
           /\ Parse(r).src = r.src /\ Parse(r).dst = r.dst
           /\ HasPorts(r) /\ Carries(r) =>
                Parse(r).sport = r.sport /\ Parse(r).dport = r.dport
           /\ ~(HasPorts(r) /\ Carries(r)) =>
                Parse(r).sport = 0 /\ Parse(r).dport = 0 /\ Parse(r).flags = {}
BY HeaderFacts DEF Parse

LEMMA ParsedCut ==
    ASSUME NEW r \in Raw, ~HeaderThere(r)
    PROVE  /\ Parse(r).protocol = 0 /\ Parse(r).proto = "unread"
           /\ Parse(r).src = NoAddress /\ Parse(r).dst = NoAddress
           /\ Parse(r).sport = 0 /\ Parse(r).dport = 0 /\ Parse(r).flags = {}
<1>1. Parse(r) = Malformed
  BY HeaderFacts DEF Parse
<1>2. QED
  BY <1>1 DEF Malformed

-----------------------------------------------------------------------------
(* What a compiled list of ports matches.                                    *)

PortList(spec) == spec \in Seq(Seq(Nat)) /\ \A i \in DOMAIN spec : spec[i] # <<>>

LEMMA PortsAsNamed ==
    ASSUME NEW spec, PortList(spec), NEW p \in Port
    PROVE  PortMatches(p, ParsePorts(spec)) <=> p \in Named(spec)
<1>1. CASE spec = <<>>
  <2>1. ParsePorts(spec) = <<>>
    BY <1>1 DEF ParsePorts
  <2>2. QED
    BY <1>1, <2>1 DEF PortMatches, Named
<1>2. CASE spec # <<>>
  <2>1. /\ DOMAIN spec = 1..Len(spec) /\ Len(spec) \in Nat \ {0}
        /\ \A i \in DOMAIN spec : spec[i][1] \in Nat /\ Last(spec[i]) \in Nat
    BY <1>2 DEF PortList, Last
  <2>2. ParsePorts(spec) # <<>> /\ DOMAIN ParsePorts(spec) = DOMAIN spec
    BY <2>1 DEF ParsePorts
  <2>3. PortMatches(p, ParsePorts(spec)) <=>
          \E i \in DOMAIN spec : spec[i][1] <= p /\ p <= Last(spec[i])
    <3>1. Range(ParsePorts(spec)) = {<<spec[i][1], Last(spec[i])>> : i \in DOMAIN spec}
      BY DEF Range, ParsePorts
    <3>2. \A i \in DOMAIN spec :
            InRange(p, <<spec[i][1], Last(spec[i])>>) <=>
              spec[i][1] <= p /\ p <= Last(spec[i])
      BY DEF InRange
    <3>3. QED
      BY <2>2, <3>1, <3>2 DEF PortMatches
  <2>4. p \in Named(spec) <=> \E i \in DOMAIN spec : p \in spec[i][1]..Last(spec[i])
    BY <1>2 DEF Named, Range
  <2>5. p \in Nat
    BY PacketsAssumption
  <2>6. QED
    BY <2>1, <2>3, <2>4, <2>5
<1>3. QED
  BY <1>1, <1>2

LEMMA ParsedListEmpty ==
    ASSUME NEW spec, PortList(spec)
    PROVE  ParsePorts(spec) = <<>> <=> spec = <<>>
BY DEF ParsePorts, PortList

-----------------------------------------------------------------------------
(* The inductive invariant: the rule in force is a rule that compiles, with  *)
(* what it compiles to, and a packet was parsed for the queue it came from.  *)

RuleOK(r) ==
    /\ r = [f \in DOMAIN Open |-> r[f]]
    /\ PortList(r.src_ports) /\ PortList(r.dst_ports)
    /\ r.enabled \in BOOLEAN /\ r.protocol # "unread"
    /\ r.src = Anywhere \/ r.src \subseteq Address
    /\ r.dst = Anywhere \/ r.dst \subseteq Address

InfoOK(r, pkt) == \E d \in Direction : pkt = [Parse(r) EXCEPT !.direction = d]

RuleInv ==
    /\ RuleOK(rule)
    /\ compiled = Compile(rule)
    /\ raw # NoPacket => raw \in Raw /\ InfoOK(raw, info)

LEMMA UpdateKeepsRule ==
    ASSUME RuleOK(rule), NEW field \in DOMAIN Choice, NEW value \in Choice[field],
           Compiles([rule EXCEPT ![field] = value])
    PROVE  RuleOK([rule EXCEPT ![field] = value])
<1> DEFINE new == [rule EXCEPT ![field] = value]
<1>1. DOMAIN Open = {"enabled", "direction", "protocol", "src", "dst", "src_ports", "dst_ports"}
  BY DEF Open
<1>2. /\ DOMAIN rule = DOMAIN Open /\ field \in DOMAIN Open
      /\ new = [f \in DOMAIN Open |-> IF f = field THEN value ELSE rule[f]]
  BY PacketsAssumption DEF RuleOK
<1>3. new = [f \in DOMAIN Open |-> new[f]]
  BY <1>2
<1>4. new.src_ports \in Seq(Seq(Nat)) /\ new.dst_ports \in Seq(Seq(Nat))
  <2>1. /\ rule.src_ports \in Seq(Seq(Nat)) /\ rule.dst_ports \in Seq(Seq(Nat))
        /\ \A spec \in Choice.src_ports \cup Choice.dst_ports : spec \in Seq(Seq(Nat))
    BY PacketsAssumption DEF RuleOK, PortList
  <2>2. /\ new.src_ports = IF "src_ports" = field THEN value ELSE rule.src_ports
        /\ new.dst_ports = IF "dst_ports" = field THEN value ELSE rule.dst_ports
    BY <1>1, <1>2
  <2>3. QED
    BY <2>1, <2>2
<1>5. \A item \in Range(new.src_ports) \cup Range(new.dst_ports) : item # <<>>
  BY DEF Compiles
<1>6. /\ new.enabled \in BOOLEAN /\ new.protocol # "unread"
      /\ new.src = Anywhere \/ new.src \subseteq Address
      /\ new.dst = Anywhere \/ new.dst \subseteq Address
  <2>1. /\ new.enabled = IF "enabled" = field THEN value ELSE rule.enabled
        /\ new.protocol = IF "protocol" = field THEN value ELSE rule.protocol
        /\ new.src = IF "src" = field THEN value ELSE rule.src
        /\ new.dst = IF "dst" = field THEN value ELSE rule.dst
    BY <1>1, <1>2
  <2>2. /\ Choice.enabled \subseteq BOOLEAN /\ "unread" \notin Choice.protocol
        /\ \A net \in Choice.src \cup Choice.dst : net = Anywhere \/ net \subseteq Address
    BY PacketsAssumption
  <2>3. QED
    BY <2>1, <2>2 DEF RuleOK
<1>7. QED
  BY <1>3, <1>4, <1>5, <1>6 DEF RuleOK, PortList, Range

THEOREM RuleInvariance == PacketSpec => []RuleInv
<1>1. PacketInit => RuleInv
  BY DEF PacketInit, RuleInv, RuleOK, PortList, Open
<1>2. RuleInv /\ [PacketNext]_packetVars => RuleInv'
  <2> SUFFICES ASSUME RuleInv, [PacketNext]_packetVars PROVE RuleInv'
    OBVIOUS
  <2>1. ASSUME NEW r \in Raw, NEW d \in Direction, Receive(r, d) PROVE RuleInv'
    BY <2>1 DEF Receive, RuleInv, InfoOK
  <2>2. ASSUME NEW field \in DOMAIN Choice, NEW value \in Choice[field], UpdateField(field, value)
        PROVE RuleInv'
    BY <2>2, UpdateKeepsRule DEF UpdateField, RuleInv
  <2>3. CASE Judged
    BY <2>3 DEF Judged, RuleInv
  <2>4. CASE UNCHANGED packetVars
    BY <2>4 DEF packetVars, RuleInv
  <2>5. QED
    BY <2>1, <2>2, <2>3, <2>4 DEF PacketNext
<1>3. QED
  BY <1>1, <1>2, PTL DEF PacketSpec

-----------------------------------------------------------------------------
(* MatchesAsWritten, for any packets and any rule that compiles: the ports   *)
(* of a packet that carries them are looked up in what was compiled from the *)
(* lists, every other field as it is written.                                *)

THEOREM MatchingIsExact == PacketSpec => []MatchesAsWritten
<1>1. RuleInv => MatchesAsWritten
  <2> SUFFICES ASSUME RuleInv, raw # NoPacket, HeaderThere(raw), HasPorts(raw) => Carries(raw)
               PROVE  Matches(rule, compiled, info) <=>
            /\ rule.enabled
            /\ rule.direction \in {"any", info.direction}
            /\ rule.protocol \in {"any", proto_name(raw.protocol)}
            /\ raw.src \in rule.src /\ raw.dst \in rule.dst
            /\ IF HasPorts(raw)
               THEN raw.sport \in Named(rule.src_ports) /\ raw.dport \in Named(rule.dst_ports)
               ELSE rule.src_ports = <<>> /\ rule.dst_ports = <<>>
    BY DEF MatchesAsWritten
  <2>1. PICK d \in Direction : info = [Parse(raw) EXCEPT !.direction = d]
    BY DEF RuleInv, InfoOK
  <2>2. /\ info.protocol = raw.protocol /\ info.proto = proto_name(raw.protocol)
        /\ info.src = raw.src /\ info.dst = raw.dst
        /\ HasPorts(raw) => info.sport = raw.sport /\ info.dport = raw.dport
    <3>1. /\ info.protocol = Parse(raw).protocol /\ info.proto = Parse(raw).proto
          /\ info.src = Parse(raw).src /\ info.dst = Parse(raw).dst
          /\ info.sport = Parse(raw).sport /\ info.dport = Parse(raw).dport
      BY <2>1 DEF Parse, Malformed
    <3>2. QED
      BY <3>1, ParsedWhole DEF RuleInv
  <2>3. /\ compiled.src = rule.src /\ compiled.dst = rule.dst
        /\ compiled.src_ports = ParsePorts(rule.src_ports)
        /\ compiled.dst_ports = ParsePorts(rule.dst_ports)
    BY DEF RuleInv, Compile
  <2>4. HasPorts(raw) =>
          /\ PortMatches(info.sport, compiled.src_ports) <=> raw.sport \in Named(rule.src_ports)
          /\ PortMatches(info.dport, compiled.dst_ports) <=> raw.dport \in Named(rule.dst_ports)
    <3>1. raw.sport \in Port /\ raw.dport \in Port
      BY PacketsAssumption DEF RuleInv
    <3>2. QED
      BY <2>2, <2>3, <3>1, PortsAsNamed DEF RuleInv, RuleOK
  <2>5. /\ compiled.src_ports = <<>> <=> rule.src_ports = <<>>
        /\ compiled.dst_ports = <<>> <=> rule.dst_ports = <<>>
    BY <2>3, ParsedListEmpty DEF RuleInv, RuleOK
  <2>6. QED
    BY <2>2, <2>3, <2>4, <2>5 DEF Matches, HasPorts
<1>2. QED
  BY <1>1, RuleInvariance, PTL

(* UnreadIsUnmatched: ports that were not read are 0, and what has no IP     *)
(* header has neither protocol nor addresses.                                *)
THEOREM NothingMadeUp == PacketSpec => []UnreadIsUnmatched
<1>1. RuleInv => UnreadIsUnmatched
  <2> SUFFICES ASSUME RuleInv, raw # NoPacket,
                      ~(HeaderThere(raw) /\ Carries(raw) /\ HasPorts(raw))
               PROVE  /\ ~IsSynOnly(info) /\ ~Closes(info)
                      /\ Matches(rule, compiled, info) =>
                          /\ 0 \in Named(rule.src_ports) /\ 0 \in Named(rule.dst_ports)
                          /\ HeaderThere(raw) \/
                             \A field \in DOMAIN Open \ {"direction"} :
                                 rule[field] = Open[field]
    BY DEF UnreadIsUnmatched
  <2>1. PICK d \in Direction : info = [Parse(raw) EXCEPT !.direction = d]
    BY DEF RuleInv, InfoOK
  <2>2. /\ info.protocol = Parse(raw).protocol /\ info.proto = Parse(raw).proto
        /\ info.src = Parse(raw).src /\ info.dst = Parse(raw).dst
        /\ info.sport = Parse(raw).sport /\ info.dport = Parse(raw).dport
        /\ info.flags = Parse(raw).flags
    BY <2>1 DEF Parse, Malformed
  <2>3. info.sport = 0 /\ info.dport = 0 /\ info.flags = {}
    <3>1. CASE HeaderThere(raw)
      BY <2>2, <3>1, ParsedWhole DEF RuleInv
    <3>2. CASE ~HeaderThere(raw)
      BY <2>2, <3>2, ParsedCut DEF RuleInv
    <3>3. QED
      BY <3>1, <3>2
  <2>4. ~IsSynOnly(info) /\ ~Closes(info)
    BY <2>3 DEF IsSynOnly, Closes
  <2>5. /\ compiled.src_ports = ParsePorts(rule.src_ports)
        /\ compiled.dst_ports = ParsePorts(rule.dst_ports)
        /\ compiled.src = rule.src /\ compiled.dst = rule.dst
        /\ PortList(rule.src_ports) /\ PortList(rule.dst_ports)
    BY DEF RuleInv, Compile, RuleOK
  <2>6. ASSUME Matches(rule, compiled, info)
        PROVE  0 \in Named(rule.src_ports) /\ 0 \in Named(rule.dst_ports)
    <3>1. PortMatches(0, compiled.src_ports) /\ PortMatches(0, compiled.dst_ports)
      BY <2>3, <2>6 DEF Matches, PortMatches
    <3>2. 0 \in Port
      BY PacketsAssumption
    <3>3. QED
      BY <2>5, <3>1, <3>2, PortsAsNamed
  <2>7. ASSUME Matches(rule, compiled, info), ~HeaderThere(raw)
        PROVE  \A field \in DOMAIN Open \ {"direction"} : rule[field] = Open[field]
    <3>1. info.protocol = 0 /\ info.proto = "unread" /\ info.src = NoAddress /\ info.dst = NoAddress
      BY <2>2, <2>7, ParsedCut DEF RuleInv
    <3>2. /\ rule.enabled /\ rule.protocol \in {"any", "unread"}
          /\ NoAddress \in rule.src /\ NoAddress \in rule.dst
          /\ compiled.src_ports = <<>> /\ compiled.dst_ports = <<>>
      <4>1. /\ rule.enabled /\ rule.protocol \in {"any", info.proto}
            /\ info.src \in compiled.src /\ info.dst \in compiled.dst
            /\ IF info.protocol \in {6, 17}
               THEN /\ PortMatches(info.sport, compiled.src_ports)
                    /\ PortMatches(info.dport, compiled.dst_ports)
               ELSE compiled.src_ports = <<>> /\ compiled.dst_ports = <<>>
        BY <2>7 DEF Matches
      <4>2. info.protocol \notin {6, 17}
        BY <3>1
      <4>3. QED
        BY <2>5, <3>1, <4>1, <4>2
    <3>3. /\ rule.enabled = TRUE /\ rule.protocol = "any"
          /\ rule.src = Anywhere /\ rule.dst = Anywhere
      BY <3>2, PacketsAssumption DEF RuleInv, RuleOK
    <3>4. rule.src_ports = <<>> /\ rule.dst_ports = <<>>
      BY <2>5, <3>2, ParsedListEmpty
    <3>5. /\ DOMAIN Open \ {"direction"} =
              {"enabled", "protocol", "src", "dst", "src_ports", "dst_ports"}
          /\ Open.enabled = TRUE /\ Open.protocol = "any"
          /\ Open.src = Anywhere /\ Open.dst = Anywhere
          /\ Open.src_ports = <<>> /\ Open.dst_ports = <<>>
      BY DEF Open
    <3>6. QED
      BY <3>3, <3>4, <3>5
  <2>8. QED
    BY <2>4, <2>6, <2>7
<1>2. QED
  BY <1>1, RuleInvariance, PTL

-----------------------------------------------------------------------------
(* OneFlowBothWays, for any packets: the order of the two ends decides only  *)
(* which comes first in the key, so a key names the unordered pair.          *)

LEMMA UnorderedPairs ==
    ASSUME NEW a, NEW b, NEW c, NEW d
    PROVE  {a, b} = {c, d} <=> (a = c /\ b = d) \/ (a = d /\ b = c)
OBVIOUS

LEMMA KeyNamesEnds ==
    ASSUME NEW p, NEW q,
           p.src \in Nat, p.dst \in Nat, p.sport \in Nat, p.dport \in Nat,
           q.src \in Nat, q.dst \in Nat, q.sport \in Nat, q.dport \in Nat
    PROVE  FlowKey(p) = FlowKey(q) <=>
             /\ p.protocol = q.protocol
             /\ Ends(p) = Ends(q)
<1>1. FlowKey(p) = FlowKey(q) <=>
        /\ p.protocol = q.protocol
        /\ \/ p.src = q.src /\ p.sport = q.sport /\ p.dst = q.dst /\ p.dport = q.dport
           \/ p.src = q.dst /\ p.sport = q.dport /\ p.dst = q.src /\ p.dport = q.sport
  BY DEF FlowKey, AtMost
<1>2. Ends(p) = Ends(q) <=>
        \/ <<p.src, p.sport>> = <<q.src, q.sport>> /\ <<p.dst, p.dport>> = <<q.dst, q.dport>>
        \/ <<p.src, p.sport>> = <<q.dst, q.dport>> /\ <<p.dst, p.dport>> = <<q.src, q.sport>>
  <2> DEFINE a == <<p.src, p.sport>> b == <<p.dst, p.dport>>
             c == <<q.src, q.sport>> d == <<q.dst, q.dport>>
  <2>1. Ends(p) = {a, b} /\ Ends(q) = {c, d}
    BY DEF Ends
  <2> HIDE DEF a, b, c, d
  <2>2. {a, b} = {c, d} <=> (a = c /\ b = d) \/ (a = d /\ b = c)
    BY UnorderedPairs
  <2>3. Ends(p) = Ends(q) <=> (a = c /\ b = d) \/ (a = d /\ b = c)
    BY <2>1, <2>2
  <2>4. QED
    BY <2>3 DEF a, b, c, d
<1>3. QED
  BY <1>1, <1>2

THEOREM FlowsAreConversations == PacketSpec => []OneFlowBothWays
<1>1. RuleInv => OneFlowBothWays
  <2> SUFFICES ASSUME RuleInv, NEW other \in Raw,
                      raw # NoPacket, HeaderThere(raw), HeaderThere(other),
                      HasPorts(raw) => Carries(raw), HasPorts(other) => Carries(other)
               PROVE  FlowKey(info) = FlowKey(Parse(other)) <=>
                        /\ raw.protocol = other.protocol
                        /\ IF HasPorts(raw) THEN Ends(raw) = Ends(other)
                           ELSE {raw.src, raw.dst} = {other.src, other.dst}
    BY DEF OneFlowBothWays
  <2> DEFINE pkt == Parse(other)
  <2>1. PICK d \in Direction : info = [Parse(raw) EXCEPT !.direction = d]
    BY DEF RuleInv, InfoOK
  <2>2. /\ info.protocol = raw.protocol /\ info.src = raw.src /\ info.dst = raw.dst
        /\ info.sport = IF HasPorts(raw) THEN raw.sport ELSE 0
        /\ info.dport = IF HasPorts(raw) THEN raw.dport ELSE 0
    <3>1. /\ info.protocol = Parse(raw).protocol
          /\ info.src = Parse(raw).src /\ info.dst = Parse(raw).dst
          /\ info.sport = Parse(raw).sport /\ info.dport = Parse(raw).dport
      BY <2>1 DEF Parse, Malformed
    <3>2. QED
      BY <3>1, ParsedWhole DEF RuleInv
  <2>3. /\ pkt.protocol = other.protocol /\ pkt.src = other.src /\ pkt.dst = other.dst
        /\ pkt.sport = IF HasPorts(other) THEN other.sport ELSE 0
        /\ pkt.dport = IF HasPorts(other) THEN other.dport ELSE 0
    BY ParsedWhole
  <2>4. \A r \in {raw, other} :
          r.src \in Nat /\ r.dst \in Nat /\ r.sport \in Nat /\ r.dport \in Nat
    BY PacketsAssumption DEF RuleInv
  <2>5. FlowKey(info) = FlowKey(pkt) <=>
          info.protocol = pkt.protocol /\ Ends(info) = Ends(pkt)
    <3>1. /\ info.src \in Nat /\ info.dst \in Nat /\ info.sport \in Nat /\ info.dport \in Nat
          /\ pkt.src \in Nat /\ pkt.dst \in Nat /\ pkt.sport \in Nat /\ pkt.dport \in Nat
      BY <2>2, <2>3, <2>4
    <3> HIDE DEF pkt
    <3>2. QED
      BY <3>1, KeyNamesEnds
  <2>6. CASE HasPorts(raw)
    <3>1. raw.protocol = other.protocol => HasPorts(other)
      BY <2>6 DEF HasPorts
    <3> HIDE DEF pkt
    <3>2. raw.protocol = other.protocol =>
            (Ends(info) = Ends(pkt) <=> Ends(raw) = Ends(other))
      BY <2>2, <2>3, <2>6, <3>1 DEF Ends
    <3>3. QED
      BY <2>2, <2>3, <2>5, <2>6, <3>2 DEF pkt
  <2>7. CASE ~HasPorts(raw)
    <3>1. raw.protocol = other.protocol => ~HasPorts(other)
      BY <2>7 DEF HasPorts
    <3> HIDE DEF pkt
    <3>2. raw.protocol = other.protocol =>
            (Ends(info) = Ends(pkt) <=> {raw.src, raw.dst} = {other.src, other.dst})
      <4>1. SUFFICES ASSUME ~HasPorts(other)
                     PROVE  Ends(info) = Ends(pkt) <=>
                              {raw.src, raw.dst} = {other.src, other.dst}
        BY <3>1
      <4>2. /\ Ends(info) = {<<raw.src, 0>>, <<raw.dst, 0>>}
            /\ Ends(pkt) = {<<other.src, 0>>, <<other.dst, 0>>}
        BY <2>2, <2>3, <2>7, <4>1 DEF Ends
      <4> DEFINE a == <<raw.src, 0>> b == <<raw.dst, 0>>
                 c == <<other.src, 0>> e == <<other.dst, 0>>
      <4>3. /\ a = c <=> raw.src = other.src
            /\ b = e <=> raw.dst = other.dst
            /\ a = e <=> raw.src = other.dst
            /\ b = c <=> raw.dst = other.src
        OBVIOUS
      <4> HIDE DEF a, b, c, e
      <4>4. {a, b} = {c, e} <=> (a = c /\ b = e) \/ (a = e /\ b = c)
        BY UnorderedPairs
      <4>5. {raw.src, raw.dst} = {other.src, other.dst} <=>
              (raw.src = other.src /\ raw.dst = other.dst)
                \/ (raw.src = other.dst /\ raw.dst = other.src)
        BY UnorderedPairs
      <4>6. Ends(info) = {a, b} /\ Ends(pkt) = {c, e}
        BY <4>2 DEF a, b, c, e
      <4>7. QED
        BY <4>3, <4>4, <4>5, <4>6
    <3>3. QED
      BY <2>2, <2>3, <2>5, <2>7, <3>2 DEF pkt
  <2>8. QED
    BY <2>6, <2>7
<1>2. QED
  BY <1>1, RuleInvariance, PTL
===============================================================================
