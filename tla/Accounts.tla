------------------------------- MODULE Accounts -------------------------------
(***************************************************************************)
(* The accounts of web/auth.py: data/users.json, read afresh for every     *)
(* question and replaced as a whole by every change.                        *)
(*                                                                         *)
(* set_password() and ensure_default_admin() hold a lock from reading the  *)
(* file to replacing it; the other readers take none.  Whatever keeps the  *)
(* file from being read makes _load() answer "no accounts".  A missing     *)
(* file and an empty one are the same to every reader.  A hash stands for  *)
(* its password.                                                           *)
(***************************************************************************)
EXTENDS Naturals

CONSTANTS
    Worker,      \* web threads that set passwords
    User,        \* account names
    Admin,       \* the account made on the first run
    Password,    \* passwords people choose from
    Default,     \* the password of the first run
    Length,      \* Length[p]: its number of characters
    ReadCanFail  \* whether reading users.json may fail

VARIABLES
    users,    \* the accounts in users.json
    setting,  \* setting[t]: where thread t is inside set_password()
    chosen    \* history: somebody has set the password of Admin, and every
              \* start since then could read the file

vars == <<users, setting, chosen>>

Account == [password : Password, isDefault : BOOLEAN]
UserFile == UNION {[some -> Account] : some \in SUBSET User}
NoUsers == [u \in {} |-> u]

Idle == [at |-> "idle"]
Setting == [at : {"save"}, user : User, password : Password, seen : UserFile]

TypeOK ==
    /\ users \in UserFile
    /\ setting \in [Worker -> Setting \cup {Idle}]
    /\ chosen \in BOOLEAN

(* Before the first run, or with an account somebody wrote by hand.         *)
Init(others) ==
    /\ users = others
    /\ setting = [t \in Worker |-> Idle]
    /\ chosen = FALSE

-----------------------------------------------------------------------------
(* Mutants.                                                                 *)

LockAlwaysFree == TRUE
WithoutOthers(seen, user, password) ==
    [u \in {user} |-> [password |-> password, isDefault |-> FALSE]]
TooShortByOne(password) == Length[password] < 5

-----------------------------------------------------------------------------
(* Helpers.                                                                 *)

(* _load(): the accounts, or none if the file cannot be read.               *)
Readings == {users} \cup (IF ReadCanFail THEN {NoUsers} ELSE {})

(* _lock is held from the reading to the replacement.                       *)
LockFree == \A t \in Worker : setting[t].at # "save"

NeedsDefault(seen) == seen = NoUsers

DefaultAdmin == [u \in {Admin} |-> [password |-> Default, isDefault |-> TRUE]]

Validates(user, password) ==
    user \in DOMAIN users /\ users[user].password = password

IsDefaultPassword(user) == user \in DOMAIN users /\ users[user].isDefault

(* What the change-password route refuses before set_password() is called.  *)
TooShort(password) == Length[password] < 6

With(seen, user, password) ==
    [u \in DOMAIN seen \cup {user} |->
        IF u = user THEN [password |-> password, isDefault |-> FALSE] ELSE seen[u]]

-----------------------------------------------------------------------------
(* ensure_default_admin(), before the dashboard serves anybody.             *)
EnsureDefaultAdmin ==
    /\ LockFree
    /\ \E seen \in Readings :
          /\ users' = IF NeedsDefault(seen) THEN DefaultAdmin ELSE users
          /\ chosen' = (chosen /\ seen = users)
    /\ UNCHANGED setting

(* set_password() takes the lock and reads the file ...  What the caller    *)
(* checked before depends on its request alone.                             *)
SetPassword(t, user, password) ==
    /\ setting[t] = Idle
    /\ ~TooShort(password)
    /\ LockFree
    /\ \E seen \in Readings :
          setting' = [setting EXCEPT ![t] =
                         [at |-> "save", user |-> user, password |-> password, seen |-> seen]]
    /\ UNCHANGED <<users, chosen>>

(* ... and replaces it.                                                     *)
SaveUsers(t) ==
    /\ setting[t].at = "save"
    /\ users' = With(setting[t].seen, setting[t].user, setting[t].password)
    /\ chosen' = (chosen \/ setting[t].user = Admin)
    /\ setting' = [setting EXCEPT ![t] = Idle]

(* The temporary file cannot be written: the request fails with an error.   *)
SaveFails(t) ==
    /\ setting[t].at = "save"
    /\ setting' = [setting EXCEPT ![t] = Idle]
    /\ UNCHANGED <<users, chosen>>

(* The process ends: the threads are gone, the file stays.                  *)
Forget ==
    /\ setting' = [t \in Worker |-> Idle]
    /\ UNCHANGED <<users, chosen>>

-----------------------------------------------------------------------------
(* Properties; Dashboard runs the module.                                   *)

(* The account marked as having the default password has it, and no other   *)
(* one does: a new password is too long to be the default one again.        *)
FlagIsTrue ==
    \A u \in DOMAIN users : IsDefaultPassword(u) <=> Validates(u, Default)

(* Once somebody has set the password of the first account, the default one *)
(* does not let anybody in again, through kills, failing saves and changes  *)
(* of other accounts at any moment, as long as each start can read the file. *)
DefaultIsGone == chosen => ~Validates(Admin, Default)

(* A change of a password that could read the file drops no account and     *)
(* alters no other one, whoever else changes a password at that time.       *)
OneAccountAtATime ==
    \A t \in Worker :
        SaveUsers(t) /\ setting[t].seen # NoUsers
            => \A u \in DOMAIN users \ {setting[t].user} :
                  u \in DOMAIN users' /\ users'[u] = users[u]

-----------------------------------------------------------------------------
(* What the documents say and the code does not do.                         *)

(* auth.py:40: "Create admin/admin on first run": no later start replaces   *)
(* the accounts, also when it cannot read them.                             *)
OnlyOnFirstRun == EnsureDefaultAdmin /\ users # NoUsers => UNCHANGED users
===============================================================================
