------------------------------- MODULE Dashboard -------------------------------
(***************************************************************************)
(* The dashboard of web/server.py in front of the settings and the         *)
(* accounts: one browser with its session cookie, pages that stay open in  *)
(* its tabs, and the requests they send, while the program is stopped,     *)
(* killed and started around them.                                          *)
(*                                                                         *)
(* The session is the cookie itself, signed with a key made at each start. *)
(* A page carries the token of the session it was rendered for.  Every     *)
(* change asks for a signed session and its token, then calls what Settings *)
(* and Accounts model.  A thread serves one request of its tab at a time.  *)
(***************************************************************************)
EXTENDS Settings

CONSTANTS
    User, Admin, Password, Default, Length, ReadCanFail,
    HandWritten,  \* what users.json may hold, edited by hand or missing
    Token,        \* CSRF tokens
    SecretKey     \* secret keys

VARIABLES
    users, setting, chosen,  \* see Accounts
    serving,  \* create_app() has returned
    key,      \* app.secret_key
    cookie,   \* the session cookie of the browser
    page      \* page[t]: the page open in tab t

Users == INSTANCE Accounts WITH Worker <- Web

accountVars == <<users, setting, chosen>>
browserVars == <<serving, key, cookie, page>>
webVars == <<vars, accountVars, browserVars>>

(* Both a cookie and a page: the user and the token they carry and the key  *)
(* in force when they were made (of a page, a history).                     *)
Session == [user : User, csrf : Token, key : SecretKey]
NoSession == [user |-> "nobody"]

(* An account written by hand is marked as having the default password if   *)
(* it has, as ensure_default_admin() does.  A login finds a token, and a    *)
(* start a key, that nobody holds.                                          *)
ASSUME DashboardAssumption ==
    /\ Admin \in User
    /\ Default \in Password
    /\ Length \in [Password -> Nat]
    /\ Length[Default] < 6
    /\ ReadCanFail \in BOOLEAN
    /\ "nobody" \notin User
    /\ \A others \in HandWritten :
          /\ others \in Users!UserFile
          /\ \A u \in DOMAIN others : others[u].isDefault <=> others[u].password = Default
    /\ \A held \in [Web \cup {Main} -> Token] : Token \ {held[t] : t \in Web \cup {Main}} # {}
    /\ \A k \in SecretKey : SecretKey \ {k} # {}

WebTypeOK ==
    /\ TypeOK
    /\ Users!TypeOK
    /\ serving \in BOOLEAN
    /\ key \in SecretKey
    /\ cookie \in Session \cup {NoSession}
    /\ page \in [Web -> Session \cup {NoSession}]

WebInit ==
    /\ Init
    /\ \E others \in HandWritten : Users!Init(others)
    /\ serving = FALSE
    /\ key \in SecretKey
    /\ cookie = NoSession
    /\ page = [t \in Web |-> NoSession]

-----------------------------------------------------------------------------
(* Mutants.                                                                 *)

AnySignature == cookie # NoSession
AnyToken(t) == page[t] # NoSession

-----------------------------------------------------------------------------
(* Helpers.                                                                 *)

Up == process = "up" /\ serving

(* session.get("user"): a cookie signed with another key counts as none.    *)
LoggedIn == cookie # NoSession /\ cookie.key = key

CsrfOk(t) == page[t] # NoSession /\ page[t].csrf = cookie.csrf

(* secrets.token_hex(): a token no page and no cookie has.                  *)
Held == {s.csrf : s \in ({cookie} \cup {page[t] : t \in Web}) \ {NoSession}}

(* What stands in front of every change.                                    *)
Authorised(t) ==
    /\ Up
    /\ At(t, "idle")
    /\ setting[t] = Users!Idle
    /\ LoggedIn
    /\ CsrfOk(t)

-----------------------------------------------------------------------------
(* create_app(): a new key, and the first account if there is none.         *)
Serve ==
    /\ process = "up"
    /\ ~serving
    /\ serving' = TRUE
    /\ key' \in IF cookie = NoSession THEN SecretKey ELSE SecretKey \ {cookie.key}
    /\ Users!EnsureDefaultAdmin
    /\ UNCHANGED <<vars, cookie, page>>

(* login(): somebody who is logged in is sent on to the dashboard.          *)
Login(user, password, csrf) ==
    /\ Up
    /\ ~LoggedIn
    /\ Users!Validates(user, password)
    /\ csrf \notin Held
    /\ cookie' = [user |-> user, csrf |-> csrf, key |-> key]
    /\ UNCHANGED <<vars, accountVars, serving, key, page>>

(* logout() in tab t, which then shows the login page.                      *)
Logout(t) ==
    /\ Up
    /\ cookie' = NoSession
    /\ page' = [page EXCEPT ![t] = NoSession]
    /\ UNCHANGED <<vars, accountVars, serving, key>>

(* dashboard() in tab t.                                                    *)
OpenDashboard(t) ==
    /\ Up
    /\ LoggedIn
    /\ page' = [page EXCEPT ![t] = cookie]
    /\ UNCHANGED <<vars, accountVars, serving, key, cookie>>

(* change_password(): for the user of the session.                          *)
ChangePassword(t, password) ==
    /\ Authorised(t)
    /\ Users!SetPassword(t, cookie.user, password)
    /\ UNCHANGED <<vars, browserVars>>

(* api_mode() and api_ai_autoblock().                                       *)
ChangeMode(t, mode) ==
    /\ Authorised(t)
    /\ RequestMode(t, mode)
    /\ UNCHANGED <<accountVars, browserVars>>

ChangeAutoBlock(t, on) ==
    /\ Authorised(t)
    /\ RequestAutoBlock(t, on)
    /\ UNCHANGED <<accountVars, browserVars>>

-----------------------------------------------------------------------------
(* The rest of a request that passed, and the program around it.            *)

FinishSettings == GoOn /\ UNCHANGED <<accountVars, browserVars>>

FinishPassword(t) ==
    /\ Users!SaveUsers(t) \/ Users!SaveFails(t)
    /\ UNCHANGED <<vars, browserVars>>

(* The browser keeps its cookie and its pages.                              *)
Crash ==
    /\ Kill
    /\ Users!Forget
    /\ serving' = FALSE
    /\ UNCHANGED <<key, cookie, page>>

WebNext ==
    \/ Serve
    \/ \E user \in User, password \in Password, csrf \in Token : Login(user, password, csrf)
    \/ \E t \in Web : Logout(t) \/ OpenDashboard(t)
    \/ \E t \in Web, password \in Password : ChangePassword(t, password)
    \/ \E t \in Web, mode \in Mode : ChangeMode(t, mode)
    \/ \E t \in Web, on \in BOOLEAN : ChangeAutoBlock(t, on)
    \/ FinishSettings
    \/ \E t \in Web : FinishPassword(t)
    \/ Crash

WebSpec == WebInit /\ [][WebNext]_webVars

-----------------------------------------------------------------------------
(* Properties.                                                              *)

(* A change is made only by a page of this run of the program that shows    *)
(* the user for whom it is made: a page left open over a restart, or over a *)
(* logout and the login of another user in another tab, changes nothing.    *)
ActsForTheUserShown ==
    [][\A t \in Web :
          At(t, "idle") /\ setting[t] = Users!Idle
          /\ (call'[t] # Idle \/ setting'[t] # Users!Idle)
              => /\ page[t].key = key
                 /\ page[t].user = cookie.user
                 /\ setting'[t] # Users!Idle => setting'[t].user = page[t].user]_webVars

(* See Accounts.                                                            *)
FlagIsTrue == Users!FlagIsTrue
DefaultIsGone == Users!DefaultIsGone
OneAccountAtATime == [][Users!OneAccountAtATime]_webVars
OnlyOnFirstRun == [][Users!OnlyOnFirstRun]_webVars
===============================================================================
