------------------------------ MODULE Session ------------------------------
(***************************************************************************)
(* Who is logged in (AuthContext.tsx, api.ts, the routes of App.tsx, the   *)
(* menu and the profile dialog of Layout.tsx, the form of Login.tsx).      *)
(*                                                                         *)
(* Each tab keeps the user in React state; localStorage and the cookie are *)
(* shared by the tabs.  The cookie is what the server goes by: it is set   *)
(* and cleared by answers, and a tab does not learn that another changed   *)
(* it.  Logging out does not wait for its answer.                          *)
(***************************************************************************)
EXTENDS Naturals, FiniteSets

CONSTANTS
    Tabs,           \* tabs of one browser
    Users,          \* accounts
    Roles,          \* roles, "admin" and "line_admin" among them
    Codes,          \* codes[r]: the permission codes a role gives
    Guarded,        \* pages behind a PermissionRoute, each with a code of its own
    AutoLogout,     \* AUTO_LOGOUT_TIME, in ticks
    MaxChanges,     \* bound: changes of accounts
    MaxExpired,     \* bound: tokens that expire
    MaxLogins       \* bound: logins

VARIABLES
    tabs,       \* each tab: user, page, what its login form and its profile are doing
    storage,    \* localStorage: user and age of lastActivity
    cookie,     \* the cookie: account and role of its token
    flights,    \* requests in flight
    accounts,   \* the server's accounts: role, active
    tally,      \* changes, expiries and logins so far
    orphaned    \* history: an expiry or a late logout took the cookie away

sessionVars == <<tabs, storage, cookie, flights, accounts, tally, orphaned>>

Nobody == [name |-> "nobody", role |-> "none"]

ASSUME SessionAssumption ==
    /\ Nobody.name \notin Users /\ Guarded \cap {"login", "dashboard"} = {}
    /\ Codes \in [Roles -> SUBSET Guarded]
    /\ {AutoLogout, MaxChanges, MaxExpired, MaxLogins} \subseteq Nat

Missing == AutoLogout + 2       \* no lastActivity
Ages == 0 .. AutoLogout + 1
Places == Guarded \cup {"login", "dashboard"}
IsAdmin(user) == user.role \in {"admin", "system_admin"}
IsManager(user) == IsAdmin(user) \/ user.role = "line_admin"

\* hasPermission
HasPermission(user, code) == IsAdmin(user) \/ (user.role \in Roles /\ code \in Codes[user.role])

\* PrivateRoute and PermissionRoute: where a user lands who goes to a page.
Landing(user, page) ==
    IF page = "login" \/ user = Nobody THEN "login"
    ELSE IF page \in Guarded /\ ~HasPermission(user, page) THEN "dashboard" ELSE page

Fresh(user, page) == [user |-> user, page |-> page, loading |-> FALSE, entering |-> FALSE,
                      foreign |-> FALSE, profile |-> {}]

SessionInit ==
    /\ tabs = [t \in Tabs |-> Fresh(Nobody, "login")]
    /\ storage = [user |-> Nobody, age |-> Missing]
    /\ cookie = Nobody /\ flights = {}
    /\ accounts \in [Users -> [role : Roles, active : {TRUE}]]
    /\ tally = [changes |-> 0, expired |-> 0, logins |-> 0] /\ orphaned = FALSE

\* clearStoredAuth
ClearedStorage == [user |-> Nobody, age |-> Missing]

\* History: what tab t did to cookie or storage, the other tabs do not see.
\* A request whose page is gone is gone as well.
Unseen(t, new) == [x \in Tabs |-> IF x = t THEN new ELSE [tabs[x] EXCEPT !.foreign = TRUE]]
Dropped(t) == flights' = {f \in flights : f.tab # t}

-----------------------------------------------------------------------------
\* Loading the application, by address or by reloading.

\* getInitialState, and the effect that starts the count of an old session.
StartApp(t, page) ==
    LET expired == storage.user # Nobody /\ storage.age = AutoLogout + 1
        user == IF expired THEN Nobody ELSE storage.user
    IN
    /\ tabs' = IF expired THEN Unseen(t, Fresh(user, Landing(user, page)))
                          ELSE [tabs EXCEPT ![t] = Fresh(user, Landing(user, page))]
    /\ storage' = IF expired THEN ClearedStorage
                 ELSE IF user # Nobody /\ storage.age = Missing
                      THEN [storage EXCEPT !.age = 0] ELSE storage
    /\ Dropped(t)
    /\ UNCHANGED <<cookie, accounts, tally, orphaned>>

-----------------------------------------------------------------------------
\* The login page.

Send(f) == f \notin flights /\ flights' = flights \cup {f}
Flight(t, kind, as) ==
    [tab |-> t, kind |-> kind, as |-> as, answer |-> "none", of |-> Nobody.name]

\* The button spins until the answer has come.
SubmitLogin(t, u) ==
    /\ tabs[t].page = "login" /\ ~tabs[t].loading
    /\ tally.logins < MaxLogins /\ tally' = [tally EXCEPT !.logins = @ + 1]
    /\ tabs' = [tabs EXCEPT ![t].loading = TRUE]
    /\ Send(Flight(t, "login", [name |-> u, role |-> accounts[u].role]))
    /\ UNCHANGED <<storage, cookie, accounts, orphaned>>

\* History: a logout that is still to be answered will hit the new session.
Overtaken(fs) ==
    {IF f.kind = "logout" THEN [f EXCEPT !.answer = "overtaken"] ELSE f : f \in fs}

\* The form of a login made during the animation of another keeps spinning.
LoginEnds(t) == [tabs[t] EXCEPT !.loading = @ /\ tabs[t].entering]

\* login: the state first, then localStorage; the browser has set the cookie.
\* A form that is gone logs in too, and leaves the page that is open.
LoginAnswered(f) ==
    /\ f \in flights /\ f.kind = "login" /\ f.answer = "ok"
    /\ flights' = Overtaken(flights \ {f}) /\ cookie' = f.as
    /\ tabs' = Unseen(f.tab, [LoginEnds(f.tab) EXCEPT
                                 !.user = f.as, !.page = Landing(f.as, tabs[f.tab].page),
                                 !.entering = TRUE, !.foreign = FALSE])
    /\ storage' = [user |-> f.as, age |-> 0]
    /\ UNCHANGED <<accounts, tally, orphaned>>

LoginRefused(f) ==
    /\ f \in flights /\ f.kind = "login" /\ f.answer # "ok"
    /\ flights' = flights \ {f}
    /\ tabs' = [tabs EXCEPT ![f.tab] = LoginEnds(f.tab)]
    /\ UNCHANGED <<storage, cookie, accounts, tally, orphaned>>

\* The timer that lets the animation play before it leaves the form.
EnterApp(t) ==
    /\ tabs[t].entering
    /\ tabs' = [tabs EXCEPT ![t].entering = FALSE, ![t].loading = FALSE,
                            ![t].page = Landing(tabs[t].user, "dashboard")]
    /\ UNCHANGED <<storage, cookie, flights, accounts, tally, orphaned>>

-----------------------------------------------------------------------------
\* Inside the application.

\* menuItems; the pages for which a manager needs no code of their own.
MenuOffers(user, page) ==
    \/ page = "dashboard" \/ HasPermission(user, page)
    \/ IsManager(user) /\ page \in Guarded \cap {"production_lines", "vehicle_models"}

\* Both menus are covered by the dialog of the profile.
Uncovered(t) == tabs[t].page # "login" /\ "open" \notin tabs[t].profile

\* handleMenuClick: the route still decides where it leads.
Navigate(t, page) ==
    /\ Uncovered(t) /\ page \notin {"login", tabs[t].page} /\ MenuOffers(tabs[t].user, page)
    /\ tabs' = [tabs EXCEPT ![t].page = Landing(tabs[t].user, page)]
    /\ UNCHANGED <<storage, cookie, flights, accounts, tally, orphaned>>

\* Mutant: the user stays in the state of the login page.
LoggedOutStaying(t) == Unseen(t, [tabs[t] EXCEPT !.page = "login"])

\* Layout, with its dialog, is gone.
LoggedOut(t) == Unseen(t, [tabs[t] EXCEPT !.user = Nobody, !.page = "login", !.profile = {}])

\* What it asked for goes on, and nobody waits for the answer.
Abandoned(t) ==
    {IF f.tab = t /\ f.kind = "password" THEN [f EXCEPT !.kind = "call"] ELSE f : f \in flights}

\* logout: the answer is not awaited.
Logout(t) ==
    /\ Uncovered(t) /\ Flight(t, "logout", cookie) \notin flights
    /\ tabs' = LoggedOut(t) /\ storage' = ClearedStorage
    /\ flights' = Abandoned(t) \cup {Flight(t, "logout", cookie)}
    /\ UNCHANGED <<cookie, accounts, tally, orphaned>>

\* The cookie goes with the answer, whoever has logged in meanwhile.
LogoutAnswered(f) ==
    /\ f \in flights /\ f.kind = "logout" /\ flights' = flights \ {f}
    /\ cookie' = Nobody
    /\ orphaned' = (orphaned \/ f.answer = "overtaken")
    /\ UNCHANGED <<tabs, storage, accounts, tally>>

LogoutLost(f) ==
    /\ f \in flights /\ f.kind = "logout" /\ flights' = flights \ {f}
    /\ UNCHANGED <<tabs, storage, cookie, accounts, tally, orphaned>>

\* Any mouse or key event while there is a token.
Activity(t) ==
    /\ tabs[t].user # Nobody /\ storage.age # 0
    /\ storage' = [storage EXCEPT !.age = 0]
    /\ UNCHANGED <<tabs, cookie, flights, accounts, tally, orphaned>>

\* Mutant: only what is stored is cleared.
CheckTimeoutStored(t) ==
    /\ tabs[t].user # Nobody /\ storage.age = AutoLogout + 1
    /\ storage' = ClearedStorage
    /\ UNCHANGED <<tabs, cookie, flights, accounts, tally, orphaned>>

\* The check of every minute: without a lastActivity it does nothing.
CheckTimeout(t) ==
    /\ tabs[t].user # Nobody /\ storage.age = AutoLogout + 1
    /\ tabs' = LoggedOut(t) /\ storage' = ClearedStorage
    /\ flights' = Abandoned(t) \cup {Flight(t, "logout", cookie)}
    /\ UNCHANGED <<cookie, accounts, tally, orphaned>>

\* Any request of a page; the cookie is the one there is when it is sent.
SessionCall(t) ==
    /\ tabs[t].page # "login"
    /\ Send(Flight(t, "call", cookie))
    /\ ~\E f \in flights : f.tab = t /\ f.kind = "call"
    /\ UNCHANGED <<tabs, storage, cookie, accounts, tally, orphaned>>

CallAnswered(f) ==
    /\ f \in flights /\ f.kind = "call" /\ f.answer \in {"ok", "refused"}
    /\ flights' = flights \ {f}
    /\ UNCHANGED <<tabs, storage, cookie, accounts, tally, orphaned>>

\* Mutant: the address changes, localStorage stays.
CallUnauthorizedKeeping(f) ==
    /\ f \in flights /\ f.kind \in {"call", "password"} /\ f.answer = "unauthorized"
    /\ IF tabs[f.tab].page = "login"
         THEN tabs' = tabs /\ flights' = flights \ {f}
         ELSE /\ tabs' = Unseen(f.tab, Fresh(Nobody, "login"))
              /\ Dropped(f.tab)
    /\ UNCHANGED <<storage, cookie, accounts, tally, orphaned>>

\* The interceptor: localStorage is cleared and the application loaded anew,
\* unless this is the login page.
CallUnauthorized(f) ==
    /\ f \in flights /\ f.kind \in {"call", "password"} /\ f.answer = "unauthorized"
    /\ IF tabs[f.tab].page = "login"
         THEN tabs' = tabs /\ storage' = storage /\ flights' = flights \ {f}
         ELSE /\ storage' = ClearedStorage
              /\ tabs' = Unseen(f.tab, Fresh(Nobody, "login"))
              /\ Dropped(f.tab)
    /\ UNCHANGED <<cookie, accounts, tally, orphaned>>

-----------------------------------------------------------------------------
\* The profile, with the form that changes the password.

\* handleUserMenuClick
OpenProfile(t) ==
    /\ Uncovered(t) /\ tabs' = [tabs EXCEPT ![t].profile = @ \cup {"open"}]
    /\ UNCHANGED <<storage, cookie, flights, accounts, tally, orphaned>>

\* Also while the password is being changed.
CloseProfile(t) ==
    /\ "open" \in tabs[t].profile /\ tabs' = [tabs EXCEPT ![t].profile = @ \ {"open"}]
    /\ UNCHANGED <<storage, cookie, flights, accounts, tally, orphaned>>

\* handlePasswordChange: of the user shown, in the name of the cookie.
SubmitPassword(t) ==
    /\ tabs[t].profile = {"open"}
    /\ tabs' = [tabs EXCEPT ![t].profile = @ \cup {"changing"}]
    /\ Send([Flight(t, "password", cookie) EXCEPT !.of = tabs[t].user.name])
    /\ UNCHANGED <<storage, cookie, accounts, tally, orphaned>>

\* What is refused with 401 is for the interceptor, CallUnauthorized.
PasswordAnswered(f) ==
    /\ f \in flights /\ f.kind = "password" /\ f.answer \in {"ok", "refused"}
    /\ flights' = flights \ {f}
    /\ tabs' = [tabs EXCEPT ![f.tab].profile =
                   @ \ (IF f.answer = "ok" THEN {"open", "changing"} ELSE {"changing"})]
    /\ UNCHANGED <<storage, cookie, accounts, tally, orphaned>>

-----------------------------------------------------------------------------
\* The server and time.

\* AuthMiddleware: an active account whose role is still the token's.
Authentic(token) ==
    token # Nobody /\ accounts[token.name] = [role |-> token.role, active |-> TRUE]

Serve(f) ==
    LET passes == IF f.kind = "login" THEN accounts[f.as.name].active ELSE Authentic(f.as)
        as == IF f.kind = "login" THEN [f.as EXCEPT !.role = accounts[f.as.name].role] ELSE f.as
    IN
    /\ f \in flights /\ f.kind # "logout" /\ f.of = Nobody.name /\ f.answer = "none"
    /\ flights' = (flights \ {f}) \cup
                    {[f EXCEPT !.answer = IF passes THEN "ok" ELSE "unauthorized", !.as = as]}
    /\ UNCHANGED <<tabs, storage, cookie, accounts, tally, orphaned>>

\* A wrong old password is answered like a missing session; administrators
\* need no old one for the accounts of others.
PasswordOutcomes(f) ==
    IF ~Authentic(f.as) THEN {"unauthorized"}
    ELSE IF f.as.name = f.of THEN {"ok", "refused", "unauthorized"}
    ELSE {"refused"} \cup (IF IsAdmin(f.as) THEN {"ok"} ELSE {})

ChangePassword(f, outcome) ==
    /\ f \in flights /\ f.of # Nobody.name /\ f.answer = "none"
    /\ outcome \in PasswordOutcomes(f)
    /\ flights' = (flights \ {f}) \cup {[f EXCEPT !.answer = outcome]}
    /\ UNCHANGED <<tabs, storage, cookie, accounts, tally, orphaned>>

ChangeAccount(u, account) ==
    /\ tally.changes < MaxChanges /\ account # accounts[u]
    /\ accounts' = [accounts EXCEPT ![u] = account]
    /\ tally' = [tally EXCEPT !.changes = @ + 1]
    /\ UNCHANGED <<tabs, storage, cookie, flights, orphaned>>

CookieExpires ==
    /\ cookie # Nobody /\ tally.expired < MaxExpired
    /\ cookie' = Nobody /\ tally' = [tally EXCEPT !.expired = @ + 1] /\ orphaned' = TRUE
    /\ UNCHANGED <<tabs, storage, flights, accounts>>

Tick ==
    /\ storage.age < AutoLogout + 1
    /\ storage' = [storage EXCEPT !.age = @ + 1]
    /\ UNCHANGED <<tabs, cookie, flights, accounts, tally, orphaned>>

-----------------------------------------------------------------------------

Outcomes == {"ok", "refused", "unauthorized"}

SessionNext ==
    \/ \E t \in Tabs, p \in Places : StartApp(t, p) \/ Navigate(t, p)
    \/ \E t \in Tabs, u \in Users : SubmitLogin(t, u)
    \/ \E t \in Tabs : \/ EnterApp(t) \/ Logout(t) \/ Activity(t) \/ CheckTimeout(t)
                       \/ SessionCall(t) \/ OpenProfile(t) \/ CloseProfile(t) \/ SubmitPassword(t)
    \/ \E f \in flights, outcome \in Outcomes : ChangePassword(f, outcome)
    \/ \E f \in flights : \/ Serve(f) \/ LoginAnswered(f) \/ LoginRefused(f)
                          \/ LogoutAnswered(f) \/ LogoutLost(f)
                          \/ CallAnswered(f) \/ CallUnauthorized(f) \/ PasswordAnswered(f)
    \/ \E u \in Users, a \in [role : Roles, active : BOOLEAN] : ChangeAccount(u, a)
    \/ CookieExpires \/ Tick

LoginGoesOn(t) ==
    \/ EnterApp(t)
    \/ \E f \in flights : /\ f.tab = t /\ f.kind = "login"
                          /\ Serve(f) \/ LoginAnswered(f) \/ LoginRefused(f)
PasswordGoesOn(t) ==
    \E f \in flights, outcome \in Outcomes :
        /\ f.tab = t /\ f.kind = "password"
        /\ ChangePassword(f, outcome) \/ PasswordAnswered(f) \/ CallUnauthorized(f)

\* Clocks advance, every tab's interval and timer fires, and what a form
\* waits for is answered.
SessionFairness ==
    /\ WF_sessionVars(Tick)
    /\ \A t \in Tabs : /\ WF_sessionVars(CheckTimeout(t))
                       /\ WF_sessionVars(LoginGoesOn(t)) /\ WF_sessionVars(PasswordGoesOn(t))

SessionSpec == SessionInit /\ [][SessionNext]_sessionVars /\ SessionFairness

-----------------------------------------------------------------------------

Persons == {Nobody} \cup [name : Users, role : Roles]

SessionTypeOK ==
    /\ tabs \in [Tabs -> [user : Persons, page : Places, loading : BOOLEAN,
                          entering : BOOLEAN, foreign : BOOLEAN,
                          profile : SUBSET {"open", "changing"}]]
    /\ storage \in [user : Persons, age : Ages \cup {Missing}]
    /\ cookie \in Persons
    /\ \A f \in flights :
          f \in [tab : Tabs, kind : {"login", "logout", "call", "password"}, as : Persons,
                answer : Outcomes \cup {"none", "overtaken"}, of : Users \cup {Nobody.name}]
    /\ accounts \in [Users -> [role : Roles, active : BOOLEAN]]
    /\ tally \in [changes : 0..MaxChanges, expired : 0..MaxExpired, logins : 0..MaxLogins]
    /\ orphaned \in BOOLEAN

(***************************************************************************)
(* What a tab does is done in the name of the user it shows: its cookie is *)
(* that user's, or there is none any more; only a tab in which the user    *)
(* changed behind its back acts in another's name.  That cookie is lost    *)
(* only when it expires, when another tab ends the session, or to the      *)
(* answer of a logout that a later login has overtaken.  A guarded page is *)
(* open only in a tab whose user has its permission, and the profile waits *)
(* only for an answer of its own that is still to come.                    *)
(***************************************************************************)
SessionIntact ==
    /\ \A t \in Tabs : (tabs[t].user # Nobody /\ ~tabs[t].foreign)
                          => cookie \in {tabs[t].user, Nobody}
    /\ (~orphaned /\ cookie = Nobody)
          => \A t \in Tabs : tabs[t].user = Nobody \/ tabs[t].foreign
    /\ \A t \in Tabs : /\ tabs[t].user = Nobody => tabs[t].page = "login"
                       /\ tabs[t].page \in Guarded => HasPermission(tabs[t].user, tabs[t].page)
                       /\ "changing" \in tabs[t].profile <=>
                            \E f \in flights : f.tab = t /\ f.kind = "password"

(***************************************************************************)
(* Reloading brings nobody back: what localStorage holds is a user that    *)
(* some tab still shows, however logouts, timeouts and refused requests of *)
(* several tabs interleave.                                                *)
(***************************************************************************)
StoredUserIsIn == storage.user # Nobody => \E t \in Tabs : tabs[t].user = storage.user

(***************************************************************************)
(* An idle tab does not stay logged in: with the clock running it is       *)
(* logged out, unless somebody stirs or another tab takes away what the    *)
(* check goes by (it then finds no lastActivity and does nothing).         *)
(***************************************************************************)
IdleEnds ==
    \A t \in Tabs : (tabs[t].user # Nobody /\ storage.age # 0)
                      ~> (tabs[t].user = Nobody \/ tabs[t].foreign \/ storage.age = 0)

(***************************************************************************)
(* No form keeps spinning: the button of the login page and that of the    *)
(* profile are released, whatever is refused, lost or overtaken by another *)
(* login, by the animation that follows one, or by the end of the session. *)
(***************************************************************************)
FormsUnlock ==
    \A t \in Tabs : []<>~tabs[t].loading /\ []<>("changing" \notin tabs[t].profile)
=============================================================================
