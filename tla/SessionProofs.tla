---------------------------- MODULE SessionProofs ----------------------------
(***************************************************************************)
(* Proofs about Session, for any number of tabs, accounts and logins: the  *)
(* types of its state, and that the session of several tabs stays intact.  *)
(*                                                                         *)
(* The types are not inductive alone: the server looks up the account of a *)
(* login, so that SessionInv adds that a login has one.                    *)
(***************************************************************************)
EXTENDS Session, TLAPS

Profiles == SUBSET {"open", "changing"}
TabStates == [user : Persons, page : Places, loading : BOOLEAN, entering : BOOLEAN,
              foreign : BOOLEAN, profile : Profiles]
Tallies == [changes : 0..MaxChanges, expired : 0..MaxExpired, logins : 0..MaxLogins]
Requests == [tab : Tabs, kind : {"login", "logout", "call", "password"}, as : Persons,
             answer : Outcomes \cup {"none", "overtaken"}, of : Users \cup {Nobody.name}]

\* A login is for an account.
LoginsAreFor(fs) == \A f \in fs : f.kind = "login" => f.as \in [name : Users, role : Roles]

SessionInv == SessionTypeOK /\ LoginsAreFor(flights)

\* Every route leads to a page.
LEMMA LandingType ==
    ASSUME NEW user, NEW page \in Places
    PROVE  Landing(user, page) \in Places
BY DEF Landing, Places

\* A tab just loaded is in order.
LEMMA FreshType ==
    ASSUME NEW user \in Persons, NEW page \in Places
    PROVE  Fresh(user, page) \in TabStates /\ Fresh(user, page).user = user
<1>1. {} \in Profiles
  BY DEF Profiles
<1> QED BY <1>1 DEF Fresh, TabStates

\* What changes in a tab leaves it in order.
LEMMA TabEdits ==
    ASSUME NEW s \in TabStates
    PROVE  /\ \A b \in BOOLEAN : [s EXCEPT !.loading = b] \in TabStates
           /\ \A p \in Places : /\ [s EXCEPT !.page = p] \in TabStates
                                /\ [s EXCEPT !.entering = FALSE, !.loading = FALSE, !.page = p]
                                     \in TabStates
           /\ \A u \in Persons, p \in Places :
                 [s EXCEPT !.user = u, !.page = p, !.entering = TRUE, !.foreign = FALSE]
                   \in TabStates
           /\ \A c \in Profiles : [s EXCEPT !.profile = c] \in TabStates
           /\ \A u \in Persons, p \in Places, c \in Profiles :
                 [s EXCEPT !.user = u, !.page = p, !.profile = c] \in TabStates
BY DEF TabStates

\* So does the answer to a login.
LEMMA LoginEndsType ==
    ASSUME tabs \in [Tabs -> TabStates], NEW t \in Tabs
    PROVE  LoginEnds(t) \in TabStates
<1>1. tabs[t] \in TabStates /\ (tabs[t].loading /\ tabs[t].entering) \in BOOLEAN
  BY DEF TabStates
<1> QED BY <1>1, TabEdits DEF LoginEnds

\* What one tab does leaves the users of the others.
LEMMA UnseenType ==
    ASSUME tabs \in [Tabs -> TabStates], NEW t \in Tabs, NEW new \in TabStates
    PROVE  /\ Unseen(t, new) \in [Tabs -> TabStates]
           /\ Unseen(t, new)[t] = new
           /\ \A x \in Tabs \ {t} : Unseen(t, new)[x].user = tabs[x].user
<1>1. \A x \in Tabs : /\ [tabs[x] EXCEPT !.foreign = TRUE] \in TabStates
                      /\ [tabs[x] EXCEPT !.foreign = TRUE].user = tabs[x].user
  BY DEF TabStates
<1> QED BY <1>1 DEF Unseen

\* A request just sent is in order.
LEMMA FlightType ==
    ASSUME NEW t \in Tabs, NEW kind \in {"login", "logout", "call", "password"},
           NEW as \in Persons
    PROVE  /\ Flight(t, kind, as) \in Requests
           /\ Flight(t, kind, as).kind = kind /\ Flight(t, kind, as).as = as
BY DEF Flight, Requests

\* Requests that are marked or given up stay in order.
LEMMA FlightsKept ==
    ASSUME flights \subseteq Requests, LoginsAreFor(flights)
    PROVE  /\ \A fs \in SUBSET flights : fs \subseteq Requests /\ LoginsAreFor(fs)
           /\ \A fs \in SUBSET flights : Overtaken(fs) \subseteq Requests /\ LoginsAreFor(Overtaken(fs))
           /\ \A t \in Tabs : Abandoned(t) \subseteq Requests /\ LoginsAreFor(Abandoned(t))
<1>1. \A f \in Requests : /\ [f EXCEPT !.answer = "overtaken"] \in Requests
                          /\ [f EXCEPT !.answer = "overtaken"].kind = f.kind
                          /\ [f EXCEPT !.kind = "call"] \in Requests
                          /\ [f EXCEPT !.kind = "call"].kind = "call"
  BY DEF Requests
<1>2. ASSUME NEW fs \in SUBSET flights
      PROVE  Overtaken(fs) \subseteq Requests /\ LoginsAreFor(Overtaken(fs))
  <2> SUFFICES ASSUME NEW g \in Overtaken(fs)
               PROVE  g \in Requests /\ (g.kind = "login" => g.as \in [name : Users, role : Roles])
    BY DEF LoginsAreFor
  <2>1. PICK f \in fs : g = IF f.kind = "logout" THEN [f EXCEPT !.answer = "overtaken"] ELSE f
    BY DEF Overtaken
  <2>2. f \in Requests /\ f \in flights
    OBVIOUS
  <2> QED BY <2>1, <2>2, <1>1 DEF LoginsAreFor
<1>3. ASSUME NEW t \in Tabs PROVE Abandoned(t) \subseteq Requests /\ LoginsAreFor(Abandoned(t))
  BY <1>1 DEF Abandoned, LoginsAreFor
<1> QED BY <1>2, <1>3 DEF LoginsAreFor

\* Nobody is logged in at the start.
LEMMA SessionInit_Inv == SessionInit => SessionInv
<1> SUFFICES ASSUME SessionInit PROVE SessionInv
  OBVIOUS
<1>1. Nobody \in Persons /\ "login" \in Places
  BY DEF Persons, Places
<1>2. tabs \in [Tabs -> TabStates]
  BY <1>1, FreshType DEF SessionInit
<1>3. storage \in [user : Persons, age : Ages \cup {Missing}]
  BY <1>1 DEF SessionInit
<1>4. tally \in Tallies
  BY SessionAssumption DEF SessionInit, Tallies
<1>5. accounts \in [Users -> [role : Roles, active : BOOLEAN]]
  BY DEF SessionInit
<1> QED BY <1>1, <1>2, <1>3, <1>4, <1>5
        DEF SessionInit, SessionInv, SessionTypeOK, LoginsAreFor, TabStates, Profiles,
            Tallies

\* Every step keeps the types, and logins of accounts.
LEMMA SessionStep == SessionInv /\ [SessionNext]_sessionVars => SessionInv'
<1> SUFFICES ASSUME SessionInv, [SessionNext]_sessionVars PROVE SessionInv'
  OBVIOUS
<1>0. /\ tabs \in [Tabs -> TabStates]
      /\ storage \in [user : Persons, age : Ages \cup {Missing}]
      /\ cookie \in Persons /\ flights \subseteq Requests /\ LoginsAreFor(flights)
      /\ accounts \in [Users -> [role : Roles, active : BOOLEAN]]
      /\ tally \in Tallies
      /\ orphaned \in BOOLEAN
  BY DEF SessionInv, SessionTypeOK, TabStates, Profiles, Tallies, Requests
<1>q. ASSUME tabs' \in [Tabs -> TabStates],
             storage' \in [user : Persons, age : Ages \cup {Missing}],
             cookie' \in Persons, flights' \subseteq Requests, LoginsAreFor(flights'),
             accounts' \in [Users -> [role : Roles, active : BOOLEAN]],
             tally' \in Tallies,
             orphaned' \in BOOLEAN
      PROVE  SessionInv'
  BY <1>q DEF SessionInv, SessionTypeOK, TabStates, Profiles, Tallies, Requests, LoginsAreFor
<1>n. /\ Nobody \in Persons /\ "login" \in Places /\ "dashboard" \in Places
      /\ ClearedStorage \in [user : Persons, age : Ages \cup {Missing}]
  BY DEF Persons, Places, ClearedStorage
<1>a. 0 \in Ages
  BY SessionAssumption DEF Ages
<1>f. \A g \in Requests : g.kind # "login" =>
         flights \cup {g} \subseteq Requests /\ LoginsAreFor(flights \cup {g})
  BY <1>0 DEF LoginsAreFor
<1>p. \A g : flights \ {g} \subseteq Requests /\ LoginsAreFor(flights \ {g})
  BY <1>0 DEF LoginsAreFor
<1>d. \A t \in Tabs : Dropped(t) => flights' \subseteq Requests /\ LoginsAreFor(flights')
  BY <1>0 DEF Dropped, LoginsAreFor
<1>l. \A t \in Tabs : LoggedOut(t) \in [Tabs -> TabStates]
  <2> SUFFICES ASSUME NEW t \in Tabs PROVE LoggedOut(t) \in [Tabs -> TabStates]
    OBVIOUS
  <2>1. [tabs[t] EXCEPT !.user = Nobody, !.page = "login", !.profile = {}] \in TabStates
    <3>1. tabs[t] \in TabStates /\ {} \in Profiles
      BY <1>0 DEF Profiles
    <3> QED BY <3>1, <1>n, TabEdits
  <2> QED BY <2>1, <1>0, UnseenType DEF LoggedOut
<1>o. \A t \in Tabs : /\ Abandoned(t) \cup {Flight(t, "logout", cookie)} \subseteq Requests
                      /\ LoginsAreFor(Abandoned(t) \cup {Flight(t, "logout", cookie)})
  <2> SUFFICES ASSUME NEW t \in Tabs
               PROVE  /\ Abandoned(t) \cup {Flight(t, "logout", cookie)} \subseteq Requests
                      /\ LoginsAreFor(Abandoned(t) \cup {Flight(t, "logout", cookie)})
    OBVIOUS
  <2>1. Abandoned(t) \subseteq Requests /\ LoginsAreFor(Abandoned(t))
    BY <1>0, FlightsKept
  <2>2. /\ Flight(t, "logout", cookie) \in Requests
        /\ Flight(t, "logout", cookie).kind = "logout"
    BY <1>0, FlightType
  <2> QED BY <2>1, <2>2 DEF LoginsAreFor
<1>1. CASE UNCHANGED sessionVars
  BY <1>1, <1>0, <1>q DEF sessionVars
<1>2. ASSUME NEW t \in Tabs, NEW p \in Places, StartApp(t, p) PROVE SessionInv'
  <2> DEFINE expired == storage.user # Nobody /\ storage.age = AutoLogout + 1
             user == IF expired THEN Nobody ELSE storage.user
             fresh == Fresh(user, Landing(user, p))
  <2>1. user \in Persons
    BY <1>0, <1>n
  <2>2. fresh \in TabStates
    BY <2>1, FreshType, LandingType
  <2>3. tabs' = IF expired THEN Unseen(t, fresh) ELSE [tabs EXCEPT ![t] = fresh]
    BY <1>2 DEF StartApp
  <2>4. tabs' \in [Tabs -> TabStates]
    <3> HIDE DEF fresh, expired
    <3> QED BY <2>2, <2>3, <1>0, UnseenType
  <2>5. storage' \in [user : Persons, age : Ages \cup {Missing}]
    BY <1>2, <1>0, <1>n, <1>a DEF StartApp
  <2> QED BY <1>2, <2>4, <2>5, <1>0, <1>d, <1>q DEF StartApp
<1>3. ASSUME NEW t \in Tabs, NEW p \in Places, Navigate(t, p) PROVE SessionInv'
  <2>1. [tabs[t] EXCEPT !.page = Landing(tabs[t].user, p)] \in TabStates
    BY <1>0, LandingType DEF TabStates
  <2>2. tabs' \in [Tabs -> TabStates]
    BY <1>3, <2>1, <1>0 DEF Navigate
  <2> QED BY <1>3, <2>2, <1>0, <1>q DEF Navigate
<1>4. ASSUME NEW t \in Tabs, NEW u \in Users, SubmitLogin(t, u) PROVE SessionInv'
  <2> DEFINE as == [name |-> u, role |-> accounts[u].role]
  <2>1. as \in [name : Users, role : Roles] /\ as \in Persons
    BY <1>0 DEF Persons
  <2>2. /\ Flight(t, "login", as) \in Requests
        /\ Flight(t, "login", as).as = as
    <3>1. \A b \in Persons : /\ Flight(t, "login", b) \in Requests
                             /\ Flight(t, "login", b).as = b
      BY FlightType
    <3> QED BY <3>1, <2>1
  <2>3. flights' = flights \cup {Flight(t, "login", as)}
    BY <1>4 DEF SubmitLogin, Send
  <2>4. flights' \subseteq Requests /\ LoginsAreFor(flights')
    <3> HIDE DEF as
    <3> QED BY <2>1, <2>2, <2>3, <1>0 DEF LoginsAreFor
  <2>5. tabs' \in [Tabs -> TabStates]
    <3>1. [tabs[t] EXCEPT !.loading = TRUE] \in TabStates
      BY <1>0, TabEdits
    <3>2. tabs' = [tabs EXCEPT ![t] = [tabs[t] EXCEPT !.loading = TRUE]]
      BY <1>4 DEF SubmitLogin
    <3> QED BY <3>1, <3>2, <1>0
  <2>6. tally' \in Tallies
    <3>1. /\ tally' = [tally EXCEPT !.logins = tally.logins + 1] /\ tally.logins < MaxLogins
          /\ MaxLogins \in Nat
      BY <1>4, SessionAssumption DEF SubmitLogin
    <3> QED BY <3>1, <1>0 DEF Tallies
  <2> QED BY <1>4, <2>4, <2>5, <2>6, <1>0, <1>q DEF SubmitLogin
<1>5. ASSUME NEW t \in Tabs, EnterApp(t) PROVE SessionInv'
  <2> DEFINE p == Landing(tabs[t].user, "dashboard")
  <2>1. p \in Places /\ tabs[t] \in TabStates
    BY <1>0, <1>n, LandingType
  <2>2. tabs' = [tabs EXCEPT ![t] = [tabs[t] EXCEPT !.entering = FALSE, !.loading = FALSE,
                                                    !.page = p]]
    BY <1>5 DEF EnterApp
  <2>3. tabs' \in [Tabs -> TabStates]
    <3> HIDE DEF p
    <3> QED BY <2>1, <2>2, <1>0, TabEdits
  <2> QED BY <1>5, <2>3, <1>0, <1>q DEF EnterApp
<1>6. ASSUME NEW t \in Tabs, Logout(t) PROVE SessionInv'
  BY <1>6, <1>0, <1>l, <1>n, <1>o, <1>q DEF Logout
<1>7. ASSUME NEW t \in Tabs, CheckTimeout(t) PROVE SessionInv'
  BY <1>7, <1>0, <1>l, <1>n, <1>o, <1>q DEF CheckTimeout
<1>8. ASSUME NEW t \in Tabs, Activity(t) PROVE SessionInv'
  <2>1. storage' \in [user : Persons, age : Ages \cup {Missing}]
    BY <1>8, <1>0, <1>a DEF Activity
  <2> QED BY <1>8, <2>1, <1>0, <1>q DEF Activity
<1>9. ASSUME NEW t \in Tabs, SessionCall(t) PROVE SessionInv'
  <2>1. Flight(t, "call", cookie) \in Requests /\ Flight(t, "call", cookie).kind = "call"
    BY <1>0, FlightType
  <2> QED BY <1>9, <2>1, <1>0, <1>f, <1>q DEF SessionCall, Send
<1>10. ASSUME NEW t \in Tabs, OpenProfile(t) \/ CloseProfile(t) PROVE SessionInv'
  <2>1. PICK c \in Profiles : tabs' = [tabs EXCEPT ![t] = [tabs[t] EXCEPT !.profile = c]]
    <3>1. tabs[t].profile \in Profiles
      BY <1>0 DEF TabStates
    <3>2. tabs[t].profile \cup {"open"} \in Profiles /\ tabs[t].profile \ {"open"} \in Profiles
      BY <3>1 DEF Profiles
    <3> QED BY <1>10, <3>2 DEF OpenProfile, CloseProfile
  <2>2. tabs' \in [Tabs -> TabStates]
    BY <2>1, <1>0, TabEdits
  <2> QED BY <1>10, <2>2, <1>0, <1>q DEF OpenProfile, CloseProfile
<1>11. ASSUME NEW t \in Tabs, SubmitPassword(t) PROVE SessionInv'
  <2> DEFINE flight == Flight(t, "password", cookie)
             asked == [flight EXCEPT !.of = tabs[t].user.name]
  <2>1. flight \in Requests /\ flight.kind = "password"
    <3> QED BY <1>0, FlightType
  <2>2. tabs[t].user.name \in Users \cup {Nobody.name}
    BY <1>0 DEF TabStates, Persons
  <2>3. asked \in Requests /\ asked.kind # "login"
    <3> HIDE DEF flight
    <3> QED BY <2>1, <2>2 DEF Requests
  <2>4. flights' = flights \cup {asked}
    BY <1>11 DEF SubmitPassword, Send
  <2>5. flights' \subseteq Requests /\ LoginsAreFor(flights')
    <3> HIDE DEF asked
    <3> QED BY <2>3, <2>4, <1>f
  <2>6. tabs' \in [Tabs -> TabStates]
    <3>1. tabs[t].profile \cup {"changing"} \in Profiles
      BY <1>0 DEF TabStates, Profiles
    <3>2. tabs' = [tabs EXCEPT ![t] = [tabs[t] EXCEPT
                                          !.profile = tabs[t].profile \cup {"changing"}]]
      BY <1>11 DEF SubmitPassword
    <3> QED BY <3>1, <3>2, <1>0, TabEdits
  <2> QED BY <1>11, <2>5, <2>6, <1>0, <1>q DEF SubmitPassword
<1>12. ASSUME NEW f \in flights, Serve(f) PROVE SessionInv'
  <2> DEFINE passes == IF f.kind = "login" THEN accounts[f.as.name].active ELSE Authentic(f.as)
             as == IF f.kind = "login" THEN [f.as EXCEPT !.role = accounts[f.as.name].role]
                   ELSE f.as
             answer == IF passes THEN "ok" ELSE "unauthorized"
             served == [f EXCEPT !.answer = answer, !.as = as]
  <2>1. f \in Requests /\ (f.kind = "login" => f.as \in [name : Users, role : Roles])
    BY <1>0 DEF LoginsAreFor
  <2>2. as \in Persons /\ (f.kind = "login" => as \in [name : Users, role : Roles])
    BY <2>1, <1>0 DEF Requests, Persons
  <2>3. answer \in Outcomes
    BY DEF Outcomes
  <2>4. served \in Requests /\ served.kind = f.kind /\ served.as = as
    <3> HIDE DEF as, answer
    <3> QED BY <2>1, <2>2, <2>3 DEF Requests
  <2>5. flights' = (flights \ {f}) \cup {served}
    BY <1>12 DEF Serve
  <2>6. flights' \subseteq Requests /\ LoginsAreFor(flights')
    <3> HIDE DEF served, as
    <3> QED BY <2>2, <2>4, <2>5, <1>p DEF LoginsAreFor
  <2> QED BY <1>12, <2>6, <1>0, <1>q DEF Serve
<1>13. ASSUME NEW f \in flights, NEW outcome \in Outcomes, ChangePassword(f, outcome)
       PROVE  SessionInv'
  <2> DEFINE served == [f EXCEPT !.answer = outcome]
  <2>1. f \in Requests /\ (f.kind = "login" => f.as \in [name : Users, role : Roles])
    BY <1>0 DEF LoginsAreFor
  <2>2. served \in Requests /\ served.kind = f.kind /\ served.as = f.as
    BY <2>1 DEF Requests
  <2>3. flights' = (flights \ {f}) \cup {served}
    BY <1>13 DEF ChangePassword
  <2>4. flights' \subseteq Requests /\ LoginsAreFor(flights')
    <3> HIDE DEF served
    <3> QED BY <2>1, <2>2, <2>3, <1>p DEF LoginsAreFor
  <2> QED BY <1>13, <2>4, <1>0, <1>q DEF ChangePassword
<1>14. ASSUME NEW f \in flights, LoginAnswered(f) PROVE SessionInv'
  <2> DEFINE old == LoginEnds(f.tab)
             p == Landing(f.as, tabs[f.tab].page)
             new == [old EXCEPT !.user = f.as, !.page = p, !.entering = TRUE, !.foreign = FALSE]
  <2>1. f.tab \in Tabs /\ f.as \in Persons
    BY <1>0 DEF Requests
  <2>2. old \in TabStates
    BY <2>1, <1>0, LoginEndsType
  <2>3. new \in TabStates
    <3> HIDE DEF old
    <3>1. p \in Places
      BY <2>1, <1>0, LandingType DEF TabStates
    <3> HIDE DEF p
    <3> QED BY <2>1, <2>2, <3>1, TabEdits
  <2>4. tabs' \in [Tabs -> TabStates]
    <3>1. tabs' = Unseen(f.tab, new)
      BY <1>14 DEF LoginAnswered
    <3> HIDE DEF new
    <3> QED BY <3>1, <2>1, <2>3, <1>0, UnseenType
  <2>5. flights' \subseteq Requests /\ LoginsAreFor(flights')
    <3>1. flights' = Overtaken(flights \ {f}) /\ flights \ {f} \in SUBSET flights
      BY <1>14 DEF LoginAnswered
    <3> QED BY <3>1, <1>0, FlightsKept
  <2>6. storage' \in [user : Persons, age : Ages \cup {Missing}]
    BY <1>14, <2>1, <1>a DEF LoginAnswered
  <2> QED BY <1>14, <2>1, <2>4, <2>5, <2>6, <1>0, <1>q DEF LoginAnswered
<1>15. ASSUME NEW f \in flights, LoginRefused(f) \/ PasswordAnswered(f) PROVE SessionInv'
  <2>1. f.tab \in Tabs
    BY <1>0 DEF Requests
  <2>2. tabs' \in [Tabs -> TabStates]
    <3>1. CASE LoginRefused(f)
      BY <3>1, <2>1, <1>0, LoginEndsType DEF LoginRefused
    <3>2. CASE PasswordAnswered(f)
      <4> DEFINE left == tabs[f.tab].profile \
                            (IF f.answer = "ok" THEN {"open", "changing"} ELSE {"changing"})
      <4>1. left \in Profiles
        BY <2>1, <1>0 DEF TabStates, Profiles
      <4>2. tabs' = [tabs EXCEPT ![f.tab] = [tabs[f.tab] EXCEPT !.profile = left]]
        BY <3>2 DEF PasswordAnswered
      <4>3. tabs[f.tab] \in TabStates
        BY <2>1, <1>0
      <4> HIDE DEF left
      <4> QED BY <4>1, <4>2, <4>3, <2>1, <1>0, TabEdits
    <3> QED BY <1>15, <3>1, <3>2
  <2>3. flights' = flights \ {f} /\ UNCHANGED <<storage, cookie, accounts, tally, orphaned>>
    BY <1>15 DEF LoginRefused, PasswordAnswered
  <2> QED BY <2>2, <2>3, <1>0, <1>p, <1>q
<1>16. ASSUME NEW f \in flights, LogoutAnswered(f) \/ LogoutLost(f) \/ CallAnswered(f)
       PROVE  SessionInv'
  <2>1. cookie' \in Persons /\ orphaned' \in BOOLEAN
    BY <1>16, <1>0, <1>n DEF LogoutAnswered, LogoutLost, CallAnswered
  <2> QED BY <1>16, <2>1, <1>0, <1>p, <1>q DEF LogoutAnswered, LogoutLost, CallAnswered
<1>17. ASSUME NEW f \in flights, CallUnauthorized(f) PROVE SessionInv'
  <2>1. f.tab \in Tabs
    BY <1>0 DEF Requests
  <2>2. CASE tabs[f.tab].page = "login"
    BY <1>17, <2>2, <1>0, <1>p, <1>q DEF CallUnauthorized
  <2>3. CASE tabs[f.tab].page # "login"
    <3>1. Unseen(f.tab, Fresh(Nobody, "login")) \in [Tabs -> TabStates]
      BY <2>1, <1>0, <1>n, FreshType, UnseenType
    <3> QED BY <1>17, <2>1, <2>3, <3>1, <1>0, <1>n, <1>d, <1>q DEF CallUnauthorized
  <2> QED BY <2>2, <2>3
<1>18. ASSUME NEW u \in Users, NEW a \in [role : Roles, active : BOOLEAN], ChangeAccount(u, a)
       PROVE  SessionInv'
  <2>1. /\ accounts' \in [Users -> [role : Roles, active : BOOLEAN]]
        /\ tally' \in Tallies
    BY <1>18, <1>0, SessionAssumption DEF ChangeAccount, Tallies
  <2> QED BY <1>18, <2>1, <1>0, <1>q DEF ChangeAccount
<1>19. CASE CookieExpires
  <2>1. tally' \in Tallies
    BY <1>19, <1>0, SessionAssumption DEF CookieExpires, Tallies
  <2> QED BY <1>19, <2>1, <1>0, <1>n, <1>q DEF CookieExpires
<1>20. CASE Tick
  <2>1. storage' \in [user : Persons, age : Ages \cup {Missing}]
    BY <1>20, <1>0, SessionAssumption DEF Tick, Ages, Missing
  <2> QED BY <1>20, <2>1, <1>0, <1>q DEF Tick
<1> QED BY <1>1, <1>2, <1>3, <1>4, <1>5, <1>6, <1>7, <1>8, <1>9, <1>10, <1>11, <1>12, <1>13,
           <1>14, <1>15, <1>16, <1>17, <1>18, <1>19, <1>20 DEF SessionNext

\* The state of the tabs, the browser and the server is always in order.
THEOREM SessionTypes == SessionSpec => []SessionTypeOK
<1>1. SessionInv => SessionTypeOK
  BY DEF SessionInv
<1> QED BY <1>1, SessionInit_Inv, SessionStep, PTL DEF SessionSpec

-----------------------------------------------------------------------------
(***************************************************************************)
(* The session stays intact.                                               *)
(*                                                                         *)
(* What a tab shows may come from localStorage, and what takes the cookie  *)
(* away is an answer still to come.  The inductive invariant adds to       *)
(* SessionIntact what holds of the two: localStorage names the user of the *)
(* cookie, and once a logout is on its way that no login has overtaken,    *)
(* nobody is in any more.  A tab waits for one change of password at most, *)
(* and on the login page for none.                                         *)
(***************************************************************************)

\* The logout will end the session it was meant for.
Due(f) == f.kind = "logout" /\ f.answer # "overtaken"

AllOut == storage.user = Nobody /\ \A t \in Tabs : tabs[t].user = Nobody \/ tabs[t].foreign

UsersAgree ==
    /\ \A t \in Tabs : (tabs[t].user # Nobody /\ ~tabs[t].foreign)
                          => cookie \in {tabs[t].user, Nobody}
    /\ storage.user # Nobody => cookie \in {storage.user, Nobody}
    /\ (~orphaned /\ cookie = Nobody) => AllOut
    /\ (\E f \in flights : Due(f)) => AllOut

\* The changes of password that tab t waits for.
PasswordCalls(t) == {f \in flights : f.tab = t /\ f.kind = "password"}

TabInOrder(t) ==
    /\ tabs[t].user = Nobody => tabs[t].page = "login"
    /\ tabs[t].page \in Guarded => HasPermission(tabs[t].user, tabs[t].page)
    /\ tabs[t].page = "login" => tabs[t].profile = {}
    /\ IF "changing" \in tabs[t].profile THEN \E f \in flights : PasswordCalls(t) = {f}
                                         ELSE PasswordCalls(t) = {}

IntactInv == SessionInv /\ UsersAgree /\ StoredUserIsIn /\ \A t \in Tabs : TabInOrder(t)

-----------------------------------------------------------------------------

\* Routes lead nobody to a page that is not theirs.
LEMMA LandingAllowed ==
    ASSUME NEW user, NEW page \in Places
    PROVE  /\ user = Nobody => Landing(user, page) = "login"
           /\ Landing(user, page) \in Guarded => HasPermission(user, Landing(user, page))
           /\ Landing(user, page) = "login" => page = "login" \/ user = Nobody
BY SessionAssumption DEF Landing, Places

\* To the other tabs nothing has happened, except behind their back.
LEMMA UnseenOthers ==
    ASSUME tabs \in [Tabs -> TabStates], NEW t \in Tabs, NEW new
    PROVE  /\ Unseen(t, new)[t] = new
           /\ \A x \in Tabs \ {t} :
                 /\ Unseen(t, new)[x].user = tabs[x].user
                 /\ Unseen(t, new)[x].page = tabs[x].page
                 /\ Unseen(t, new)[x].profile = tabs[x].profile
                 /\ Unseen(t, new)[x].foreign = TRUE
<1>1. \A x \in Tabs : /\ [tabs[x] EXCEPT !.foreign = TRUE].user = tabs[x].user
                      /\ [tabs[x] EXCEPT !.foreign = TRUE].page = tabs[x].page
                      /\ [tabs[x] EXCEPT !.foreign = TRUE].profile = tabs[x].profile
                      /\ [tabs[x] EXCEPT !.foreign = TRUE].foreign = TRUE
  BY DEF TabStates
<1> QED BY <1>1 DEF Unseen

\* An answer or another page changes neither user nor profile of its tab.
LEMMA OneTab ==
    ASSUME tabs \in [Tabs -> TabStates], NEW t \in Tabs, NEW new,
           new.user = tabs[t].user, new.foreign = tabs[t].foreign,
           tabs' = [tabs EXCEPT ![t] = new]
    PROVE  /\ tabs'[t] = new
           /\ \A x \in Tabs \ {t} : tabs'[x] = tabs[x]
           /\ \A x \in Tabs : /\ tabs'[x].user = tabs[x].user
                              /\ tabs'[x].foreign = tabs[x].foreign
OBVIOUS

\* Marking the logouts that a login overtakes: none of them is due any more.
LEMMA OvertakenNotDue ==
    ASSUME NEW fs \in SUBSET Requests
    PROVE  /\ \A g \in Overtaken(fs) : ~Due(g)
           /\ \A g : (g \in Overtaken(fs) /\ g.kind = "password")
                       <=> (g \in fs /\ g.kind = "password")
<1>1. \A f \in Requests : /\ [f EXCEPT !.answer = "overtaken"].kind = f.kind
                          /\ [f EXCEPT !.answer = "overtaken"].answer = "overtaken"
  BY DEF Requests
<1> QED BY <1>1 DEF Overtaken, Due

\* What tab t has given up is not waited for; the rest is as it was.
LEMMA AbandonedRest ==
    ASSUME flights \subseteq Requests, NEW t \in Tabs
    PROVE  /\ \A g \in Abandoned(t) : ~(g.tab = t /\ g.kind = "password")
           /\ \A g : (g \in Abandoned(t) /\ g.tab # t) <=> (g \in flights /\ g.tab # t)
<1>1. \A f \in Requests : /\ [f EXCEPT !.kind = "call"].kind = "call"
                          /\ [f EXCEPT !.kind = "call"].tab = f.tab
  BY DEF Requests
<1> QED BY <1>1 DEF Abandoned

\* Where users, cookie and localStorage stay, and no logout is sent, all stays.
LEMMA UsersQuiet ==
    ASSUME UsersAgree, StoredUserIsIn,
           \A x \in Tabs : tabs'[x].user = tabs[x].user /\ tabs'[x].foreign = tabs[x].foreign,
           storage'.user = storage.user, cookie' = cookie, orphaned' = orphaned,
           \A g \in flights' : Due(g) => \E f \in flights : Due(f)
    PROVE  UsersAgree' /\ StoredUserIsIn'
BY DEF UsersAgree, StoredUserIsIn, AllOut, Due

\* Logging a tab out empties localStorage, behind the back of the others.
LEMMA UsersOut ==
    ASSUME UsersAgree, tabs \in [Tabs -> TabStates], NEW t \in Tabs, NEW new,
           new.user = Nobody, tabs' = Unseen(t, new), storage' = ClearedStorage,
           cookie' = cookie, orphaned' = orphaned
    PROVE  UsersAgree' /\ StoredUserIsIn'
<1>1. tabs'[t].user = Nobody /\ \A x \in Tabs \ {t} : tabs'[x].foreign = TRUE
  BY UnseenOthers
<1>2. AllOut' /\ storage'.user = Nobody
  BY <1>1 DEF AllOut, ClearedStorage
<1> QED BY <1>1, <1>2 DEF UsersAgree, StoredUserIsIn

\* A tab that shows the same and waits for the same is in order as before.
LEMMA TabQuiet ==
    ASSUME NEW x \in Tabs, TabInOrder(x),
           tabs'[x].user = tabs[x].user, tabs'[x].page = tabs[x].page,
           tabs'[x].profile = tabs[x].profile, PasswordCalls(x)' = PasswordCalls(x)
    PROVE  TabInOrder(x)'
<1>1. PasswordCalls(x)' \subseteq flights'
  BY DEF PasswordCalls
<1> QED BY <1>1 DEF TabInOrder

\* A tab that is loaded anew, or logged out, is in order.
LEMMA TabFresh ==
    ASSUME NEW x \in Tabs, NEW user, NEW page \in Places,
           tabs'[x].user = user, tabs'[x].page = Landing(user, page),
           tabs'[x].profile = {}, PasswordCalls(x)' = {}
    PROVE  TabInOrder(x)'
BY LandingAllowed DEF TabInOrder

-----------------------------------------------------------------------------

\* The start: everybody is out, and nothing is asked for.
LEMMA SessionInit_Intact == SessionInit => IntactInv
<1> SUFFICES ASSUME SessionInit PROVE IntactInv
  OBVIOUS
<1>1. SessionInv
  BY SessionInit_Inv
<1>2. \A t \in Tabs : /\ tabs[t].user = Nobody /\ tabs[t].page = "login"
                      /\ tabs[t].profile = {} /\ PasswordCalls(t) = {}
  BY DEF SessionInit, Fresh, PasswordCalls
<1>3. UsersAgree /\ StoredUserIsIn
  BY <1>2 DEF SessionInit, UsersAgree, StoredUserIsIn, AllOut
<1>4. \A t \in Tabs : TabInOrder(t)
  BY <1>2, SessionAssumption DEF TabInOrder
<1> QED BY <1>1, <1>3, <1>4 DEF IntactInv

\* What the invariant says of types.
LEMMA IntactTypes ==
    ASSUME IntactInv
    PROVE  /\ tabs \in [Tabs -> TabStates] /\ flights \subseteq Requests /\ LoginsAreFor(flights)
           /\ UsersAgree /\ StoredUserIsIn /\ \A t \in Tabs : TabInOrder(t)
           /\ Nobody \in Persons /\ cookie \in Persons
BY DEF IntactInv, SessionInv, SessionTypeOK, TabStates, Profiles, Requests, Persons

\* Users, cookie and localStorage agree after every step.
LEMMA UsersStep == IntactInv /\ [SessionNext]_sessionVars => UsersAgree' /\ StoredUserIsIn'
<1> SUFFICES ASSUME IntactInv, [SessionNext]_sessionVars
             PROVE  UsersAgree' /\ StoredUserIsIn'
  OBVIOUS
<1>0. /\ tabs \in [Tabs -> TabStates] /\ flights \subseteq Requests /\ LoginsAreFor(flights)
      /\ UsersAgree /\ StoredUserIsIn
  BY IntactTypes
<1>q. ASSUME \A x \in Tabs : tabs'[x].user = tabs[x].user /\ tabs'[x].foreign = tabs[x].foreign,
             storage'.user = storage.user, cookie' = cookie, orphaned' = orphaned,
             \A g \in flights' : Due(g) => \E f \in flights : Due(f)
      PROVE  UsersAgree' /\ StoredUserIsIn'
  BY <1>q, <1>0, UsersQuiet
<1>o. ASSUME NEW t \in Tabs, NEW new, new.user = Nobody, tabs' = Unseen(t, new),
             storage' = ClearedStorage, cookie' = cookie, orphaned' = orphaned
      PROVE  UsersAgree' /\ StoredUserIsIn'
  BY <1>o, <1>0, UsersOut
<1>s. \A age : [storage EXCEPT !.age = age].user = storage.user
  <2>1. storage \in [user : Persons, age : Ages \cup {Missing}]
    BY DEF IntactInv, SessionInv, SessionTypeOK
  <2> QED BY <2>1
<1>l. \A t \in Tabs : LoggedOut(t) =
         Unseen(t, [tabs[t] EXCEPT !.user = Nobody, !.page = "login", !.profile = {}])
  BY DEF LoggedOut
<1>n. \A t \in Tabs :
         [tabs[t] EXCEPT !.user = Nobody, !.page = "login", !.profile = {}].user = Nobody
  BY <1>0 DEF TabStates
<1>1. CASE UNCHANGED sessionVars
  BY <1>1, <1>q DEF sessionVars
<1>2. ASSUME NEW t \in Tabs, NEW p \in Places, StartApp(t, p)
      PROVE  UsersAgree' /\ StoredUserIsIn'
  <2> DEFINE expired == storage.user # Nobody /\ storage.age = AutoLogout + 1
             user == IF expired THEN Nobody ELSE storage.user
             fresh == Fresh(user, Landing(user, p))
  <2>1. fresh.user = user /\ fresh.foreign = FALSE
    BY DEF Fresh
  <2>2. cookie' = cookie /\ orphaned' = orphaned
    BY <1>2 DEF StartApp
  <2>3. CASE expired
    <3>1. tabs' = Unseen(t, fresh) /\ storage' = ClearedStorage /\ fresh.user = Nobody
      BY <1>2, <2>1, <2>3 DEF StartApp
    <3> QED BY <3>1, <2>2, <1>o
  <2>4. CASE ~expired
    <3>1. tabs' = [tabs EXCEPT ![t] = fresh] /\ storage'.user = storage.user
      BY <1>2, <2>4, <1>s DEF StartApp
    <3>2. tabs'[t].user = storage.user /\ tabs'[t].foreign = FALSE
          /\ \A x \in Tabs \ {t} : tabs'[x] = tabs[x]
      BY <3>1, <2>1, <2>4, <1>0
    <3>3. \A g \in flights' : g \in flights
      BY <1>2 DEF StartApp, Dropped
    <3> QED BY <3>1, <3>2, <3>3, <2>2, <1>0 DEF UsersAgree, StoredUserIsIn, AllOut
  <2> QED BY <2>3, <2>4
<1>3. ASSUME NEW t \in Tabs, NEW p \in Places, Navigate(t, p)
      PROVE  UsersAgree' /\ StoredUserIsIn'
  <2> DEFINE new == [tabs[t] EXCEPT !.page = Landing(tabs[t].user, p)]
  <2>1. new.user = tabs[t].user /\ new.foreign = tabs[t].foreign
    BY <1>0 DEF TabStates
  <2>2. tabs' = [tabs EXCEPT ![t] = new] /\ UNCHANGED <<storage, cookie, flights, orphaned>>
    BY <1>3 DEF Navigate
  <2> HIDE DEF new
  <2> QED BY <2>1, <2>2, <1>0, <1>q, OneTab
<1>4. ASSUME NEW t \in Tabs, NEW u \in Users, SubmitLogin(t, u)
      PROVE  UsersAgree' /\ StoredUserIsIn'
  <2> DEFINE new == [tabs[t] EXCEPT !.loading = TRUE]
             sent == Flight(t, "login", [name |-> u, role |-> accounts[u].role])
  <2>1. new.user = tabs[t].user /\ new.foreign = tabs[t].foreign
    BY <1>0 DEF TabStates
  <2>2. /\ tabs' = [tabs EXCEPT ![t] = new] /\ UNCHANGED <<storage, cookie, orphaned>>
        /\ flights' = flights \cup {sent}
    BY <1>4 DEF SubmitLogin, Send
  <2>3. ~Due(sent)
    BY DEF Due, Flight
  <2> HIDE DEF new, sent
  <2> QED BY <2>1, <2>2, <2>3, <1>0, <1>q, OneTab
<1>5. ASSUME NEW t \in Tabs, EnterApp(t) PROVE UsersAgree' /\ StoredUserIsIn'
  <2> DEFINE new == [tabs[t] EXCEPT !.entering = FALSE, !.loading = FALSE,
                                    !.page = Landing(tabs[t].user, "dashboard")]
  <2>1. new.user = tabs[t].user /\ new.foreign = tabs[t].foreign
    BY <1>0 DEF TabStates
  <2>2. tabs' = [tabs EXCEPT ![t] = new] /\ UNCHANGED <<storage, cookie, flights, orphaned>>
    BY <1>5 DEF EnterApp
  <2> HIDE DEF new
  <2> QED BY <2>1, <2>2, <1>0, <1>q, OneTab
<1>6. ASSUME NEW t \in Tabs, Logout(t) \/ CheckTimeout(t) PROVE UsersAgree' /\ StoredUserIsIn'
  <2>1. /\ tabs' = LoggedOut(t) /\ storage' = ClearedStorage /\ cookie' = cookie
        /\ orphaned' = orphaned
    BY <1>6 DEF Logout, CheckTimeout
  <2> QED BY <2>1, <1>l, <1>n, <1>o
<1>7. ASSUME NEW t \in Tabs, Activity(t) PROVE UsersAgree' /\ StoredUserIsIn'
  BY <1>7, <1>q, <1>s DEF Activity
<1>8. ASSUME NEW t \in Tabs, SessionCall(t) PROVE UsersAgree' /\ StoredUserIsIn'
  <2>1. flights' = flights \cup {Flight(t, "call", cookie)} /\ ~Due(Flight(t, "call", cookie))
    BY <1>8 DEF SessionCall, Send, Due, Flight
  <2> QED BY <1>8, <2>1, <1>q DEF SessionCall
<1>9. ASSUME NEW t \in Tabs, NEW c, tabs' = [tabs EXCEPT ![t].profile = c],
             UNCHANGED <<storage, cookie, orphaned>>,
             \A g \in flights' : Due(g) => g \in flights
      PROVE  UsersAgree' /\ StoredUserIsIn'
  <2> DEFINE new == [tabs[t] EXCEPT !.profile = c]
  <2>1. new.user = tabs[t].user /\ new.foreign = tabs[t].foreign
    BY <1>0 DEF TabStates
  <2>2. tabs' = [tabs EXCEPT ![t] = new]
    BY <1>9
  <2> HIDE DEF new
  <2> QED BY <1>9, <2>1, <2>2, <1>0, <1>q, OneTab
<1>10. ASSUME NEW t \in Tabs, OpenProfile(t) \/ CloseProfile(t)
       PROVE  UsersAgree' /\ StoredUserIsIn'
  BY <1>9, <1>10 DEF OpenProfile, CloseProfile
<1>11. ASSUME NEW t \in Tabs, SubmitPassword(t) PROVE UsersAgree' /\ StoredUserIsIn'
  <2> DEFINE asked == [Flight(t, "password", cookie) EXCEPT !.of = tabs[t].user.name]
  <2>1. ~Due(asked)
    BY DEF Due, Flight
  <2>2. flights' = flights \cup {asked} /\ UNCHANGED <<storage, cookie, orphaned>>
        /\ tabs' = [tabs EXCEPT ![t].profile = tabs[t].profile \cup {"changing"}]
    BY <1>11 DEF SubmitPassword, Send
  <2> HIDE DEF asked
  <2> QED BY <2>1, <2>2, <1>9
<1>12. ASSUME NEW f \in flights, Serve(f) PROVE UsersAgree' /\ StoredUserIsIn'
  <2>1. \A b, c : [f EXCEPT !.answer = b, !.as = c].kind = f.kind
    BY <1>0 DEF Requests
  <2>2. \E b, c : flights' = (flights \ {f}) \cup {[f EXCEPT !.answer = b, !.as = c]}
    BY <1>12, Zenon DEF Serve
  <2>3. f.kind # "logout" /\ UNCHANGED <<tabs, storage, cookie, orphaned>>
    BY <1>12 DEF Serve
  <2>4. \A g \in flights' : g \in flights \/ g.kind = f.kind
    BY <2>1, <2>2
  <2> QED BY <2>3, <2>4, <1>q DEF Due
<1>13. ASSUME NEW f \in flights, NEW outcome \in Outcomes, ChangePassword(f, outcome)
       PROVE  UsersAgree' /\ StoredUserIsIn'
  <2>1. [f EXCEPT !.answer = outcome].kind = f.kind
    BY <1>0 DEF Requests
  <2>2. \A g \in flights' : g \in flights \/ g.kind = f.kind
    BY <1>13, <2>1 DEF ChangePassword
  <2>3. f.answer = "none" /\ UNCHANGED <<tabs, storage, cookie, orphaned>>
    BY <1>13 DEF ChangePassword
  <2>4. \A g \in flights' : Due(g) => \E h \in flights : Due(h)
    BY <2>2, <2>3 DEF Due
  <2> QED BY <2>3, <2>4, <1>q
<1>14. ASSUME NEW f \in flights, LoginAnswered(f) PROVE UsersAgree' /\ StoredUserIsIn'
  <2> DEFINE new == [LoginEnds(f.tab) EXCEPT !.user = f.as,
                                            !.page = Landing(f.as, tabs[f.tab].page),
                                            !.entering = TRUE, !.foreign = FALSE]
  <2>1. f.tab \in Tabs /\ f.as \in Persons
    BY <1>0 DEF Requests
  <2>2. new.user = f.as /\ new.foreign = FALSE
    <3>1. LoginEnds(f.tab) \in TabStates
      BY <2>1, <1>0, LoginEndsType
    <3>2. \A p : \A s \in TabStates :
             /\ [s EXCEPT !.user = f.as, !.page = p, !.entering = TRUE, !.foreign = FALSE].user = f.as
             /\ [s EXCEPT !.user = f.as, !.page = p, !.entering = TRUE, !.foreign = FALSE].foreign = FALSE
      BY DEF TabStates
    <3> QED BY <3>1, <3>2
  <2>3. /\ tabs' = Unseen(f.tab, new) /\ cookie' = f.as /\ storage'.user = f.as
        /\ flights' = Overtaken(flights \ {f})
    BY <1>14 DEF LoginAnswered
  <2>4. f.as # Nobody
    BY <1>14, <1>0, SessionAssumption DEF LoginsAreFor, LoginAnswered, Nobody
  <2>5. \A g \in flights' : ~Due(g)
    BY <2>3, <1>0, OvertakenNotDue
  <2>6. tabs'[f.tab] = new /\ \A x \in Tabs \ {f.tab} : tabs'[x].foreign = TRUE
    <3> HIDE DEF new
    <3> QED BY <2>1, <2>3, <1>0, UnseenOthers
  <2> HIDE DEF new
  <2> QED BY <2>1, <2>2, <2>3, <2>4, <2>5, <2>6 DEF UsersAgree, StoredUserIsIn
<1>15. ASSUME NEW f \in flights, LoginRefused(f) PROVE UsersAgree' /\ StoredUserIsIn'
  <2>1. f.tab \in Tabs
    BY <1>0 DEF Requests
  <2>2. /\ LoginEnds(f.tab).user = tabs[f.tab].user
        /\ LoginEnds(f.tab).foreign = tabs[f.tab].foreign
    BY <2>1, <1>0 DEF LoginEnds, TabStates
  <2>3. /\ tabs' = [tabs EXCEPT ![f.tab] = LoginEnds(f.tab)] /\ flights' = flights \ {f}
        /\ UNCHANGED <<storage, cookie, orphaned>>
    BY <1>15 DEF LoginRefused
  <2> QED BY <2>1, <2>2, <2>3, <1>0, <1>q, OneTab
<1>16. ASSUME NEW f \in flights, PasswordAnswered(f) PROVE UsersAgree' /\ StoredUserIsIn'
  <2>1. f.tab \in Tabs
    BY <1>0 DEF Requests
  <2> QED BY <1>16, <2>1, <1>9 DEF PasswordAnswered
<1>17. ASSUME NEW f \in flights, LogoutAnswered(f) PROVE UsersAgree' /\ StoredUserIsIn'
  <2>1. UNCHANGED <<tabs, storage>> /\ cookie' = Nobody /\ \A g \in flights' : g \in flights
    BY <1>17 DEF LogoutAnswered
  <2>2. Due(f) \/ orphaned' = TRUE
    BY <1>17 DEF LogoutAnswered, Due
  <2> QED BY <2>1, <2>2, <1>0 DEF UsersAgree, StoredUserIsIn, AllOut, Due
<1>18. ASSUME NEW f \in flights, LogoutLost(f) \/ CallAnswered(f)
       PROVE  UsersAgree' /\ StoredUserIsIn'
  BY <1>18, <1>q DEF LogoutLost, CallAnswered
<1>19. ASSUME NEW f \in flights, CallUnauthorized(f) PROVE UsersAgree' /\ StoredUserIsIn'
  <2>1. f.tab \in Tabs
    BY <1>0 DEF Requests
  <2>2. CASE tabs[f.tab].page = "login"
    BY <1>19, <2>2, <1>q DEF CallUnauthorized
  <2>3. CASE tabs[f.tab].page # "login"
    BY <1>19, <2>1, <2>3, <1>o DEF CallUnauthorized, Fresh
  <2> QED BY <2>2, <2>3
<1>20. ASSUME NEW u \in Users, NEW a \in [role : Roles, active : BOOLEAN], ChangeAccount(u, a)
       PROVE  UsersAgree' /\ StoredUserIsIn'
  BY <1>20, <1>q DEF ChangeAccount
<1>21. CASE CookieExpires
  BY <1>21, <1>0 DEF CookieExpires, UsersAgree, StoredUserIsIn, AllOut, Due
<1>22. CASE Tick
  BY <1>22, <1>q, <1>s DEF Tick
<1> QED BY <1>1, <1>2, <1>3, <1>4, <1>5, <1>6, <1>7, <1>8, <1>10, <1>11, <1>12, <1>13, <1>14,
           <1>15, <1>16, <1>17, <1>18, <1>19, <1>20, <1>21, <1>22 DEF SessionNext

-----------------------------------------------------------------------------

\* A request that is served is waited for as before.
LEMMA TabServed ==
    ASSUME NEW x \in Tabs, TabInOrder(x), tabs' = tabs, NEW f \in flights, NEW g,
           g.tab = f.tab, g.kind = f.kind, flights' = (flights \ {f}) \cup {g}
    PROVE  TabInOrder(x)'
<1>1. CASE f \in PasswordCalls(x)
  <2>1. PasswordCalls(x) = {f}
    BY <1>1 DEF TabInOrder
  <2>2. PasswordCalls(x)' = {g} /\ g \in flights'
    BY <1>1, <2>1 DEF PasswordCalls
  <2> QED BY <1>1, <2>1, <2>2 DEF TabInOrder
<1>2. CASE f \notin PasswordCalls(x)
  <2>1. PasswordCalls(x)' = PasswordCalls(x)
    BY <1>2 DEF PasswordCalls
  <2> QED BY <2>1, TabQuiet
<1> QED BY <1>1, <1>2

\* Requests of other kinds come and go.
LEMMA TabCalls ==
    ASSUME NEW x \in Tabs, TabInOrder(x),
           tabs'[x].user = tabs[x].user, tabs'[x].page = tabs[x].page,
           tabs'[x].profile = tabs[x].profile,
           \A g : (g \in flights' /\ g.kind = "password") <=> (g \in flights /\ g.kind = "password")
    PROVE  TabInOrder(x)'
<1>1. PasswordCalls(x)' = PasswordCalls(x)
  BY DEF PasswordCalls
<1> QED BY <1>1, TabQuiet

\* A tab whose page and requests are gone starts anew; the others go on.
LEMMA TabsAnew ==
    ASSUME tabs \in [Tabs -> TabStates], \A x \in Tabs : TabInOrder(x),
           NEW t \in Tabs, NEW user, NEW page \in Places, NEW new,
           new.user = user, new.page = Landing(user, page), new.profile = {},
           tabs' = Unseen(t, new) \/ tabs' = [tabs EXCEPT ![t] = new],
           \A g \in flights' : ~(g.tab = t /\ g.kind = "password"),
           \A g : (g \in flights' /\ g.tab # t /\ g.kind = "password")
                    <=> (g \in flights /\ g.tab # t /\ g.kind = "password")
    PROVE  \A x \in Tabs : TabInOrder(x)'
<1>1. /\ tabs'[t] = new
      /\ \A x \in Tabs \ {t} : /\ tabs'[x].user = tabs[x].user /\ tabs'[x].page = tabs[x].page
                               /\ tabs'[x].profile = tabs[x].profile
  <2>1. CASE tabs' = Unseen(t, new)
    <3>1. /\ Unseen(t, new)[t] = new
          /\ \A x \in Tabs \ {t} : /\ Unseen(t, new)[x].user = tabs[x].user
                                   /\ Unseen(t, new)[x].page = tabs[x].page
                                   /\ Unseen(t, new)[x].profile = tabs[x].profile
                                   /\ Unseen(t, new)[x].foreign = TRUE
      BY UnseenOthers, Zenon
    <3> QED BY <2>1, <3>1
  <2>2. CASE tabs' = [tabs EXCEPT ![t] = new]
    BY <2>2
  <2> QED BY <2>1, <2>2
<1>2. TabInOrder(t)'
  <2>1. PasswordCalls(t)' = {}
    BY DEF PasswordCalls
  <2> QED BY <1>1, <2>1, TabFresh
<1>3. ASSUME NEW x \in Tabs \ {t} PROVE TabInOrder(x)'
  <2>1. PasswordCalls(x)' = PasswordCalls(x)
    BY DEF PasswordCalls
  <2> QED BY <1>1, <2>1, TabQuiet
<1> QED BY <1>2, <1>3

\* What a tab shows, and what it waits for, is in order after every step.
LEMMA TabsStep == IntactInv /\ [SessionNext]_sessionVars => \A x \in Tabs : TabInOrder(x)'
<1> SUFFICES ASSUME IntactInv, [SessionNext]_sessionVars
             PROVE  \A x \in Tabs : TabInOrder(x)'
  OBVIOUS
<1>0. /\ tabs \in [Tabs -> TabStates] /\ flights \subseteq Requests /\ LoginsAreFor(flights)
      /\ \A x \in Tabs : TabInOrder(x)
  BY IntactTypes
<1>n. "login" \in Places /\ "dashboard" \in Places
  BY DEF Places
<1>q. ASSUME tabs' = tabs,
             \A g : (g \in flights' /\ g.kind = "password") <=> (g \in flights /\ g.kind = "password")
      PROVE  \A x \in Tabs : TabInOrder(x)'
  BY <1>q, <1>0, TabCalls
<1>e. ASSUME NEW t \in Tabs, NEW new, tabs' = [tabs EXCEPT ![t] = new], TabInOrder(t)',
             \A g : (g \in flights' /\ g.kind = "password" /\ g.tab # t)
                      <=> (g \in flights /\ g.kind = "password" /\ g.tab # t)
      PROVE  \A x \in Tabs : TabInOrder(x)'
  <2>1. ASSUME NEW x \in Tabs \ {t} PROVE TabInOrder(x)'
    <3>1. tabs'[x] = tabs[x] /\ PasswordCalls(x)' = PasswordCalls(x)
      BY <1>e DEF PasswordCalls
    <3> QED BY <3>1, <1>0, TabQuiet
  <2> QED BY <1>e, <2>1
<1>s. ASSUME NEW f \in flights, NEW g, g.tab = f.tab, g.kind = f.kind, tabs' = tabs,
             flights' = (flights \ {f}) \cup {g}
      PROVE  \A x \in Tabs : TabInOrder(x)'
  BY <1>s, <1>0, TabServed
<1>f. \A g : \A h \in flights : h.kind # "password" /\ flights' = flights \ {h} =>
          ((g \in flights' /\ g.kind = "password") <=> (g \in flights /\ g.kind = "password"))
  OBVIOUS
<1>1. CASE UNCHANGED sessionVars
  BY <1>1, <1>q DEF sessionVars
<1>2. ASSUME NEW t \in Tabs, NEW p \in Places, StartApp(t, p)
      PROVE  \A x \in Tabs : TabInOrder(x)'
  <2>1. PICK user : \/ tabs' = Unseen(t, Fresh(user, Landing(user, p)))
                    \/ tabs' = [tabs EXCEPT ![t] = Fresh(user, Landing(user, p))]
    BY <1>2, Zenon DEF StartApp
  <2>2. flights' = {f \in flights : f.tab # t}
    BY <1>2 DEF StartApp, Dropped
  <2> DEFINE new == Fresh(user, Landing(user, p))
  <2>3. new.user = user /\ new.page = Landing(user, p) /\ new.profile = {}
    BY DEF Fresh
  <2>4. tabs' = Unseen(t, new) \/ tabs' = [tabs EXCEPT ![t] = new]
    BY <2>1
  <2> HIDE DEF new
  <2> QED BY <2>2, <2>3, <2>4, <1>0, TabsAnew
<1>3. ASSUME NEW t \in Tabs, NEW p \in Places, Navigate(t, p)
      PROVE  \A x \in Tabs : TabInOrder(x)'
  <2> DEFINE q == Landing(tabs[t].user, p)
             new == [tabs[t] EXCEPT !.page = q]
  <2>1. new.user = tabs[t].user /\ new.page = q /\ new.profile = tabs[t].profile
    BY <1>0 DEF TabStates
  <2>2. tabs' = [tabs EXCEPT ![t] = new] /\ flights' = flights /\ PasswordCalls(t)' = PasswordCalls(t)
    BY <1>3 DEF Navigate, PasswordCalls
  <2>3. tabs[t].user # Nobody /\ p # "login"
    BY <1>3, <1>0 DEF Navigate, Uncovered, TabInOrder
  <2>4. q # "login" /\ (q \in Guarded => HasPermission(tabs[t].user, q))
    BY <2>3, LandingAllowed
  <2>5. TabInOrder(t)'
    <3> HIDE DEF new, q
    <3> QED BY <2>1, <2>2, <2>3, <2>4, <1>0 DEF TabInOrder
  <2> HIDE DEF new
  <2> QED BY <2>2, <2>5, <1>e
<1>4. ASSUME NEW t \in Tabs, NEW u \in Users, SubmitLogin(t, u)
      PROVE  \A x \in Tabs : TabInOrder(x)'
  <2> DEFINE new == [tabs[t] EXCEPT !.loading = TRUE]
             sent == Flight(t, "login", [name |-> u, role |-> accounts[u].role])
  <2>1. /\ new.user = tabs[t].user /\ new.page = tabs[t].page
        /\ new.profile = tabs[t].profile
    BY <1>0 DEF TabStates
  <2>2. /\ tabs' = [tabs EXCEPT ![t] = new] /\ flights' = flights \cup {sent}
        /\ sent.kind # "password"
    BY <1>4 DEF SubmitLogin, Send, Flight
  <2> HIDE DEF new, sent
  <2>3. TabInOrder(t)'
    BY <2>1, <2>2, <1>0, TabCalls
  <2> QED BY <2>2, <2>3, <1>e
<1>5. ASSUME NEW t \in Tabs, EnterApp(t) PROVE \A x \in Tabs : TabInOrder(x)'
  <2> DEFINE q == Landing(tabs[t].user, "dashboard")
             new == [tabs[t] EXCEPT !.entering = FALSE, !.loading = FALSE, !.page = q]
  <2>1. new.user = tabs[t].user /\ new.page = q /\ new.profile = tabs[t].profile
    BY <1>0 DEF TabStates
  <2>2. tabs' = [tabs EXCEPT ![t] = new] /\ flights' = flights /\ PasswordCalls(t)' = PasswordCalls(t)
    BY <1>5 DEF EnterApp, PasswordCalls
  <2>3. /\ tabs[t].user = Nobody => q = "login"
        /\ q \in Guarded => HasPermission(tabs[t].user, q)
        /\ q = "login" => tabs[t].user = Nobody
    BY <1>n, LandingAllowed
  <2>4. TabInOrder(t)'
    <3> HIDE DEF new, q
    <3> QED BY <2>1, <2>2, <2>3, <1>0 DEF TabInOrder
  <2> HIDE DEF new
  <2> QED BY <2>2, <2>4, <1>e
<1>6. ASSUME NEW t \in Tabs, Logout(t) \/ CheckTimeout(t) PROVE \A x \in Tabs : TabInOrder(x)'
  <2> DEFINE new == [tabs[t] EXCEPT !.user = Nobody, !.page = "login", !.profile = {}]
             sent == Flight(t, "logout", cookie)
  <2>1. new.user = Nobody /\ new.page = "login" /\ new.profile = {}
    BY <1>0 DEF TabStates
  <2>2. /\ tabs' = Unseen(t, new) /\ flights' = Abandoned(t) \cup {sent}
        /\ sent.kind # "password"
    BY <1>6 DEF Logout, CheckTimeout, LoggedOut, Flight
  <2>3. /\ \A g \in Abandoned(t) : ~(g.tab = t /\ g.kind = "password")
        /\ \A g : (g \in Abandoned(t) /\ g.tab # t) <=> (g \in flights /\ g.tab # t)
    BY <1>0, AbandonedRest
  <2>4. Landing(Nobody, "login") = "login"
    BY DEF Landing
  <2> HIDE DEF new, sent
  <2>5. /\ \A g \in flights' : ~(g.tab = t /\ g.kind = "password")
        /\ \A g : (g \in flights' /\ g.tab # t /\ g.kind = "password")
                    <=> (g \in flights /\ g.tab # t /\ g.kind = "password")
    BY <2>2, <2>3
  <2> QED BY <2>1, <2>2, <2>4, <2>5, <1>0, <1>n, TabsAnew
<1>7. ASSUME NEW t \in Tabs, Activity(t) PROVE \A x \in Tabs : TabInOrder(x)'
  BY <1>7, <1>q DEF Activity
<1>8. ASSUME NEW t \in Tabs, SessionCall(t) PROVE \A x \in Tabs : TabInOrder(x)'
  <2> DEFINE sent == Flight(t, "call", cookie)
  <2>1. flights' = flights \cup {sent} /\ sent.kind # "password" /\ tabs' = tabs
    BY <1>8 DEF SessionCall, Send, Flight
  <2> HIDE DEF sent
  <2> QED BY <2>1, <1>q
<1>9. ASSUME NEW t \in Tabs, OpenProfile(t) \/ CloseProfile(t)
      PROVE  \A x \in Tabs : TabInOrder(x)'
  <2>1. PICK c : /\ tabs' = [tabs EXCEPT ![t].profile = c] /\ flights' = flights
                 /\ tabs[t].page # "login"
                 /\ "changing" \in c <=> "changing" \in tabs[t].profile
    <3>1. CASE OpenProfile(t)
      <4>1. /\ tabs' = [tabs EXCEPT ![t].profile = tabs[t].profile \cup {"open"}]
            /\ flights' = flights /\ tabs[t].page # "login"
        BY <3>1 DEF OpenProfile, Uncovered
      <4>2. "changing" \in tabs[t].profile \cup {"open"} <=> "changing" \in tabs[t].profile
        OBVIOUS
      <4> QED BY <4>1, <4>2
    <3>2. CASE CloseProfile(t)
      <4>1. /\ tabs' = [tabs EXCEPT ![t].profile = tabs[t].profile \ {"open"}]
            /\ flights' = flights /\ tabs[t].page # "login"
        BY <3>2, <1>0 DEF CloseProfile, TabInOrder
      <4>2. "changing" \in tabs[t].profile \ {"open"} <=> "changing" \in tabs[t].profile
        OBVIOUS
      <4> QED BY <4>1, <4>2
    <3> QED BY <1>9, <3>1, <3>2
  <2> DEFINE new == [tabs[t] EXCEPT !.profile = c]
  <2>2. new.user = tabs[t].user /\ new.page = tabs[t].page /\ new.profile = c
    BY <1>0 DEF TabStates
  <2>3. tabs' = [tabs EXCEPT ![t] = new] /\ PasswordCalls(t)' = PasswordCalls(t)
    BY <2>1 DEF PasswordCalls
  <2> HIDE DEF new
  <2>4. TabInOrder(t)'
    BY <2>1, <2>2, <2>3, <1>0 DEF TabInOrder
  <2> QED BY <2>1, <2>3, <2>4, <1>e
<1>10. ASSUME NEW t \in Tabs, SubmitPassword(t) PROVE \A x \in Tabs : TabInOrder(x)'
  <2> DEFINE asked == [Flight(t, "password", cookie) EXCEPT !.of = tabs[t].user.name]
             new == [tabs[t] EXCEPT !.profile = tabs[t].profile \cup {"changing"}]
  <2>1. /\ new.user = tabs[t].user /\ new.page = tabs[t].page
        /\ new.profile = tabs[t].profile \cup {"changing"}
    BY <1>0 DEF TabStates
  <2>2. asked.tab = t /\ asked.kind = "password"
    BY DEF Flight
  <2>3. /\ tabs' = [tabs EXCEPT ![t] = new] /\ flights' = flights \cup {asked}
        /\ tabs[t].profile = {"open"}
    BY <1>10 DEF SubmitPassword, Send
  <2> HIDE DEF asked, new
  <2>4. tabs[t].page # "login" /\ PasswordCalls(t) = {}
    BY <2>3, <1>0 DEF TabInOrder
  <2>5. PasswordCalls(t)' = {asked} /\ asked \in flights'
    BY <2>2, <2>3, <2>4 DEF PasswordCalls
  <2>6. TabInOrder(t)'
    BY <2>1, <2>3, <2>4, <2>5, <1>0 DEF TabInOrder
  <2> QED BY <2>2, <2>3, <2>6, <1>e
<1>11. ASSUME NEW f \in flights, PasswordAnswered(f) PROVE \A x \in Tabs : TabInOrder(x)'
  <2> DEFINE t == f.tab
             left == tabs[t].profile \
                       (IF f.answer = "ok" THEN {"open", "changing"} ELSE {"changing"})
             new == [tabs[t] EXCEPT !.profile = left]
  <2>1. t \in Tabs /\ f \in PasswordCalls(t)
    BY <1>11, <1>0 DEF Requests, PasswordAnswered, PasswordCalls
  <2>2. new.user = tabs[t].user /\ new.page = tabs[t].page /\ new.profile = left
    BY <2>1, <1>0 DEF TabStates
  <2>3. tabs' = [tabs EXCEPT ![t] = new] /\ flights' = flights \ {f} /\ "changing" \notin left
    BY <1>11 DEF PasswordAnswered
  <2> HIDE DEF new, left
  <2>4. PasswordCalls(t) = {f} /\ tabs[t].page # "login"
    BY <2>1, <1>0 DEF TabInOrder
  <2>5. PasswordCalls(t)' = {}
    BY <2>3, <2>4 DEF PasswordCalls
  <2>6. TabInOrder(t)'
    BY <2>1, <2>2, <2>3, <2>4, <2>5, <1>0 DEF TabInOrder
  <2> QED BY <2>1, <2>3, <2>6, <1>e
<1>12. ASSUME NEW f \in flights, Serve(f) PROVE \A x \in Tabs : TabInOrder(x)'
  <2>1. \E b, c : flights' = (flights \ {f}) \cup {[f EXCEPT !.answer = b, !.as = c]}
    BY <1>12, Zenon DEF Serve
  <2>2. \A b, c : /\ [f EXCEPT !.answer = b, !.as = c].kind = f.kind
                  /\ [f EXCEPT !.answer = b, !.as = c].tab = f.tab
    BY <1>0 DEF Requests
  <2>3. tabs' = tabs
    BY <1>12 DEF Serve
  <2> QED BY <2>1, <2>2, <2>3, <1>s
<1>13. ASSUME NEW f \in flights, NEW outcome \in Outcomes, ChangePassword(f, outcome)
       PROVE  \A x \in Tabs : TabInOrder(x)'
  <2>1. /\ [f EXCEPT !.answer = outcome].kind = f.kind
        /\ [f EXCEPT !.answer = outcome].tab = f.tab
    BY <1>0 DEF Requests
  <2>2. /\ flights' = (flights \ {f}) \cup {[f EXCEPT !.answer = outcome]}
        /\ tabs' = tabs
    BY <1>13 DEF ChangePassword
  <2> QED BY <2>1, <2>2, <1>s
<1>14. ASSUME NEW f \in flights, LoginAnswered(f) PROVE \A x \in Tabs : TabInOrder(x)'
  <2> DEFINE t == f.tab
             q == Landing(f.as, tabs[t].page)
             new == [LoginEnds(t) EXCEPT !.user = f.as, !.page = q,
                                        !.entering = TRUE, !.foreign = FALSE]
  <2>1. t \in Tabs /\ tabs[t].page \in Places
    BY <1>0 DEF Requests, TabStates
  <2>2. new.user = f.as /\ new.page = q /\ new.profile = tabs[t].profile
    <3>1. LoginEnds(t) \in TabStates /\ LoginEnds(t).profile = tabs[t].profile
      BY <2>1, <1>0, LoginEndsType DEF LoginEnds, TabStates
    <3>2. \A p : \A s \in TabStates :
             LET n == [s EXCEPT !.user = f.as, !.page = p, !.entering = TRUE, !.foreign = FALSE]
             IN  n.user = f.as /\ n.page = p /\ n.profile = s.profile
      BY DEF TabStates
    <3> QED BY <3>1, <3>2
  <2>3. tabs' = Unseen(t, new) /\ flights' = Overtaken(flights \ {f}) /\ f.kind # "password"
    BY <1>14 DEF LoginAnswered
  <2>4. \A g : (g \in flights' /\ g.kind = "password") <=> (g \in flights /\ g.kind = "password")
    BY <2>3, <1>0, OvertakenNotDue
  <2>5. f.as # Nobody
    BY <1>14, <1>0, SessionAssumption DEF LoginsAreFor, LoginAnswered, Nobody
  <2>6. /\ q \in Guarded => HasPermission(f.as, q)
        /\ q = "login" => tabs[t].page = "login"
    BY <2>1, <2>5, LandingAllowed
  <2> HIDE DEF new, q
  <2>7. tabs'[t] = new /\ PasswordCalls(t)' = PasswordCalls(t)
    BY <2>1, <2>3, <2>4, <1>0, UnseenOthers DEF PasswordCalls
  <2>8. TabInOrder(t)'
    <3>1. PasswordCalls(t)' \subseteq flights'
      BY DEF PasswordCalls
    <3> QED BY <2>1, <2>2, <2>5, <2>6, <2>7, <3>1, <1>0 DEF TabInOrder
  <2>9. ASSUME NEW x \in Tabs \ {t} PROVE TabInOrder(x)'
    <3>1. \A y \in Tabs \ {t} : /\ Unseen(t, new)[y].user = tabs[y].user
                                /\ Unseen(t, new)[y].page = tabs[y].page
                                /\ Unseen(t, new)[y].profile = tabs[y].profile
                                /\ Unseen(t, new)[y].foreign = TRUE
      BY <2>1, <1>0, UnseenOthers, Zenon
    <3> QED BY <2>3, <2>4, <3>1, <1>0, TabCalls
  <2> QED BY <2>8, <2>9
<1>15. ASSUME NEW f \in flights, LoginRefused(f) PROVE \A x \in Tabs : TabInOrder(x)'
  <2> DEFINE t == f.tab
             new == LoginEnds(t)
  <2>1. t \in Tabs
    BY <1>0 DEF Requests
  <2>2. /\ new.user = tabs[t].user /\ new.page = tabs[t].page
        /\ new.profile = tabs[t].profile
    BY <2>1, <1>0 DEF LoginEnds, TabStates
  <2>3. tabs' = [tabs EXCEPT ![t] = new] /\ flights' = flights \ {f} /\ f.kind # "password"
    BY <1>15 DEF LoginRefused
  <2> HIDE DEF new
  <2>4. TabInOrder(t)'
    BY <2>1, <2>2, <2>3, <1>0, TabCalls
  <2> QED BY <2>1, <2>3, <2>4, <1>e
<1>16. ASSUME NEW f \in flights, LogoutAnswered(f) \/ LogoutLost(f) \/ CallAnswered(f)
       PROVE  \A x \in Tabs : TabInOrder(x)'
  <2>1. tabs' = tabs /\ flights' = flights \ {f} /\ f.kind # "password"
    BY <1>16 DEF LogoutAnswered, LogoutLost, CallAnswered
  <2> QED BY <2>1, <1>q
<1>17. ASSUME NEW f \in flights, CallUnauthorized(f) PROVE \A x \in Tabs : TabInOrder(x)'
  <2>1. f.tab \in Tabs
    BY <1>0 DEF Requests
  <2>2. CASE tabs[f.tab].page = "login"
    <3>1. tabs' = tabs /\ flights' = flights \ {f}
      BY <1>17, <2>2 DEF CallUnauthorized
    <3>2. f \notin PasswordCalls(f.tab)
      BY <2>1, <2>2, <1>0 DEF TabInOrder
    <3> QED BY <3>1, <3>2, <1>q DEF PasswordCalls
  <2>3. CASE tabs[f.tab].page # "login"
    <3> DEFINE new == Fresh(Nobody, "login")
    <3>1. /\ new.user = Nobody /\ new.page = Landing(Nobody, "login") /\ new.profile = {}
      BY DEF Fresh, Landing
    <3>2. tabs' = Unseen(f.tab, new) /\ flights' = {g \in flights : g.tab # f.tab}
      BY <1>17, <2>3 DEF CallUnauthorized, Dropped
    <3> HIDE DEF new
    <3> QED BY <2>1, <3>1, <3>2, <1>0, <1>n, TabsAnew
  <2> QED BY <2>2, <2>3
<1>18. ASSUME NEW u \in Users, NEW a \in [role : Roles, active : BOOLEAN], ChangeAccount(u, a)
       PROVE  \A x \in Tabs : TabInOrder(x)'
  BY <1>18, <1>q DEF ChangeAccount
<1>19. CASE CookieExpires \/ Tick
  BY <1>19, <1>q DEF CookieExpires, Tick
<1> QED BY <1>1, <1>2, <1>3, <1>4, <1>5, <1>6, <1>7, <1>8, <1>9, <1>10, <1>11, <1>12, <1>13,
           <1>14, <1>15, <1>16, <1>17, <1>18, <1>19 DEF SessionNext

-----------------------------------------------------------------------------

\* The invariant holds at every time.
LEMMA IntactAlways == SessionSpec => []IntactInv
<1>1. IntactInv /\ [SessionNext]_sessionVars => IntactInv'
  BY SessionStep, UsersStep, TabsStep DEF IntactInv
<1> QED BY <1>1, SessionInit_Intact, PTL DEF SessionSpec

LEMMA IntactShows == IntactInv => SessionIntact /\ StoredUserIsIn
<1> SUFFICES ASSUME IntactInv PROVE SessionIntact /\ StoredUserIsIn
  OBVIOUS
<1>1. UsersAgree /\ StoredUserIsIn /\ \A t \in Tabs : TabInOrder(t)
  BY DEF IntactInv
<1>2. \A t \in Tabs : /\ tabs[t].user = Nobody => tabs[t].page = "login"
                      /\ tabs[t].page \in Guarded => HasPermission(tabs[t].user, tabs[t].page)
  BY <1>1 DEF TabInOrder
<1>3. ASSUME NEW t \in Tabs
      PROVE  "changing" \in tabs[t].profile
               <=> \E f \in flights : f.tab = t /\ f.kind = "password"
  BY <1>1 DEF TabInOrder, PasswordCalls
<1> QED BY <1>1, <1>2, <1>3 DEF SessionIntact, UsersAgree, AllOut

\* Whatever tabs, logins, logouts, expiries and reloads interleave: a tab acts
\* in the name of the user it shows, unless that changed behind its back; a
\* guarded page is open only to whom it is permitted; and the profile waits
\* exactly for the answer that is to come.
THEOREM SessionStaysIntact == SessionSpec => []SessionIntact
BY IntactShows, IntactAlways, PTL

\* Reloading brings nobody back: a user in localStorage is one that a tab shows.
THEOREM StoredStaysIn == SessionSpec => []StoredUserIsIn
BY IntactShows, IntactAlways, PTL

=============================================================================
