------------------------- MODULE ClientSessionProofs -------------------------
(***************************************************************************)
(* For any accounts, roles, entry pages and number of calls, and in        *)
(* whatever order the answers come: a sign-in leads to a page that the     *)
(* user may see, a dashboard is shown only to those it is for, whatever    *)
(* waits is waiting for a call still to be heard, and an orderly tab shows *)
(* the account that the server's cookie is signed in with.                 *)
(***************************************************************************)
EXTENDS ClientSession, TLAPS

(* Every user record grants a role.                                        *)
LEMMA AvailableRolesType ==
    ASSUME NEW p \in Profile
    PROVE  /\ getAvailableRoles(p) \subseteq Role
           /\ getAvailableRoles(p) # {}
  <1>1. p.roles \subseteq Role /\ p.elections \subseteq Role
    BY DEF Profile, Role
  <1> QED
    BY <1>1 DEF getAvailableRoles, Role

(* The role of highest priority exists and is one of the available roles.  *)
LEMMA PrimaryRoleAvailable ==
    ASSUME NEW p \in Profile
    PROVE  getPrimaryRole(p) \in getAvailableRoles(p)
  <1> DEFINE A == getAvailableRoles(p)
             First(r) == r \in A /\ \A s \in A : Rank(r) <= Rank(s)
  <1>1. A \subseteq Role /\ A # {}
    BY AvailableRolesType
  <1>2. \E r \in A : \A s \in A : Rank(r) <= Rank(s)
    <2>1. CASE "super_admin" \in A
      BY <1>1, <2>1 DEF Rank, Role
    <2>2. CASE "super_admin" \notin A /\ "organization_owner" \in A
      BY <1>1, <2>2 DEF Rank, Role
    <2>3. CASE A \cap {"super_admin", "organization_owner"} = {} /\ "jury" \in A
      BY <1>1, <2>3 DEF Rank, Role
    <2>4. CASE A \cap {"super_admin", "organization_owner", "jury"} = {} /\ "manager" \in A
      BY <1>1, <2>4 DEF Rank, Role
    <2>5. CASE A \cap {"super_admin", "organization_owner", "jury", "manager"} = {}
      BY <1>1, <2>5 DEF Rank, Role
    <2> QED
      BY <2>1, <2>2, <2>3, <2>4, <2>5
  <1> QED
    BY <1>2 DEF getPrimaryRole

(* The default page of a role admits whoever holds the role.               *)
LEMMA DefaultRouteAdmits ==
    ASSUME NEW p \in Profile, NEW r \in getAvailableRoles(p)
    PROVE  /\ getRoleDefaultRoute(r) \in Page
           /\ Admits(getRoleDefaultRoute(r), p)
           /\ getRoleDefaultRoute(r) \notin {"/auth/login", "/auth/register",
                                             "/auth/verify-email", "/auth/reset-password"}
  <1>1. r \in Role
    BY AvailableRolesType
  <1> QED
    BY <1>1 DEF getRoleDefaultRoute, Admits, hasRole, requiredRoles, Role, Page,
                Dashboard, OpenPage

(* LoginLandsInside: for every user record and every page the login page   *)
(* was reached from (ProtectedRoute turns away from dashboards only), the  *)
(* page the user is sent to is shown and not answered by "/unauthorized",  *)
(* and it is not the login page again.                                     *)
THEOREM LoginLandsInside ==
    ASSUME NEW p \in Profile, NEW from \in Dashboard \cup {None}
    PROVE  /\ Destination(from, p) \in Page
           /\ Admits(Destination(from, p), p)
           /\ Destination(from, p) \notin {"/auth/login", "/auth/register",
                                           "/auth/verify-email", "/auth/reset-password"}
  <1>1. CASE Destination(from, p) = getRoleDefaultRoute(getPrimaryRole(p))
    BY <1>1, PrimaryRoleAvailable, DefaultRouteAdmits
  <1>2. CASE /\ from \in Dashboard
             /\ getRoleFromPath(from) = None \/ getRoleFromPath(from) \in getAvailableRoles(p)
             /\ Destination(from, p) = from
    <2>1. getRoleFromPath(from) \in requiredRoles(from)
      BY <1>2 DEF getRoleFromPath, requiredRoles, Dashboard
    <2>2. getRoleFromPath(from) \in getAvailableRoles(p) => Admits(from, p)
      BY <2>1 DEF Admits, hasRole
    <2>3. getRoleFromPath(from) = None => Admits(from, p)
      BY <1>2, NoneIsNoRole, <2>1 DEF Role, requiredRoles, Dashboard
    <2> QED
      BY <1>2, <2>2, <2>3 DEF Page, Dashboard, OpenPage
  <1> QED
    BY <1>1, <1>2 DEF Destination

-----------------------------------------------------------------------------
Addressee == Account \cup {None}
Users     == [account : Account, profile : Profile] \cup {None}

(* A call: what it answers is a user, and it signs an account in.          *)
IsCall(c) ==
    /\ c \in [n : {c.n}, op : {c.op}, account : Addressee, key : {c.key}, answer : {c.answer},
              at : {c.at}, mounted : {c.mounted}, heard : {c.heard}]
    /\ c.answer.user \in Users
    /\ c.op \in {"login", "verify", "link", "register"} => c.account \in Account

IsForm(f) ==
    f \in [busy : {f.busy}, token : {f.token}, email : Addressee, step : {f.step}]

(* A location.state: only dashboards send to the login page.               *)
IsNav(v) == v.from \in Dashboard \cup {None} /\ v.email \in Addressee

TypeOK ==
    /\ session \in Addressee /\ profile \in [Account -> Profile]
    /\ user \in Users /\ path \in Page /\ IsNav(nav) /\ IsForm(form)
    /\ \A c \in calls : IsCall(c)

IInv == TypeOK /\ DashboardsAdmit

-----------------------------------------------------------------------------
(* The location.states that the tab makes.                                 *)
LEMMA BlankNav == IsNav(NoNav)
  BY DEF IsNav, NoNav, Addressee

(* A guard sends to the login page from the dashboard that it guards.       *)
LEMMA FromNav == ASSUME NEW p \in Dashboard PROVE IsNav([NoNav EXCEPT !.from = p])
  BY DEF IsNav, NoNav, Addressee

(* The pages of sign-up and reset pass an address on.                       *)
LEMMA EmailNav ==
    ASSUME NEW a \in Addressee, NEW b, NEW k
    PROVE  /\ IsNav([NoNav EXCEPT !.email = a])
           /\ IsNav([NoNav EXCEPT !.email = a, !.token = k])
           /\ IsNav([NoNav EXCEPT !.email = a, !.resend = b])
  BY DEF IsNav, NoNav, Addressee

(* The forms that its pages have.                                          *)
LEMMA BlankForm == ASSUME NEW p PROVE IsForm(FreshForm(p))
  BY DEF IsForm, FreshForm, Addressee

(* A form waits for its call, or not any more.                              *)
LEMMA FormBusy == ASSUME NEW f, IsForm(f), NEW b PROVE IsForm([f EXCEPT !.busy = b])
  BY DEF IsForm

(* A page with several steps goes to another one.                           *)
LEMMA FormStep == ASSUME NEW f, IsForm(f), NEW s PROVE IsForm([f EXCEPT !.step = s])
  BY DEF IsForm

(* A code that was accepted is kept for the next step.                      *)
LEMMA FormToken ==
    ASSUME NEW f, IsForm(f), NEW s, NEW k PROVE IsForm([f EXCEPT !.step = s, !.token = k])
  BY DEF IsForm

(* An address that was given is kept for the next step.                     *)
LEMMA FormEmail ==
    ASSUME NEW f, IsForm(f), NEW s, NEW a \in Addressee
    PROVE  IsForm([f EXCEPT !.step = s, !.email = a])
  BY DEF IsForm

(* Its calls.                                                              *)
LEMMA NewCallType ==
    ASSUME NEW op, NEW a \in Addressee, NEW k, NEW m,
           op \in {"login", "verify", "link", "register"} => a \in Account
    PROVE  IsCall(NewCall(op, a, k)) /\ IsCall([NewCall(op, a, k) EXCEPT !.mounted = m])
  BY DEF IsCall, NewCall, Pending, Answer, Users

(* A call whose page is left is not heard, or no longer mounted.            *)
LEMMA CallLeft ==
    ASSUME NEW c, IsCall(c)
    PROVE  IsCall([c EXCEPT !.heard = FALSE]) /\ IsCall([c EXCEPT !.mounted = FALSE])
  BY DEF IsCall

(* The server answers a call with a user, or with none.                     *)
LEMMA CallAnswered ==
    ASSUME NEW c, IsCall(c), NEW n, NEW s, NEW u \in Users
    PROVE  IsCall([c EXCEPT !.answer = Answer(s, u), !.at = n])
  BY DEF IsCall, Answer

-----------------------------------------------------------------------------
(* The router: whatever page is asked for, the one that it lands on is     *)
(* shown to whom it is for.                                                *)
LEMMA LandingAdmits ==
    ASSUME NEW p \in Page, NEW v, IsNav(v), NEW u \in Users, NEW ld
    PROVE  /\ Landing(p, v, u, ld).path \in Page
           /\ IsNav(Landing(p, v, u, ld).nav)
           /\ Landing(p, v, u, ld).path \in Dashboard =>
                ld \/ (u # None /\ Admits(Landing(p, v, u, ld).path, u.profile))
  <1>1. CASE p = "/auth/login" /\ u # None
    <2>1. u.profile \in Profile /\ v.from \in Dashboard \cup {None}
      BY <1>1 DEF Users, IsNav
    <2>2. Landing(p, v, u, ld) = [path |-> Destination(v.from, u.profile), nav |-> NoNav]
      BY <1>1 DEF Landing
    <2> QED
      BY <1>1, <2>1, <2>2, LoginLandsInside, BlankNav
  <1>2. CASE p \in {"/auth/register", "/auth/verify-email"} /\ u # None
    <2>1. u.profile \in Profile
      BY <1>2 DEF Users
    <2> DEFINE home == getRoleDefaultRoute(getPrimaryRole(u.profile))
    <2>2. home \in Page /\ Admits(home, u.profile)
      BY <2>1, PrimaryRoleAvailable, DefaultRouteAdmits
    <2>3. Landing(p, v, u, ld) = [path |-> home, nav |-> NoNav]
      BY <1>2 DEF Landing
    <2> HIDE DEF home
    <2> QED
      BY <1>2, <2>2, <2>3, BlankNav
  <1>3. CASE p = "/auth/reset-password" /\ v.email = None
    <2>1. Landing(p, v, u, ld) = [path |-> "/auth/forgot-password", nav |-> NoNav]
      BY <1>3 DEF Landing
    <2> QED
      BY <2>1, BlankNav DEF Page, OpenPage, Dashboard
  <1>4. CASE /\ ~(p = "/auth/login" /\ u # None)
             /\ ~(p \in {"/auth/register", "/auth/verify-email"} /\ u # None)
             /\ ~(p = "/auth/reset-password" /\ v.email = None)
    <2>1. Landing(p, v, u, ld) = ProtectedRoute(p, v, u, ld)
      BY <1>4 DEF Landing
    <2>2. CASE requiredRoles(p) = {} \/ ld
      <3>1. ProtectedRoute(p, v, u, ld) = [path |-> p, nav |-> v]
        BY <2>2 DEF ProtectedRoute
      <3>2. p \in Dashboard => ld
        BY <2>2 DEF Dashboard, requiredRoles
      <3> QED
        BY <2>1, <3>1, <3>2
    <2>3. CASE ~(requiredRoles(p) = {} \/ ld) /\ u = None
      <3>1. ProtectedRoute(p, v, u, ld) =
              [path |-> "/auth/login", nav |-> [NoNav EXCEPT !.from = p]]
        BY <2>3 DEF ProtectedRoute
      <3>2. p \in Dashboard
        BY <2>3 DEF requiredRoles, Page, OpenPage, Dashboard
      <3> QED
        BY <2>1, <3>1, <3>2, FromNav DEF Page, OpenPage, Dashboard
    <2>4. CASE /\ ~(requiredRoles(p) = {} \/ ld) /\ u # None
               /\ hasRole(u.profile, requiredRoles(p))
      <3>1. ProtectedRoute(p, v, u, ld) = [path |-> p, nav |-> v]
        BY <2>4 DEF ProtectedRoute
      <3> QED
        BY <2>1, <2>4, <3>1 DEF Admits
    <2>5. CASE /\ ~(requiredRoles(p) = {} \/ ld) /\ u # None
               /\ ~hasRole(u.profile, requiredRoles(p))
      <3>1. ProtectedRoute(p, v, u, ld) = [path |-> "/unauthorized", nav |-> NoNav]
        BY <2>5 DEF ProtectedRoute
      <3> QED
        BY <2>1, <3>1, BlankNav DEF Page, OpenPage, Dashboard
    <2> QED
      BY <2>2, <2>3, <2>4, <2>5
  <1> QED
    BY <1>1, <1>2, <1>3, <1>4

(* What the tab shows, it shows by the router.                             *)
LEMMA ShowStep ==
    ASSUME TypeOK, session' \in Addressee, profile' \in [Account -> Profile],
           NEW p \in Page, NEW v, IsNav(v), NEW u \in Users, NEW ld, NEW f, IsForm(f),
           NEW cs, \A c \in cs : IsCall(c), Show(p, v, u, ld, f, cs)
    PROVE  IInv'
  <1> DEFINE l == Landing(p, v, u, ld)
             rest == IF l.path = path THEN cs ELSE Unmount(cs)
  <1>1. /\ user' = u /\ loading' = ld /\ path' = l.path /\ nav' = l.nav
        /\ form' = f \/ form' = FreshForm(l.path)
        /\ calls' = rest \/ calls' = rest \cup {NewCall("resend", l.nav.email, 0)}
    BY DEF Show
  <1>2. /\ l.path \in Page /\ IsNav(l.nav)
        /\ l.path \in Dashboard => ld \/ (u # None /\ Admits(l.path, u.profile))
    BY LandingAdmits
  <1>3. \A c \in rest : IsCall(c)
    BY CallLeft DEF Unmount
  <1>4. IsCall(NewCall("resend", l.nav.email, 0))
    BY <1>2, NewCallType DEF IsNav
  <1> HIDE DEF l, rest
  <1>5. \A c \in calls' : IsCall(c)
    BY <1>1, <1>3, <1>4
  <1>6. IsForm(form') /\ IsNav(nav')
    BY <1>1, <1>2, BlankForm
  <1>7. TypeOK'
    BY <1>1, <1>2, <1>5, <1>6 DEF TypeOK, IsForm, IsNav, IsCall
  <1>8. DashboardsAdmit'
    BY <1>1, <1>2 DEF DashboardsAdmit
  <1> QED
    BY <1>7, <1>8 DEF IInv

-----------------------------------------------------------------------------
(* The tab starts behind the spinner of its first checkAuth.               *)
LEMMA InitIInv == Init => IInv
  <1> SUFFICES ASSUME Init PROVE IInv
    OBVIOUS
  <1>1. session \in Addressee /\ profile \in [Account -> Profile] /\ user \in Users
    BY SessionConstants DEF Init, Addressee, Users
  <1>2. /\ path \in Page /\ IsNav(nav) /\ IsForm(form)
        /\ \A c \in calls : IsCall(c)
    <2>1. IsCall(NewCall("check", None, 0))
      BY NewCallType DEF Addressee
    <2>2. ASSUME NEW p \in Entered, path = p, nav = NoNav, form = FreshForm(p),
                 calls = {} \cup {NewCall("check", None, 0)}
          PROVE  <1>2
      BY <2>1, <2>2, SessionConstants, BlankNav, BlankForm
    <2>3. ASSUME NEW a \in Account, path = "/auth/verify-email",
                 nav = [NoNav EXCEPT !.email = a],
                 form = [FreshForm("/auth/verify-email") EXCEPT !.step = "link"],
                 calls = {NewCall("link", a, 1)} \cup {NewCall("check", None, 0)}
          PROVE  <1>2
      <3>1. IsNav(nav) /\ IsForm(form)
        BY <2>3, EmailNav, BlankForm, FormStep DEF Addressee
      <3>2. IsCall(NewCall("link", a, 1))
        BY NewCallType DEF Addressee
      <3> QED
        BY <2>1, <2>3, <3>1, <3>2 DEF Page, OpenPage
    <2>4. ASSUME NEW a \in Account, path = "/auth/reset-password",
                 nav = [NoNav EXCEPT !.email = a, !.token = 1],
                 form = FreshForm("/auth/reset-password"),
                 calls = {} \cup {NewCall("check", None, 0)}
          PROVE  <1>2
      <3>1. IsNav(nav) /\ IsForm(form)
        BY <2>4, EmailNav, BlankForm DEF Addressee
      <3> QED
        BY <2>1, <2>4, <3>1 DEF Page, OpenPage
    <2> QED
      BY <2>2, <2>3, <2>4 DEF Init
  <1>3. DashboardsAdmit
    BY DEF Init, DashboardsAdmit
  <1> QED
    BY <1>1, <1>2, <1>3 DEF IInv, TypeOK

-----------------------------------------------------------------------------
(* The server answers: the tab has not heard it yet.                       *)
LEMMA ServedStep ==
    ASSUME IInv, NEW c \in calls, NEW s, NEW u \in Users, Served(c, Answer(s, u)),
           session' \in Addressee, profile' \in [Account -> Profile]
    PROVE  IInv'
  <1>1. UNCHANGED tab /\ \A d \in calls' : IsCall(d)
    <2>1. IsCall([c EXCEPT !.answer = Answer(s, u), !.at = Latest + 1])
      BY CallAnswered DEF IInv, TypeOK
    <2> QED
      BY <2>1 DEF Served, IInv, TypeOK
  <1>2. TypeOK'
    BY <1>1 DEF tab, IInv, TypeOK, IsNav, IsForm, IsCall
  <1>3. DashboardsAdmit'
    BY <1>1 DEF tab, IInv, DashboardsAdmit
  <1> QED
    BY <1>2, <1>3 DEF IInv

(* A user record that the server sends.                                    *)
LEMMA RecordType ==
    ASSUME NEW a \in Account, profile' \in [Account -> Profile]
    PROVE  Record(a) \in Users
  BY DEF Record, Users

(* Whatever the server answers, it changes nothing that the tab shows.      *)
LEMMA ServeStep ==
    ASSUME IInv, NEW c \in calls, Serve(c)
    PROVE  IInv'
  <1>1. /\ session \in Addressee /\ profile \in [Account -> Profile] /\ None \in Users
        /\ c.op \in {"login", "verify", "link", "register"} => c.account \in Account
    BY DEF IInv, TypeOK, IsCall, Users
  <1>2. CASE ServeMe(c)
    <2>1. profile' = profile /\ session' = session
      BY <1>2 DEF ServeMe, server
    <2>2. CASE session = None
      BY <1>1, <1>2, <2>1, <2>2, ServedStep DEF ServeMe
    <2>3. CASE session # None
      <3>1. Record(session) \in Users
        BY <1>1, <2>1, <2>3, RecordType DEF Addressee
      <3> QED
        BY <1>1, <1>2, <2>1, <2>3, <3>1, ServedStep DEF ServeMe
    <2> QED
      BY <2>2, <2>3
  <1>3. CASE ServeLogin(c)
    <2>1. profile' = profile /\ session' \in Addressee /\ Record(c.account) \in Users
      BY <1>1, <1>3, RecordType DEF ServeLogin, Addressee
    <2>2. PICK s \in {"401", "403", "refused", "ok"}, u \in Users : Served(c, Answer(s, u))
      BY <1>1, <1>3, <2>1 DEF ServeLogin
    <2> QED
      BY <1>1, <2>1, <2>2, ServedStep
  <1>4. CASE ServeVerify(c)
    <2>1. profile' = profile /\ session' \in Addressee /\ Record(c.account) \in Users
      BY <1>1, <1>4, RecordType DEF ServeVerify, Addressee
    <2>2. PICK s \in {"refused", "ok"}, u \in Users : Served(c, Answer(s, u))
      BY <1>1, <1>4, <2>1 DEF ServeVerify
    <2> QED
      BY <1>1, <2>1, <2>2, ServedStep
  <1>5. CASE ServeCreate(c)
    <2>1. session' = session
      BY <1>5 DEF ServeCreate
    <2>2. profile' \in [Account -> Profile]
      <3>1. CASE profile' = profile
        BY <1>1, <3>1
      <3>2. CASE session # None /\ profile' = [profile EXCEPT ![session].organizations = TRUE]
        <4>1. session \in Account /\ profile[session] \in Profile
          BY <1>1, <3>2 DEF Addressee
        <4>2. [profile[session] EXCEPT !.organizations = TRUE] \in Profile
          BY <4>1 DEF Profile
        <4> QED
          BY <1>1, <3>2, <4>1, <4>2
      <3> QED
        BY <1>5, <3>1, <3>2 DEF ServeCreate
    <2>3. PICK s \in {"401", "403", "refused", "ok"} : Served(c, Answer(s, None))
      BY <1>5 DEF ServeCreate
    <2> QED
      BY <1>1, <2>1, <2>2, <2>3, ServedStep
  <1>6. CASE \/ ServeLogout(c) \/ ServeProfile(c) \/ ServeRegister(c) \/ ServeResend(c)
             \/ ServeForgot(c) \/ ServeCheckCode(c) \/ ServeReset(c)
    <2>1. profile' = profile /\ session' \in Addressee
      BY <1>1, <1>6 DEF ServeLogout, ServeProfile, ServeRegister, ServeResend, ServeForgot,
                        ServeCheckCode, ServeReset, server, Addressee
    <2>2. PICK s \in {"401", "403", "refused", "ok"} : Served(c, Answer(s, None))
      BY <1>6 DEF ServeLogout, ServeProfile, ServeRegister, ServeResend, ServeForgot,
                  ServeCheckCode, ServeReset
    <2> QED
      BY <1>1, <2>1, <2>2, ServedStep
  <1> QED
    BY <1>2, <1>3, <1>4, <1>5, <1>6 DEF Serve

-----------------------------------------------------------------------------
(* The calls that remain when one has ended, or gives way to another.      *)
LEMMA RemainingCalls ==
    ASSUME TypeOK, NEW c \in calls, NEW op \in {"refresh", "open"}
    PROVE  /\ \A d \in Others(c) : IsCall(d)
           /\ \A d \in Then(c, op) : IsCall(d)
  <1>1. c.account \in Addressee /\ IsCall([c EXCEPT !.heard = FALSE])
    BY CallLeft DEF TypeOK, IsCall
  <1>2. \A d \in Others(c) : IsCall(d)
    BY <1>1 DEF Others, TypeOK
  <1>3. IsCall([NewCall(op, c.account, 0) EXCEPT !.mounted = c.mounted])
    BY <1>1, NewCallType
  <1> QED
    BY <1>2, <1>3 DEF Then

(* The form when a call of its page has ended.                             *)
LEMMA EndedType == ASSUME TypeOK, NEW c, NEW g, IsForm(g) PROVE IsForm(Ended(c, g))
  BY FormBusy DEF Ended, TypeOK

(* Whatever answer arrives, and whenever, what the tab then shows is shown  *)
(* by the router.                                                           *)
LEMMA HearStep ==
    ASSUME IInv, NEW c \in calls, NEW s \in Status, Hear(c, s)
    PROVE  IInv'
  <1>1. /\ TypeOK /\ session' \in Addressee /\ profile' \in [Account -> Profile]
        /\ path \in Page /\ IsNav(nav) /\ IsForm(form) /\ user \in Users
    <2>1. UNCHANGED server
      BY DEF Hear, Arrives, HearCheck, HearRefresh, HearOpen, HearLogin, HearLogout, HearProfile,
             HearCreate, HearRegister, HearVerify, HearLink, HearResend, HearForgot,
             HearCheckCode, HearReset
    <2> QED
      BY <2>1 DEF server, IInv, TypeOK
  <1>2. /\ c.answer.user \in Users /\ c.account \in Addressee
        /\ None \in Users /\ Cleared(s) \in Users
    BY <1>1 DEF TypeOK, IsCall, Users, Cleared
  <1>3. /\ \A d \in Others(c) : IsCall(d)
        /\ \A d \in Then(c, "refresh") : IsCall(d)
        /\ \A d \in Then(c, "open") : IsCall(d)
    BY <1>1, RemainingCalls
  <1>4. {"/org", "/", "/auth/verify-email", "/auth/reset-password"} \subseteq Page
    BY DEF Page, Dashboard, OpenPage
  <1>5. IsForm(Ended(c, form))
    BY <1>1, EndedType
  <1>6. CASE HearCheck(c, s) \/ HearRefresh(c, s)
    BY <1>1, <1>2, <1>3, <1>5, <1>6, ShowStep DEF HearCheck, HearRefresh
  <1>7. CASE HearOpen(c, s)
    BY <1>1, <1>2, <1>3, <1>4, <1>7, BlankNav, BlankForm, ShowStep DEF HearOpen
  <1>8. CASE HearLogin(c, s)
    <2>1. IsNav([NoNav EXCEPT !.email = c.account, !.resend = TRUE])
      BY <1>2, EmailNav
    <2> QED
      BY <1>1, <1>2, <1>3, <1>4, <1>5, <1>8, <2>1, ShowStep DEF HearLogin
  <1>9. CASE HearLogout(c, s)
    BY <1>1, <1>2, <1>3, <1>4, <1>9, BlankNav, ShowStep DEF HearLogout
  <1>10. CASE HearProfile(c, s) \/ HearCreate(c, s)
    BY <1>1, <1>2, <1>3, <1>5, <1>10, ShowStep DEF HearProfile, HearCreate
  <1>11. CASE HearRegister(c, s)
    <2>1. IsNav([NoNav EXCEPT !.email = c.account])
      BY <1>2, EmailNav
    <2> QED
      BY <1>1, <1>3, <1>4, <1>5, <1>11, <2>1, ShowStep DEF HearRegister
  <1>12. CASE HearVerify(c, s)
    BY <1>1, <1>2, <1>3, <1>5, <1>12, ShowStep DEF HearVerify
  <1>13. CASE HearLink(c, s)
    <2>1. IsForm([form EXCEPT !.step = "form"])
      BY <1>1, FormStep
    <2> QED
      BY <1>1, <1>2, <1>3, <1>13, <2>1, ShowStep DEF HearLink
  <1>14. CASE HearResend(c, s)
    BY <1>1, <1>3, <1>14, ShowStep DEF HearResend
  <1>15. CASE HearForgot(c, s)
    <2>1. IsForm([form EXCEPT !.step = "otp", !.email = c.account])
      BY <1>1, <1>2, FormEmail
    <2>2. IsForm(Ended(c, [form EXCEPT !.step = "otp", !.email = c.account]))
      BY <1>1, <2>1, EndedType
    <2> QED
      BY <1>1, <1>3, <1>15, <2>2, ShowStep DEF HearForgot
  <1>16. CASE HearCheckCode(c, s)
    <2>1. IsNav([NoNav EXCEPT !.email = c.account, !.token = c.key])
      BY <1>2, EmailNav
    <2>2. IsForm([form EXCEPT !.step = "password", !.token = c.key])
      BY <1>1, FormToken
    <2>3. IsForm(Ended(c, [form EXCEPT !.step = "password", !.token = c.key]))
      BY <1>1, <2>2, EndedType
    <2> QED
      BY <1>1, <1>3, <1>4, <1>5, <1>16, <2>1, <2>3, ShowStep DEF HearCheckCode
  <1>17. CASE HearReset(c, s)
    <2>1. IsForm([form EXCEPT !.step = "success"])
      BY <1>1, FormStep
    <2>2. IsForm(Ended(c, IF s = "ok" THEN [form EXCEPT !.step = "success"] ELSE form))
      BY <1>1, <2>1, EndedType
    <2> QED
      BY <1>1, <1>3, <1>17, <2>2, ShowStep DEF HearReset
  <1> QED
    BY <1>6, <1>7, <1>8, <1>9, <1>10, <1>11, <1>12, <1>13, <1>14, <1>15, <1>16, <1>17 DEF Hear

-----------------------------------------------------------------------------
(* The user makes a call: only the form and the calls change.              *)
LEMMA IssueStep ==
    ASSUME IInv, NEW op, NEW a \in Addressee, NEW k, NEW f, IsForm(f),
           op \in {"login", "verify", "link", "register"} => a \in Account,
           Issue(op, a, k, f)
    PROVE  IInv'
  <1>1. IsCall(NewCall(op, a, k))
    BY NewCallType
  <1>2. /\ UNCHANGED <<session, profile, user, loading, path, nav>>
        /\ form' = f /\ calls' = calls \cup {NewCall(op, a, k)}
    BY DEF Issue, server
  <1>3. TypeOK'
    BY <1>1, <1>2 DEF IInv, TypeOK, IsNav, IsForm, IsCall
  <1>4. DashboardsAdmit'
    BY <1>2 DEF IInv, DashboardsAdmit
  <1> QED
    BY <1>3, <1>4 DEF IInv

(* The user goes to another page, by a link, back, or as the timer runs.   *)
LEMMA MoveStep ==
    ASSUME IInv, (\E p \in Linked : Visit(p)) \/ handleGoBack \/ SuccessTimer
    PROVE  IInv'
  <1>1. PICK p \in Page : Show(p, NoNav, user, loading, form, calls)
    <2>1. CASE \E p \in Linked : Visit(p)
      BY <2>1, SessionConstants DEF Visit
    <2>2. CASE handleGoBack
      <3>1. user # None => getRoleDefaultRoute(getPrimaryRole(user.profile)) \in Page
        BY PrimaryRoleAvailable, DefaultRouteAdmits DEF IInv, TypeOK, Users
      <3>2. "/" \in Page
        BY DEF Page, OpenPage
      <3> QED
        BY <2>2, <3>1, <3>2 DEF handleGoBack
    <2>3. CASE SuccessTimer
      <3>1. "/auth/login" \in Page
        BY DEF Page, OpenPage
      <3> QED
        BY <2>3, <3>1 DEF SuccessTimer
    <2> QED
      BY <2>1, <2>2, <2>3
  <1>2. UNCHANGED <<session, profile>>
    BY DEF Visit, handleGoBack, SuccessTimer, server
  <1> QED
    BY <1>1, <1>2, BlankNav, ShowStep DEF IInv, TypeOK

(* What the user does on a page either calls the server or moves to         *)
(* another page.                                                            *)
LEMMA UserStep ==
    ASSUME IInv, User
    PROVE  IInv'
  <1>1. /\ IsForm(form) /\ IsForm(Busy) /\ nav.email \in Addressee /\ form.email \in Addressee
        /\ None \in Addressee /\ \A a \in Account : a \in Addressee
    BY FormBusy DEF Busy, IInv, TypeOK, IsForm, IsNav, Addressee
  <1>2. ASSUME NEW a \in Account, NEW key \in {0, 1}, SubmitLogin(a, key) PROVE IInv'
    BY <1>1, <1>2, IssueStep DEF SubmitLogin
  <1>3. ASSUME NEW a \in Account, SubmitRegister(a) \/ SubmitEmail(a) PROVE IInv'
    BY <1>1, <1>3, IssueStep DEF SubmitRegister, SubmitEmail
  <1>4. ASSUME NEW right \in BOOLEAN, SubmitOtp(right) PROVE IInv'
    <2>1. nav.email \in Account
      BY <1>1, <1>4 DEF SubmitOtp, Addressee
    <2> QED
      BY <1>1, <1>4, <2>1, IssueStep DEF SubmitOtp
  <1>5. ASSUME NEW right \in BOOLEAN, SubmitResetOtp(right) PROVE IInv'
    BY <1>1, <1>5, IssueStep DEF SubmitResetOtp
  <1>6. CASE AskResend \/ AskAgain \/ SubmitPassword
    BY <1>1, <1>6, IssueStep DEF AskResend, AskAgain, SubmitPassword
  <1>7. CASE SubmitCreate \/ SaveProfile \/ ClickLogout
    BY <1>1, <1>7, IssueStep DEF SubmitCreate, SaveProfile, ClickLogout
  <1> QED
    BY <1>2, <1>3, <1>4, <1>5, <1>6, <1>7, MoveStep DEF User

(* A reload, or another session behind the cookie.                         *)
LEMMA FaultStep ==
    ASSUME IInv, Reload \/ \E a \in Account \cup {None} : SessionChanges(a)
    PROVE  IInv'
  <1>1. CASE Reload
    <2>1. /\ UNCHANGED <<session, profile, path, nav>>
          /\ user' = None /\ loading' = TRUE /\ form' = FreshForm(path)
      BY <1>1 DEF Reload, server
    <2>2. \A c \in calls' : IsCall(c)
      <3>1. IsCall(NewCall("check", None, 0))
        BY NewCallType DEF Addressee
      <3>2. \A c \in calls : IsCall([c EXCEPT !.heard = FALSE])
        BY CallLeft DEF IInv, TypeOK
      <3> QED
        BY <1>1, <3>1, <3>2 DEF Reload
    <2>3. IsForm(FreshForm(path)) /\ None \in Users
      BY BlankForm DEF Users
    <2>4. TypeOK'
      BY <2>1, <2>2, <2>3 DEF IInv, TypeOK, IsNav, IsForm, IsCall
    <2> QED
      BY <2>1, <2>4 DEF IInv, DashboardsAdmit
  <1>2. ASSUME NEW a \in Account \cup {None}, SessionChanges(a) PROVE IInv'
    <2>1. session' \in Addressee /\ UNCHANGED <<profile, user, loading, path, nav, form, calls>>
      BY <1>2 DEF SessionChanges, Addressee, tab
    <2> QED
      BY <2>1 DEF IInv, TypeOK, IsNav, IsForm, IsCall, DashboardsAdmit
  <1> QED
    BY <1>1, <1>2

(* Every step keeps the invariant.                                         *)
LEMMA NextIInv == IInv /\ [Next]_vars => IInv'
  <1> SUFFICES ASSUME IInv, [Next]_vars PROVE IInv'
    OBVIOUS
  <1>1. CASE UNCHANGED vars
    BY <1>1 DEF vars, server, tab, IInv, TypeOK, IsNav, IsForm, IsCall, DashboardsAdmit
  <1> QED
    BY <1>1, UserStep, ServeStep, HearStep, MoveStep, FaultStep DEF Next

(* DashboardsAreGuarded: whatever sequence of sign-ins, expiries, reloads  *)
(* and redirections led there, and in whatever order the answers came, a   *)
(* dashboard is shown to a user with one of its roles, or behind the       *)
(* spinner.                                                                *)
THEOREM DashboardsAreGuarded == Spec => []DashboardsAdmit
  <1>1. IInv => DashboardsAdmit
    BY DEF IInv
  <1>2. Spec => []IInv
    BY InitIInv, NextIInv, PTL DEF Spec
  <1> QED
    BY <1>1, <1>2, PTL

-----------------------------------------------------------------------------
(* The calls whose page waits for them with its button disabled.           *)
Awaited == {"login", "register", "verify", "forgot", "precheck", "checkcode", "reset",
            "create", "profile", "refresh", "open"}

(* A page's calls that send the tab to another page.                       *)
OfItsPage(c) ==
    c.mounted => /\ c.op = "login" => path = "/auth/login"
                 /\ c.op = "register" => path = "/auth/register"
                 /\ c.op = "precheck" => path = "/auth/forgot-password"

Checked(ld, cs) == ld => \E c \in cs : c.op = "check" /\ c.heard
Waits(f, cs)    == f.busy => \E c \in cs : c.mounted /\ c.heard /\ c.op \in Awaited
Addressed(c)    == c.op \in {"forgot", "precheck"} => c.account \in Account
CodeAsked(p, f) == p = "/auth/forgot-password" /\ f.step = "otp" => f.email \in Account

WaitsOK ==
    /\ Checked(loading, calls) /\ Waits(form, calls)
    /\ \A c \in calls : OfItsPage(c) /\ Addressed(c)
    /\ CodeAsked(path, form)

(* What the tab shows waits for a call, if it did when it stays.           *)
LEMMA ShowWaits ==
    ASSUME NEW p, NEW v, NEW u, NEW ld, NEW f, NEW cs, Show(p, v, u, ld, f, cs),
           \A c \in cs : IsCall(c) /\ OfItsPage(c) /\ Addressed(c),
           Checked(ld, cs),
           Landing(p, v, u, ld).path = path => Waits(f, cs) /\ CodeAsked(path, f)
    PROVE  WaitsOK'
  <1> DEFINE l == Landing(p, v, u, ld)
             rest == IF l.path = path THEN cs ELSE Unmount(cs)
             k == NewCall("resend", l.nav.email, 0)
  <1>1. /\ loading' = ld /\ path' = l.path
        /\ form' = IF l.path = path THEN f ELSE FreshForm(l.path)
        /\ rest \subseteq calls' /\ calls' \subseteq rest \cup {k}
    BY DEF Show
  <1>2. k.op = "resend"
    BY DEF NewCall
  <1>3. \A d \in Unmount(cs) : ~d.mounted /\ Addressed(d)
    <2>1. ASSUME NEW c \in cs, NEW d, d = [c EXCEPT !.mounted = FALSE]
          PROVE  ~d.mounted /\ d.op = c.op /\ d.account = c.account
      BY <2>1 DEF IsCall
    <2> QED
      BY <2>1 DEF Unmount, Addressed
  <1>4. Checked(loading', calls')
    <2>1. ASSUME ld, l.path # path PROVE \E d \in Unmount(cs) : d.op = "check" /\ d.heard
      <3>1. PICK c \in cs : c.op = "check" /\ c.heard
        BY <2>1 DEF Checked
      <3>2. [c EXCEPT !.mounted = FALSE] \in Unmount(cs)
        BY DEF Unmount
      <3>3. /\ [c EXCEPT !.mounted = FALSE].op = "check"
            /\ [c EXCEPT !.mounted = FALSE].heard
        BY <3>1 DEF IsCall
      <3> QED
        BY <3>2, <3>3
    <2> QED
      BY <1>1, <2>1 DEF Checked
  <1>5. Waits(form', calls')
    BY <1>1 DEF Waits, FreshForm
  <1>6. CodeAsked(path', form')
    BY <1>1 DEF CodeAsked, FreshForm
  <1>7. \A d \in calls' : OfItsPage(d)' /\ Addressed(d)
    <2>1. CASE l.path = path
      BY <1>1, <1>2, <2>1 DEF OfItsPage, Addressed
    <2>2. CASE l.path # path
      BY <1>1, <1>2, <1>3, <2>2 DEF OfItsPage, Addressed
    <2> QED
      BY <2>1, <2>2
  <1> QED
    BY <1>4, <1>5, <1>6, <1>7 DEF WaitsOK, Addressed, Checked, Waits, CodeAsked, OfItsPage

(* The pages that a sign-in, a sign-up and an accepted code lead to are     *)
(* not the ones that made these calls.                                      *)
LEMMA LandsElsewhere ==
    ASSUME NEW u \in Users, NEW ld, NEW v
    PROVE  /\ Landing("/auth/verify-email", v, u, ld).path \notin {"/auth/login", "/auth/register"}
           /\ v.email # None =>
                Landing("/auth/reset-password", v, u, ld).path = "/auth/reset-password"
  <1>1. CASE u # None
    <2>1. Landing("/auth/verify-email", v, u, ld).path =
            getRoleDefaultRoute(getPrimaryRole(u.profile))
      BY <1>1 DEF Landing
    <2>2. u.profile \in Profile
      BY <1>1 DEF Users
    <2> QED
      BY <2>1, <2>2, PrimaryRoleAvailable, DefaultRouteAdmits
         DEF Landing, ProtectedRoute, requiredRoles
  <1>2. CASE u = None
    BY <1>2 DEF Landing, ProtectedRoute, requiredRoles
  <1> QED
    BY <1>1, <1>2

(* The tab starts with its first check, and with nothing disabled.          *)
LEMMA InitWaits == Init => WaitsOK
  <1> SUFFICES ASSUME Init PROVE WaitsOK
    OBVIOUS
  <1>1. \/ calls = {NewCall("check", None, 0)}
        \/ \E a \in Account : calls = {NewCall("link", a, 1), NewCall("check", None, 0)}
    BY DEF Init
  <1>2. /\ NewCall("check", None, 0) \in calls
        /\ \A c \in calls : c.op \in {"check", "link"}
    BY <1>1 DEF NewCall
  <1>3. ~form.busy /\ (path = "/auth/forgot-password" => form.step # "otp")
    <2>1. \/ form = FreshForm(path)
          \/ form = [FreshForm(path) EXCEPT !.step = "link"]
      BY DEF Init
    <2> QED
      BY <2>1 DEF FreshForm
  <1>4. Checked(loading, calls)
    BY <1>2 DEF Checked, NewCall
  <1> QED
    BY <1>2, <1>3, <1>4 DEF WaitsOK, Waits, OfItsPage, Addressed, CodeAsked

(* The server's answer leaves the call where it is: the tab has not heard   *)
(* it yet.                                                                  *)
LEMMA ServeWaits ==
    ASSUME IInv, WaitsOK, NEW c \in calls, Serve(c)
    PROVE  WaitsOK'
  <1>1. PICK ans : Served(c, ans)
    BY DEF Serve, ServeMe, ServeLogin, ServeLogout, ServeProfile, ServeCreate, ServeRegister,
           ServeVerify, ServeResend, ServeForgot, ServeCheckCode, ServeReset
  <1> DEFINE a == [c EXCEPT !.answer = ans, !.at = Latest + 1]
  <1>2. /\ UNCHANGED <<loading, path, form>>
        /\ calls' = (calls \ {c}) \cup IF c.heard THEN {a} ELSE {}
    BY <1>1 DEF Served, tab
  <1>3. /\ a.op = c.op /\ a.account = c.account
        /\ a.mounted = c.mounted /\ a.heard = c.heard
    BY DEF IInv, TypeOK, IsCall
  <1> HIDE DEF a
  <1>4. Checked(loading', calls') /\ Waits(form', calls')
    BY <1>2, <1>3 DEF WaitsOK, Checked, Waits
  <1>5. \A d \in calls' : OfItsPage(d)' /\ Addressed(d)
    BY <1>2, <1>3 DEF WaitsOK, OfItsPage, Addressed
  <1> QED
    BY <1>2, <1>4, <1>5 DEF WaitsOK, Checked, Waits, OfItsPage, Addressed, CodeAsked

(* When call c has ended, the other calls go on, and the form waits for     *)
(* one of them, for the one that takes over from c, or not any more.        *)
LEMMA StillWaits ==
    ASSUME IInv, WaitsOK, NEW c \in calls, NEW g, IsForm(g), NEW op \in {"refresh", "open"}
    PROVE  /\ \A d \in Then(c, op) : IsCall(d) /\ OfItsPage(d) /\ Addressed(d)
           /\ Others(c) \subseteq Then(c, op)
           /\ c.op # "check" => Checked(loading, Others(c)) /\ Checked(loading, Then(c, op))
           /\ ~c.mounted \/ c.op \notin Awaited => Waits(form, Others(c))
           /\ Waits(form, Then(c, op))
           /\ Waits(Ended(c, g), Others(c))
           /\ CodeAsked(path, g) => CodeAsked(path, Ended(c, g))
  <1> DEFINE h == [c EXCEPT !.heard = FALSE]
             t == [NewCall(op, c.account, 0) EXCEPT !.mounted = c.mounted]
  <1>1. /\ IsCall(c) /\ IsCall(h) /\ \A d \in Then(c, op) : IsCall(d)
        /\ IsForm(form)
    BY CallLeft, RemainingCalls DEF IInv, TypeOK
  <1>2. h.op = c.op /\ h.mounted = c.mounted /\ h.account = c.account
    BY <1>1 DEF IsCall
  <1>3. t.op = op /\ t.mounted = c.mounted /\ t.heard
    BY DEF NewCall
  <1>4. /\ calls \ {c} \subseteq Others(c) /\ Others(c) \subseteq (calls \ {c}) \cup {h}
        /\ Then(c, op) = Others(c) \cup {t}
    BY DEF Others, Then
  <1> HIDE DEF h, t
  <1>5. \A d \in Then(c, op) : OfItsPage(d) /\ Addressed(d)
    BY <1>2, <1>3, <1>4 DEF WaitsOK, OfItsPage, Addressed
  <1>6. c.op # "check" => Checked(loading, Others(c)) /\ Checked(loading, Then(c, op))
    BY <1>4 DEF WaitsOK, Checked
  <1>7. ~c.mounted \/ c.op \notin Awaited => Waits(form, Others(c))
    BY <1>4 DEF WaitsOK, Waits
  <1>8. Waits(form, Then(c, op))
    BY <1>3, <1>4 DEF WaitsOK, Waits, Awaited
  <1>9. Waits(Ended(c, g), Others(c))
    BY <1>1, <1>7 DEF Waits, Ended, IsForm
  <1>10. CodeAsked(path, g) => CodeAsked(path, Ended(c, g))
    BY DEF Ended, CodeAsked, IsForm, WaitsOK
  <1> QED
    BY <1>1, <1>4, <1>5, <1>6, <1>7, <1>8, <1>9, <1>10

(* Whatever answer is heard, the page waits for the calls that are left.    *)
LEMMA HearWaits ==
    ASSUME IInv, WaitsOK, NEW c \in calls, NEW s \in Status, Hear(c, s)
    PROVE  WaitsOK'
  <1>1. IsForm(form) /\ user \in Users /\ IsCall(c) /\ c.answer.user \in Users
    BY DEF IInv, TypeOK, IsCall
  <1>2. \A d \in Others(c) : IsCall(d) /\ OfItsPage(d) /\ Addressed(d)
    BY <1>1, StillWaits
  <1>3. CodeAsked(path, form) /\ OfItsPage(c) /\ Addressed(c)
    BY DEF WaitsOK
  <1>4. CASE HearCheck(c, s)
    <2>1. Waits(form, Others(c))
      BY <1>1, <1>4, StillWaits DEF HearCheck, Awaited
    <2>2. Checked(FALSE, Others(c))
      BY DEF Checked
    <2> QED
      BY <1>2, <1>3, <1>4, <2>1, <2>2, ShowWaits DEF HearCheck
  <1> DEFINE e == Ended(c, form)
  <1>5. Waits(e, Others(c)) /\ CodeAsked(path, e)
    BY <1>1, <1>3, StillWaits
  <1>6. c.op # "check" => Checked(loading, Others(c))
    BY <1>1, StillWaits
  <1> HIDE DEF e
  <1>7. CASE HearRefresh(c, s)
    BY <1>2, <1>5, <1>6, <1>7, ShowWaits DEF HearRefresh, e
  <1>8. CASE HearOpen(c, s)
    <2>1. Waits(FreshForm("/org"), Others(c)) /\ CodeAsked(path, FreshForm("/org"))
      BY DEF Waits, CodeAsked, FreshForm
    <2> QED
      BY <1>2, <1>6, <1>8, <2>1, ShowWaits DEF HearOpen
  <1>9. CASE HearLogin(c, s)
    <2>1. c.op = "login"
      BY <1>9 DEF HearLogin
    <2>2. CASE s = "ok" /\ c.answer.user = None
      BY <1>1, <1>3, <1>9, <2>1, <2>2, StillWaits, ShowWaits DEF HearLogin
    <2>3. CASE s = "403"
      <3> DEFINE v == [NoNav EXCEPT !.email = c.account, !.resend = TRUE]
      <3>1. Show("/auth/verify-email", v, user, loading, form, Others(c))
        BY <1>9, <2>3 DEF HearLogin
      <3>2. Landing("/auth/verify-email", v, user, loading).path = path => ~c.mounted
        BY <1>1, <1>3, <2>1, LandsElsewhere DEF OfItsPage
      <3>3. ~c.mounted => Waits(form, Others(c))
        BY <1>1, StillWaits
      <3> HIDE DEF v
      <3> QED
        BY <1>2, <1>3, <1>6, <2>1, <3>1, <3>2, <3>3, ShowWaits
    <2>4. CASE ~(s = "ok" /\ c.answer.user = None) /\ s # "403"
      <3>1. \E u : Show(path, nav, u, loading, e, Others(c))
        BY <1>9, <2>4 DEF HearLogin, e
      <3> QED
        BY <1>2, <1>5, <1>6, <2>1, <3>1, ShowWaits
    <2> QED
      BY <2>2, <2>3, <2>4
  <1>10. CASE HearLogout(c, s)
    <2>1. Waits(form, Others(c))
      BY <1>1, <1>10, StillWaits DEF HearLogout, Awaited
    <2> QED
      BY <1>2, <1>3, <1>6, <1>10, <2>1, ShowWaits DEF HearLogout
  <1>11. CASE HearProfile(c, s)
    <2>1. CASE s = "ok"
      BY <1>1, <1>3, <1>11, <2>1, StillWaits, ShowWaits DEF HearProfile
    <2>2. CASE s # "ok"
      BY <1>2, <1>5, <1>6, <1>11, <2>2, ShowWaits DEF HearProfile, e
    <2> QED
      BY <2>1, <2>2
  <1>12. CASE HearCreate(c, s)
    <2>1. CASE s = "ok"
      BY <1>1, <1>3, <1>12, <2>1, StillWaits, ShowWaits DEF HearCreate
    <2>2. CASE s # "ok"
      BY <1>2, <1>5, <1>6, <1>12, <2>2, ShowWaits DEF HearCreate, e
    <2> QED
      BY <2>1, <2>2
  <1>13. CASE HearRegister(c, s)
    <2>1. c.op = "register"
      BY <1>13 DEF HearRegister
    <2>2. CASE s = "ok"
      <3> DEFINE v == [NoNav EXCEPT !.email = c.account]
      <3>1. Show("/auth/verify-email", v, user, loading, form, Others(c))
        BY <1>13, <2>2 DEF HearRegister
      <3>2. Landing("/auth/verify-email", v, user, loading).path = path => ~c.mounted
        BY <1>1, <1>3, <2>1, LandsElsewhere DEF OfItsPage
      <3>3. ~c.mounted => Waits(form, Others(c))
        BY <1>1, StillWaits
      <3> HIDE DEF v
      <3> QED
        BY <1>2, <1>3, <1>6, <2>1, <3>1, <3>2, <3>3, ShowWaits
    <2>3. CASE s # "ok"
      BY <1>2, <1>5, <1>6, <1>13, <2>3, ShowWaits DEF HearRegister, e
    <2> QED
      BY <2>2, <2>3
  <1>14. CASE HearVerify(c, s)
    BY <1>2, <1>5, <1>6, <1>14, ShowWaits DEF HearVerify, e
  <1>15. CASE HearLink(c, s)
    <2> DEFINE f == IF s # "ok" /\ c.mounted THEN [form EXCEPT !.step = "form"] ELSE form
    <2>1. c.op = "link"
      BY <1>15 DEF HearLink
    <2>2. Waits(form, Others(c))
      BY <1>1, <2>1, StillWaits DEF Awaited
    <2>3. Waits(f, Others(c)) /\ CodeAsked(path, f)
      BY <1>1, <1>3, <2>2 DEF Waits, CodeAsked, IsForm
    <2> HIDE DEF f
    <2> QED
      BY <1>2, <1>6, <1>15, <2>1, <2>3, ShowWaits DEF HearLink, f
  <1>16. CASE HearResend(c, s)
    <2>1. Waits(form, Others(c)) /\ c.op # "check"
      BY <1>1, <1>16, StillWaits DEF HearResend, Awaited
    <2> QED
      BY <1>2, <1>3, <1>6, <1>16, <2>1, ShowWaits DEF HearResend
  <1>17. CASE HearForgot(c, s)
    <2> DEFINE g == [form EXCEPT !.step = "otp", !.email = c.account]
    <2>1. c.op = "forgot"
      BY <1>17 DEF HearForgot
    <2>2. c.account \in Account
      BY <1>3, <2>1 DEF Addressed
    <2>3. IsForm(g) /\ CodeAsked(path, g)
      BY <1>1, <2>2, FormEmail DEF CodeAsked, IsForm, Addressee
    <2> HIDE DEF g
    <2>4. Waits(Ended(c, g), Others(c)) /\ CodeAsked(path, Ended(c, g))
      BY <2>3, StillWaits
    <2> QED
      BY <1>2, <1>6, <1>17, <2>1, <2>4, ShowWaits DEF HearForgot, g
  <1>18. CASE HearCheckCode(c, s)
    <2>1. c.op \in {"precheck", "checkcode"}
      BY <1>18 DEF HearCheckCode
    <2>2. CASE s = "ok" /\ c.op = "precheck"
      <3> DEFINE v == [NoNav EXCEPT !.email = c.account, !.token = c.key]
      <3>1. Show("/auth/reset-password", v, user, loading, form, Others(c))
        BY <1>18, <2>2 DEF HearCheckCode
      <3>2. v.email # None
        BY <1>3, <2>2, SessionConstants DEF Addressed, NoNav
      <3>3. Landing("/auth/reset-password", v, user, loading).path = path => ~c.mounted
        BY <1>1, <1>3, <2>2, <3>2, LandsElsewhere DEF OfItsPage
      <3>4. ~c.mounted => Waits(form, Others(c))
        BY <1>1, StillWaits
      <3> HIDE DEF v
      <3> QED
        BY <1>2, <1>3, <1>6, <2>1, <3>1, <3>3, <3>4, ShowWaits
    <2>3. CASE s = "ok" /\ c.op = "checkcode"
      <3> DEFINE g == [form EXCEPT !.step = "password", !.token = c.key]
      <3>1. IsForm(g) /\ CodeAsked(path, g)
        BY <1>1, FormToken DEF CodeAsked, IsForm
      <3>2. Waits(Ended(c, g), Others(c)) /\ CodeAsked(path, Ended(c, g))
        BY <3>1, StillWaits
      <3>3. Show(path, nav, user, loading, Ended(c, g), Others(c))
        BY <1>18, <2>3 DEF HearCheckCode
      <3> HIDE DEF g
      <3> QED
        BY <1>2, <1>6, <2>1, <3>2, <3>3, ShowWaits
    <2>4. CASE s # "ok"
      <3>1. Show(path, nav, user, loading, e, Others(c))
        BY <1>18, <2>4 DEF HearCheckCode, e
      <3> QED
        BY <1>2, <1>5, <1>6, <2>1, <3>1, ShowWaits
    <2> QED
      BY <2>1, <2>2, <2>3, <2>4
  <1>19. CASE HearReset(c, s)
    <2> DEFINE g == IF s = "ok" THEN [form EXCEPT !.step = "success"] ELSE form
    <2>1. IsForm(g) /\ CodeAsked(path, g)
      BY <1>1, <1>3, FormStep DEF CodeAsked, IsForm
    <2>2. Waits(Ended(c, g), Others(c)) /\ CodeAsked(path, Ended(c, g))
      BY <2>1, StillWaits
    <2>3. Show(path, nav, user, loading, Ended(c, g), Others(c)) /\ c.op = "reset"
      BY <1>19 DEF HearReset
    <2> HIDE DEF g
    <2> QED
      BY <1>2, <1>6, <2>2, <2>3, ShowWaits
  <1> QED
    BY <1>4, <1>7, <1>8, <1>9, <1>10, <1>11, <1>12, <1>13, <1>14, <1>15, <1>16, <1>17, <1>18,
       <1>19 DEF Hear

(* A page that makes a call waits for it, or does not show that it does.    *)
LEMMA IssueWaits ==
    ASSUME IInv, WaitsOK, NEW op, NEW a, NEW k, NEW f, Issue(op, a, k, f),
           op = "login" => path = "/auth/login",
           op = "register" => path = "/auth/register",
           op = "precheck" => path = "/auth/forgot-password",
           op \in {"forgot", "precheck"} => a \in Account,
           f = form \/ (f = Busy /\ op \in Awaited)
    PROVE  WaitsOK'
  <1> DEFINE k0 == NewCall(op, a, k)
  <1>1. /\ k0.op = op /\ k0.account = a /\ k0.mounted /\ k0.heard
        /\ calls' = calls \cup {k0} /\ form' = f /\ UNCHANGED <<loading, path>>
    BY DEF NewCall, Issue
  <1> HIDE DEF k0
  <1>2. Waits(form', calls')
    BY <1>1 DEF WaitsOK, Waits
  <1>3. CodeAsked(path, f)
    BY DEF WaitsOK, CodeAsked, Busy, IInv, TypeOK, IsForm
  <1>4. Checked(loading', calls')
    BY <1>1 DEF WaitsOK, Checked
  <1>5. \A d \in calls' : OfItsPage(d)' /\ Addressed(d)
    BY <1>1 DEF WaitsOK, OfItsPage, Addressed
  <1> QED
    BY <1>1, <1>2, <1>3, <1>4, <1>5
       DEF WaitsOK, Checked, Waits, OfItsPage, Addressed, CodeAsked

(* Another page waits for nothing, the same one for what it waited for.     *)
LEMMA MoveWaits ==
    ASSUME IInv, WaitsOK, NEW p, Show(p, NoNav, user, loading, form, calls)
    PROVE  WaitsOK'
  BY ShowWaits DEF IInv, TypeOK, WaitsOK

(* Whatever the user does.                                                  *)
LEMMA UserWaits == ASSUME IInv, WaitsOK, User PROVE WaitsOK'
  <1>1. CASE (\E p \in Linked : Visit(p)) \/ handleGoBack
    BY <1>1, MoveWaits DEF Visit, handleGoBack
  <1>2. ASSUME NEW a \in Account, NEW key \in {0, 1}, SubmitLogin(a, key) PROVE WaitsOK'
    BY <1>2, IssueWaits DEF SubmitLogin, LoginReady, Awaited
  <1>3. ASSUME NEW a \in Account, SubmitRegister(a) \/ SubmitEmail(a) PROVE WaitsOK'
    BY <1>3, IssueWaits DEF SubmitRegister, SubmitEmail, RegisterReady, ForgotReady, Awaited
  <1>4. ASSUME NEW right \in BOOLEAN, SubmitOtp(right) PROVE WaitsOK'
    BY <1>4, IssueWaits DEF SubmitOtp, Awaited
  <1>5. ASSUME NEW right \in BOOLEAN, SubmitResetOtp(right) PROVE WaitsOK'
    BY <1>5, IssueWaits DEF SubmitResetOtp, ForgotReady, Awaited, WaitsOK, CodeAsked
  <1>6. CASE AskResend \/ AskAgain \/ SubmitPassword \/ SubmitCreate
    BY <1>6, IssueWaits DEF AskResend, AskAgain, SubmitPassword, SubmitCreate, Awaited
  <1>7. CASE SaveProfile \/ ClickLogout
    BY <1>7, IssueWaits DEF SaveProfile, ClickLogout, Awaited
  <1> QED
    BY <1>1, <1>2, <1>3, <1>4, <1>5, <1>6, <1>7 DEF User

(* A reload asks again who is signed in; another session behind the cookie  *)
(* changes nothing in the tab.                                              *)
LEMMA FaultWaits ==
    ASSUME IInv, WaitsOK, Reload \/ \E a \in Account \cup {None} : SessionChanges(a)
    PROVE  WaitsOK'
  <1>1. CASE Reload
    <2> DEFINE k0 == NewCall("check", None, 0)
    <2>1. k0.op = "check" /\ k0.heard
      BY DEF NewCall
    <2>2. /\ k0 \in calls' /\ path' = path /\ ~form'.busy
          /\ path = "/auth/forgot-password" => form'.step = "email"
      BY <1>1 DEF Reload, FreshForm
    <2>3. ASSUME NEW d \in calls', d # k0
          PROVE  OfItsPage(d)' /\ Addressed(d)
      <3>1. PICK c \in calls : d = [c EXCEPT !.heard = FALSE]
        BY <1>1, <2>3 DEF Reload
      <3>2. d.op = c.op /\ d.mounted = c.mounted /\ d.account = c.account
        BY <3>1 DEF IInv, TypeOK, IsCall
      <3> QED
        BY <2>2, <3>2 DEF WaitsOK, OfItsPage, Addressed
    <2> HIDE DEF k0
    <2>4. \A d \in calls' : OfItsPage(d)' /\ Addressed(d)
      BY <2>1, <2>3 DEF OfItsPage, Addressed
    <2> QED
      BY <2>1, <2>2, <2>4 DEF WaitsOK, Checked, Waits, OfItsPage, Addressed, CodeAsked
  <1>2. ASSUME NEW a \in Account \cup {None}, SessionChanges(a) PROVE WaitsOK'
    BY <1>2 DEF SessionChanges, tab, WaitsOK, Checked, Waits, OfItsPage, Addressed, CodeAsked
  <1> QED
    BY <1>1, <1>2

(* WaitsAreAnswered: whatever the user, the server and the network do, the  *)
(* spinner of the first checkAuth and the disabled button of a form wait    *)
(* for a call that is in flight and whose end this page will hear: none of  *)
(* them stays for ever after its call has ended.                            *)
THEOREM WaitsAreAnswered == Spec => []WaitsForACall
  <1>1. WaitsOK => WaitsForACall
    BY DEF WaitsOK, Checked, Waits, WaitsForACall
  <1>2. IInv /\ WaitsOK /\ [Next]_vars => WaitsOK'
    <2> SUFFICES ASSUME IInv, WaitsOK, [Next]_vars PROVE WaitsOK'
      OBVIOUS
    <2>1. CASE UNCHANGED vars
      BY <2>1 DEF vars, tab, WaitsOK, Checked, Waits, OfItsPage, Addressed, CodeAsked
    <2>2. CASE SuccessTimer
      BY <2>2, MoveWaits DEF SuccessTimer
    <2> QED
      BY <2>1, <2>2, UserWaits, ServeWaits, HearWaits, FaultWaits DEF Next
  <1> QED
    BY <1>1, <1>2, InitIInv, NextIInv, InitWaits, PTL DEF Spec

-----------------------------------------------------------------------------
(* The calls that change the session, and what the answer of a call tells   *)
(* of it: whether it names the account signed in once it was answered, and  *)
(* which.                                                                   *)
Changing    == {"login", "logout", "verify", "link"}
AccountOf(u) == IF u = None THEN None ELSE u.account
Answered(c) == c.answer # Pending
Tells(c) ==
    /\ Answered(c)
    /\ \/ c.op \in {"check", "refresh", "open", "login", "logout"}
       \/ c.op \in {"profile", "create"} /\ c.answer.status = "401"
       \/ c.op \in {"verify", "link"} /\ c.answer.user # None
Told(c) ==
    IF c.op = "login" THEN IF c.answer.status = "ok" THEN c.account ELSE None
    ELSE AccountOf(c.answer.user)

(* It signs an account in; it was done for an account signed in; the tab is *)
(* still to be told who is signed in.                                       *)
Enters(c) == c.op \in Changing /\ Tells(c) /\ Told(c) # None
Inside(c) == c.op \in {"open", "profile", "create"} /\ c.answer.status = "ok"
Asks(c)   == c.op \in {"check", "refresh"} /\ ~Answered(c)

(* What the server may answer.                                              *)
IsAnswer(c) ==
    Answered(c) =>
        /\ c.answer.status \in {"ok", "401", "403", "refused"}
        /\ c.op \in {"check", "refresh", "open"} =>
             c.answer.status = IF c.answer.user = None THEN "401" ELSE "ok"
        /\ c.op \in {"verify", "link"} /\ c.answer.user # None => c.answer.status = "ok"
        /\ c.op = "login" /\ c.answer.user # None =>
             c.answer.status = "ok" /\ c.answer.user.account = c.account
        /\ c.op \in {"logout", "profile", "create"} => c.answer.user = None

(* The answers in the order they were given, the last one included.         *)
InOrder(cs) ==
    /\ \A c \in cs : IsAnswer(c) /\ c.heard /\ c.at \in Nat /\ (Answered(c) <=> c.at > 0)
    /\ \A c, d \in cs : Answered(c) /\ c.at = d.at => c = d
    /\ cs # {} => \E c \in cs : \A d \in cs : d.at <= c.at

(* One sign-in or sign-out at a time, one check, and that one behind the    *)
(* spinner.                                                                 *)
OneAtATime(cs, ld) ==
    /\ \A c, d \in cs : c.op \in Changing /\ d.op \in Changing => c = d
    /\ \A c, d \in cs : c.op = "check" /\ d.op = "check" => c = d
    /\ \A c \in cs : c.op = "check" => ld

(* The tab shows the session, or the last answer that tells of it does, or  *)
(* the tab is still to be told.                                             *)
WillFollow(cs, ses, u) ==
    \/ \E c \in cs : Asks(c)
    \/ (\A c \in cs : ~Tells(c)) /\ ses = AccountOf(u)
    \/ \E c \in cs : /\ Tells(c) /\ ses = Told(c)
                     /\ \A d \in cs : Tells(d) => d.at <= c.at

(* Who signs in was signed out, and stays so until the sign-in is answered. *)
SigningIn(cs, ses, u, ld) ==
    \A c \in cs : c.op = "login" =>
        /\ u = None /\ ~ld /\ (~Answered(c) => ses = None)
        /\ \A d \in cs : d.op # "refresh"
        /\ \A d \in cs : Inside(d) => Answered(c) /\ c.at < d.at

(* No call of a tab that is signed out, and stays so, was done inside.      *)
StaysOut(c) == c.op \in SignIn => c.op \in {"verify", "link"} /\ c.answer.user = None
SignedOut(cs, u, ld) ==
    u = None /\ ~ld /\ (\A c \in cs : StaysOut(c)) => \A d \in cs : ~Inside(d)

(* Between an answer that told of no session and a session, or an answer    *)
(* given inside, an account was signed in.                                  *)
Entrance(cs, ses) ==
    \A c \in cs : Tells(c) /\ Told(c) = None =>
        /\ ses # None => \E e \in cs : Enters(e) /\ c.at < e.at
        /\ \A d \in cs : Inside(d) /\ c.at < d.at =>
             \E e \in cs : Enters(e) /\ c.at < e.at /\ e.at < d.at

Follows(cs, ses, u, ld) ==
    /\ InOrder(cs) /\ OneAtATime(cs, ld) /\ WillFollow(cs, ses, u)
    /\ SigningIn(cs, ses, u, ld) /\ SignedOut(cs, u, ld) /\ Entrance(cs, ses)

(* What a call tells depends on the call and its answer.                    *)
LEMMA SameCall ==
    ASSUME NEW c, NEW d, d.op = c.op, d.account = c.account, d.answer = c.answer,
           d.at = c.at, d.heard = c.heard
    PROVE  /\ Answered(d) = Answered(c) /\ Tells(d) = Tells(c) /\ Told(d) = Told(c)
           /\ Enters(d) = Enters(c) /\ Inside(d) = Inside(c) /\ Asks(d) = Asks(c)
           /\ IsAnswer(d) = IsAnswer(c) /\ StaysOut(d) = StaysOut(c)
  BY Zenon DEF Answered, Tells, Told, Enters, Inside, Asks, IsAnswer, StaysOut

(* Calls of a page that was left are still in flight.                       *)
LEMMA FollowsUnmount ==
    ASSUME NEW cs, NEW ses, NEW u, NEW ld, \A c \in cs : IsCall(c), Follows(cs, ses, u, ld)
    PROVE  Follows(Unmount(cs), ses, u, ld)
  <1> DEFINE m(c) == [c EXCEPT !.mounted = FALSE]
             us == Unmount(cs)
  <1>1. \A c \in cs : /\ m(c) \in us
                      /\ m(c).op = c.op /\ m(c).account = c.account /\ m(c).answer = c.answer
                      /\ m(c).at = c.at /\ m(c).heard = c.heard
    BY DEF Unmount, IsCall
  <1>2. \A d \in us : \E c \in cs : d = m(c)
    BY DEF Unmount
  <1> HIDE DEF m, us
  <1>3. \A c \in cs : /\ Answered(m(c)) = Answered(c) /\ Tells(m(c)) = Tells(c)
                      /\ Told(m(c)) = Told(c) /\ Enters(m(c)) = Enters(c)
                      /\ Inside(m(c)) = Inside(c) /\ Asks(m(c)) = Asks(c)
                      /\ IsAnswer(m(c)) = IsAnswer(c) /\ StaysOut(m(c)) = StaysOut(c)
    BY <1>1, SameCall
  <1>4. InOrder(us)
    BY <1>1, <1>2, <1>3 DEF Follows, InOrder
  <1>5. OneAtATime(us, ld)
    BY <1>1, <1>2 DEF Follows, OneAtATime
  <1>6. WillFollow(us, ses, u)
    BY <1>1, <1>2, <1>3 DEF Follows, WillFollow
  <1>7. SigningIn(us, ses, u, ld)
    BY <1>1, <1>2, <1>3 DEF Follows, SigningIn
  <1>8. SignedOut(us, u, ld)
    BY <1>1, <1>2, <1>3 DEF Follows, SignedOut
  <1>9. Entrance(us, ses)
    BY <1>1, <1>2, <1>3 DEF Follows, Entrance
  <1> QED
    BY <1>4, <1>5, <1>6, <1>7, <1>8, <1>9 DEF Follows, us

(* Nor does another call, as long as it is not answered.                    *)
LEMMA FollowsAnother ==
    ASSUME NEW cs, NEW ses, NEW u, NEW ld, NEW k, Follows(cs, ses, u, ld),
           k.op \notin SignIn \cup {"check"}, k.answer = Pending, k.at = 0, k.heard
    PROVE  Follows(cs \cup {k}, ses, u, ld)
  <1>1. /\ ~Answered(k) /\ ~Tells(k) /\ ~Enters(k) /\ ~Inside(k) /\ IsAnswer(k)
        /\ StaysOut(k) /\ k.op \notin Changing \cup {"login", "refresh", "check"}
    BY DEF Answered, Tells, Enters, Inside, IsAnswer, StaysOut, Pending, Answer, SignIn, Changing
  <1>2. InOrder(cs \cup {k})
    <2>1. \E c \in cs \cup {k} : \A d \in cs \cup {k} : d.at <= c.at
      <3>1. CASE cs = {}
        BY <3>1
      <3>2. CASE cs # {}
        <4>1. PICK c \in cs : \A d \in cs : d.at <= c.at
          BY <3>2 DEF Follows, InOrder
        <4> QED
          BY <4>1 DEF Follows, InOrder
      <3> QED
        BY <3>1, <3>2
    <2> QED
      BY <1>1, <2>1 DEF Follows, InOrder
  <1>3. OneAtATime(cs \cup {k}, ld)
    BY <1>1 DEF Follows, OneAtATime
  <1>4. WillFollow(cs \cup {k}, ses, u)
    BY <1>1 DEF Follows, WillFollow
  <1>5. SigningIn(cs \cup {k}, ses, u, ld)
    BY <1>1 DEF Follows, SigningIn
  <1>6. SignedOut(cs \cup {k}, u, ld)
    BY <1>1 DEF Follows, SignedOut
  <1>7. Entrance(cs \cup {k}, ses)
    BY <1>1 DEF Follows, Entrance
  <1> QED
    BY <1>2, <1>3, <1>4, <1>5, <1>6, <1>7 DEF Follows

(* The first of the answers is heard: the others keep their order, and what *)
(* came between them.                                                       *)
First(cs, c) == c \in cs /\ Answered(c) /\ \A d \in cs : Answered(d) => c.at <= d.at

LEMMA Removed ==
    ASSUME NEW cs, NEW ses, NEW u, NEW ld, NEW c, NEW ld2, Follows(cs, ses, u, ld), First(cs, c),
           c.op # "check" => ld2 = ld
    PROVE  /\ InOrder(cs \ {c}) /\ OneAtATime(cs \ {c}, ld2) /\ Entrance(cs \ {c}, ses)
           /\ \A d \in cs \ {c} : Answered(d) => c.at < d.at
  <1> DEFINE rest == cs \ {c}
  <1>1. \A d \in rest : Answered(d) => c.at < d.at
    BY DEF Follows, InOrder, First
  <1>2. InOrder(rest)
    <2>1. ASSUME rest # {} PROVE \E e \in rest : \A d \in rest : d.at <= e.at
      <3>1. PICK m \in cs : \A d \in cs : d.at <= m.at
        BY <2>1 DEF Follows, InOrder
      <3>2. CASE m # c
        BY <3>1, <3>2
      <3>3. CASE m = c
        <4>1. \A d \in rest : ~Answered(d)
          BY <1>1, <3>1, <3>3 DEF Follows, InOrder
        <4>2. \A d \in rest : d.at = 0
          BY <4>1 DEF Follows, InOrder
        <4> QED
          BY <2>1, <4>2
      <3> QED
        BY <3>2, <3>3
    <2> QED
      BY <2>1 DEF Follows, InOrder
  <1>3. OneAtATime(rest, ld2)
    BY DEF Follows, OneAtATime, First
  <1>4. Entrance(rest, ses)
    <2> SUFFICES ASSUME NEW b \in rest, Tells(b), Told(b) = None
                 PROVE  /\ ses # None => \E e \in rest : Enters(e) /\ b.at < e.at
                        /\ \A d \in rest : Inside(d) /\ b.at < d.at =>
                             \E e \in rest : Enters(e) /\ b.at < e.at /\ e.at < d.at
      BY DEF Entrance
    <2>1. \A e \in cs : b.at < e.at => e \in rest
      BY <1>1 DEF Follows, InOrder, First, Tells
    <2> QED
      BY <2>1 DEF Follows, Entrance
  <1> QED
    BY <1>1, <1>2, <1>3, <1>4

(* Only a user signed in has an account.                                    *)
LEMMA NoAccount == ASSUME NEW u \in Users PROVE AccountOf(u) = None <=> u = None
  BY SessionConstants DEF AccountOf, Users

(* The tab takes the user from an answer that tells of one, and keeps its   *)
(* own else.                                                                *)
LEMMA FollowsHeard ==
    ASSUME NEW cs, NEW ses, NEW u, NEW ld, NEW c, NEW u2 \in Users, NEW ld2,
           Follows(cs, ses, u, ld), First(cs, c),
           IF c.op = "check" THEN ~ld2 ELSE ld2 = ld,
           IF Tells(c) THEN AccountOf(u2) = Told(c) ELSE u2 = u
    PROVE  Follows(cs \ {c}, ses, u2, ld2)
  <1> DEFINE rest == cs \ {c}
  <1>1. /\ InOrder(rest) /\ OneAtATime(rest, ld2) /\ Entrance(rest, ses)
        /\ \A d \in rest : Answered(d) => c.at < d.at
        /\ c \in cs /\ Answered(c) /\ c.at \in Nat
    BY Removed DEF First, Follows, InOrder
  <1>2. WillFollow(rest, ses, u2)
    <2>1. CASE \E d \in cs : Asks(d)
      BY <1>1, <2>1 DEF WillFollow, Asks
    <2>2. CASE (\A d \in cs : ~Tells(d)) /\ ses = AccountOf(u)
      BY <1>1, <2>2 DEF WillFollow
    <2>3. ASSUME NEW k \in cs, Tells(k), ses = Told(k), \A d \in cs : Tells(d) => d.at <= k.at
          PROVE  WillFollow(rest, ses, u2)
      <3>1. CASE k # c
        BY <2>3, <3>1 DEF WillFollow
      <3>2. CASE k = c
        <4>1. \A d \in rest : ~Tells(d)
          BY <1>1, <2>3, <3>2 DEF Tells, Follows, InOrder
        <4> QED
          BY <2>3, <3>2, <4>1 DEF WillFollow
      <3> QED
        BY <3>1, <3>2
    <2> QED
      BY <2>1, <2>2, <2>3 DEF Follows, WillFollow
  <1>3. SigningIn(rest, ses, u2, ld2)
    <2> SUFFICES ASSUME NEW l \in rest, l.op = "login"
                 PROVE  u2 = None /\ ~ld2
      BY DEF Follows, SigningIn
    <2>1. /\ u = None /\ ~ld /\ c.op \notin Changing /\ c.op # "check" /\ c.op # "refresh"
          /\ Inside(c) => l.at < c.at /\ Answered(l)
      BY <1>1 DEF Follows, SigningIn, OneAtATime, Changing
    <2>2. ~Inside(c)
      BY <1>1, <2>1 DEF Follows, InOrder
    <2>3. CASE Tells(c)
      <3>1. Told(c) = None
        BY <1>1, <2>1, <2>2, <2>3
           DEF Tells, Told, Inside, AccountOf, Changing, Follows, InOrder, IsAnswer
      <3> QED
        BY <2>1, <2>3, <3>1, NoAccount
    <2>4. CASE ~Tells(c)
      BY <2>1, <2>4
    <2> QED
      BY <2>1, <2>3, <2>4
  <1>4. SignedOut(rest, u2, ld2)
    <2> SUFFICES ASSUME u2 = None, ~ld2, \A d \in rest : StaysOut(d), NEW d \in rest, Inside(d)
                 PROVE  FALSE
      BY DEF SignedOut
    <2>1. CASE Tells(c)
      <3>1. Told(c) = None
        BY <2>1, NoAccount
      <3>2. Answered(d)
        BY DEF Inside, Answered, Pending, Answer
      <3>3. PICK e \in cs : Enters(e) /\ c.at < e.at
        BY <1>1, <2>1, <3>1, <3>2 DEF Follows, Entrance
      <3>4. e \in rest
        BY <1>1, <3>3
      <3>5. /\ e.op \in SignIn
            /\ e.op \in {"verify", "link"} => e.answer.user # None
        BY <3>3 DEF Enters, Changing, SignIn, Tells
      <3> QED
        BY <3>4, <3>5 DEF StaysOut
    <2>2. CASE ~Tells(c)
      <3>1. c.op # "check" /\ u = None /\ ~ld
        BY <1>1, <2>2 DEF Tells
      <3>2. StaysOut(c)
        BY <1>1, <2>2 DEF StaysOut, Tells, SignIn
      <3> QED
        BY <3>1, <3>2 DEF Follows, SignedOut
    <2> QED
      BY <2>1, <2>2
  <1> QED
    BY <1>1, <1>2, <1>3, <1>4 DEF Follows

(* A sign-in without a user record, or a change made inside, asks for the   *)
(* user again.                                                              *)
LEMMA FollowsAsked ==
    ASSUME NEW cs, NEW ses, NEW u, NEW ld, NEW c, NEW t, Follows(cs, ses, u, ld), First(cs, c),
           c.op = "login" \/ Inside(c), c.op \notin {"open", "check"},
           t.op = "refresh", t.answer = Pending, t.at = 0, t.heard
    PROVE  Follows((cs \ {c}) \cup {t}, ses, u, ld)
  <1> DEFINE rest == cs \ {c}
             all == rest \cup {t}
  <1>1. /\ InOrder(rest) /\ OneAtATime(rest, ld) /\ Entrance(rest, ses)
        /\ \A d \in rest : Answered(d) => c.at < d.at
    BY Removed
  <1>2. /\ Asks(t) /\ ~Tells(t) /\ ~Inside(t) /\ IsAnswer(t)
        /\ ~StaysOut(t) /\ t.op \notin Changing \cup {"login", "check"} /\ ~Answered(t)
    BY DEF Answered, Tells, Asks, Inside, IsAnswer, StaysOut, Pending, Answer, SignIn, Changing
  <1>3. \A d \in rest : d.op # "login"
    <2> SUFFICES ASSUME NEW d \in rest, d.op = "login" PROVE FALSE
      OBVIOUS
    <2>1. c \in cs /\ d \in cs /\ c # d
      BY DEF First
    <2>2. Inside(c)
      BY <2>1 DEF Follows, OneAtATime, Changing
    <2>3. Answered(d) /\ d.at < c.at
      BY <2>1, <2>2 DEF Follows, SigningIn
    <2> QED
      BY <1>1, <2>1, <2>3 DEF Follows, InOrder
  <1>4. InOrder(all)
    <2>1. \E e \in all : \A d \in all : d.at <= e.at
      <3>1. CASE rest = {}
        BY <3>1
      <3>2. CASE rest # {}
        <4>1. PICK e \in rest : \A d \in rest : d.at <= e.at
          BY <1>1, <3>2 DEF InOrder
        <4> QED
          BY <1>1, <4>1 DEF InOrder
      <3> QED
        BY <3>1, <3>2
    <2> QED
      BY <1>1, <1>2, <2>1 DEF InOrder
  <1>5. OneAtATime(all, ld)
    BY <1>1, <1>2 DEF OneAtATime
  <1>6. WillFollow(all, ses, u)
    BY <1>2 DEF WillFollow
  <1>7. SigningIn(all, ses, u, ld)
    BY <1>2, <1>3 DEF SigningIn
  <1>8. SignedOut(all, u, ld)
    BY <1>2 DEF SignedOut
  <1>9. Entrance(all, ses)
    BY <1>1, <1>2 DEF Entrance
  <1> QED
    BY <1>4, <1>5, <1>6, <1>7, <1>8, <1>9 DEF Follows

(* The server answers, after all it has answered: what tells of the session *)
(* tells of the one it left, and whatever was done inside needed one.       *)
LEMMA FollowsServed ==
    ASSUME NEW cs, NEW ses, NEW u, NEW ld, NEW c \in cs, NEW a, NEW ses2, Follows(cs, ses, u, ld),
           ~Answered(c), a.op = c.op, a.account = c.account, a.heard, Answered(a), IsAnswer(a),
           a.at \in Nat, \A d \in cs : d.at < a.at,
           IF Tells(a) THEN ses2 = Told(a) ELSE ses2 = ses,
           ses2 # ses => c.op \in Changing,
           Inside(a) => ses # None
    PROVE  Follows((cs \ {c}) \cup {a}, ses2, u, ld)
  <1> DEFINE rest == cs \ {c}
             all == rest \cup {a}
  <1>1. /\ ~Tells(c) /\ ~Enters(c) /\ ~Inside(c) /\ c.answer.user = None
    BY DEF Answered, Tells, Enters, Inside, Pending, Answer
  <1>2. InOrder(all)
    <2>1. \A d \in all : d.at <= a.at
      BY DEF Follows, InOrder
    <2>2. \A d \in rest : d.at # a.at
      BY DEF Follows, InOrder
    <2>3. a.at > 0
      BY DEF Follows, InOrder
    <2> QED
      BY <2>1, <2>2, <2>3 DEF Follows, InOrder
  <1>3. OneAtATime(all, ld)
    BY DEF Follows, OneAtATime
  <1>4. WillFollow(all, ses2, u)
    <2>1. CASE Tells(a)
      BY <2>1 DEF WillFollow, Follows, InOrder
    <2>2. CASE ~Tells(a)
      <3>1. \A d \in cs : Asks(d) => d \in rest
        BY <2>2 DEF Asks, Tells
      <3>2. \A d \in cs : Tells(d) => d \in rest
        BY <1>1
      <3> QED
        BY <2>2, <3>1, <3>2 DEF Follows, WillFollow
    <2> QED
      BY <2>1, <2>2
  <1>5. SigningIn(all, ses2, u, ld)
    <2> SUFFICES ASSUME NEW l \in all, l.op = "login"
                 PROVE  /\ u = None /\ ~ld /\ (~Answered(l) => ses2 = None)
                        /\ \A d \in all : d.op # "refresh"
                        /\ \A d \in all : Inside(d) => Answered(l) /\ l.at < d.at
      BY DEF SigningIn
    <2>1. CASE l = a
      <3>1. /\ u = None /\ ~ld /\ (\A d \in cs : d.op # "refresh") /\ \A d \in cs : ~Inside(d)
        BY <2>1 DEF Follows, SigningIn
      <3>2. ~Inside(a) /\ a.op # "refresh"
        BY <2>1 DEF Inside
      <3> QED
        BY <2>1, <3>1, <3>2
    <2>2. CASE l \in rest
      <3>1. /\ u = None /\ ~ld /\ (~Answered(l) => ses = None)
            /\ \A d \in cs : d.op # "refresh"
            /\ \A d \in cs : Inside(d) => Answered(l) /\ l.at < d.at
        BY <2>2 DEF Follows, SigningIn
      <3>2. ses2 = ses
        BY <2>2 DEF Follows, OneAtATime, Changing
      <3>3. Inside(a) => Answered(l) /\ l.at < a.at
        BY <2>2, <3>1
      <3> QED
        BY <3>1, <3>2, <3>3
    <2> QED
      BY <2>1, <2>2
  <1>6. SignedOut(all, u, ld)
    <2> SUFFICES ASSUME u = None, ~ld, \A d \in all : StaysOut(d), NEW d \in all, Inside(d)
                 PROVE  FALSE
      BY DEF SignedOut
    <2>1. StaysOut(c)
      BY <1>1 DEF StaysOut
    <2>2. \A b \in cs : StaysOut(b) /\ ~Inside(b) /\ b.op # "check"
      BY <2>1 DEF Follows, SignedOut, OneAtATime
    <2>3. d = a /\ ses # None
      BY <2>2
    <2>4. \A b \in cs : ~Asks(b)
      BY <2>2 DEF Asks, StaysOut, SignIn
    <2>5. \A b \in cs : Tells(b) => Told(b) = None
      BY <2>2 DEF Tells, Told, Inside, AccountOf, StaysOut, SignIn, Follows, InOrder, IsAnswer
    <2> QED
      BY <2>3, <2>4, <2>5 DEF Follows, WillFollow, AccountOf
  <1>7. Entrance(all, ses2)
    <2> SUFFICES ASSUME NEW k \in all, Tells(k), Told(k) = None
                 PROVE  /\ ses2 # None => \E e \in all : Enters(e) /\ k.at < e.at
                        /\ \A d \in all : Inside(d) /\ k.at < d.at =>
                             \E e \in all : Enters(e) /\ k.at < e.at /\ e.at < d.at
      BY DEF Entrance
    <2>1. CASE k = a
      <3>1. ses2 = None
        BY <2>1
      <3>2. \A d \in all : ~(k.at < d.at)
        BY <2>1 DEF Follows, InOrder
      <3> QED
        BY <3>1, <3>2
    <2>2. CASE k \in rest
      <3>1. \A e \in cs : Enters(e) => e \in rest
        BY <1>1
      <3>2. ses # None => \E e \in rest : Enters(e) /\ k.at < e.at
        BY <2>2, <3>1 DEF Follows, Entrance
      <3>3. ses2 # None => \E e \in all : Enters(e) /\ k.at < e.at
        <4>1. CASE ses2 = ses
          BY <3>2, <4>1
        <4>2. CASE ses2 # ses /\ ses2 # None
          <5>1. Enters(a)
            BY <4>2 DEF Enters
          <5> QED
            BY <2>2, <5>1
        <4> QED
          BY <4>1, <4>2
      <3>4. ASSUME NEW d \in all, Inside(d), k.at < d.at
            PROVE  \E e \in all : Enters(e) /\ k.at < e.at /\ e.at < d.at
        <4>1. CASE d = a
          BY <3>2, <3>4, <4>1
        <4>2. CASE d \in rest
          BY <2>2, <3>1, <3>4, <4>2 DEF Follows, Entrance
        <4> QED
          BY <4>1, <4>2
      <3> QED
        BY <3>3, <3>4
    <2> QED
      BY <2>1, <2>2
  <1> QED
    BY <1>2, <1>3, <1>4, <1>5, <1>6, <1>7 DEF Follows

(* The user signs in or out, or verifies an address, while no call of this  *)
(* kind is in flight; who signs in is signed out.                           *)
LEMMA FollowsSignIn ==
    ASSUME NEW cs, NEW ses, NEW u, NEW ld, NEW k, Follows(cs, ses, u, ld),
           \A d \in cs : d.op \notin SignIn,
           k.op \in {"login", "logout", "verify"}, k.op = "login" => u = None /\ ~ld,
           k.answer = Pending, k.at = 0, k.heard
    PROVE  Follows(cs \cup {k}, ses, u, ld)
  <1> DEFINE all == cs \cup {k}
  <1>1. /\ ~Answered(k) /\ ~Tells(k) /\ ~Enters(k) /\ ~Inside(k) /\ IsAnswer(k)
        /\ k.op \notin {"refresh", "check"}
    BY DEF Answered, Tells, Enters, Inside, IsAnswer, Pending, Answer
  <1>2. \A d \in cs : d.op \notin Changing /\ d.op \notin {"login", "refresh"} /\ StaysOut(d)
    BY DEF StaysOut, SignIn, Changing
  <1>3. InOrder(all)
    <2>1. \E e \in all : \A d \in all : d.at <= e.at
      <3>1. CASE cs = {}
        BY <3>1
      <3>2. CASE cs # {}
        <4>1. PICK e \in cs : \A d \in cs : d.at <= e.at
          BY <3>2 DEF Follows, InOrder
        <4> QED
          BY <4>1 DEF Follows, InOrder
      <3> QED
        BY <3>1, <3>2
    <2> QED
      BY <1>1, <2>1 DEF Follows, InOrder
  <1>4. OneAtATime(all, ld)
    BY <1>1, <1>2 DEF Follows, OneAtATime
  <1>5. WillFollow(all, ses, u)
    BY <1>1 DEF Follows, WillFollow
  <1>6. SigningIn(all, ses, u, ld)
    <2> SUFFICES ASSUME k.op = "login"
                 PROVE  ses = None /\ \A d \in all : ~Inside(d)
      BY <1>1, <1>2 DEF SigningIn
    <2>1. \A d \in cs : ~Inside(d) /\ d.op # "check"
      BY <1>2 DEF Follows, SignedOut, OneAtATime
    <2>2. \A d \in cs : ~Asks(d)
      BY <1>2, <2>1 DEF Asks
    <2>3. \A d \in cs : Tells(d) => Told(d) = None
      BY <1>2, <2>1 DEF Tells, Told, Inside, AccountOf, StaysOut, SignIn, Changing, Follows,
                        InOrder, IsAnswer
    <2> QED
      BY <1>1, <2>1, <2>2, <2>3 DEF Follows, WillFollow, AccountOf
  <1>7. SignedOut(all, u, ld)
    BY <1>1, <1>2 DEF Follows, SignedOut
  <1>8. Entrance(all, ses)
    BY <1>1 DEF Follows, Entrance
  <1> QED
    BY <1>3, <1>4, <1>5, <1>6, <1>7, <1>8 DEF Follows

-----------------------------------------------------------------------------
(* The pages of who is not signed in.                                       *)
GuestPage == {"/auth/login", "/auth/register", "/auth/verify-email"}

FollowsOK ==
    /\ path \in GuestPage => user = None
    /\ orderly => Follows(calls, session, user, loading)

(* The router sends a user who is signed in on from these pages.            *)
LEMMA LandingGuest ==
    ASSUME NEW p, NEW v, IsNav(v), NEW u \in Users, NEW ld
    PROVE  Landing(p, v, u, ld).path \in GuestPage => u = None
  <1> SUFFICES ASSUME u # None PROVE Landing(p, v, u, ld).path \notin GuestPage
    OBVIOUS
  <1>1. u.profile \in Profile /\ v.from \in Dashboard \cup {None}
    BY DEF Users, IsNav
  <1>2. CASE p = "/auth/login"
    <2>1. Landing(p, v, u, ld).path = Destination(v.from, u.profile)
      BY <1>2 DEF Landing
    <2> QED
      BY <1>1, <2>1, LoginLandsInside DEF GuestPage
  <1>3. CASE p \in {"/auth/register", "/auth/verify-email"}
    <2>1. Landing(p, v, u, ld).path = getRoleDefaultRoute(getPrimaryRole(u.profile))
      BY <1>3 DEF Landing
    <2> QED
      BY <1>1, <2>1, PrimaryRoleAvailable, DefaultRouteAdmits DEF GuestPage
  <1>4. CASE p \notin GuestPage
    <2>1. CASE p = "/auth/reset-password" /\ v.email = None
      BY <2>1 DEF Landing, GuestPage
    <2>2. CASE ~(p = "/auth/reset-password" /\ v.email = None)
      <3>1. Landing(p, v, u, ld) = ProtectedRoute(p, v, u, ld)
        BY <1>4, <2>2 DEF Landing, GuestPage
      <3>2. ProtectedRoute(p, v, u, ld).path \in {p, "/unauthorized"}
        BY DEF ProtectedRoute
      <3> QED
        BY <1>4, <3>1, <3>2 DEF GuestPage
    <2> QED
      BY <2>1, <2>2
  <1> QED
    BY <1>2, <1>3, <1>4 DEF GuestPage

(* Whatever page is shown, its calls and those of the page left still tell  *)
(* of the session.                                                          *)
LEMMA ShowFollows ==
    ASSUME NEW p, NEW v, IsNav(v), NEW u \in Users, NEW ld, NEW f, NEW cs,
           \A c \in cs : IsCall(c), Show(p, v, u, ld, f, cs), UNCHANGED session,
           orderly' => Follows(cs, session, u, ld)
    PROVE  FollowsOK'
  <1> DEFINE l == Landing(p, v, u, ld)
             rest == IF l.path = path THEN cs ELSE Unmount(cs)
             k == NewCall("resend", l.nav.email, 0)
  <1>1. /\ user' = u /\ loading' = ld /\ path' = l.path
        /\ calls' = rest \/ calls' = rest \cup {k}
    BY DEF Show
  <1>2. orderly' => Follows(rest, session, u, ld)
    BY FollowsUnmount
  <1>3. k.op \notin SignIn \cup {"check"} /\ k.answer = Pending /\ k.at = 0 /\ k.heard
    BY DEF NewCall, SignIn
  <1>4. l.path \in GuestPage => u = None
    BY LandingGuest
  <1> HIDE DEF l, rest, k
  <1>5. orderly' => Follows(calls', session, u, ld)
    BY <1>1, <1>2, <1>3, FollowsAnother
  <1>6. orderly' => Follows(calls', session', user', loading')
    BY <1>1, <1>5
  <1>7. path' \in GuestPage => user' = None
    BY <1>1, <1>4
  <1> QED
    BY <1>6, <1>7 DEF FollowsOK, Follows, InOrder, OneAtATime, WillFollow, SigningIn, SignedOut,
                      Entrance

(* The tab starts with its check in flight.                                 *)
LEMMA InitFollows == Init => FollowsOK
  <1> SUFFICES ASSUME Init PROVE FollowsOK
    OBVIOUS
  <1>1. PICK cs : calls = cs \cup {NewCall("check", None, 0)}
                  /\ (cs = {} \/ \E a \in Account : cs = {NewCall("link", a, 1)})
    BY DEF Init
  <1>2. /\ \A c \in calls : /\ c.op \in {"check", "link"} /\ c.answer = Pending /\ c.at = 0
                            /\ c.heard
        /\ \A c, d \in calls : c.op = d.op => c = d
        /\ \E c \in calls : c.op = "check"
    <2> DEFINE k == NewCall("check", None, 0)
    <2>1. k.op = "check" /\ k.answer = Pending /\ k.at = 0 /\ k.heard
      BY DEF NewCall
    <2>2. \A a : LET c == NewCall("link", a, 1)
                 IN  c.op = "link" /\ c.answer = Pending /\ c.at = 0 /\ c.heard
      BY DEF NewCall
    <2>3. \A c \in cs : c.op = "link" /\ c.answer = Pending /\ c.at = 0 /\ c.heard
      BY <1>1, <2>2
    <2> HIDE DEF k
    <2>4. /\ k \in calls /\ \A c \in calls : c \in cs \/ c = k
          /\ \A c, d \in cs : c = d
      BY <1>1 DEF k
    <2> QED
      BY <2>1, <2>3, <2>4
  <1>3. \A c \in calls : ~Answered(c) /\ ~Tells(c) /\ ~Inside(c) /\ IsAnswer(c)
    BY <1>2 DEF Answered, Tells, Inside, IsAnswer, Pending, Answer
  <1>4. user = None /\ loading
    BY DEF Init
  <1>5. InOrder(calls)
    BY <1>2, <1>3 DEF InOrder
  <1>6. OneAtATime(calls, loading)
    BY <1>2, <1>4 DEF OneAtATime, Changing
  <1>7. WillFollow(calls, session, user)
    BY <1>2, <1>3 DEF WillFollow, Asks
  <1>8. SigningIn(calls, session, user, loading) /\ SignedOut(calls, user, loading)
    BY <1>2, <1>4 DEF SigningIn, SignedOut
  <1>9. Entrance(calls, session)
    BY <1>3 DEF Entrance
  <1> QED
    BY <1>4, <1>5, <1>6, <1>7, <1>8, <1>9 DEF FollowsOK, Follows

-----------------------------------------------------------------------------
(* An answer is given after all others.                                     *)
LEMMA LatestBounds ==
    ASSUME NEW c \in calls, InOrder(calls)
    PROVE  Latest \in Nat /\ \A d \in calls : d.at <= Latest
  <1>1. PICK m \in calls : \A d \in calls : d.at <= m.at
    BY DEF InOrder
  <1>2. m.at \in {d.at : d \in calls} /\ \A d \in calls : d.at <= m.at
    BY <1>1
  <1>3. Latest \in {d.at : d \in calls} /\ \A d \in calls : d.at <= Latest
    BY <1>2 DEF Latest
  <1> QED
    BY <1>3 DEF InOrder

(* The call once it is answered with status s and user u.                   *)
Given(c, s, u) == [c EXCEPT !.answer = Answer(s, u), !.at = Latest + 1]

(* The server answers as it may, and tells of the session it leaves.        *)
LEMMA ServedFollows ==
    ASSUME IInv, FollowsOK, NEW c \in calls, NEW s \in {"ok", "401", "403", "refused"}, NEW u,
           Served(c, Answer(s, u)),
           orderly =>
               /\ IsAnswer(Given(c, s, u))
               /\ IF Tells(Given(c, s, u)) THEN session' = Told(Given(c, s, u))
                  ELSE session' = session
               /\ session' # session => c.op \in Changing
               /\ Inside(Given(c, s, u)) => session # None
    PROVE  FollowsOK'
  <1> DEFINE a == Given(c, s, u)
  <1>1. /\ UNCHANGED <<user, loading, path, orderly>> /\ c.answer = Pending
        /\ calls' = (calls \ {c}) \cup IF c.heard THEN {a} ELSE {}
    BY DEF Served, tab, Given
  <1>2. path' \in GuestPage => user' = None
    BY <1>1 DEF FollowsOK
  <1>3. ASSUME orderly PROVE Follows((calls \ {c}) \cup {a}, session', user, loading)
    <2>1. Follows(calls, session, user, loading) /\ InOrder(calls)
      BY <1>3 DEF FollowsOK, Follows
    <2>2. Latest \in Nat /\ \A d \in calls : d.at <= Latest /\ d.at \in Nat
      BY <2>1, LatestBounds DEF InOrder
    <2>3. /\ a.op = c.op /\ a.account = c.account /\ a.heard = c.heard /\ a.at = Latest + 1
          /\ a.answer = Answer(s, u)
      BY DEF Given, IInv, TypeOK, IsCall
    <2>4. Answered(a) /\ ~Answered(c) /\ c.heard
      BY <1>1, <2>1, <2>3 DEF Answered, Answer, Pending, InOrder
    <2>5. a.at \in Nat /\ \A d \in calls : d.at < a.at
      BY <2>2, <2>3
    <2>6. /\ IsAnswer(a) /\ (IF Tells(a) THEN session' = Told(a) ELSE session' = session)
          /\ session' # session => c.op \in Changing
          /\ Inside(a) => session # None
      BY <1>3
    <2> HIDE DEF a
    <2> QED
      BY <2>1, <2>3, <2>4, <2>5, <2>6, FollowsServed
  <1>4. orderly => c.heard
    BY DEF FollowsOK, Follows, InOrder
  <1>5. orderly' => Follows(calls', session', user', loading')
    BY <1>1, <1>3, <1>4
  <1> QED
    BY <1>2, <1>5 DEF FollowsOK, Follows, InOrder, OneAtATime, WillFollow, SigningIn, SignedOut,
                      Entrance

(* Whatever the server answers.                                             *)
LEMMA ServeFollows ==
    ASSUME IInv, FollowsOK, NEW c \in calls, Serve(c)
    PROVE  FollowsOK'
  <1>1. /\ session \in Addressee /\ (session # None => session \in Account)
        /\ c.op \in {"login", "verify", "link", "register"} => c.account \in Account
        /\ \A x \in Account : x # None
        /\ \A s, u : /\ Given(c, s, u).op = c.op /\ Given(c, s, u).account = c.account
                     /\ Given(c, s, u).answer.status = s /\ Given(c, s, u).answer.user = u
    BY SessionConstants DEF IInv, TypeOK, IsCall, Given, Answer, Addressee
  <1>2. ASSUME NEW x \in Account, profile' = profile
        PROVE  Record(x) # None /\ AccountOf(Record(x)) = x /\ Record(x).account = x
    BY <1>2, SessionConstants DEF Record, AccountOf, IInv, TypeOK
  <1>3. /\ \A u : \A s \in {"ok", "401", "403", "refused"} : Answered(Given(c, s, u))
        /\ AccountOf(None) = None
    BY <1>1 DEF Answered, Pending, Answer, AccountOf
  <1>4. CASE ServeMe(c)
    <2>1. /\ UNCHANGED <<session, profile>> /\ c.op \in {"check", "refresh", "open"}
          /\ \/ session = None /\ Served(c, Answer("401", None))
             \/ session # None /\ Served(c, Answer("ok", Record(session)))
      BY <1>4 DEF ServeMe, server
    <2>2. CASE session = None
      <3> DEFINE a == Given(c, "401", None)
      <3>1. IsAnswer(a) /\ Tells(a) /\ Told(a) = None /\ ~Inside(a)
        BY <1>1, <1>3, <2>1 DEF IsAnswer, Tells, Told, Inside
      <3> HIDE DEF a
      <3> QED
        BY <2>1, <2>2, <3>1, ServedFollows DEF a
    <2>3. CASE session # None
      <3> DEFINE a == Given(c, "ok", Record(session))
      <3>1. Record(session) # None /\ AccountOf(Record(session)) = session
        BY <1>1, <1>2, <2>1, <2>3
      <3>2. IsAnswer(a) /\ Tells(a) /\ Told(a) = session
        BY <1>1, <1>3, <2>1, <3>1 DEF IsAnswer, Tells, Told
      <3> HIDE DEF a
      <3> QED
        BY <2>1, <2>3, <3>2, ServedFollows DEF a
    <2> QED
      BY <2>2, <2>3
  <1>5. CASE ServeLogin(c)
    <2>1. c.op = "login" /\ c.account \in Account /\ profile' = profile /\ c.op \in Changing
      BY <1>1, <1>5 DEF ServeLogin, Changing
    <2>2. ASSUME session' = session, Served(c, Answer("401", None)) PROVE FollowsOK'
      <3> DEFINE a == Given(c, "401", None)
      <3>1. IsAnswer(a) /\ Tells(a) /\ Told(a) = None /\ ~Inside(a)
        BY <1>1, <1>3, <2>1 DEF IsAnswer, Tells, Told, Inside
      <3>2. orderly => session = None
        BY <2>1, <2>2 DEF FollowsOK, Follows, SigningIn, Served, Answered
      <3> HIDE DEF a
      <3> QED
        BY <2>2, <3>1, <3>2, ServedFollows DEF a
    <2>3. ASSUME NEW s \in {"403", "refused"}, session' = None, Served(c, Answer(s, None))
          PROVE  FollowsOK'
      <3> DEFINE a == Given(c, s, None)
      <3>1. IsAnswer(a) /\ Tells(a) /\ Told(a) = None /\ ~Inside(a)
        BY <1>1, <1>3, <2>1 DEF IsAnswer, Tells, Told, Inside
      <3> HIDE DEF a
      <3> QED
        BY <2>1, <2>3, <3>1, ServedFollows DEF a
    <2>4. ASSUME NEW u \in {None, Record(c.account)}, session' = c.account,
                 Served(c, Answer("ok", u))
          PROVE  FollowsOK'
      <3> DEFINE a == Given(c, "ok", u)
      <3>1. u # None => u.account = c.account
        BY <1>2, <2>1
      <3>2. IsAnswer(a) /\ Tells(a) /\ Told(a) = c.account /\ ~Inside(a)
        BY <1>1, <1>3, <2>1, <3>1 DEF IsAnswer, Tells, Told, Inside
      <3> HIDE DEF a
      <3> QED
        BY <2>1, <2>4, <3>2, ServedFollows DEF a
    <2> QED
      BY <1>5, <2>2, <2>3, <2>4 DEF ServeLogin
  <1>6. CASE ServeLogout(c)
    <2>1. PICK s \in {"401", "ok"} : Served(c, Answer(s, None))
      BY <1>6 DEF ServeLogout
    <2>2. c.op = "logout" /\ c.op \in Changing /\ session' = None
      BY <1>6 DEF ServeLogout, Changing
    <2> DEFINE a == Given(c, s, None)
    <2>3. IsAnswer(a) /\ Tells(a) /\ Told(a) = None /\ ~Inside(a)
      BY <1>1, <1>3, <2>2 DEF IsAnswer, Tells, Told, Inside
    <2> HIDE DEF a
    <2> QED
      BY <2>1, <2>2, <2>3, ServedFollows DEF a
  <1>7. CASE ServeProfile(c) \/ ServeCreate(c)
    <2>1. c.op \in {"profile", "create"} /\ session' = session
      BY <1>7 DEF ServeProfile, ServeCreate, server
    <2>2. PICK s \in {"401", "ok", "403", "refused"} :
              Served(c, Answer(s, None)) /\ (s = "401" <=> session = None)
      BY <1>7 DEF ServeProfile, ServeCreate
    <2> DEFINE a == Given(c, s, None)
    <2>3. /\ IsAnswer(a) /\ (Tells(a) <=> s = "401") /\ (Tells(a) => Told(a) = None)
          /\ Inside(a) => s # "401"
      BY <1>1, <1>3, <2>1 DEF IsAnswer, Tells, Told, Inside
    <2> HIDE DEF a
    <2> QED
      BY <2>1, <2>2, <2>3, ServedFollows DEF a
  <1>8. CASE ServeVerify(c)
    <2>1. c.op \in {"verify", "link"} /\ c.op \in Changing /\ profile' = profile
          /\ c.account \in Account
      BY <1>1, <1>8 DEF ServeVerify, Changing
    <2>2. ASSUME session' = c.account, Served(c, Answer("ok", Record(c.account)))
          PROVE  FollowsOK'
      <3> DEFINE a == Given(c, "ok", Record(c.account))
      <3>1. Record(c.account) # None /\ AccountOf(Record(c.account)) = c.account
        BY <1>2, <2>1
      <3>2. IsAnswer(a) /\ Tells(a) /\ Told(a) = c.account /\ ~Inside(a)
        BY <1>1, <1>3, <2>1, <3>1 DEF IsAnswer, Tells, Told, Inside
      <3> HIDE DEF a
      <3> QED
        BY <2>1, <2>2, <3>2, ServedFollows DEF a
    <2>3. ASSUME NEW s \in {"ok", "refused"}, session' = session, Served(c, Answer(s, None))
          PROVE  FollowsOK'
      <3> DEFINE a == Given(c, s, None)
      <3>1. IsAnswer(a) /\ ~Tells(a) /\ ~Inside(a)
        BY <1>1, <1>3, <2>1 DEF IsAnswer, Tells, Told, Inside
      <3> HIDE DEF a
      <3> QED
        BY <2>1, <2>3, <3>1, ServedFollows DEF a
    <2> QED
      BY <1>8, <2>2, <2>3 DEF ServeVerify
  <1>9. CASE ServeRegister(c) \/ ServeResend(c) \/ ServeForgot(c) \/ ServeCheckCode(c)
             \/ ServeReset(c)
    <2>1. /\ c.op \in {"register", "resend", "forgot", "again", "precheck", "checkcode", "reset"}
          /\ session' = session
      BY <1>9 DEF ServeRegister, ServeResend, ServeForgot, ServeCheckCode, ServeReset
    <2>2. PICK s \in {"ok", "refused"} : Served(c, Answer(s, None))
      BY <1>9 DEF ServeRegister, ServeResend, ServeForgot, ServeCheckCode, ServeReset
    <2> DEFINE a == Given(c, s, None)
    <2>3. IsAnswer(a) /\ ~Tells(a) /\ ~Inside(a)
      BY <1>1, <1>3, <2>1 DEF IsAnswer, Tells, Told, Inside
    <2> HIDE DEF a
    <2> QED
      BY <2>1, <2>2, <2>3, ServedFollows DEF a
  <1> QED
    BY <1>4, <1>5, <1>6, <1>7, <1>8, <1>9 DEF Serve

-----------------------------------------------------------------------------
(* A tab that is still orderly hears the first of the answers.              *)
LEMMA HeardInOrder ==
    ASSUME FollowsOK, NEW c \in calls, NEW s, Arrives(c, s), orderly'
    PROVE  /\ Follows(calls, session, user, loading) /\ First(calls, c)
           /\ Others(c) = calls \ {c} /\ s = c.answer.status /\ Answered(c) /\ IsAnswer(c)
  <1>1. orderly /\ ~Overtakes(c) /\ s = c.answer.status /\ s # "pending"
    BY DEF Arrives, Fault
  <1>2. Follows(calls, session, user, loading) /\ InOrder(calls)
    BY <1>1 DEF FollowsOK, Follows
  <1>3. c.answer # Pending
    BY <1>1 DEF Pending, Answer
  <1>4. \A d \in calls : Answered(d) => c.at <= d.at
    BY <1>1, <1>2 DEF Overtakes, InOrder, Answered
  <1> QED
    BY <1>1, <1>2, <1>3, <1>4 DEF First, Others, Answered, InOrder

(* The tab makes of the answer what it tells, and shows it.                 *)
LEMMA HeardFollows ==
    ASSUME IInv, FollowsOK, NEW c \in calls, NEW s, Arrives(c, s),
           NEW p, NEW v, IsNav(v), NEW u2 \in Users, NEW ld2, NEW f,
           Show(p, v, u2, ld2, f, Others(c)),
           IF c.op = "check" THEN ~ld2 ELSE ld2 = loading,
           orderly' => IF Tells(c) THEN AccountOf(u2) = Told(c) ELSE u2 = user
    PROVE  FollowsOK'
  <1>1. session' = session
    BY DEF Arrives, server
  <1>2. \A d \in Others(c) : IsCall(d)
    BY RemainingCalls DEF IInv
  <1>3. orderly' => Follows(Others(c), session, u2, ld2)
    BY HeardInOrder, FollowsHeard
  <1> QED
    BY <1>1, <1>2, <1>3, ShowFollows

(* The page asks for the user again.                                        *)
LEMMA AskedFollows ==
    ASSUME IInv, FollowsOK, NEW c \in calls, Arrives(c, "ok"),
           c.op = "login" \/ c.op = "profile",
           Show(path, nav, user, loading, form, Then(c, "refresh"))
    PROVE  FollowsOK'
  <1> DEFINE t == [NewCall("refresh", c.account, 0) EXCEPT !.mounted = c.mounted]
  <1>1. session' = session
    BY DEF Arrives, server
  <1>2. \A d \in Then(c, "refresh") : IsCall(d)
    BY RemainingCalls DEF IInv
  <1>3. t.op = "refresh" /\ t.answer = Pending /\ t.at = 0 /\ t.heard
    BY DEF NewCall
  <1>4. Then(c, "refresh") = Others(c) \cup {t}
    BY DEF Then
  <1> HIDE DEF t
  <1>5. orderly' => Follows(Then(c, "refresh"), session, user, loading)
    <2> SUFFICES ASSUME orderly' PROVE Follows(Then(c, "refresh"), session, user, loading)
      OBVIOUS
    <2>1. /\ Follows(calls, session, user, loading) /\ First(calls, c)
          /\ Others(c) = calls \ {c} /\ c.answer.status = "ok"
      BY HeardInOrder
    <2>2. c.op = "login" \/ Inside(c)
      BY <2>1 DEF Inside
    <2> QED
      BY <1>3, <1>4, <2>1, <2>2, FollowsAsked
  <1> QED
    BY <1>1, <1>2, <1>5, ShowFollows DEF IInv, TypeOK

(* Whatever answer is heard.                                                *)
LEMMA HearFollows ==
    ASSUME IInv, FollowsOK, NEW c \in calls, NEW s \in Status, Hear(c, s)
    PROVE  FollowsOK'
  <1>1. /\ IsNav(nav) /\ user \in Users /\ None \in Users /\ c.answer.user \in Users
        /\ c.account \in Addressee /\ Cleared(s) \in Users
    BY DEF IInv, TypeOK, IsCall, Users, Cleared
  <1>2. Arrives(c, s)
    BY DEF Hear, HearCheck, HearRefresh, HearOpen, HearLogin, HearLogout, HearProfile,
           HearCreate, HearRegister, HearVerify, HearLink, HearResend, HearForgot,
           HearCheckCode, HearReset
  <1>3. orderly' => /\ Follows(calls, session, user, loading) /\ s = c.answer.status
                    /\ Answered(c) /\ IsAnswer(c)
    BY <1>2, HeardInOrder
  <1>4. AccountOf(None) = None
    BY DEF AccountOf
  <1>5. CASE HearCheck(c, s)
    <2> DEFINE u2 == IF s = "ok" THEN c.answer.user ELSE None
    <2>1. c.op = "check" /\ Show(path, nav, u2, FALSE, form, Others(c))
      BY <1>5 DEF HearCheck
    <2>2. u2 \in Users
      BY <1>1
    <2>3. orderly' => Tells(c) /\ AccountOf(u2) = Told(c)
      BY <1>3, <1>4, <2>1 DEF Tells, Told, IsAnswer
    <2> HIDE DEF u2
    <2> QED
      BY <1>1, <1>2, <2>1, <2>2, <2>3, HeardFollows
  <1>6. CASE HearRefresh(c, s) \/ HearOpen(c, s)
    <2> DEFINE u2 == IF s = "ok" THEN c.answer.user ELSE Cleared(s)
    <2>1. /\ c.op \in {"refresh", "open"}
          /\ \E p, f : \E v \in {nav, NoNav} : Show(p, v, u2, loading, f, Others(c))
      BY <1>6 DEF HearRefresh, HearOpen
    <2>2. u2 \in Users
      BY <1>1
    <2>3. orderly' => Tells(c) /\ AccountOf(u2) = Told(c)
      BY <1>3, <1>4, <2>1 DEF Tells, Told, IsAnswer, Cleared
    <2> HIDE DEF u2
    <2> QED
      BY <1>1, <1>2, <2>1, <2>2, <2>3, BlankNav, HeardFollows
  <1>7. CASE HearLogin(c, s)
    <2>1. c.op = "login" /\ (orderly' => Tells(c) /\ user = None)
      BY <1>3, <1>7 DEF HearLogin, Tells, Follows, SigningIn
    <2>2. CASE s = "ok" /\ c.answer.user # None
      <3>1. Show(path, nav, c.answer.user, loading, Ended(c, form), Others(c))
        BY <1>7, <2>2 DEF HearLogin
      <3>2. orderly' => AccountOf(c.answer.user) = Told(c)
        BY <1>3, <2>1, <2>2 DEF Told, IsAnswer, AccountOf
      <3> QED
        BY <1>1, <1>2, <2>1, <3>1, <3>2, HeardFollows
    <2>3. CASE s = "ok" /\ c.answer.user = None
      BY <1>2, <1>7, <2>1, <2>3, AskedFollows DEF HearLogin
    <2>4. CASE s = "403"
      <3> DEFINE v == [NoNav EXCEPT !.email = c.account, !.resend = TRUE]
      <3>1. Show("/auth/verify-email", v, user, loading, form, Others(c))
        BY <1>7, <2>4 DEF HearLogin
      <3>2. IsNav(v)
        BY <1>1, EmailNav
      <3>3. orderly' => AccountOf(user) = Told(c)
        BY <1>3, <1>4, <2>1, <2>4 DEF Told
      <3> HIDE DEF v
      <3> QED
        BY <1>1, <1>2, <2>1, <3>1, <3>2, <3>3, HeardFollows
    <2>5. CASE s # "ok" /\ s # "403"
      <3>1. Show(path, nav, Cleared(s), loading, Ended(c, form), Others(c))
        BY <1>7, <2>5 DEF HearLogin
      <3>2. orderly' => AccountOf(Cleared(s)) = Told(c)
        BY <1>3, <1>4, <2>1, <2>5 DEF Told, Cleared
      <3> QED
        BY <1>1, <1>2, <2>1, <3>1, <3>2, HeardFollows
    <2> QED
      BY <2>2, <2>3, <2>4, <2>5
  <1>8. CASE HearLogout(c, s)
    <2>1. c.op = "logout" /\ Show("/", NoNav, None, loading, form, Others(c))
      BY <1>8 DEF HearLogout
    <2>2. orderly' => Tells(c) /\ AccountOf(None) = Told(c)
      BY <1>3, <2>1 DEF Tells, Told, IsAnswer
    <2> QED
      BY <1>1, <1>2, <2>1, <2>2, BlankNav, HeardFollows
  <1>9. CASE HearProfile(c, s) \/ HearCreate(c, s)
    <2>1. c.op \in {"profile", "create"}
      BY <1>9 DEF HearProfile, HearCreate
    <2>2. CASE s = "ok" /\ HearProfile(c, s)
      BY <1>2, <2>2, AskedFollows DEF HearProfile
    <2>3. CASE s = "ok" /\ HearCreate(c, s)
      <3> DEFINE t == [NewCall("open", c.account, 0) EXCEPT !.mounted = c.mounted]
      <3>1. t.op \notin SignIn \cup {"check"} /\ t.answer = Pending /\ t.at = 0 /\ t.heard
        BY DEF NewCall, SignIn
      <3>2. Show(path, nav, user, loading, form, Then(c, "open")) /\ session' = session
        BY <1>2, <2>3 DEF HearCreate, Arrives, server
      <3>3. \A d \in Then(c, "open") : IsCall(d)
        BY RemainingCalls DEF IInv
      <3>4. Then(c, "open") = Others(c) \cup {t}
        BY DEF Then
      <3>5. orderly' => ~Tells(c)
        BY <1>3, <2>1, <2>3 DEF Tells
      <3> HIDE DEF t
      <3>6. orderly' => Follows(Others(c), session, user, loading)
        BY <1>1, <1>2, <2>1, <3>5, HeardInOrder, FollowsHeard
      <3>7. orderly' => Follows(Then(c, "open"), session, user, loading)
        BY <3>1, <3>4, <3>6, FollowsAnother
      <3> QED
        BY <1>1, <3>2, <3>3, <3>7, ShowFollows
    <2>4. CASE s # "ok"
      <3>1. Show(path, nav, Cleared(s), loading, Ended(c, form), Others(c))
        BY <1>9, <2>4 DEF HearProfile, HearCreate
      <3>2. orderly' => IF Tells(c) THEN AccountOf(Cleared(s)) = Told(c) ELSE Cleared(s) = user
        BY <1>3, <1>4, <2>1 DEF Tells, Told, Cleared, IsAnswer
      <3> QED
        BY <1>1, <1>2, <2>1, <3>1, <3>2, HeardFollows
    <2> QED
      BY <1>9, <2>2, <2>3, <2>4
  <1>10. CASE HearVerify(c, s) \/ HearLink(c, s)
    <2> DEFINE u2 == IF s = "ok" /\ c.answer.user # None THEN c.answer.user ELSE user
    <2>1. /\ c.op \in {"verify", "link"}
          /\ \E f : Show(path, nav, u2, loading, f, Others(c))
      BY <1>10 DEF HearVerify, HearLink
    <2>2. u2 \in Users
      BY <1>1
    <2>3. orderly' => IF Tells(c) THEN AccountOf(u2) = Told(c) ELSE u2 = user
      BY <1>3, <2>1 DEF Tells, Told, IsAnswer
    <2> HIDE DEF u2
    <2> QED
      BY <1>1, <1>2, <2>1, <2>2, <2>3, HeardFollows
  <1>11. CASE \/ HearRegister(c, s) \/ HearResend(c, s) \/ HearForgot(c, s)
              \/ HearCheckCode(c, s) \/ HearReset(c, s)
    <2>1. /\ IsNav([NoNav EXCEPT !.email = c.account])
          /\ IsNav([NoNav EXCEPT !.email = c.account, !.token = c.key])
      BY <1>1, EmailNav
    <2>2. c.op \in {"register", "resend", "again", "forgot", "precheck", "checkcode", "reset"}
      BY <1>11 DEF HearRegister, HearResend, HearForgot, HearCheckCode, HearReset
    <2>3. PICK p, v, f : IsNav(v) /\ Show(p, v, user, loading, f, Others(c))
      BY <1>1, <1>11, <2>1 DEF HearRegister, HearResend, HearForgot, HearCheckCode, HearReset
    <2>4. ~Tells(c)
      BY <2>2 DEF Tells
    <2> QED
      BY <1>1, <1>2, <2>2, <2>3, <2>4, HeardFollows
  <1> QED
    BY <1>5, <1>6, <1>7, <1>8, <1>9, <1>10, <1>11 DEF Hear

-----------------------------------------------------------------------------
(* The user makes a call; one that signs in is made from its page, by who   *)
(* is signed out, once the first check has ended.                           *)
LEMMA IssueFollows ==
    ASSUME IInv, FollowsOK, NEW op, NEW a, NEW k, NEW f, Issue(op, a, k, f),
           op \notin {"check", "refresh", "link"},
           op = "login" => path = "/auth/login" /\ ~loading
    PROVE  FollowsOK'
  <1> DEFINE t == NewCall(op, a, k)
  <1>1. /\ t.op = op /\ t.answer = Pending /\ t.at = 0 /\ t.heard
        /\ calls' = calls \cup {t} /\ UNCHANGED <<session, user, loading, path>>
        /\ orderly' = (orderly /\ ~(op \in SignIn /\ \E d \in calls : d.op \in SignIn))
    BY DEF NewCall, Issue, server
  <1> HIDE DEF t
  <1>2. ASSUME orderly' PROVE Follows(calls', session, user, loading)
    <2>1. Follows(calls, session, user, loading)
      BY <1>1, <1>2 DEF FollowsOK
    <2>2. CASE op \notin SignIn
      BY <1>1, <2>1, <2>2, FollowsAnother
    <2>3. CASE op \in SignIn
      <3>1. op \in {"login", "logout", "verify"} /\ \A d \in calls : d.op \notin SignIn
        BY <1>1, <1>2, <2>3 DEF SignIn
      <3>2. op = "login" => user = None /\ ~loading
        BY DEF FollowsOK, GuestPage
      <3> QED
        BY <1>1, <2>1, <3>1, <3>2, FollowsSignIn
    <2> QED
      BY <2>2, <2>3
  <1>3. orderly' => Follows(calls', session', user', loading')
    BY <1>1, <1>2
  <1>4. path' \in GuestPage => user' = None
    BY <1>1 DEF FollowsOK
  <1> QED
    BY <1>3, <1>4 DEF FollowsOK, Follows, InOrder, OneAtATime, WillFollow, SigningIn, SignedOut,
                      Entrance

(* The user goes to another page, by a link, back, or as the timer runs.    *)
LEMMA MoveFollows ==
    ASSUME IInv, FollowsOK, NEW p, Show(p, NoNav, user, loading, form, calls),
           UNCHANGED <<server, moves, orderly>>
    PROVE  FollowsOK'
  BY BlankNav, ShowFollows DEF IInv, TypeOK, FollowsOK, server

(* Whatever the user does.                                                  *)
LEMMA UserFollows == ASSUME IInv, FollowsOK, User PROVE FollowsOK'
  <1>1. CASE (\E p \in Linked : Visit(p)) \/ handleGoBack
    BY <1>1, MoveFollows DEF Visit, handleGoBack
  <1>2. ASSUME NEW a \in Account, NEW key \in {0, 1}, SubmitLogin(a, key) PROVE FollowsOK'
    BY <1>2, IssueFollows DEF SubmitLogin, LoginReady
  <1>3. ASSUME NEW a \in Account, SubmitRegister(a) \/ SubmitEmail(a) PROVE FollowsOK'
    BY <1>3, IssueFollows DEF SubmitRegister, SubmitEmail
  <1>4. ASSUME NEW right \in BOOLEAN, SubmitOtp(right) \/ SubmitResetOtp(right) PROVE FollowsOK'
    BY <1>4, IssueFollows DEF SubmitOtp, SubmitResetOtp
  <1>5. CASE AskResend \/ AskAgain \/ SubmitPassword \/ SubmitCreate
    BY <1>5, IssueFollows DEF AskResend, AskAgain, SubmitPassword, SubmitCreate
  <1>6. CASE SaveProfile \/ ClickLogout
    BY <1>6, IssueFollows DEF SaveProfile, ClickLogout
  <1> QED
    BY <1>1, <1>2, <1>3, <1>4, <1>5, <1>6 DEF User

(* TabIsUpToDate: for any accounts, pages and number of calls, a tab whose  *)
(* answers came in the order they were given, to which nothing else         *)
(* happened and whose user made one sign-in or sign-out at a time shows,    *)
(* once its calls have ended, the account that the server's cookie is       *)
(* signed in with.                                                          *)
THEOREM TabIsUpToDate == Spec => []TabFollowsSession
  <1>1. FollowsOK => TabFollowsSession
    BY DEF FollowsOK, Follows, WillFollow, AccountOf, TabFollowsSession
  <1>2. IInv /\ FollowsOK /\ [Next]_vars => FollowsOK'
    <2> SUFFICES ASSUME IInv, FollowsOK, [Next]_vars PROVE FollowsOK'
      OBVIOUS
    <2>1. CASE UNCHANGED vars
      <3>1. UNCHANGED <<calls, session, user, loading, path, orderly>>
        BY <2>1 DEF vars, tab, server
      <3> QED
        BY <3>1 DEF FollowsOK, Follows, InOrder, OneAtATime, WillFollow, SigningIn, SignedOut,
                    Entrance
    <2>2. CASE SuccessTimer
      BY <2>2, MoveFollows DEF SuccessTimer
    <2>3. CASE Reload
      BY <2>3 DEF Reload, Fault, FollowsOK
    <2>4. ASSUME NEW a \in Account \cup {None}, SessionChanges(a) PROVE FollowsOK'
      BY <2>4 DEF SessionChanges, Fault, tab, FollowsOK
    <2> QED
      BY <2>1, <2>2, <2>3, <2>4, UserFollows, ServeFollows, HearFollows DEF Next
  <1> QED
    BY <1>1, <1>2, InitIInv, NextIInv, InitFollows, PTL DEF Spec
=============================================================================
