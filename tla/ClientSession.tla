--------------------------- MODULE ClientSession ---------------------------
(***************************************************************************)
(* One browser tab of the web client: who the tab believes is signed in    *)
(* (AuthProvider), the page the router shows, the sign-in, sign-up, email  *)
(* verification and password reset pages, and the calls they have in       *)
(* flight; and the server's side of these calls: the session behind the    *)
(* cookie and the one-time codes.  The tab may hear the answers in any     *)
(* order, or give up on a call (timeout, network) that the server may      *)
(* still process.  The tab may be reloaded, and the cookie's session may   *)
(* change behind its back (expiry, another tab).                           *)
(***************************************************************************)
EXTENDS Routes, FiniteSets

CONSTANTS Account,      \* the accounts whose credentials are typed in this tab
          TwoFactor,    \* those whose sign-in answer carries no user record
          Standings,    \* what the server may know of the accounts at first
          Profiles,     \* the user records they may have at first
          Entered,      \* the pages the tab is opened on
          Linked,       \* the pages the user goes to by a link
          MaxMoves,     \* bound on the calls the user of the tab makes, and the
                        \* abandoned calls, reloads and changed sessions, together
          MaxCodes,     \* bound on the codes one account is sent per purpose
          MaxTries      \* wrong codes that block a code (5 in the code)

ASSUME SessionConstants ==
    /\ None \notin Account /\ None \notin [account : Account, profile : Profile]
    /\ TwoFactor \subseteq Account
    /\ Standings \subseteq [Account -> {"none", "unverified", "verified", "suspended"}]
    /\ Profiles \subseteq [Account -> Profile]
    /\ Entered \cup Linked \subseteq Page \ {"/auth/reset-password", "/unauthorized"}
    /\ {MaxMoves, MaxCodes, MaxTries} \subseteq Nat

VARIABLES
    session,    \* server: the account signed in behind the cookie
    profile,    \* server: the user record of each account
    standing,   \* server: whether the account exists, is verified, is suspended
    code,       \* server: the last code sent to each account, per purpose
    grant,      \* server: reset tokens, as <<account, code they were given for>>
    user,       \* tab: the account and record of the signed-in user, or None
    loading,    \* tab: the first checkAuth has not ended
    path,       \* tab: the page shown
    nav,        \* tab: location.state of that page
    form,       \* tab: the local state of that page's form
    calls,      \* the calls in flight
    moves,      \* calls made by the user and faults, so far
    orderly     \* no fault so far, no answer has overtaken another, and no
                \* sign-in or sign-out was made while another was in flight

server == <<session, profile, standing, code, grant>>
tab    == <<user, loading, path, nav, form>>
vars   == <<server, tab, calls, moves, orderly>>

Standing == {"none", "unverified", "verified", "suspended"}
(* The calls that change who is signed in, or ask it for the tab.          *)
SignIn == {"refresh", "login", "logout", "verify", "link"}

(* What the tab makes of an answer: refused stands for 400, 404, 422, 429. *)
Status == {"pending", "ok", "401", "403", "refused", "lost"}
Answer(s, u) == [status |-> s, user |-> u]
Pending == Answer("pending", None)

-----------------------------------------------------------------------------
(* What the router shows once the effects of a render have run: pages kept *)
(* for signed-in users send others to sign in, and the sign-in pages send  *)
(* signed-in users on.  nav.token is the token of a code already checked.  *)
NoNav == [from |-> None, email |-> None, token |-> 0, resend |-> FALSE]

ProtectedRoute_AnyRole(p, v, u, ld) ==
    IF requiredRoles(p) = {} \/ ld \/ u # None THEN [path |-> p, nav |-> v]
    ELSE [path |-> "/auth/login", nav |-> [NoNav EXCEPT !.from = p]]

ProtectedRoute(p, v, u, ld) ==
    IF requiredRoles(p) = {} \/ ld THEN [path |-> p, nav |-> v]
    ELSE IF u = None THEN [path |-> "/auth/login", nav |-> [NoNav EXCEPT !.from = p]]
    ELSE IF hasRole(u.profile, requiredRoles(p)) THEN [path |-> p, nav |-> v]
    ELSE [path |-> "/unauthorized", nav |-> NoNav]

Landing(p, v, u, ld) ==
    CASE p = "/auth/login" /\ u # None ->
           [path |-> Destination(v.from, u.profile), nav |-> NoNav]
      [] p \in {"/auth/register", "/auth/verify-email"} /\ u # None ->
           [path |-> getRoleDefaultRoute(getPrimaryRole(u.profile)), nav |-> NoNav]
      [] p = "/auth/reset-password" /\ v.email = None ->
           [path |-> "/auth/forgot-password", nav |-> NoNav]
      [] OTHER -> ProtectedRoute(p, v, u, ld)

(* step: the stage of the page; token: the one the reset page received.    *)
FreshForm(p) ==
    [busy |-> FALSE, token |-> 0, email |-> None,
     step |-> CASE p = "/auth/forgot-password" -> "email"
                [] p = "/auth/reset-password"  -> "otp"
                [] OTHER                       -> "form"]

(* A call.  mounted: the page that made it is still shown; heard: the tab  *)
(* still waits; at: the place of the answer among those not heard yet.     *)
NewCall(op, a, k) ==
    [n |-> moves, op |-> op, account |-> a, key |-> k, answer |-> Pending,
     at |-> 0, mounted |-> TRUE, heard |-> TRUE]

Unmount(cs) == {[c EXCEPT !.mounted = FALSE] : c \in cs}

(* Shows page p to user u.  The page that stays keeps form f; another one  *)
(* starts afresh and the answers of the page left find it unmounted.  The  *)
(* verification page opened by a refused sign-in asks for a code itself.   *)
Show(p, v, u, ld, f, cs) ==
    LET l     == Landing(p, v, u, ld)
        stays == l.path = path
        asks  == l.path = "/auth/verify-email" /\ l.nav.resend /\ ~(stays /\ l.nav = nav)
        rest  == IF stays THEN cs ELSE Unmount(cs)
    IN  /\ user' = u /\ loading' = ld
        /\ path' = l.path /\ nav' = l.nav
        /\ form' = IF stays THEN f ELSE FreshForm(l.path)
        /\ calls' = IF asks
                    THEN rest \cup {NewCall("resend", l.nav.email, 0)} ELSE rest

Fault == moves < MaxMoves /\ moves' = moves + 1 /\ orderly' = FALSE

(* The user's move: a call whose handler leaves form f while it waits.     *)
Issue(op, a, k, f) ==
    /\ moves < MaxMoves /\ moves' = moves + 1
    /\ calls' = calls \cup {NewCall(op, a, k)}
    /\ form' = f
    /\ orderly' = (orderly /\ ~(op \in SignIn /\ \E d \in calls : d.op \in SignIn))
    /\ UNCHANGED <<server, user, loading, path, nav>>

Busy == [form EXCEPT !.busy = TRUE]

(* The form once the call c of its page has ended, moved on by g.          *)
Ended(c, g) == IF c.mounted THEN [g EXCEPT !.busy = FALSE] ELSE form

-----------------------------------------------------------------------------
Code(k) == [key |-> k, open |-> k > 0, tries |-> 0]

(* The tab starts: on a public page, on a dashboard, on the link of a      *)
(* verification email, whose call runs beside checkAuth, or on the reset   *)
(* page, whose state the history kept and where a new code was asked for.  *)
Init ==
    /\ standing \in Standings /\ profile \in Profiles
    /\ session \in {a \in Account : standing[a] = "verified"} \cup {None}
    /\ user = None /\ loading = TRUE /\ moves = 0 /\ orderly = TRUE
    /\ LET Start(p, v, f, cs) == /\ path = p /\ nav = v /\ form = f
                                 /\ calls = cs \cup {NewCall("check", None, 0)}
       IN  \/ \E p \in Entered :
                 Start(p, NoNav, FreshForm(p), {})
           \/ \E a \in Account :
                 /\ standing[a] \in {"unverified", "verified"}
                 /\ Start("/auth/verify-email", [NoNav EXCEPT !.email = a],
                          [FreshForm("/auth/verify-email") EXCEPT !.step = "link"],
                          {NewCall("link", a, 1)})
           \/ \E a \in Account :
                 /\ standing[a] = "verified" /\ MaxCodes >= 2
                 /\ Start("/auth/reset-password", [NoNav EXCEPT !.email = a, !.token = 1],
                          FreshForm("/auth/reset-password"), {})
    /\ code = [a \in Account |->
                 [verify |-> Code(IF standing[a] = "unverified" THEN 1 ELSE 0),
                  reset  |-> Code(IF nav.email = a /\ path = "/auth/reset-password"
                                  THEN 2 ELSE 0)]]
    /\ grant = {<<a, 1>> : a \in {b \in Account : code[b]["reset"].key = 2}}
-----------------------------------------------------------------------------
(* The server.                                                             *)
Latest == CHOOSE n \in {d.at : d \in calls} : \A d \in calls : d.at <= n

Served(c, ans) ==
    /\ c.answer = Pending
    /\ calls' = (calls \ {c}) \cup
                IF c.heard THEN {[c EXCEPT !.answer = ans, !.at = Latest + 1]} ELSE {}
    /\ UNCHANGED <<tab, moves, orderly>>

Record(a) == [account |-> a, profile |-> profile'[a]]

SendCode(a, purpose) ==
    /\ code[a][purpose].key < MaxCodes
    /\ code' = [code EXCEPT ![a][purpose] = Code(@.key + 1)]

(* A code is tried against the last one sent; the last try blocks it.      *)
RightCode(c, purpose) ==
    LET k == code[c.account][purpose] IN k.open /\ k.key = c.key
UseCode(c, purpose)   == code' = [code EXCEPT ![c.account][purpose].open = FALSE]
WrongCode(c, purpose) ==
    code' = [code EXCEPT ![c.account][purpose] =
        IF @.open THEN [@ EXCEPT !.tries = @ + 1, !.open = code[c.account][purpose].tries + 1 < MaxTries]
        ELSE @]

ServeMe(c) ==
    /\ c.op \in {"check", "refresh", "open"}
    /\ UNCHANGED server
    /\ Served(c, IF session = None THEN Answer("401", None) ELSE Answer("ok", Record(session)))

ServeLogin(c) ==
    /\ c.op = "login"
    /\ UNCHANGED <<profile, standing, code, grant>>
    /\ \/ /\ c.key = 0 \/ standing[c.account] = "none"
          /\ UNCHANGED session
          /\ Served(c, Answer("401", None))
       \/ /\ c.key = 1 /\ standing[c.account] \in {"unverified", "suspended"}
          /\ session' = None
          /\ Served(c, Answer(IF standing[c.account] = "unverified" THEN "403" ELSE "refused",
                              None))
       \/ /\ c.key = 1 /\ standing[c.account] = "verified"
          /\ session' = c.account
          /\ Served(c, Answer("ok", IF c.account \in TwoFactor THEN None ELSE Record(c.account)))

ServeLogout(c) ==
    /\ c.op = "logout"
    /\ session' = None
    /\ UNCHANGED <<profile, standing, code, grant>>
    /\ Served(c, Answer(IF session = None THEN "401" ELSE "ok", None))

ServeProfile(c) ==
    /\ c.op = "profile"
    /\ UNCHANGED server
    /\ \/ session = None /\ Served(c, Answer("401", None))
       \/ session # None /\ \E s \in {"ok", "403", "refused"} : Served(c, Answer(s, None))

ServeCreate(c) ==
    /\ c.op = "create"
    /\ UNCHANGED <<session, standing, code, grant>>
    /\ \/ /\ session = None /\ UNCHANGED profile /\ Served(c, Answer("401", None))
       \/ /\ session # None /\ UNCHANGED profile
          /\ \E s \in {"403", "refused"} : Served(c, Answer(s, None))
       \/ /\ session # None
          /\ profile' = [profile EXCEPT ![session].organizations = TRUE]
          /\ Served(c, Answer("ok", None))

ServeRegister(c) ==
    /\ c.op = "register"
    /\ UNCHANGED <<session, profile, grant>>
    /\ \/ /\ standing[c.account] = "none"
          /\ standing' = [standing EXCEPT ![c.account] = "unverified"]
          /\ SendCode(c.account, "verify")
          /\ Served(c, Answer("ok", None))
       \/ /\ standing[c.account] # "none"
          /\ UNCHANGED <<standing, code>>
          /\ Served(c, Answer("refused", None))

(* By code or by link: verified once, signed in at once; an address that   *)
(* is verified already is answered with success and no user.               *)
ServeVerify(c) ==
    /\ c.op \in {"verify", "link"}
    /\ UNCHANGED <<profile, grant>>
    /\ \/ /\ standing[c.account] = "unverified" /\ RightCode(c, "verify")
          /\ UseCode(c, "verify")
          /\ standing' = [standing EXCEPT ![c.account] = "verified"]
          /\ session' = c.account
          /\ Served(c, Answer("ok", Record(c.account)))
       \/ /\ standing[c.account] = "unverified" /\ ~RightCode(c, "verify")
          /\ IF c.op = "verify" THEN WrongCode(c, "verify") ELSE UNCHANGED code
          /\ UNCHANGED <<standing, session>>
          /\ Served(c, Answer("refused", None))
       \/ /\ standing[c.account] # "unverified"
          /\ UNCHANGED <<standing, session, code>>
          /\ Served(c, Answer(IF standing[c.account] = "none" THEN "refused" ELSE "ok", None))

(* Refused within a minute of the last one, and after three in an hour.    *)
ServeResend(c) ==
    /\ c.op = "resend"
    /\ UNCHANGED <<session, profile, standing, grant>>
    /\ \/ UNCHANGED code /\ Served(c, Answer("refused", None))
       \/ /\ standing[c.account] = "unverified"
          /\ SendCode(c.account, "verify")
          /\ Served(c, Answer("ok", None))
       \/ /\ standing[c.account] # "unverified"
          /\ UNCHANGED code /\ Served(c, Answer("ok", None))

ServeForgot(c) ==
    /\ c.op \in {"forgot", "again"}
    /\ UNCHANGED <<session, profile, standing, grant>>
    /\ \/ /\ standing[c.account] # "none"
          /\ SendCode(c.account, "reset")
          /\ Served(c, Answer("ok", None))
       \/ /\ standing[c.account] = "none" \/ code[c.account]["reset"].key = MaxCodes
          /\ UNCHANGED code /\ Served(c, Answer("ok", None))

ServeCheckCode(c) ==
    /\ c.op \in {"precheck", "checkcode"}
    /\ UNCHANGED <<session, profile, standing>>
    /\ \/ /\ RightCode(c, "reset")
          /\ UseCode(c, "reset")
          /\ grant' = grant \cup {<<c.account, c.key>>}
          /\ Served(c, Answer("ok", None))
       \/ /\ ~RightCode(c, "reset")
          /\ WrongCode(c, "reset")
          /\ UNCHANGED grant
          /\ Served(c, Answer("refused", None))

ServeReset(c) ==
    /\ c.op = "reset"
    /\ UNCHANGED <<session, profile, standing, code>>
    /\ grant' = grant \ {<<c.account, c.key>>}
    /\ Served(c, Answer(IF <<c.account, c.key>> \in grant THEN "ok" ELSE "refused", None))

Serve(c) ==
    \/ ServeMe(c) \/ ServeLogin(c) \/ ServeLogout(c) \/ ServeProfile(c) \/ ServeCreate(c)
    \/ ServeRegister(c) \/ ServeVerify(c) \/ ServeResend(c) \/ ServeForgot(c)
    \/ ServeCheckCode(c) \/ ServeReset(c)

-----------------------------------------------------------------------------
(* The tab hears that call c ended with s: the answer, in whatever order,  *)
(* or the timeout, after which the server may still process the call.      *)
Overtakes(c) == \E d \in calls : d.answer # Pending /\ d.at < c.at

Arrives(c, s) ==
    /\ c.heard
    /\ \/ /\ s = c.answer.status /\ s # "pending"
          /\ orderly' = (orderly /\ ~Overtakes(c)) /\ UNCHANGED moves
       \/ s = "lost" /\ Fault
    /\ UNCHANGED server

Others(c) == (calls \ {c}) \cup
             IF c.answer = Pending THEN {[c EXCEPT !.heard = FALSE]} ELSE {}

(* A handler that goes on with another call once c has ended.              *)
Then(c, op) == Others(c) \cup {[NewCall(op, c.account, 0)
                                     EXCEPT !.mounted = c.mounted]}

(* The response interceptor: a 401 signs the tab out, whatever the call.   *)
Cleared(s) == IF s = "401" THEN None ELSE user

HearCheck(c, s) ==
    /\ c.op = "check" /\ Arrives(c, s)
    /\ Show(path, nav, IF s = "ok" THEN c.answer.user ELSE None, FALSE, form, Others(c))

HearRefresh(c, s) ==
    /\ c.op = "refresh" /\ Arrives(c, s)
    /\ Show(path, nav, IF s = "ok" THEN c.answer.user ELSE Cleared(s), loading,
            Ended(c, form), Others(c))

HearOpen(c, s) ==
    /\ c.op = "open" /\ Arrives(c, s)
    /\ Show("/org", NoNav, IF s = "ok" THEN c.answer.user ELSE Cleared(s), loading,
            FreshForm("/org"), Others(c))

HearLogin_SameForAll(c, s) ==
    /\ c.op = "login" /\ Arrives(c, s)
    /\ IF s = "403" THEN Show("/auth/verify-email",
                              [NoNav EXCEPT !.email = c.account, !.resend = TRUE],
                              user, loading, form, Others(c))
       ELSE Show(path, nav, IF s = "ok" THEN c.answer.user ELSE Cleared(s), loading,
                 Ended(c, form), Others(c))

HearLogin(c, s) ==
    /\ c.op = "login" /\ Arrives(c, s)
    /\ CASE s = "ok" /\ c.answer.user # None ->
              Show(path, nav, c.answer.user, loading, Ended(c, form), Others(c))
         [] s = "ok" /\ c.answer.user = None ->
              Show(path, nav, user, loading, form, Then(c, "refresh"))
         [] s = "403" ->
              Show("/auth/verify-email", [NoNav EXCEPT !.email = c.account, !.resend = TRUE],
                   user, loading, form, Others(c))
         [] OTHER -> Show(path, nav, Cleared(s), loading, Ended(c, form), Others(c))

HearLogout(c, s) ==
    /\ c.op = "logout" /\ Arrives(c, s)
    /\ Show("/", NoNav, None, loading, form, Others(c))

HearProfile(c, s) ==
    /\ c.op = "profile" /\ Arrives(c, s)
    /\ IF s = "ok" THEN Show(path, nav, user, loading, form, Then(c, "refresh"))
       ELSE Show(path, nav, Cleared(s), loading, Ended(c, form), Others(c))

HearCreate(c, s) ==
    /\ c.op = "create" /\ Arrives(c, s)
    /\ IF s = "ok" THEN Show(path, nav, user, loading, form, Then(c, "open"))
       ELSE Show(path, nav, Cleared(s), loading, Ended(c, form), Others(c))

HearRegister(c, s) ==
    /\ c.op = "register" /\ Arrives(c, s)
    /\ IF s = "ok" THEN Show("/auth/verify-email", [NoNav EXCEPT !.email = c.account],
                             user, loading, form, Others(c))
       ELSE Show(path, nav, user, loading, Ended(c, form), Others(c))

HearVerify(c, s) ==
    /\ c.op = "verify" /\ Arrives(c, s)
    /\ Show(path, nav, IF s = "ok" /\ c.answer.user # None THEN c.answer.user ELSE user,
            loading, Ended(c, form), Others(c))

(* The link's page waits on: only a refused link gives way to the form.    *)
HearLink(c, s) ==
    /\ c.op = "link" /\ Arrives(c, s)
    /\ Show(path, nav, IF s = "ok" /\ c.answer.user # None THEN c.answer.user ELSE user,
            loading,
            IF s # "ok" /\ c.mounted THEN [form EXCEPT !.step = "form"] ELSE form, Others(c))

HearResend(c, s) ==
    /\ c.op \in {"resend", "again"} /\ Arrives(c, s)
    /\ Show(path, nav, user, loading, form, Others(c))

HearForgot_StaysBusy(c, s) ==
    /\ c.op = "forgot" /\ Arrives(c, s)
    /\ Show(path, nav, user, loading,
            IF s = "ok" THEN Ended(c, [form EXCEPT !.step = "otp", !.email = c.account])
            ELSE form, Others(c))

(* Sent or not, the page goes on to ask for the code.                      *)
HearForgot(c, s) ==
    /\ c.op = "forgot" /\ Arrives(c, s)
    /\ Show(path, nav, user, loading,
            Ended(c, [form EXCEPT !.step = "otp", !.email = c.account]), Others(c))

HearCheckCode(c, s) ==
    /\ c.op \in {"precheck", "checkcode"} /\ Arrives(c, s)
    /\ CASE s = "ok" /\ c.op = "precheck" ->
              Show("/auth/reset-password",
                   [NoNav EXCEPT !.email = c.account, !.token = c.key],
                   user, loading, form, Others(c))
         [] s = "ok" /\ c.op = "checkcode" ->
              Show(path, nav, user, loading,
                   Ended(c, [form EXCEPT !.step = "password", !.token = c.key]), Others(c))
         [] OTHER -> Show(path, nav, user, loading, Ended(c, form), Others(c))

HearReset(c, s) ==
    /\ c.op = "reset" /\ Arrives(c, s)
    /\ Show(path, nav, user, loading,
            Ended(c, IF s = "ok" THEN [form EXCEPT !.step = "success"] ELSE form), Others(c))

Hear(c, s) ==
    \/ HearCheck(c, s) \/ HearRefresh(c, s) \/ HearOpen(c, s) \/ HearLogin(c, s)
    \/ HearLogout(c, s) \/ HearProfile(c, s) \/ HearCreate(c, s)
    \/ HearRegister(c, s) \/ HearVerify(c, s) \/ HearLink(c, s) \/ HearResend(c, s)
    \/ HearForgot(c, s) \/ HearCheckCode(c, s) \/ HearReset(c, s)

(* Three seconds after the password was changed.                           *)
SuccessTimer ==
    /\ path = "/auth/reset-password" /\ form.step = "success"
    /\ Show("/auth/login", NoNav, user, loading, form, calls)
    /\ UNCHANGED <<server, moves, orderly>>

-----------------------------------------------------------------------------
(* The user of the tab.                                                    *)
Visit(p) ==
    /\ p # path
    /\ Show(p, NoNav, user, loading, form, calls)
    /\ UNCHANGED <<server, moves, orderly>>

(* The refused page goes back to the user's own dashboard, or to "/login", *)
(* which no route has and which the fallback sends home.                   *)
handleGoBack ==
    /\ path = "/unauthorized"
    /\ Show(IF user = None THEN "/" ELSE getRoleDefaultRoute(getPrimaryRole(user.profile)),
            NoNav, user, loading, form, calls)
    /\ UNCHANGED <<server, moves, orderly>>

(* The form of page p is shown and its button is enabled.                  *)
LoginReady    == path = "/auth/login" /\ ~loading /\ ~form.busy
RegisterReady == path = "/auth/register" /\ ~form.busy
VerifyReady   == path = "/auth/verify-email" /\ form.step = "form" /\ ~form.busy
ForgotReady(step)  == path = "/auth/forgot-password" /\ form.step = step /\ ~form.busy
ResetReady(step)   == path = "/auth/reset-password" /\ form.step = step /\ ~form.busy
DashboardReady     == path \in Dashboard /\ ~loading

SubmitLogin(a, key) == LoginReady /\ Issue("login", a, key, Busy)
SubmitRegister(a)   == RegisterReady /\ Issue("register", a, 0, Busy)
(* The code typed is the last one sent, or not (an older one, a slip).     *)
Typed(a, purpose, right) == IF right THEN code[a][purpose].key ELSE 0

SubmitOtp(right)    == VerifyReady /\ nav.email # None
                       /\ Issue("verify", nav.email, Typed(nav.email, "verify", right), Busy)
AskResend           == path = "/auth/verify-email" /\ form.step = "form" /\ nav.email # None
                       /\ Issue("resend", nav.email, 0, form)
SubmitEmail(a)      == ForgotReady("email") /\ Issue("forgot", a, 0, Busy)
SubmitResetOtp(right) ==
    \/ /\ ForgotReady("otp")
       /\ Issue("precheck", form.email, Typed(form.email, "reset", right), Busy)
    \/ /\ ResetReady("otp")
       /\ Issue("checkcode", nav.email, Typed(nav.email, "reset", right), Busy)
AskAgain            == \/ ForgotReady("otp") /\ Issue("again", form.email, 0, form)
                       \/ ResetReady("otp") /\ Issue("again", nav.email, 0, form)
SubmitPassword      == ResetReady("password") /\ Issue("reset", nav.email, form.token, Busy)
SubmitCreate        == path = "/inscription" /\ ~form.busy /\ Issue("create", None, 0, Busy)
SaveProfile         == DashboardReady /\ ~form.busy /\ Issue("profile", None, 0, Busy)
ClickLogout         == user # None /\ ~loading /\ Issue("logout", None, 0, form)

User ==
    \/ \E p \in Linked : Visit(p)
    \/ handleGoBack
    \/ \E a \in Account : \E key \in {0, 1} : SubmitLogin(a, key)
    \/ \E a \in Account : SubmitRegister(a) \/ SubmitEmail(a)
    \/ \E right \in BOOLEAN : SubmitOtp(right) \/ SubmitResetOtp(right)
    \/ AskResend \/ AskAgain \/ SubmitPassword \/ SubmitCreate
    \/ SaveProfile \/ ClickLogout

(* The page is reloaded: the tab forgets its state and its calls, keeps    *)
(* location.state, and asks who is signed in.                              *)
Reload ==
    /\ Fault
    /\ user' = None /\ loading' = TRUE /\ form' = FreshForm(path)
    /\ calls' = {[c EXCEPT !.heard = FALSE] : c \in {d \in calls : d.answer = Pending}}
                \cup {NewCall("check", None, 0)}
    /\ UNCHANGED <<server, path, nav>>

(* The session expires, or another tab signs in or out.                    *)
SessionChanges(a) ==
    /\ Fault
    /\ a # session /\ (a # None => standing[a] = "verified")
    /\ session' = a
    /\ UNCHANGED <<profile, standing, code, grant, tab, calls>>

Next ==
    \/ User
    \/ \E c \in calls : Serve(c)
    \/ \E c \in calls, s \in Status : Hear(c, s)
    \/ SuccessTimer
    \/ Reload
    \/ \E a \in Account \cup {None} : SessionChanges(a)

Spec == Init /\ [][Next]_vars

-----------------------------------------------------------------------------
(* Properties.                                                             *)

(* Once its calls have ended, a tab whose answers came in order, to which  *)
(* nothing else happened and whose user made one sign-in or sign-out at a  *)
(* time, shows the account the server's cookie is signed in with: no       *)
(* sign-in is lost, no signed-out user stays.                              *)
TabFollowsSession ==
    orderly /\ calls = {} =>
        session = IF user = None THEN None ELSE user.account

(* A dashboard is shown only to a user whose record grants one of its      *)
(* roles, whatever sequence of sign-ins, expiries and redirections led to  *)
(* it (or while the first checkAuth still runs, behind the spinner).       *)
DashboardsAdmit ==
    path \in Dashboard => loading \/ (user # None /\ Admits(path, user.profile))

(* Whatever the tab shows as in progress (the spinner of the first         *)
(* checkAuth, the disabled button of a form) waits for a call that is      *)
(* still in flight and whose end the page will hear.                       *)
WaitsForACall ==
    /\ loading => \E c \in calls : c.op = "check" /\ c.heard
    /\ form.busy => \E c \in calls : c.mounted /\ c.heard

=============================================================================
