------------------------------- MODULE Routes -------------------------------
(***************************************************************************)
(* The routing rules of the web client: the role each dashboard requires,  *)
(* the roles a user record grants, and the page a sign-in leads to.        *)
(***************************************************************************)
EXTENDS Naturals

CONSTANT None   \* no page, no account, no role (null in the code)

Role == {"super_admin", "organization_owner", "jury", "manager", "candidat", "user"}

(* The place of a role in ROLE_PRIORITY: 1 is the highest priority.         *)
Rank(r) == CASE r = "super_admin" -> 1 [] r = "organization_owner" -> 2
             [] r = "jury" -> 3        [] r = "manager" -> 4
             [] r = "candidat" -> 5    [] OTHER -> 6

ASSUME NoneIsNoRole == None \notin Role /\ None \notin {"/super-admin", "/org",
    "/jury", "/manager", "/candidat"}

(* What GET /auth/me says of a user, as far as the routing reads it: the   *)
(* global roles, whether the user owns an organisation, the roles held in  *)
(* elections.                                                              *)
Profile == [roles : SUBSET Role, organizations : BOOLEAN,
            elections : SUBSET {"jury", "manager"}]

getAvailableRoles(p) ==
    LET found == p.roles \cup p.elections
                 \cup (IF p.organizations THEN {"organization_owner"} ELSE {})
    IN  IF found = {} THEN {"user"} ELSE found

getPrimaryRole(p) ==
    CHOOSE r \in getAvailableRoles(p) :
        \A s \in getAvailableRoles(p) : Rank(r) <= Rank(s)

-----------------------------------------------------------------------------
(* App.jsx: the dashboards, one per role, and the pages open to everyone.  *)
Dashboard == {"/super-admin", "/org", "/jury", "/manager", "/candidat"}
OpenPage  == {"/", "/auth/login", "/auth/register", "/auth/verify-email",
              "/auth/forgot-password", "/auth/reset-password",
              "/inscription", "/unauthorized"}
Page == Dashboard \cup OpenPage

requiredRoles(path) ==
    CASE path = "/super-admin" -> {"super_admin"}
      [] path = "/org"         -> {"organization_owner", "super_admin"}
      [] path = "/jury"        -> {"jury", "super_admin"}
      [] path = "/manager"     -> {"manager", "super_admin"}
      [] path = "/candidat"    -> {"candidat", "super_admin"}
      [] OTHER                 -> {}

getRoleFromPath(path) ==
    CASE path = "/super-admin" -> "super_admin"
      [] path = "/org"         -> "organization_owner"
      [] path = "/jury"        -> "jury"
      [] path = "/manager"     -> "manager"
      [] path = "/candidat"    -> "candidat"
      [] OTHER                 -> None

(* The base of a role's menu; "user" has no dashboard and goes home.       *)
getRoleDefaultRoute(r) ==
    CASE r = "super_admin"        -> "/super-admin"
      [] r = "organization_owner" -> "/org"
      [] r = "jury"               -> "/jury"
      [] r = "manager"            -> "/manager"
      [] r = "candidat"           -> "/candidat"
      [] OTHER                    -> "/"

hasRole(p, roles) == getAvailableRoles(p) \cap roles # {}

(* ProtectedRoute lets a signed-in user see the page.                      *)
Admits(path, p) == requiredRoles(path) = {} \/ hasRole(p, requiredRoles(path))

(* LoginPage: where a user who is signed in is sent. "from" is the page    *)
(* ProtectedRoute turned away, kept only when it is not the dashboard of   *)
(* a role the user lacks.                                                  *)
Destination(from, p) ==
    IF from # None /\ (getRoleFromPath(from) = None
                       \/ getRoleFromPath(from) \in getAvailableRoles(p))
    THEN from
    ELSE getRoleDefaultRoute(getPrimaryRole(p))
=============================================================================
