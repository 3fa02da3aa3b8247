-------------------------- MODULE MCClientSession --------------------------
(* Two accounts in one tab: a juror who signs in with or without a second  *)
(* factor, and a user still to be verified or to be registered.            *)
EXTENDS ClientSession
CONSTANTS juror, newcomer
MCAccount == {juror, newcomer}
MCStandings == {[a \in MCAccount |-> IF a = juror THEN "verified" ELSE s] :
                    s \in {"unverified", "none"}}
MCProfiles == {[a \in MCAccount |->
                  [roles |-> {}, organizations |-> FALSE,
                   elections |-> IF a = juror THEN {"jury"} ELSE {}]]}
MCEntered == {"/auth/login", "/inscription", "/jury", "/manager"}
MCLinked == {"/auth/login", "/auth/register", "/auth/forgot-password"}
=============================================================================
