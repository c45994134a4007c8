----------------------------- MODULE MCFullSync -----------------------------
(* Small instances of FullSync for TLC.                                    *)
EXTENDS FullSync, TLC

CONSTANTS u1, p1, s1, m1, m2

(* One user and one policy; a secret of the same name at both endpoints,   *)
(* and two auth methods whose paths differ by a slash.                     *)
NoAuthMethods == "sys/auth" :> {}
MCOneGrant == ("auth/userpass/users" :> {u1}) @@ ("sys/policy" :> {p1}) @@ NoAuthMethods
MCPagesNames == ("auth/userpass/users" :> {u1}) @@ ("sys/policy" :> {})
                  @@ ("kv" :> {s1}) @@ ("secret/metadata" :> {s1})
                  @@ ("sys/auth" :> {m1, m2})
MCStripped == [m \in {m1, m2} |-> m1]
=============================================================================
