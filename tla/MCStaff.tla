------------------------------- MODULE MCStaff -------------------------------
(***************************************************************************)
(* Instances of Staff: two accounts, of which the first is an admin who is *)
(* signed in, and the requests that interfere, four at most.               *)
(***************************************************************************)
EXTENDS Staff, TLC

CONSTANTS ann, bob, s1, p

Member(role) == [role |-> role, active |-> TRUE, disabled |-> FALSE, version |-> 1,
                 password |-> p]
SignedIn == [user |-> ann, version |-> 1, ended |-> FALSE, by |-> Null, proof |-> p]

Plan(second, requests, count) ==
    [users |-> (ann :> Member("global_admin")) @@ (bob :> second),
     sessions |-> [s \in Sessions |-> IF s = s1 THEN SignedIn ELSE Null],
     requests |-> requests, count |-> count]

Invitations == {Plan(Absent, {"invite", "resend", "setup", "login", "disable", "enable"}, 4)}
Passwords2 == {Plan(Member("event_admin"),
                 {"login", "verify", "password", "forgot", "reset", "force_logout"}, 4)}
Deactivations == {Plan(Member("event_admin"), {"login", "disable", "enable", "password"}, 5)}
Impersonations == {Plan(Member("event_admin"), {"login", "impersonate", "stop", "disable"}, 4)}
Admins2 == {Plan(Member("global_admin"), {"login", "disable", "role"}, 4),
            Plan(Absent, {"invite", "role"}, 3)}

Everything == Invitations \cup Passwords2 \cup Deactivations \cup Impersonations \cup Admins2
Symmetry == Permutations(Handlers) \cup Permutations(Tokens) \cup Permutations(Sessions \ {s1})
=============================================================================
