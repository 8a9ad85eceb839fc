------------------------------ MODULE MCEvents ------------------------------
(***************************************************************************)
(* Instances of Events: two of the staff, none or one event to begin with, *)
(* and the requests that interfere, four at most.                          *)
(***************************************************************************)
EXTENDS Events, TLC

CONSTANTS ann, bob, a, e1, k1

Person(role) == [role |-> role, disabled |-> FALSE]
Staff(first, second) == (ann :> Person(first)) @@ (bob :> Person(second))

Party == [slug |-> a, creator |-> ann, public |-> FALSE, archived |-> FALSE,
          form |-> "new", banner |-> k1]

\* Nothing yet, or the event of ann, with bob on the team as a manager.
Nothing == [events |-> [e \in EventIds |-> Null], objects |-> {},
            admins |-> {}, managers |-> {}]
OneEvent == [events |-> [e \in EventIds |-> IF e = e1 THEN Party ELSE Null],
             objects |-> {k1}, admins |-> {<<ann, e1>>}, managers |-> {<<bob, e1>>}]

Plan(begin, accounts, requests, count) ==
    [events |-> begin.events, objects |-> begin.objects, admins |-> begin.admins,
     managers |-> begin.managers, accounts |-> accounts, requests |-> requests,
     count |-> count]

Creations == {Plan(Nothing, Staff("event_admin", "global_admin"),
                   {"create", "form", "upload", "account"}, 4)}
Banners   == {Plan(OneEvent, Staff("event_admin", "event_manager"), {"upload", "publish"}, 3)}
Forms2    == {Plan(OneEvent, Staff("event_admin", "global_admin"),
                   {"form", "publish", "unpublish", "archive", "upload"}, 3)}
Teams     == {Plan(OneEvent, Staff("event_admin", "event_manager"),
                   {"assign_admin", "unassign_admin", "assign_manager", "unassign_manager",
                    "account", "form"}, 3)}

\* The event of ann; bob, an admin of events, is not on its team.
Alone == [OneEvent EXCEPT !.managers = {}]
Latecomers == {Plan(Alone, Staff("event_admin", "event_admin"),
                    {"assign_admin", "account", "form"}, 3)}

Everything == Creations \cup Banners \cup Forms2 \cup Teams \cup Latecomers
Symmetry == Permutations(Handlers) \cup Permutations(Keys \ {k1}) \cup Permutations(EventIds \ {e1})
=============================================================================
