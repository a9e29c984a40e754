---------------------------- MODULE RequestStore ----------------------------
(***************************************************************************)
(* What core::trust::Store promises its clients (include/core/trust/       *)
(* store.h), whatever implements it: a collection of requests, and the     *)
(* effect of each call on it.  `call` is the last call with its arguments  *)
(* and whether it threw.                                                   *)
(***************************************************************************)
CONSTANTS Requests, AppIds

VARIABLES requests, call

Without(gone) == [i \in DOMAIN requests \ gone |-> requests[i]]

Init == DOMAIN requests = {} /\ call = [op |-> "none"]

\* add() returned: the request has been persisted, next to all the others.
Add(r) ==
    /\ call' = [op |-> "add", request |-> r, thrown |-> FALSE]
    /\ \E id \in DOMAIN requests' \ DOMAIN requests :
          requests' = [i \in DOMAIN requests \cup {id} |->
                         IF i = id THEN r ELSE requests[i]]

\* reset() returned: all requests are discarded.
Reset ==
    /\ call' = [op |-> "reset", thrown |-> FALSE]
    /\ DOMAIN requests' = {}

\* remove_application(a) returned: exactly the requests of a are gone.
RemoveApplication(a) ==
    /\ call' = [op |-> "remove_application", app |-> a, thrown |-> FALSE]
    /\ requests' = Without({i \in DOMAIN requests : requests[i].from = a})

\* Query::erase() takes away one request at most.
Erase ==
    /\ call'.op = "erase"
    /\ \E i \in DOMAIN requests : requests' = Without({i})

\* Any other call, one that threw included, leaves the requests alone.
Observe ==
    /\ call'.op \in {"add", "reset", "remove_application"} => call'.thrown
    /\ requests' = requests

Next ==
    \/ \E r \in Requests : Add(r)
    \/ Reset
    \/ \E a \in AppIds : RemoveApplication(a)
    \/ Erase
    \/ Observe

Spec == Init /\ [][Next]_<<requests, call>>
=============================================================================
