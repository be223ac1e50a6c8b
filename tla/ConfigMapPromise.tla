--------------------------- MODULE ConfigMapPromise ---------------------------
(***************************************************************************)
(* What the admission of a pod promises about the agent's generated        *)
(* ConfigMap: however many requests race, each writes the map it wants in  *)
(* one indivisible step and is admitted only afterwards.  Others may       *)
(* remove a map at any time, nobody else writes one.                       *)
(***************************************************************************)
CONSTANTS
    Requests,
    Names,          \* names of generated ConfigMaps
    nameOf,         \* the name of the map a request writes
    wanted,         \* the map it writes
    dryRuns,        \* the requests that must not write
    NoMap           \* the name is free

VARIABLES
    store,          \* the ConfigMaps of the namespace
    status          \* "pending", "written", "admitted" or "refused"

vars == <<store, status>>

Init ==
    /\ store = [n \in Names |-> NoMap]
    /\ status = [r \in Requests |-> "pending"]

Become(r, next) == status' = [status EXCEPT ![r] = next]

Put(r) ==
    /\ status[r] = "pending"
    /\ r \notin dryRuns
    /\ store' = [store EXCEPT ![nameOf[r]] = wanted[r]]
    /\ Become(r, "written")

Admit(r) ==
    /\ \/ status[r] = "written"
       \/ status[r] = "pending" /\ r \in dryRuns
    /\ Become(r, "admitted")
    /\ UNCHANGED store

(* A request may be refused even after it wrote.                           *)
Refuse(r) ==
    /\ status[r] \in {"pending", "written"}
    /\ Become(r, "refused")
    /\ UNCHANGED store

Retry(r) ==
    /\ status[r] = "refused"
    /\ Become(r, "pending")
    /\ UNCHANGED store

Remove(n) ==
    /\ store' = [store EXCEPT ![n] = NoMap]
    /\ UNCHANGED status

Next ==
    \/ \E r \in Requests : Put(r) \/ Admit(r) \/ Refuse(r) \/ Retry(r)
    \/ \E n \in Names : Remove(n)

Spec == Init /\ [][Next]_vars
=============================================================================
