----------------------------- MODULE ImagePromise -----------------------------
(***************************************************************************)
(* What GetImageConfig promises about the age of its answers: a container  *)
(* whose image may be cached gets a configuration the image has had since  *)
(* the replica was started, any other one a configuration it has had since *)
(* the call.                                                               *)
(***************************************************************************)
EXTENDS Naturals

CONSTANTS
    Replicas, Images, Requests,
    configs,        \* configs[i][v]: the configurations of version v of image i
    replicaOf, imageOf,
    mayBeStale      \* the requests that may be answered from a cache

VARIABLES
    pushed,         \* the version each image has in the registry
    born,           \* the versions there were when a replica started
    asked,          \* the version there was when a request was made, or 0
    answer          \* "none", "error" or a configuration

vars == <<pushed, born, asked, answer>>

Init ==
    /\ pushed = [i \in Images |-> 1]
    /\ born = [p \in Replicas |-> pushed]
    /\ asked = [r \in Requests |-> 0]
    /\ answer = [r \in Requests |-> "none"]

Push(i) ==
    /\ pushed' = [pushed EXCEPT ![i] = @ + 1]
    /\ UNCHANGED <<born, asked, answer>>

Ask(r) ==
    /\ asked[r] = 0
    /\ asked' = [asked EXCEPT ![r] = pushed[imageOf[r]]]
    /\ UNCHANGED <<pushed, born, answer>>

Oldest(r) ==
    IF r \in mayBeStale THEN born[replicaOf[r]][imageOf[r]] ELSE asked[r]

Answer(r) ==
    /\ asked[r] # 0 /\ answer[r] = "none"
    /\ \E v \in Oldest(r)..pushed[imageOf[r]] :
            \E c \in configs[imageOf[r]][v] : answer' = [answer EXCEPT ![r] = c]
    /\ UNCHANGED <<pushed, born, asked>>

Refuse(r) ==
    /\ asked[r] # 0 /\ answer[r] = "none"
    /\ answer' = [answer EXCEPT ![r] = "error"]
    /\ UNCHANGED <<pushed, born, asked>>

(* The requests a replica was working on fail when it stops.               *)
Restart(p) ==
    /\ born' = [born EXCEPT ![p] = pushed]
    /\ answer' = [r \in Requests |->
                    IF replicaOf[r] = p /\ asked[r] # 0 /\ answer[r] = "none"
                    THEN "error" ELSE answer[r]]
    /\ UNCHANGED <<pushed, asked>>

Next ==
    \/ \E i \in Images : Push(i)
    \/ \E r \in Requests : Ask(r) \/ Answer(r) \/ Refuse(r)
    \/ \E p \in Replicas : Restart(p)

Spec == Init /\ [][Next]_vars
=============================================================================
