--------------------------- MODULE MCAgentConfigMap ---------------------------
(***************************************************************************)
(* AgentConfigMap during the rolling update of a Deployment: two pods of   *)
(* the new ReplicaSet, one of the old, and pods without a controller.      *)
(***************************************************************************)
EXTENDS AgentConfigMap

MCParts == {"shop", "5d9", "7f2", "cache", "tool"}
MCContents == {"new role", "old role"}

ReplicaSetPod(hash, role) ==
    [name |-> <<>>, owner |-> <<"shop", hash>>,
     controllers |-> {<<"shop", hash>>, <<"shop">>},
     content |-> role, dryRun |-> FALSE]

BarePod(name, dry) ==
    [name |-> name, owner |-> <<>>, controllers |-> {},
     content |-> "new role", dryRun |-> dry]

(* A DaemonSet "shop-cache" in the namespace of the Deployment "shop".     *)
DaemonSetPod ==
    [name |-> <<>>, owner |-> <<"shop", "cache">>,
     controllers |-> {<<"shop", "cache">>},
     content |-> "old role", dryRun |-> FALSE]

RollingUpdate ==
    [new1  |-> ReplicaSetPod("7f2", "new role"),
     new2  |-> ReplicaSetPod("7f2", "new role"),
     old   |-> ReplicaSetPod("5d9", "old role"),
     trial |-> BarePod(<<"tool">>, TRUE),
     nobody |-> BarePod(<<>>, FALSE)]

TwoControllers ==
    [shop |-> ReplicaSetPod("7f2", "new role"), cache |-> DaemonSetPod]

MCRequests == DOMAIN RollingUpdate
NoRequests  == {}
MCUnlucky   == {"new1", "old"}
TwoRequests == DOMAIN TwoControllers
=============================================================================
