# TLA+ models of vault-secrets-webhook

vault-secrets-webhook is a Kubernetes mutating admission webhook. It finds
`vault:...` references in the objects it is shown. In a Secret, a ConfigMap or a
custom resource it replaces them by the secret; a pod it changes so that
`vault-env` resolves them in the container, at start. These modules model the
parts of it where order, concurrency and failure decide whether it is correct.
TLC checks them on small instances and the TLA+ proof system proves the central
invariants for all instances. All paths below are under `src/`.

* [The system](#the-system)
* [The modules](#the-modules)
* [What each run checks](#what-each-run-checks)
* [What is proved](#what-is-proved)
* [Not modelled](#not-modelled)
* [Where the plan stands](#where-the-plan-stands)

## The system

Several replicas of one process serve `/pods`, `/secrets`, `/configmaps` and
`/objects` over TLS. A request runs in a goroutine of its own and keeps nothing
in the process but an entry in the image cache, some counters, and what it wrote
to the API server.

| component | code | state it keeps | operations | what is hard | what makes it correct |
|---|---|---|---|---|---|
| pod mutation | `pkg/webhook/pod.go`, `webhook.go` 99-198 | the pod in memory, nothing between requests | `MutatePod` and its helpers | lookups at the API server that fail or go stale; branches chosen by different annotations that must fit together; panics; reinvocation | no reference is missed; the pod is valid, in start order, runs the same command; a second call changes nothing |
| agent ConfigMap | `pod.go` 164-187, 914-938 | a ConfigMap in the cluster | Create, then Update | racing requests, lost answers, garbage collection, name collisions | admitted pods have their map; nobody is refused for the race |
| certificate reloader | `tlscertificate.go`, `main.go` 71-84 | the served pair, the inotify queue | load, watch, reload, serve | the kubelet swaps files between two reads; bounded queue; restart | never a mixed pair, never an older one; the last good pair in the end |
| admission entry | `webhook.go` 53-97, 370-380 | none | `VaultSecretsMutator` | errors and panics leave no patch; the dry-run flag | one answer each, decided by the object alone; a dry run has no side effects |
| annotation parsing | `config.go` | none, reads process-wide defaults | `parseVaultConfig`, `SetConfigDefaults` | precedence of annotation, setting and built-in value; malformed texts | each field comes from where it should; a skip is a skip |
| address policy | `pkg/common/addr.go` | none | `ValidateObjectAddr` and its helpers | normalisation, classes of hosts | an address is accepted only if the operator listed it |
| skip-verify policy, prefixes | `pkg/common/policy.go`, `common.go` | none | pure functions | four sources decide one flag | no unverified TLS without the operator |
| image registry | `registry.go` | a cache per replica, without expiry | `GetImageConfig` | concurrent misses, moved tags, images that must not be cached | the entrypoint is one the registry gave for that image |
| Secret mutation | `secret.go` | the Secret in memory | `MutateSecret` | docker credentials, one failure among many values | all references replaced or the request fails |
| ConfigMap mutation | `configmap.go` | the ConfigMap in memory | `MutateConfigMap` | binary data after text data | the same |
| object traversal | `object.go` | the object in memory | `traverseObject` | in-place replacement, map order, failure midway | the same, at every depth |
| Vault client, metrics | `webhook.go` 212-338, `client_metrics.go` | counters, connections | `newVaultClient` | nine ways to return | each attempt counted once, each client closed |
| HTTP server | `main.go` | none | routing, health, telemetry | - | - |
| loggers | `client_logger.go`, `webhook_logger.go` | none | - | - | - |
| Helm chart | `deploy/charts/vault-secrets-webhook` | deployment data | - | fixes what the API server does: failurePolicy, reinvocationPolicy, replicas | - |
| e2e tests | `e2e` | - | - | - | - |

How they interact: the API server calls the HTTP server, whose TLS handshakes
read the reloader's pair. `VaultSecretsMutator` parses the annotations (which
uses the two policies) and calls one of four mutators. `MutatePod` reads
ConfigMaps and Secrets, asks the image registry for a container's command, and
writes the agent ConfigMap; it never talks to Vault. The other three mutators
build a Vault client. Nothing else is shared: requests meet only in the image
cache, in the counters, and in the cluster.

`PROJECT.json` lists the hazards, each at its line with the properties that
cover it, or with a note why none does.

## The modules

### PodInjection and PodMutation: one admission of a pod

`PodInjection` is the pure half of `pod.go`, with the source's names: what
`getInitContainers`, `getVolumes`, `getContainers`, `getAgentContainers`,
`getServiceAccountMount` and the wrapping of `mutateContainers` make of a pod,
given the `VaultConfig` parsed from its annotations. `PodMutation` is
`MutatePod` as a state machine around them. Its `pc` is where the goroutine is:

| `pc` | code | actions |
|---|---|---|
| `received` | `pod.go` 60-65 | `AlreadyMutated`, `StartMutation` |
| `containers` | 240-245, 65-85 | `EnterContainer`, `NextList`, `EndScan` |
| `entries` | 245-273, `webhook.go` 99-198 | `ReadEntry`, `SkipOptional`, `LookupFails`, `LeaveContainer`, `DecideToWrap` |
| `wrap` | 275-471 | `WrapContainer`, `RegistryFails` |
| `template` | 129-162 | `SkipTemplate`, `RunTemplate`, `VersionUnavailable` |
| `configmap`, `update` | 164-187 | `NothingToInject`, `NoConfigMapToWrite`, `CreateConfigMap`, `CreateFails`, `UpdateConfigMap`, `UpdateFails` |
| `inject` | 189-194 | `Inject`, `InjectPanics` |
| `agent` | 196-229 | `Finish`, `VersionUnavailable` |

There is one step for each call to the API server or the registry, since the
cluster may change (`ChangeSource`, `ChangeGenerated`) between any two.
Computations between two calls are one step. `Reinvoke` is the API server
calling the webhook again on what it patched, with a container another webhook
added.

Abstractions. An environment value is `"ref"` when `HasVaultPrefix` or
`HasInlineVaultDelimiters` accepts it and any other text if not. Connection
settings that every container gets are represented by `VAULT_ADDR`; those that
are copied when set by `VAULT_ENV_FROM_PATH`. Of the security context only the
added capabilities are kept; resources and pull policies are left out, and so is
the `vault-agent-env-variables` JSON. The directory of the rendered secrets
(`ConfigfilePath`) is one constant although an annotation may move it, and so is
the name of the service account's volume. `LookupFails` and `SkipOptional` stand for
every error that is not NotFound; `CreateFails` and `UpdateFails` also for a write
that took effect and whose answer was lost. The comparison of API server versions has
either outcome (the code compares `v1.12.0` with the server's version by a
Kubernetes-aware order). A panic ends the request without a patch, as `net/http`
recovers it.

Outside `src/`: `WellFormed` is the part of the API server's pod validation that
concerns what the webhook adds (unique container and volume names, mounts of
volumes that exist, one mount per path), and `KubeletArgv` is the kubelet's rule
for command and args.

### ConfigMapPromise and AgentConfigMap: the agent's ConfigMap

`AgentConfigMap` lets any number of requests run the `Create`, then `Update`
of `pod.go` 164-187 against one namespace. `PodMutation` sees the map as one
bit that others may flip; this module has the map's content, its owner and its
name. A name is the sequence of its dash-separated parts, since
`getConfigMapForVaultAgent` drops the last of them. A call may fail without
effect (`CallFails`, which is a crashed replica, too) or take effect and lose
its answer (`ResponseLost`). The controller retries a refused pod (`Retry`), is
deleted (`Retire`), the garbage collector removes what it owned (`Collect`), and
somebody deletes a map by hand (`Remove`). `retired`, `removed`, `wrote`,
`last` and `failed` are history variables by which the properties tell a map that
was taken away from one that was never written, and know whose write was the last.

`ConfigMapPromise` is the abstract specification: each request puts its map in
one indivisible step and is admitted only after that. The refinement maps a
request in `create` or `update` to `pending` (`status`).

### CertificateReloader: the serving certificate

The versions of the pair are numbered in the order the kubelet publishes them;
`disk` is the one the `..data` link leads to. `ReadCert` and `ReadKey` are the
two reads of `tls.LoadX509KeyPair`, `Install` and `KeepOld` its two outcomes in
`Reload`, `StartFails` its failure in `newHTTPServer`. `TakeEvent` is the loop
of `watchCertificate`, which reloads on `..data` only and does nothing about an
overflow. Outside `src/`: the kubelet replaces the link (`Swap`) and touches other
entries of the directory (`OtherChange`), the kernel's queue holds `QueueLimit`
notifications and then one overflow record (`Notify`), and a process that ends is
started again (`Restart`).

The lock around `cert` is not a variable: it is held for the copy of one
pointer, so that installing and serving a pair are single steps. `missed` is a
history variable: a swap left nothing by which the watcher could notice it,
because it fell between the first read and `watcher.Add`, or on a queue full of
other notifications. `QuietMeansCurrent` and `LastPairIsServed` hold only
without it, which states what the code does not do: it does not read the files
again after the watch is set up, nor after an overflow.

### ImagePromise and ImageRegistry: the image's configuration

`ImageRegistry` is `GetImageConfig` for any number of containers over any number
of replicas. `imageCache` is the cache of each replica, without expiry. A call
looks there (`Hit`, `Miss`), asks the registry what the name stands for
(`GetDescriptor`, with the credentials `containerInfo` chooses) and then for the
configuration by digest (`ConfigFile`, `NoManifest`); between any two of these
steps another goroutine may fill the cache, an image may be pushed again
(`Push`), a version removed (`Prune`) or a replica restarted with an empty cache
(`Restart`). `kinds` tells the names the code never caches from those it does,
`always` is the pull policy. A configuration is one value per version and
manifest; of an index the code takes the first, and so does the model. Outside
`src/`: the registry, which accepts some credentials for an image.

`ImagePromise` is the abstract specification: in one step a call is answered
with a configuration its image has had since the call, or, where it may be
cached, since the replica started. A single registry answer implements that
although the call takes two of them and others overwrite the cache meanwhile.

### VaultClient and Webhook: a review from request to store

`Webhook` is `VaultSecretsMutator` and the mutation of Secrets, ConfigMaps and
custom objects, for any number of concurrent reviews. Its `pc` follows the code:

| `pc` | code | actions |
|---|---|---|
| `received` | `webhook.go` 53-97 | `Skip`, `RejectSettings`, `Dispatch` |
| `pod` | `webhook.go` 83, `pod.go` in one step | `MutatePod`, `PodRefused` |
| `check` | `secret.go` 56-92, `configmap.go` 28-47 | `NothingToDo`, `NeedsMutation`, `CheckFails` |
| `client` | `webhook.go` 212-338 | `StartClient`, `HasClient`, `NoClient`, with the steps of `VaultClient` |
| `mutate` | `secret.go` 94-196, `configmap.go` 48-100, `object.go` | `Visit`, `VisitFails`, `Mutated` |
| `patched`, `unchanged`, `error` | the API server | `Store` |
| `stored`, `rejected` | the API server | `Reinvoke` |

An object is a function from keys to entries. The entries of a Secret are the
registries of `.dockerconfigjson` and the other data, those of a ConfigMap its
data and binary data, those of a custom object the nodes of its tree of maps
and slices. `todo` holds the entries a mutation has yet to come to; it takes the
ready ones in any order, since Go walks maps in any order, and puts the children
of a map or slice in its place: the recursion of `traverseObject`. Of a value
only what the code asks is kept: which prefix or delimiter it has, whether
base64 or JSON or the four parts of a docker credential come apart, and whether
reading it generates the secret (`>>vault:`). `Crash` stops the replica: reviews
in progress get no answer, the counters start at zero. `Store` is the API server
with its failure policy, `Reinvoke` a second call for what it stored.

`VaultClient` is `newVaultClient`: its calls in order, each failure with the
reason it counts, the token it may create, and the counters of
`client_metrics.go`. `unlucky`, `refused`, `wrote` and `opened` are history
variables.

### AddressPolicy and VaultConfig: the settings of an object

`AddressPolicy` has `ValidateObjectAddr` and `normalizeAddr` over addresses that
differ in what they look at: scheme, class of the host, path, user or query,
space and case. `VaultConfig` is `parseVaultConfig` with `SetConfigDefaults`.
All 54 fields are treated by one operator, `Value`: the sets `Text`, `Bool`,
`Number` and so on say from where a field may come and how its text is parsed,
and the model parses one field at a time since none depends on another. The
address, the skip and TLS verification are modelled with it.

### MC modules

`MCPodShapes`, `MCPodLookups` (sample pods in `PodSamples`),
`MCAgentConfigMap`, `MCCertificates`, `MCImageRegistry`, `MCWebhook` and
`MCVaultConfig` give the constants their values.

## What each run checks

| run | states | what it asks |
|---|---|---|
| `pod_shapes` | 227,168 | every combination of annotations on three pods: are they valid, marked and ordered? |
| `pod_lookups` | 137,048 | references in a changing, failing cluster: is one missed or invented, and is the ConfigMap written when it must be? |
| `pod_agent_only` | violated | is a Vault Agent started when only `vault-agent` is set? |
| `certificates` | 7,959 | swaps, bad pairs, overflow and crashes |
| `agent_configmap` | 122,472 | a rolling update racing for one map |
| `agent_configmap_names` | violated | does a map belong to the controller it is named for? |
| `image_registry` | 638,280 | concurrent calls, pushes, removed versions, a restart |
| `webhook_objects` | 2,179 | one review of each kind of object, failing anywhere, called twice |
| `webhook_concurrent` | 2,170,507 | three reviews at once, counting and closing their clients |
| `webhook_dry_run` | violated | does a dry run leave Vault alone? |
| `vault_config` | 14,328 | every field with every text, and addresses of every kind |
| `vault_client_timeout` | violated | does an object's timeout reach the webhook's client? |

**pod_shapes.** The configurations are all 3,328 combinations of agent mode,
consul-template mode, TLS secret, token, token-auth-mount and
vault-env-from-path in which a detail varies only with the mode it belongs to.
The pods are an application with an init container, a sidecar and probes; Vault's own pod,
which already has a `vault-tls` volume; and a batch job without references,
service account and entrypoint. The application's sidecar brings its own
`VAULT_CACERT` and `SYS_PTRACE`, and one container of the job was started through
`vault-env`, with a `VAULT_TOKEN_FILE`, by its author: the properties are about
what the webhook gave, not about what a pod came with. Every conditional of `pod.go` distinguishes at
most these. The cluster neither fails nor changes here, since the shape does not
depend on it. `MutationIsMarked`: a pod the webhook changed carries the marker
volume. `EntrypointPreserved`: `vault-env` is given the command line the kubelet
would have run (of containers found by a name only they have). `DependenciesFirst`:
whatever the webhook made start through `vault-env`, probes included, mounts a
volume to which an earlier init container copied it. `TokenFileHasWriter`: a
container it told to read `VAULT_TOKEN_FILE` comes after the container that writes
the file (unless `vault-token` is set, in which case the code starts no agent).
`AllowedPodIsValid`: a valid pod is still valid outside the combinations
`Conflicting` names, and never within them. It speaks of pods that keep clear of the
names and paths the webhook uses (`KeepsClear`), as all of this run do: one that
already has a container called `copy-vault-env`, or mounts something at `/vault/`,
is refused afterwards whatever the annotations say. A volume `vault-tls` of its own
a pod may have: that name the code looks for. `CacertIsMounted`:
a `VAULT_CACERT` the webhook set points into a mount of the TLS secret although
the mount's name is computed at three places. `PtraceNeedsSharing`: it adds
`SYS_PTRACE` only with a shared process namespace. The second invocation, on the
patched pod, is held to the same properties.

**pod_lookups.** A pod that reads one ConfigMap (once optionally) and two keys of a
Secret, and one that carries the marker already; both sources in every state,
one failure and one change, at any point, and a reinvocation. `NoMissedReference`: a
container with a reference in its own environment, or in a source that stayed
as it was and could be read, starts through `vault-env`. `NoNeedlessWrapping` is the
other direction: what the webhook made start through `vault-env` held a reference
of its own, or reads a source that changed or failed meanwhile, or the annotation
asks it of every container; one container of the sample pod has nothing to
look up and comes behind one that has. `GeneratedIsWritten`:
the map an allowed pod mounts was written by this request, and a dry run writes
none. `WrittenMeansAllowed` is an action property: once the API server has
confirmed the write nothing the webhook still does refuses the pod, but
for a malformed token-auth-mount, which the code only notices after the write.
(A Create or Update whose answer is lost does refuse it and may leave the map;
`AgentConfigMap` follows such a map further.)
One failure and one change reach every error path, and each step reads the
cluster only once; `EveryRequestIsAnswered` is liveness.

**agent_configmap.** Two pods of the new ReplicaSet, one of the old with another
role, a dry run, and a pod with neither name nor owner (`generateName` without a
controller); two of them may be hit by a fault, one map is deleted by hand, one
refused pod is retried. Three writers are enough for one to come between
the two calls of another and be overwritten by a third. `MapServesPod`: an
admitted pod's request wrote its map, and the map is, content and owner, what the
last writer of that name wanted, the pod's own request or a later one;
or it was deleted or its owner is gone, which may be the old ReplicaSet
while the pod is of the new one. `RefusedForAReason`: without a fault, a lost
map or an impossible name nobody is refused. `WritesOnceAdmitsAfter` is the
refinement of `ConfigMapPromise`.

**certificates.** Five histories of three pairs: new keys, a renewal that keeps
the key, and a pair that does not match in each position. The queue holds three
notifications and the process ends once, at any point. Three pairs allow two
swaps during one reload; a queue of three overflows with and without a `..data`
record in it. `ServedPairMatches`: certificate and key fit, whatever falls
between the two reads. `QuietMeansCurrent`: with no `..data` record left, the
newest pair is the one served. `NeverOlder` is an action property over the two
versions served. `LastPairIsServed` is liveness.

**image_registry.** Five containers on two replicas: two that may be answered
from the cache, one of them with a pull secret of its own, and one with
`PullPolicy: Always`, all three of a tag that is pushed again, first a
single image and then an index of two; one of an image that only the operator's
pull secret opens; one whose name nobody can parse. A call may fail for one of
them and one replica restarts. `AnswersAreFreshEnough` is the refinement of
`ImagePromise`. `SettledStaysSettled` is an action property: once the last call
that missed is back, the entry stays until a restart. It says what an operator
can count on with a tag that moved: replicas may disagree, but each keeps to its
own answer. `RefusedForAReason`: nobody is refused for a race. Two calls that
miss together and one push suffice for the older answer to overwrite the newer.

**webhook_objects.** Seven Secrets (plain, inline, generating, docker
credentials with each flaw and with a registry to be dropped), three ConfigMaps,
two custom objects, the deeper with references under a map in a slice in a map,
a Pod, another kind, and one Secret with each odd setting. Every read may fail
and the replica may stop at any step. `StoredIsAllOrNothing`: what the cluster
stores is what was submitted or has every reference resolved and nothing else
changed, save for registries without a reference. `UnresolvedOnlyIfIgnored`: a
reference is stored only if nobody was to look, or after an error under
failurePolicy Ignore. `VerdictIsDetermined`: the check in map order, which stops
early, and the mutation after it agree on what is an error, and nothing in an
object to be skipped is one. `VaultOnlyWhenNeeded` is the comment in
`MutateSecret` and `MutateConfigMap`. `ReinvocationIsIdempotent` is an action
property of the second call, `EveryReviewIsAnswered` liveness: the walk ends.

**webhook_concurrent.** Three reviews, interchangeable, each with a client that
needs a TLS secret and a token, a client with a service account's secret, or
none at all, each called twice, and a crash. `AttemptsAddUp`: attempts are
the clients built, the errors counted, and those under way. `ClientsAreClosed`:
no client outlives its mutation.

**vault_config.** Every field with every text in the annotation (both, for the
three fields that have an older name) and in the settings; 48 addresses against
an operator who lists nothing and one whose own address is private and who lists
five, among them a metadata host and a numeric one. The fields are independent,
so one at a time suffices; each way in which the checks tell two addresses apart
occurs. `AddressIsSanctioned` compares with a definition of its own, `Same`, of
when two addresses are the same; `DefaultMayBeNamed` is the other direction,
with the one exception that the code makes: an annotation may not repeat a
private address without `vault_allow_private_addr`. `TLSNeedsConsent` and
`ValueIsSourced` state consent and precedence; the former is about
`VaultConfig.SkipVerify`, not about what the Vault library adds to it from its own
environment. A malformed annotation hides the
operator's setting, but for the quantities.

**The four violations** are disagreements of the code with its documentation.
`VaultAgentIsStarted` follows `e2e/test/deployment-template.yaml` line 60: "if
true, a Vault Agent will be started to do Vault authentication". With
`vault-agent: "true"` alone, the agent's container mounts `agent-secrets`
(`pod.go` 696-701), but the volume is added only with an agent ConfigMap
(594-606), and the API server refuses the pod. `MapBelongsToItsName` follows the
comment at `pod.go` 917-918, "try to get the name of the owner controller":
the last part of every owner's name is dropped, whatever its kind, so that the
pods of a DaemonSet `shop-cache` write the ConfigMap of a Deployment `shop`.
`DryRunHasNoSideEffects` follows the chart, which declares the webhook with
`NoneOnDryRun` (`values.yaml` 242): only `MutatePod` is told of a dry run, so
that the dry run of a Secret logs in at Vault and a `>>vault:` value generates
the secret. `TimeoutIsTheObjects` follows `values.yaml` 94, "if not defined
individually in resources by annotations": `newVaultClient` never looks at the
object's timeout.

**Fairness.** `PodMutation` has weak fairness of `MutatePod`: the handler's
goroutine is always runnable and each of its calls returns, with an answer or an
error. `AgentConfigMap` has it for each request, since each has its own
goroutine, and so has `Webhook`, for each review and for the API server's
handling of its answer. `CertificateReloader` has it for the watcher: reads
return and the lock is never held for long. Nothing is assumed of the cluster,
the kubelet, the garbage collector, a controller's retry, or a second call.
`ImageRegistry` and `VaultConfig` have no liveness property and no fairness.

**Deadlock** is checked in `certificates`. In the other runs a request ends with its
answer, and when all have ended nothing is left to do.

**Mutants.** Each property is listed with a mutant of the code
(`PROJECT.json`, "mutants"): a plausible mistake in one definition, under which
TLC finds that property violated.

## What is proved

`tlapm` checks all proofs; the constants are assumed only to have the types
named in the `ASSUME`s of each module.

| module | theorem | what holds for every value of the constants |
|---|---|---|
| `PodMutationProofs` | `TypeCorrect` | `TypeOK` |
| | `NoReferenceIsMissed` | `NoMissedReference` |
| | `ChangedPodsAreMarked` | `MutationIsMarked` |
| | `WritingIsTheLastRisk` | `WrittenMeansAllowed` |
| | `ConfigMapIsWrittenFirst` | `GeneratedIsWritten` |
| `CertificateReloaderProofs` | `TypeCorrect` | `TypeOK`, the bound of the queue included |
| | `ServedPairsMatch` | `ServedPairMatches` |
| | `QuietReloaderIsCurrent` | `QuietMeansCurrent` |
| | `CertificatesNeverGetOlder` | `NeverOlder` |
| `PodShapesProofs` | `NothingIsWrappedInVain` | `NoNeedlessWrapping` |
| | `EntrypointsArePreserved` | `EntrypointPreserved` |
| | `VaultEnvIsCopiedFirst` | `DependenciesFirst` |
| | `TokenIsWrittenFirst` | `TokenFileHasWriter` |
| | `CacertsAreMounted` | `CacertIsMounted` |
| | `PtraceMeansSharing` | `PtraceNeedsSharing` |
| `PodValidProofs` | `ConflictsAreTheOnlyRefusals` | `AllowedPodIsValid` |
| `AgentConfigMapProofs` | `TypeCorrect` | `TypeOK` |
| | `AdmittedPodsHaveTheirMap` | `MapServesPod` |
| | `RacesRefuseNobody` | `RefusedForAReason` |
| | `Refinement` | `WritesOnceAdmitsAfter` |
| `ImageRegistryProofs` | `TypeCorrect` | `TypeOK` |
| | `NobodyIsRefusedForTheRace` | `RefusedForAReason` |
| | `Refinement` | `AnswersAreFreshEnough` |
| | `SettledCachesStay` | `SettledStaysSettled` |
| `WebhookProofs` | `TypeCorrect` | `TypeOK` |
| | `NothingIsStoredHalfway` | `StoredIsAllOrNothing` |
| | `NoReferenceGetsThrough` | `UnresolvedOnlyIfIgnored` |
| | `TheOrderIsNoMatter` | `VerdictIsDetermined` |
| | `NoLoginInVain` | `VaultOnlyWhenNeeded` |
| | `EveryAttemptIsCounted` | `AttemptsAddUp` |
| | `NoClientLeaks` | `ClientsAreClosed` |
| | `OnceIsEnough` | `ReinvocationIsIdempotent` |
| `VaultConfigProofs` | `OnlySanctionedServers` | `AddressIsSanctioned` |
| | `OwnAddressIsServed` | `DefaultMayBeNamed` |
| | `NoTLSWithoutConsent` | `TLSNeedsConsent` |
| | `EveryFieldHasItsSource` | `ValueIsSourced` |

Each module proves its inductive invariant (`Invariance`) and the theorems from
it; the two refinements show that every step maps to a step of the abstract
specification or a stutter.

* **PodMutation.** `NoMissedReference` speaks of the final pod only. `IInv`
  carries it through the scan: the containers before `cursor` are done and those
  from it on are as submitted (`ScanInv`); of the current container no entry read
  so far demands `vault-env` unless `found` says so (`ReadInv`); and the steps
  after the scan add containers and mounts but never replace a command
  (`CoverInv`). A change of the cluster only ever excuses a source (`unseen`), so
  that what was read stays read. `MarkInv` follows the pod from "not changed unless
  `mutated`" to "marked, or untouched".
* **CertificateReloader.** `Fresh` is the heart: without a `..data` record in the
  queue and without a missed swap, what has been read, or is served, is what is
  on disk. A swap either adds a record or sets `missed`. `Ordered` says
  that a pair is read after the one being served was, from which `NeverOlder`
  follows.
* **AgentConfigMap.** Every map present is what the last of its writers wanted
  (`StoreInv`), every name written is present or lost (`LostInv`), and a request
  past its write wrote, one at `Update` follows another's write (`ControlInv`).
  The refinement needs `ControlInv` for one thing: a request at `update` or `lost` is
  no dry run, so that its map step is a `Put` or a `Refuse` of a written request.

* **PodMutation, what it writes.** `WriteInv` adds three facts to `IInv`. A pod
  that was submitted with the marker never leaves `received` but for its answer
  (`RoundInv`). Only a request that needs the ConfigMap writes it, and goes on to
  `inject` once the write is confirmed (`WroteInv`); there the only failures left
  are a malformed token-auth-mount and the version of the API server, which is asked
  for only under an agent ConfigMap, with which none is generated. The
  volume of the generated map is added only where the map was written or the run is
  dry (`VolumeInv`). It is assumed that a pod without the marker does not already
  mount the generated map (`OthersAssumption`).
* **PodMutation, nothing wrapped in vain.** `CauseInv` is the other side of `ReadInv`:
  `found` and the decision to wrap are the current container's own. At its turn a
  container is still the one submitted (`ScanInv`), and what may have demanded
  `vault-env` cannot stop having done so, since a source that changes is counted
  (`MaybeNeedyGrows`); what the webhook adds starts something else (`Provenance`).
* **PodMutation, the shape of the pod.** `ShapeInv` adds four facts to `IInv`, none
  of which assumes anything of the pod submitted, since each asks only about what
  no submitted container of that name had. `GivenInv`: what a container was given
  came with what goes with it (`vault-env` with the mount it is copied to,
  `VAULT_CACERT` with the mount of the secret, `SYS_PTRACE` with the shared
  namespace). Its proof takes every container of a pod back to where it came from
  (`Provenance`). `OrderInv`: as soon as the init containers are added, the one that
  copies `vault-env`, and the one that writes the token, stand before every reader;
  the step that adds them puts them in front and reads the flag `mutated`, which
  `GivenInv` shows to be set when there is a reader. `SecretInv`: the volume of the
  TLS secret is there once the volumes are, under the name that was computed from
  the pod as submitted. `KeptInv`: during the scan the containers are those
  submitted, position by position; after it each is still there, with its command
  line, under its name.
* **PodMutation, the validity of the pod.** `AllowedPodIsValid` is an equivalence, and
  `ValidInv` carries both sides of it. Towards validity: the names of the containers
  are apart, and those the webhook has yet to use are free (`NamesInv`); the place
  for secrets is free until consul-template takes it (`FreeInv`); the service account
  is mounted where it was when the pod came (`AccountInv`); and the mounts of every
  container have distinct paths and belong to volumes the pod has or is going to
  have, `Planned` (`FitInv`). Volumes are added after most of the mounts that need
  them, hence the plan; `VolumesInv` says that in the end it is kept. Towards
  invalidity: each conflict leaves one flaw that no later step mends (`FlawInv`), a
  mount of a volume nobody adds, of no volume at all, or a path twice.
* **ImageRegistry.** A cache entry is a configuration its image had since the
  replica started (`CacheInv`), and a descriptor a version it had since the call
  (`RequestInv`). An answer comes from one or the other.
* **Webhook.** The difficulty is the end of the walk: with `todo` empty, has every
  reference of the tree been seen? `WalkInv` says that each set of keys that holds
  `todo`, and with a map or slice its children, holds every reference that is
  left. At first that is the definition of a tree (`Tree`); a step takes one key
  out of `todo` and puts its children in, so that the sets stay the same; at the
  end the empty set is one of them. No induction on the depth is needed.
  `GivenInv` says that what the cluster holds is as submitted or complete.
  `ClientInv` and `ControlInv` say where a client may be, from which
  `AttemptsAddUp` follows by counting the reviews that connect.
* **VaultConfig.** The parse is one step, so that the invariants say what it
  returned. `AddressIsSanctioned` and `DefaultMayBeNamed` need that `normalizeAddr`
  maps two addresses to one exactly when they are the `Same`.

Only model-checked: the liveness properties, which are out of the prover's reach
(fairness and `ENABLED`). Every other property of a passing run is a theorem.

## Not modelled

* The instrumented `RoundTripper` of `client_metrics.go` and `mapErrorToLabel`,
  which only observe: request counts, sizes and durations. The attempts and their
  errors are modelled.
* `main.go` but for the start of the certificate reloader: routing, health checks
  and telemetry are set up once and keep no state.
* Loggers: formatting. `ErrorLoggerMutator` passes the result on and logs it.
* The Helm chart and the e2e tests are data and tests; the models take from the
  chart what the API server does.
* Dependencies: `vault-env` itself, the vault-sdk injector and client, the
  registry client, `kubewebhook`.
* Of pods: ephemeral containers (the webhook does not touch them), resources,
  security contexts but for added capabilities.
* Of values: the text of a secret, and with it what happens when a secret reads
  like a reference to be replaced next; the order of a slice, which the model walks
  in any order; the platform of a manifest in an index.
* Of the registry's credentials: `containerInfo` is given one source at a time, where
  the code's keychain tries several; this refuses more than the code does.
* Of the Vault client: what `newVaultClient` makes of `SkipVerify` on top of the
  library's default configuration, which reads `VAULT_SKIP_VERIFY` itself.
* Of settings: the notations in which numbers may be written, and clamping; space
  in an address that passed.
* A Secret's values are written to the object one by one in the model, and
  in the code after the last one was read: nobody sees the object of a
  mutation that failed, so the two differ in nothing that is stored.

## Where the plan stands

All components with state are modelled: `PodInjection`, `PodMutation`,
`CertificateReloader`, `AgentConfigMap`, `ImageRegistry`, `VaultClient`,
`Webhook`, `AddressPolicy` and `VaultConfig`, with abstract specifications of the
two stores shared by concurrent requests. The Secret, ConfigMap and object
mutators are one module, `Webhook`, because they are the same walk.

Left: the instrumented `RoundTripper`, should its counters ever decide something;
platforms in an image index.
