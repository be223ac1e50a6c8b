---------------------------- MODULE PodShapesProofs ----------------------------
(***************************************************************************)
(* Theorems about PodMutation: what the webhook makes of a pod fits        *)
(* together, for every configuration, pod and cluster.  Whatever it        *)
(* decides in several places (does a container run vault-env, where is the *)
(* TLS secret, who writes the token, which process namespace) it decides   *)
(* the same way in each.                                                   *)
(***************************************************************************)
EXTENDS PodMutationProofs

-----------------------------------------------------------------------------
(* The inductive invariant, on top of IInv and WriteInv *)

(* What the webhook gave to a container it gave with what goes with it.    *)
SharedIfTraced(c) ==
    "SYS_PTRACE" \in c.caps =>
        pod.share \/ \E o \in Originals(c) : "SYS_PTRACE" \in o.caps

MountedIfNamed(c) ==
    \A e \in Range(c.env) :
        e.name = "VAULT_CACERT" =>
            \/ \E o \in Originals(c) : e \in Range(o.env)
            \/ /\ cfg.TLSSecret
               /\ e.value = TLSMount(submitted.vols).path
               /\ TLSMount(submitted.vols) \in Range(c.mounts)

HasAgent == cfg.UseAgent \/ cfg.TokenAuthMount # ""

Given(c) ==
    /\ SharedIfTraced(c)
    /\ MountedIfNamed(c)
    /\ MadeToRunVaultEnv(c) => mutated /\ MountsVaultDir(c)
    /\ ToldToReadToken(c) => mutated /\ HasAgent

GivenInv == \A c \in AllContainers(pod) : Given(c)

(* Once the init containers are added, the one that writes a file is in    *)
(* front of all that read it.                                              *)
EnvReady ==
    \E k \in DOMAIN pod.init :
        /\ Writes(pod.init[k], {"copy-vault-env"})
        /\ \A i \in 1..k : ~MadeToRunVaultEnv(pod.init[i])

TokenReady ==
    \E k \in DOMAIN pod.init :
        /\ Writes(pod.init[k], {"vault-agent", "copy-vault-token"})
        /\ \A i \in 1..k : ~ToldToReadToken(pod.init[i])

OrderInv ==
    (pc = "agent" \/ Allowed) /\ mutated =>
        EnvReady /\ (~cfg.Token /\ HasAgent => TokenReady)

(* Once the volumes are added, that of the TLS secret is there.            *)
SecretVolume(p) ==
    \E v \in Range(p.vols) :
        v.name = TLSMount(submitted.vols).vol /\ v.from = "TLSSecret"

SecretInv ==
    (pc = "agent" \/ Allowed) /\ cfg.TLSSecret =>
        \/ isPodAlreadyMutated(submitted)
        \/ pod = submitted /\ ~Injects
        \/ SecretVolume(pod)

(* Every submitted container is still there, with its command line.        *)
Kept(c, w) == w.name = c.name /\ SameEntrypoint(c, w)

KeptEach(before, after) ==
    \A i \in DOMAIN before : Kept(before[i], after[i])

KeptIn(before, after) ==
    \A c \in Range(before) : \E w \in Range(after) : Kept(c, w)

KeptInv ==
    /\ pc \in {"received", "containers", "entries", "wrap"} =>
        /\ KeptEach(submitted.init, pod.init)
        /\ KeptEach(submitted.main, pod.main)
    /\ pc \in {"template", "configmap", "update", "inject", "agent"} \/ Allowed =>
        /\ KeptIn(submitted.init, pod.init)
        /\ KeptIn(submitted.main, pod.main)

ShapeInv == GivenInv /\ OrderInv /\ SecretInv /\ KeptInv

-----------------------------------------------------------------------------
(* Sequences *)

(* Short sequences.                                                        *)
LEMMA ShortRanges ==
    /\ Range(<<>>) = {}
    /\ \A x : Range(<<x>>) = {x}
<1>1. Range(<<>>) = {}
  BY DEF Range
<1>2. ASSUME NEW x PROVE Range(<<x>>) = {x}
  <2>1. DOMAIN <<x>> = {1} /\ <<x>>[1] = x
    OBVIOUS
  <2> QED BY <2>1 DEF Range
<1> QED BY <1>1, <1>2

(* One element in front of others.                                         *)
LEMMA InFront ==
    ASSUME NEW S, NEW x \in S, NEW s \in Seq(S)
    PROVE  /\ <<x>> \o s \in Seq(S)
           /\ Range(<<x>> \o s) = {x} \cup Range(s)
<1> DEFINE one == <<x>>
<1>1. one \in Seq(S) /\ Range(one) = {x}
  BY ShortRanges
<1> HIDE DEF one
<1>2. one \o s \in Seq(S) /\ Range(one \o s) = {x} \cup Range(s)
  BY <1>1, RangeConcatenation
<1> QED BY <1>2 DEF one

(* Two elements, and one behind none.                                      *)
LEMMA Joined ==
    ASSUME NEW x, NEW y
    PROVE  /\ Len(<<x>> \o <<y>>) = 2
           /\ (<<x>> \o <<y>>)[1] = x /\ (<<x>> \o <<y>>)[2] = y
           /\ Len(<<>> \o <<y>>) = 1 /\ (<<>> \o <<y>>)[1] = y
OBVIOUS

(* What a setting says.                                                    *)
LEMMA SettingFields ==
    ASSUME NEW n, NEW v
    PROVE  Setting(n, v).name = n /\ Setting(n, v).value = v
BY DEF Setting

(* The settings of a list that may be empty.                               *)
LEMMA SettingIfRange ==
    ASSUME NEW b, NEW n, NEW v, NEW e \in Range(SettingIf(b, n, v))
    PROVE  b /\ e.name = n /\ e.value = v
<1>1. CASE b
  <2>1. Range(SettingIf(b, n, v)) = {Setting(n, v)}
    BY <1>1, ShortRanges DEF SettingIf
  <2>2. e = Setting(n, v)
    BY <2>1
  <2> QED BY <1>1, <2>2, SettingFields
<1>2. CASE ~b
  <2>1. Range(SettingIf(b, n, v)) = {}
    BY <1>2, ShortRanges DEF SettingIf
  <2> QED BY <2>1
<1> QED BY <1>1, <1>2

(* The container o with one more mount.                                    *)
Mounting(o, m) == [o EXCEPT !.mounts = Append(@, m)]

(* Every container of a list that was given a mount was given it.          *)
LEMMA AddMountRange ==
    ASSUME NEW cs \in Seq(Container), NEW m,
           NEW c \in Range(AddMount(cs, m))
    PROVE  \E o \in Range(cs) : c = Mounting(o, m)
BY DEF AddMount, Mounting, Range

(* A sequence of which one element is replaced.                            *)
LEMMA ReplaceRange ==
    ASSUME NEW s, NEW i, NEW e, NEW t, t = [s EXCEPT ![i] = e]
    PROVE  \A c \in Range(t) : c \in Range(s) \/ c = e
BY DEF Range

-----------------------------------------------------------------------------
(* Containers *)

(* What vault-env finds in its environment beside the container's own.     *)
LEMMA WrapperSettings ==
    ASSUME NEW g, NEW env, NEW vols, NEW e \in Range(wrapperEnv(g, env, vols))
    PROVE  /\ e.name = "VAULT_CACERT" => g.TLSSecret
           /\ e.name = "VAULT_CACERT" => e.value = TLSMount(vols).path
           /\ e.name = "VAULT_TOKEN_FILE" => g.UseAgent \/ g.TokenAuthMount # ""
<1> DEFINE s1 == <<Setting("VAULT_ADDR", "operator")>>
           s2 == SettingIf(g.Token, "VAULT_TOKEN", "operator")
           s3 == SettingIf(g.LogLevel /\ ~isLogLevelSet(env), "VAULT_LOG_LEVEL", "operator")
           s4 == SettingIf(g.TLSSecret, "VAULT_CACERT", TLSMount(vols).path)
           s5 == SettingIf(g.UseAgent \/ g.TokenAuthMount # "", "VAULT_TOKEN_FILE", TokenFile)
           s6 == SettingIf(g.VaultEnvFromPath, "VAULT_ENV_FROM_PATH", "path")
<1>1. /\ s1 \in Seq(EnvVar) /\ s2 \in Seq(EnvVar) /\ s3 \in Seq(EnvVar)
      /\ s4 \in Seq(EnvVar) /\ s5 \in Seq(EnvVar) /\ s6 \in Seq(EnvVar)
  <2>1. Setting("VAULT_ADDR", "operator") \in EnvVar
    BY SettingType, TextAssumption
  <2>2. s1 \in Seq(EnvVar)
    BY <2>1
  <2>3. TLSMount(vols).path \in Text
    BY TLSMountType DEF Mount
  <2>4. TokenFile \in Text
    BY TextAssumption DEF TokenFile
  <2>5. s2 \in Seq(EnvVar) /\ s3 \in Seq(EnvVar)
    BY SettingType, TextAssumption
  <2>6. s4 \in Seq(EnvVar)
    BY <2>3, SettingType, TextAssumption
  <2>7. s5 \in Seq(EnvVar) /\ s6 \in Seq(EnvVar)
    BY <2>4, SettingType, TextAssumption
  <2> QED BY <2>2, <2>5, <2>6, <2>7
<1>2. /\ e \in Range(s1) => e.name = "VAULT_ADDR"
      /\ e \in Range(s2) => e.name = "VAULT_TOKEN"
      /\ e \in Range(s3) => e.name = "VAULT_LOG_LEVEL"
      /\ e \in Range(s6) => e.name = "VAULT_ENV_FROM_PATH"
  <2>1. e \in Range(s1) => e.name = "VAULT_ADDR"
    BY ShortRanges, SettingFields
  <2> QED BY <2>1, SettingIfRange
<1>3. e \in Range(s4) => g.TLSSecret /\ e.name = "VAULT_CACERT" /\ e.value = TLSMount(vols).path
  BY SettingIfRange
<1>4. e \in Range(s5) => (g.UseAgent \/ g.TokenAuthMount # "") /\ e.name = "VAULT_TOKEN_FILE"
  BY SettingIfRange
<1>5. wrapperEnv(g, env, vols) = ((((s1 \o s2) \o s3) \o s4) \o s5) \o s6
  BY DEF wrapperEnv
<1> HIDE DEF s1, s2, s3, s4, s5, s6
<1>6. /\ s1 \o s2 \in Seq(EnvVar) /\ (s1 \o s2) \o s3 \in Seq(EnvVar)
      /\ ((s1 \o s2) \o s3) \o s4 \in Seq(EnvVar)
      /\ (((s1 \o s2) \o s3) \o s4) \o s5 \in Seq(EnvVar)
  BY <1>1
<1>7. Range(s1 \o s2) = Range(s1) \cup Range(s2)
  BY <1>1, RangeConcatenation
<1>8. Range((s1 \o s2) \o s3) = Range(s1 \o s2) \cup Range(s3)
  BY <1>1, <1>6, RangeConcatenation, ZenonT(30)
<1>9. Range(((s1 \o s2) \o s3) \o s4) = Range((s1 \o s2) \o s3) \cup Range(s4)
  BY <1>1, <1>6, RangeConcatenation, ZenonT(30)
<1>10. Range((((s1 \o s2) \o s3) \o s4) \o s5) =
            Range(((s1 \o s2) \o s3) \o s4) \cup Range(s5)
  BY <1>1, <1>6, RangeConcatenation, ZenonT(30)
<1>11. Range(((((s1 \o s2) \o s3) \o s4) \o s5) \o s6) =
            Range((((s1 \o s2) \o s3) \o s4) \o s5) \cup Range(s6)
  BY <1>1, <1>6, RangeConcatenation, ZenonT(30)
<1>12. \/ e \in Range(s1) \/ e \in Range(s2) \/ e \in Range(s3)
      \/ e \in Range(s4) \/ e \in Range(s5) \/ e \in Range(s6)
  BY <1>5, <1>7, <1>8, <1>9, <1>10, <1>11
<1> QED BY <1>2, <1>3, <1>4, <1>12

(* VAULT_CACERT is set for the TLS secret, to the place of its mount.      *)
LEMMA WrapperCacert ==
    \A g, env, vols : \A e \in Range(wrapperEnv(g, env, vols)) :
        e.name = "VAULT_CACERT" => g.TLSSecret /\ e.value = TLSMount(vols).path
BY WrapperSettings

(* What the webhook's own containers find in theirs.                       *)
LEMMA ContainerSettings ==
    ASSUME NEW g, NEW vols, NEW e \in Range(containerEnvVars(g, vols))
    PROVE  /\ e.name = "VAULT_CACERT" => g.TLSSecret
           /\ e.name = "VAULT_CACERT" => e.value = TLSMount(vols).path
           /\ e.name # "VAULT_TOKEN_FILE"
<1> DEFINE s1 == <<Setting("VAULT_ADDR", "operator")>>
           s2 == SettingIf(g.Token, "VAULT_TOKEN", "operator")
           s3 == SettingIf(g.TLSSecret, "VAULT_CACERT", TLSMount(vols).path)
<1>1. s1 \in Seq(EnvVar) /\ s2 \in Seq(EnvVar) /\ s3 \in Seq(EnvVar)
  <2>1. Setting("VAULT_ADDR", "operator") \in EnvVar
    BY SettingType, TextAssumption
  <2>2. s1 \in Seq(EnvVar)
    BY <2>1
  <2>3. TLSMount(vols).path \in Text
    BY TLSMountType DEF Mount
  <2> QED BY <2>2, <2>3, SettingType, TextAssumption
<1>2. e \in Range(s1) => e.name = "VAULT_ADDR"
  BY ShortRanges, SettingFields
<1>3. e \in Range(s2) => e.name = "VAULT_TOKEN"
  BY SettingIfRange
<1>4. e \in Range(s3) => g.TLSSecret /\ e.name = "VAULT_CACERT" /\ e.value = TLSMount(vols).path
  BY SettingIfRange
<1>5. containerEnvVars(g, vols) = (s1 \o s2) \o s3
  BY DEF containerEnvVars
<1> HIDE DEF s1, s2, s3
<1>6. s1 \o s2 \in Seq(EnvVar)
  BY <1>1
<1>7. /\ Range(s1 \o s2) = Range(s1) \cup Range(s2)
      /\ Range((s1 \o s2) \o s3) = Range(s1 \o s2) \cup Range(s3)
  BY <1>1, <1>6, RangeConcatenation, ZenonT(30)
<1> QED BY <1>2, <1>3, <1>4, <1>5, <1>7

(* The mounts that go with those settings.                                 *)
LEMMA BaseMounts ==
    ASSUME NEW g, NEW vols
    PROVE  /\ wrapperMounts(g, vols) = containerVolMounts(g, vols)
           /\ MountAt(VaultEnvVolumeName, VaultDir) \in Range(containerVolMounts(g, vols))
           /\ g.TLSSecret => TLSMount(vols) \in Range(containerVolMounts(g, vols))
<1> DEFINE s1 == <<MountAt(VaultEnvVolumeName, VaultDir)>>
           s2 == IF g.TLSSecret THEN <<TLSMount(vols)>> ELSE <<>>
<1>1. s1 \in Seq(Mount)
  BY MountType, TextAssumption DEF VaultEnvVolumeName, VaultDir
<1>2. s2 \in Seq(Mount)
  BY TLSMountType
<1>3. MountAt(VaultEnvVolumeName, VaultDir) \in Range(s1)
  BY ShortRanges
<1>4. g.TLSSecret => TLSMount(vols) \in Range(s2)
  BY ShortRanges
<1>5. wrapperMounts(g, vols) = s1 \o s2 /\ containerVolMounts(g, vols) = s1 \o s2
  BY DEF wrapperMounts, containerVolMounts
<1> HIDE DEF s1, s2
<1> QED BY <1>1, <1>2, <1>3, <1>4, <1>5, RangeConcatenation

(* A container the webhook adds, as the properties see it: it was given    *)
(* nothing without what goes with it, runs no vault-env, reads no token    *)
(* file, and has SYS_PTRACE only with sharing.                             *)
Fitting(g, vols, share, c) ==
    /\ "SYS_PTRACE" \in c.caps => share
    /\ ~RunsVaultEnv(c)
    /\ ~ReadsTokenFile(c)
    /\ MountsVaultDir(c)
    /\ \A e \in Range(c.env) :
        e.name = "VAULT_CACERT" =>
            /\ g.TLSSecret
            /\ e.value = TLSMount(vols).path
            /\ TLSMount(vols) \in Range(c.mounts)

(* A container of the webhook that has the base mounts fits.               *)
LEMMA InjectedFits ==
    ASSUME NEW g, NEW vols, NEW share, NEW n, NEW im, NEW cmd, NEW caps,
           NEW ms \in Seq(Mount), cmd # <<VaultEnv>>,
           "SYS_PTRACE" \in caps => share
    PROVE  LET ts == containerVolMounts(g, vols) \o ms
           IN  Fitting(g, vols, share,
                       Injected(n, im, cmd, containerEnvVars(g, vols), ts, caps))
<1> DEFINE env == containerEnvVars(g, vols)
           ts == containerVolMounts(g, vols) \o ms
           c == Injected(n, im, cmd, env, ts, caps)
<1>1. /\ c.command = cmd /\ c.env = env /\ c.mounts = ts /\ c.caps = caps
      /\ \A k \in ProbeKinds : c.probes[k] = <<>>
  BY DEF Injected
<1>2. Range(ts) = Range(containerVolMounts(g, vols)) \cup Range(ms)
  BY BaseTypes, RangeConcatenation
<1> HIDE DEF c, env, ts
<1>3. ~RunsVaultEnv(c)
  BY <1>1 DEF RunsVaultEnv, IsWrapped
<1>4. MountsVaultDir(c)
  BY <1>1, <1>2, BaseMounts DEF MountsVaultDir
<1>5. ~ReadsTokenFile(c)
  BY <1>1, ContainerSettings DEF env, ReadsTokenFile
<1>6. ASSUME NEW e \in Range(c.env), e.name = "VAULT_CACERT"
      PROVE  /\ g.TLSSecret /\ e.value = TLSMount(vols).path
             /\ TLSMount(vols) \in Range(c.mounts)
  <2>1. g.TLSSecret /\ e.value = TLSMount(vols).path
    BY <1>1, <1>6, ContainerSettings DEF env
  <2> QED BY <1>1, <1>2, <2>1, BaseMounts
<1>7. Fitting(g, vols, share, c)
  BY <1>1, <1>3, <1>4, <1>5, <1>6 DEF Fitting
<1> QED BY <1>7 DEF c, env, ts

(* The two copiers have no environment at all.                             *)
LEMMA CopiersFit ==
    ASSUME NEW g, NEW vols, NEW share
    PROVE  Fitting(g, vols, share, tokenCopier) /\ Fitting(g, vols, share, envCopier)
<1>1. ASSUME NEW n, NEW im, NEW cmd, NEW ms, cmd # <<VaultEnv>>,
             MountAt(VaultEnvVolumeName, VaultDir) \in Range(ms)
      PROVE  Fitting(g, vols, share, Injected(n, im, cmd, <<>>, ms, {}))
  <2> DEFINE c == Injected(n, im, cmd, <<>>, ms, {})
  <2>1. /\ c.command = cmd /\ c.env = <<>> /\ c.mounts = ms /\ c.caps = {}
        /\ \A k \in ProbeKinds : c.probes[k] = <<>>
    BY DEF Injected
  <2> HIDE DEF c
  <2>2. Range(c.env) = {}
    BY <2>1, ShortRanges
  <2>3. Fitting(g, vols, share, c)
    BY <1>1, <2>1, <2>2
       DEF Fitting, RunsVaultEnv, IsWrapped, ReadsTokenFile, MountsVaultDir
  <2> QED BY <2>3 DEF c
<1>2. \A m1, m2 : m1 \in Range(<<m1>>) /\ m1 \in Range(<<m1, m2>>)
  <2> SUFFICES ASSUME NEW m1, NEW m2
               PROVE  m1 \in Range(<<m1>>) /\ m1 \in Range(<<m1, m2>>)
    OBVIOUS
  <2>1. m1 \in Range(<<m1>>)
    BY ShortRanges
  <2>2. 1 \in DOMAIN <<m1, m2>> /\ <<m1, m2>>[1] = m1
    OBVIOUS
  <2> QED BY <2>1, <2>2 DEF Range
<1>3. Fitting(g, vols, share, tokenCopier)
  <2>1. <<"sh", "-c", "cp token">> # <<VaultEnv>>
    OBVIOUS
  <2> QED BY <1>1, <1>2, <2>1 DEF tokenCopier
<1>4. Fitting(g, vols, share, envCopier)
  <2>1. <<"sh", "-c", "cp vault-env">> # <<VaultEnv>>
    OBVIOUS
  <2> QED BY <1>1, <1>2, <2>1 DEF envCopier
<1> QED BY <1>3, <1>4

(* The containers of consul-template and of the agents do.                 *)
LEMMA AgentsFit ==
    ASSUME NEW g, NEW vols, NEW share \in BOOLEAN, NEW cs \in Seq(Container)
    PROVE  /\ Fitting(g, vols, share, consulTemplate(g, vols, share))
           /\ Fitting(g, vols, share, agentSidecar(g, vols, cs, share))
           /\ Fitting(g, vols, share, initAgent(g, vols, cs))
<1>1. "SYS_PTRACE" \in Ptrace(share) => share
  BY DEF Ptrace
<1>2. "SYS_PTRACE" \notin AgentCapabilities
  BY DEF AgentCapabilities
<1>3. \A v, p \in Text : MountAt(v, p) \in Mount
  BY MountType
<1>4. VaultEnvVolumeName \in Text /\ ConfigfilePath \in Text
  BY TextAssumption DEF VaultEnvVolumeName, ConfigfilePath
<1>5. getServiceAccountMount(cs) \in Mount
  BY ServiceAccountType
<1>6. ASSUME NEW a \in Mount, NEW b \in Mount, NEW c \in Mount
      PROVE  /\ <<a, b, c>> \in Seq(Mount) /\ <<a, b>> \in Seq(Mount)
             /\ <<a>> \in Seq(Mount) /\ <<>> \in Seq(Mount)
  OBVIOUS
<1>7. <<>> # <<VaultEnv>>
  OBVIOUS
<1>8. Fitting(g, vols, share, consulTemplate(g, vols, share))
  <2> DEFINE ms == << MountAt("ct-secrets", ConfigfilePath),
                      MountAt(VaultEnvVolumeName, "/home/consul-template"),
                      MountAt("ct-configmap", "/vault/ct-config/config.hcl") >>
  <2>1. ms \in Seq(Mount)
    BY <1>3, <1>4, <1>6, TextAssumption
  <2> HIDE DEF ms
  <2> QED BY <1>1, <1>7, <2>1, InjectedFits DEF consulTemplate, ms
<1>9. Fitting(g, vols, share, agentSidecar(g, vols, cs, share))
  <2> DEFINE ms == << getServiceAccountMount(cs),
                      MountAt("agent-secrets", ConfigfilePath),
                      MountAt("agent-configmap", "/vault/config/config.hcl") >>
  <2>1. ms \in Seq(Mount)
    BY <1>3, <1>4, <1>5, <1>6, TextAssumption
  <2>2. "SYS_PTRACE" \in AgentCapabilities \cup Ptrace(share) => share
    BY <1>1, <1>2
  <2> HIDE DEF ms
  <2> QED BY <1>7, <2>1, <2>2, InjectedFits DEF agentSidecar, ms
<1>10. Fitting(g, vols, share, initAgent(g, vols, cs))
  <2> DEFINE ms == << getServiceAccountMount(cs),
                      MountAt("vault-agent-config", "/vault/agent/") >>
             ns == IF g.CtConfigMap THEN <<>>
                   ELSE <<MountAt("agent-secrets", ConfigfilePath)>>
  <2>1. ms \in Seq(Mount)
    BY <1>3, <1>4, <1>5, <1>6, TextAssumption
  <2>2. ns \in Seq(Mount)
    BY <1>3, <1>4, <1>6, TextAssumption
  <2>3. <<"vault", "agent", "-exit-after-auth">> # <<VaultEnv>>
    OBVIOUS
  <2>4. containerVolMounts(g, vols) \in Seq(Mount)
    BY BaseTypes
  <2> HIDE DEF ms, ns
  <2>5. ms \o ns \in Seq(Mount)
    BY <2>1, <2>2
  <2>6. (containerVolMounts(g, vols) \o ms) \o ns = containerVolMounts(g, vols) \o (ms \o ns)
    BY <2>1, <2>2, <2>4, ConcatAssociative
  <2> QED BY <1>2, <2>3, <2>5, <2>6, InjectedFits DEF initAgent, ms, ns
<1> QED BY <1>8, <1>9, <1>10

-----------------------------------------------------------------------------
(* Where the containers of the next pod come from *)

(* What only the next invocation takes back.                               *)
LEMMA Kept0 ==
    ASSUME TypeOK, [Next]_vars, ~Reinvoke
    PROVE  /\ UNCHANGED <<cfg, submitted>>
           /\ mutated => mutated'
           /\ pod.share => pod'.share
<1>1. UNCHANGED <<cfg, submitted>>
  BY DEF Next, MutatePod, Environment, AlreadyMutated, StartMutation, EnterContainer,
     NextList, EndScan, ReadEntry, SkipOptional, LookupFails, LeaveContainer,
     DecideToWrap, WrapContainer, RegistryFails, SkipTemplate, RunTemplate,
     VersionUnavailable, NothingToInject, NoConfigMapToWrite, CreateConfigMap,
     CreateFails, UpdateConfigMap, UpdateFails, Inject, InjectPanics, Finish,
     ChangeSource, ChangeGenerated, vars, requestVars
<1>2. mutated => mutated'
  <2>1. mutated' = mutated \/ mutated' = TRUE
    BY DEF Next, MutatePod, Environment, AlreadyMutated, StartMutation, EnterContainer,
       NextList, EndScan, ReadEntry, SkipOptional, LookupFails, LeaveContainer,
       DecideToWrap, WrapContainer, RegistryFails, SkipTemplate, RunTemplate,
       VersionUnavailable, NothingToInject, NoConfigMapToWrite, CreateConfigMap,
       CreateFails, UpdateConfigMap, UpdateFails, Inject, InjectPanics, Finish,
       ChangeSource, ChangeGenerated, Fail, Panic, vars
  <2> QED BY <2>1
<1>3. pod.share => pod'.share
  <2> SUFFICES ASSUME pod.share PROVE pod'.share
    OBVIOUS
  <2>1. CASE WrapContainer \/ Inject
    BY <2>1 DEF WrapContainer, Inject, TypeOK, Pod
  <2>2. CASE RunTemplate
    BY <2>2 DEF RunTemplate, WithTemplate, TypeOK, Pod
  <2>3. CASE Finish
    BY <2>3 DEF Finish, WithAgent, TypeOK, Pod
  <2>4. CASE UNCHANGED pod
    BY <2>4
  <2> QED
    BY <2>1, <2>2, <2>3, <2>4
       DEF Next, MutatePod, Environment, AlreadyMutated, StartMutation, EnterContainer,
           NextList, EndScan, ReadEntry, SkipOptional, LookupFails, LeaveContainer,
           DecideToWrap, RegistryFails, SkipTemplate, VersionUnavailable,
           NothingToInject, NoConfigMapToWrite, CreateConfigMap, CreateFails,
           UpdateConfigMap, UpdateFails, InjectPanics, ChangeSource, ChangeGenerated,
           Fail, Panic, vars
<1> QED BY <1>1, <1>2, <1>3

(* A list to which consul-template added its volume or itself.             *)
LEMMA TemplateLists ==
    ASSUME TypeOK, NEW share \in BOOLEAN
    PROVE  LET next == WithTemplate(share)
               ct   == consulTemplate(cfg, pod.vols, share)
               m    == MountAt("ct-secrets", ConfigfilePath)
           IN  /\ next.share = (pod.share \/ share)
               /\ \A c \in AllContainers(next) :
                    \/ c \in AllContainers(pod)
                    \/ \E o \in AllContainers(pod) : c = Mounting(o, m)
                    \/ c = ct
<1> DEFINE ct == consulTemplate(cfg, pod.vols, share)
           m  == MountAt("ct-secrets", ConfigfilePath)
           main == AddMount(pod.main, m)
           init == IF cfg.CtOnce /\ cfg.CtInjectInInitcontainers
                   THEN AddMount(pod.init, m) ELSE pod.init
           next == WithTemplate(share)
<1>1. pod.init \in Seq(Container) /\ pod.main \in Seq(Container)
  BY DEF TypeOK, Pod
<1>2. m \in Mount
  BY MountType, TextAssumption DEF ConfigfilePath
<1>3. main \in Seq(Container) /\ init \in Seq(Container)
  BY <1>1, <1>2, AddMountType
<1>4. ct \in Container
  BY <1>1, AgentTypes
<1>5. /\ next.share = (pod.share \/ share)
      /\ next.init = IF cfg.CtOnce THEN <<ct>> \o init ELSE init
      /\ next.main = IF cfg.CtOnce THEN main ELSE <<ct>> \o main
  BY DEF WithTemplate, addSecretsVolToContainers, TypeOK, Pod
<1>6. /\ \A c \in Range(main) : \E o \in Range(pod.main) : c = Mounting(o, m)
      /\ \A c \in Range(init) :
            c \in Range(pod.init) \/ \E o \in Range(pod.init) : c = Mounting(o, m)
  BY <1>1, AddMountRange
<1> HIDE DEF ct, m, main, init, next
<1>7. /\ Range(<<ct>> \o init) = {ct} \cup Range(init)
      /\ Range(<<ct>> \o main) = {ct} \cup Range(main)
  BY <1>3, <1>4, InFront
<1>8. \A c \in AllContainers(next) :
            \/ c \in AllContainers(pod)
            \/ \E o \in AllContainers(pod) : c = Mounting(o, m)
            \/ c = ct
  BY <1>5, <1>6, <1>7 DEF AllContainers
<1> QED BY <1>5, <1>8 DEF next, ct, m

(* The lists after the agent's sidecar or its volume were added.           *)
LEMMA AgentLists ==
    ASSUME TypeOK, NEW share \in BOOLEAN
    PROVE  LET m    == MountAt("agent-secrets", ConfigfilePath)
               main == addAgentSecretsVolToContainers(pod.main)
               next == WithAgent(share)
               used == [pod EXCEPT !.main = main]
           IN  /\ main \in Seq(Container)
               /\ next.share = (pod.share \/ share) /\ next.init = pod.init
               /\ used.share = pod.share /\ used.init = pod.init
               /\ next.main = <<agentSidecar(cfg, submitted.vols, main, share)>> \o main
               /\ used.main = main
               /\ \A c \in AllContainers(next) :
                    \/ c \in AllContainers(used)
                    \/ c = agentSidecar(cfg, submitted.vols, main, share)
               /\ \A c \in AllContainers(used) :
                    \/ c \in AllContainers(pod)
                    \/ \E o \in AllContainers(pod) : c = Mounting(o, m)
<1> DEFINE m    == MountAt("agent-secrets", ConfigfilePath)
           main == addAgentSecretsVolToContainers(pod.main)
           ag   == agentSidecar(cfg, submitted.vols, main, share)
           next == WithAgent(share)
           used == [pod EXCEPT !.main = main]
<1>1. pod.init \in Seq(Container) /\ pod.main \in Seq(Container)
  BY DEF TypeOK, Pod
<1>2. m \in Mount
  BY MountType, TextAssumption DEF ConfigfilePath
<1>3. main \in Seq(Container)
  BY <1>1, <1>2, AddMountType DEF addAgentSecretsVolToContainers
<1>4. ag \in Container
  <2> HIDE DEF main
  <2> QED BY <1>3, AgentTypes
<1>5. \A c \in Range(main) : \E o \in Range(pod.main) : c = Mounting(o, m)
  BY <1>1, AddMountRange DEF addAgentSecretsVolToContainers
<1>6. /\ next.share = (pod.share \/ share) /\ next.init = pod.init
      /\ used.share = pod.share /\ used.init = pod.init
      /\ next.main = <<ag>> \o main /\ used.main = main
  BY DEF WithAgent, TypeOK, Pod
<1> HIDE DEF m, main, ag, next, used
<1>7. Range(<<ag>> \o main) = {ag} \cup Range(main)
  BY <1>3, <1>4, InFront
<1>8. \A c \in AllContainers(next) : c \in AllContainers(used) \/ c = ag
  BY <1>6, <1>7 DEF AllContainers
<1>9. \A c \in AllContainers(used) :
            c \in AllContainers(pod) \/ \E o \in AllContainers(pod) : c = Mounting(o, m)
  BY <1>5, <1>6 DEF AllContainers
<1> QED BY <1>3, <1>6, <1>8, <1>9 DEF next, used, ag, main, m

(* The init containers that getInitContainers puts in front.               *)
LEMMA InitLists ==
    ASSUME TypeOK, Inject
    PROVE  LET added == getInitContainers(cfg, pod.vols, pod.main, mutated)
           IN  /\ added \in Seq(Container)
               /\ pod'.init = added \o pod.init /\ pod'.main = pod.main
               /\ Range(pod'.init) = Range(added) \cup Range(pod.init)
               /\ \A c \in Range(added) :
                    c \in {tokenCopier, initAgent(cfg, pod.vols, pod.main), envCopier}
<1> DEFINE ag == initAgent(cfg, pod.vols, pod.main)
           s == IF cfg.TokenAuthMount # "" THEN <<tokenCopier>>
                ELSE IF startsInitAgent(cfg) THEN <<ag>>
                ELSE <<>>
           t == IF mutated THEN <<envCopier>> ELSE <<>>
           added == getInitContainers(cfg, pod.vols, pod.main, mutated)
<1>1. pod.init \in Seq(Container) /\ pod.main \in Seq(Container)
  BY DEF TypeOK, Pod
<1>2. tokenCopier \in Container /\ envCopier \in Container /\ ag \in Container
  <2>1. TRUE \in BOOLEAN
    OBVIOUS
  <2> QED BY <1>1, <2>1, AgentTypes
<1>3. added = s \o t
  BY DEF getInitContainers
<1>4. pod'.init = added \o pod.init /\ pod'.main = pod.main
  BY DEF Inject, TypeOK, Pod
<1> HIDE DEF ag, added
<1>5. /\ s \in Seq(Container) /\ Range(s) \subseteq {tokenCopier, ag}
      /\ t \in Seq(Container) /\ Range(t) \subseteq {envCopier}
  <2>1. \A c \in Container : <<c>> \in Seq(Container) /\ Range(<<c>>) = {c}
    BY ShortRanges
  <2>2. <<>> \in Seq(Container) /\ Range(<<>>) = {}
    BY ShortRanges
  <2> QED BY <1>2, <2>1, <2>2
<1> HIDE DEF s, t
<1>6. added \in Seq(Container)
  BY <1>3, <1>5
<1>7. Range(added) = Range(s) \cup Range(t)
  BY <1>3, <1>5, RangeConcatenation
<1>8. Range(pod'.init) = Range(added) \cup Range(pod.init)
  BY <1>1, <1>4, <1>6, RangeConcatenation
<1> QED BY <1>4, <1>5, <1>6, <1>7, <1>8 DEF added, ag

(* A container of the next pod was there, gained a mount, was wrapped, or  *)
(* was added.                                                              *)
LEMMA Provenance ==
    ASSUME IInv, WriteInv, [Next]_vars, ~Reinvoke, NEW c \in AllContainers(pod')
    PROVE  \/ c \in AllContainers(pod)
           \/ \E o \in AllContainers(pod) : \E m : c = Mounting(o, m)
           \/ /\ pc = "wrap" /\ Container0 \in AllContainers(pod)
              /\ c = Wrapped0
           \/ \E share \in BOOLEAN :
                (share => pod'.share) /\ Fitting(cfg, submitted.vols, share, c)
<1> USE DEF IInv, WriteInv
<1>0. pod.init \in Seq(Container) /\ pod.main \in Seq(Container) /\ pod \in Pod
  BY DEF TypeOK, Pod
<1>1. CASE WrapContainer
  <2>1. pc = "wrap" /\ cursor \in DOMAIN Here
    BY <1>1, HereType DEF WrapContainer, AtContainer
  <2>2. CASE list = "init"
    <3>1. pod'.init = [pod.init EXCEPT ![cursor] = Wrapped0] /\ pod'.main = pod.main
      BY <1>0, <1>1, <2>2 DEF WrapContainer, Pod
    <3>2. Container0 \in AllContainers(pod)
      BY <2>1, <2>2 DEF Container0, Here, Containers, AllContainers, Range
    <3>3. c \in Range(pod'.init) => c \in Range(pod.init) \/ c = Wrapped0
      BY <3>1, ReplaceRange
    <3> QED BY <2>1, <3>1, <3>2, <3>3 DEF AllContainers
  <2>3. CASE list = "main"
    <3>1. pod'.main = [pod.main EXCEPT ![cursor] = Wrapped0] /\ pod'.init = pod.init
      BY <1>0, <1>1, <2>3 DEF WrapContainer, Pod
    <3>2. Container0 \in AllContainers(pod)
      BY <2>1, <2>3 DEF Container0, Here, Containers, AllContainers, Range
    <3>3. c \in Range(pod'.main) => c \in Range(pod.main) \/ c = Wrapped0
      BY <3>1, ReplaceRange
    <3> QED BY <2>1, <3>1, <3>2, <3>3 DEF AllContainers
  <2> QED BY <2>2, <2>3 DEF TypeOK
<1>2. CASE RunTemplate
  <2>1. PICK share \in ShareOutcomes(cfg.CtShareProcess) : pod' = WithTemplate(share)
    BY <1>2 DEF RunTemplate
  <2>2. share \in BOOLEAN
    BY ShareType
  <2>3. pod.vols = submitted.vols
    BY <1>2 DEF RunTemplate, VolumeInv
  <2>4. share => pod'.share
    BY <2>1, <2>2, TemplateLists
  <2>5. Fitting(cfg, submitted.vols, share, consulTemplate(cfg, pod.vols, share))
    BY <1>0, <2>2, <2>3, AgentsFit
  <2> QED BY <2>1, <2>2, <2>4, <2>5, TemplateLists
<1>3. CASE Inject
  <2>1. pod.vols = submitted.vols
    BY <1>3 DEF Inject, VolumeInv
  <2>2. /\ Fitting(cfg, submitted.vols, FALSE, initAgent(cfg, pod.vols, pod.main))
        /\ Fitting(cfg, submitted.vols, FALSE, tokenCopier)
        /\ Fitting(cfg, submitted.vols, FALSE, envCopier)
    BY <1>0, <2>1, AgentsFit, CopiersFit
  <2>3. \/ c \in AllContainers(pod)
        \/ c \in {tokenCopier, initAgent(cfg, pod.vols, pod.main), envCopier}
    BY <1>3, InitLists DEF AllContainers
  <2> QED BY <2>2, <2>3
<1>4. CASE Finish
  <2>1. CASE ~cfg.AgentConfigMap
    BY <1>4, <2>1 DEF Finish
  <2>2. CASE cfg.AgentConfigMap /\ cfg.UseAgent
    <3>1. pod' = [pod EXCEPT !.main = addAgentSecretsVolToContainers(pod.main)]
      BY <1>4, <2>2 DEF Finish
    <3> QED BY <3>1, AgentLists
  <2>3. CASE cfg.AgentConfigMap /\ ~cfg.UseAgent
    <3>1. PICK share \in ShareOutcomes(cfg.AgentShareProcess) : pod' = WithAgent(share)
      BY <1>4, <2>3 DEF Finish
    <3>2. share \in BOOLEAN
      BY ShareType
    <3>3. share => pod'.share
      BY <3>1, <3>2, AgentLists
    <3> DEFINE main == addAgentSecretsVolToContainers(pod.main)
    <3>4. main \in Seq(Container)
      BY <3>2, AgentLists
    <3>5. Fitting(cfg, submitted.vols, share, agentSidecar(cfg, submitted.vols, main, share))
      <4> HIDE DEF main
      <4> QED BY <3>2, <3>4, AgentsFit
    <3> QED BY <3>1, <3>2, <3>3, <3>5, AgentLists
  <2> QED BY <2>1, <2>2, <2>3
<1>5. CASE UNCHANGED pod
  BY <1>5
<1> QED
  BY <1>1, <1>2, <1>3, <1>4, <1>5
     DEF Next, MutatePod, Environment, AlreadyMutated, StartMutation, EnterContainer,
         NextList, EndScan, ReadEntry, SkipOptional, LookupFails, LeaveContainer,
         DecideToWrap, RegistryFails, SkipTemplate, VersionUnavailable,
         NothingToInject, NoConfigMapToWrite, CreateConfigMap, CreateFails,
         UpdateConfigMap, UpdateFails, InjectPanics, ChangeSource, ChangeGenerated,
         Fail, Panic, vars

-----------------------------------------------------------------------------
(* What the webhook gives to a container *)

(* One more mount takes nothing away.                                      *)
LEMMA MountingKeeps ==
    ASSUME NEW o \in Container, NEW m
    PROVE  /\ Mounting(o, m).name = o.name /\ Mounting(o, m).caps = o.caps
           /\ Mounting(o, m).env = o.env
           /\ RunsVaultEnv(Mounting(o, m)) <=> RunsVaultEnv(o)
           /\ Range(o.mounts) \subseteq Range(Mounting(o, m).mounts)
<1> DEFINE c == Mounting(o, m)
<1>1. /\ c.name = o.name /\ c.caps = o.caps /\ c.env = o.env
      /\ c.command = o.command /\ c.probes = o.probes
      /\ c.mounts = Append(o.mounts, m)
  BY DEF Mounting, Container
<1>2. o.mounts \in Seq(Mount)
  BY DEF Container
<1>3. Range(o.mounts) \subseteq Range(Append(o.mounts, m))
  BY <1>2 DEF Range
<1> HIDE DEF c
<1>4. RunsVaultEnv(c) <=> RunsVaultEnv(o)
  BY <1>1 DEF RunsVaultEnv, IsWrapped
<1> QED BY <1>1, <1>3, <1>4 DEF c

(* Wrapping gives a container vault-env and what vault-env needs.          *)
LEMMA WrappingGives ==
    ASSUME NEW o \in Container, NEW argv, NEW g, NEW vols
    PROVE  LET c == wrap(o, argv, g, vols)
           IN  /\ c.name = o.name /\ c.caps = o.caps
               /\ Range(c.env) = Range(o.env) \cup Range(wrapperEnv(g, o.env, vols))
               /\ Range(c.mounts) = Range(o.mounts) \cup Range(wrapperMounts(g, vols))
               /\ MountsVaultDir(c)
               /\ g.TLSSecret => TLSMount(vols) \in Range(c.mounts)
<1> DEFINE c == wrap(o, argv, g, vols)
<1>1. /\ c.name = o.name /\ c.caps = o.caps
      /\ c.env = o.env \o wrapperEnv(g, o.env, vols)
      /\ c.mounts = o.mounts \o wrapperMounts(g, vols)
  BY DEF wrap, Container
<1>2. o.env \in Seq(EnvVar) /\ o.mounts \in Seq(Mount)
  BY DEF Container
<1> HIDE DEF c
<1>3. /\ Range(c.env) = Range(o.env) \cup Range(wrapperEnv(g, o.env, vols))
      /\ Range(c.mounts) = Range(o.mounts) \cup Range(wrapperMounts(g, vols))
  BY <1>1, <1>2, WrapperTypes, RangeConcatenation
<1>4. MountsVaultDir(c) /\ (g.TLSSecret => TLSMount(vols) \in Range(c.mounts))
  BY <1>3, BaseMounts DEF MountsVaultDir
<1> QED BY <1>1, <1>3, <1>4 DEF c

(* Every step keeps what a container was given, and gives no less.         *)
LEMMA GivenStep ==
    ASSUME IInv, WriteInv, GivenInv, [Next]_vars
    PROVE  GivenInv'
<1> USE DEF IInv, WriteInv
<1>1. CASE Reinvoke
  <2>1. submitted' = pod'
    BY <1>1 DEF Reinvoke
  <2> SUFFICES ASSUME NEW c \in AllContainers(pod') PROVE Given(c)'
    BY DEF GivenInv
  <2>2. c \in Originals(c)'
    BY <2>1 DEF Originals
  <2>3. SharedIfTraced(c)' /\ MountedIfNamed(c)'
    BY <2>2 DEF SharedIfTraced, MountedIfNamed
  <2>4. ~MadeToRunVaultEnv(c)' /\ ~ToldToReadToken(c)'
    BY <2>2 DEF MadeToRunVaultEnv, ToldToReadToken, RunsVaultEnv, IsWrapped, ReadsTokenFile
  <2> QED BY <2>3, <2>4 DEF Given
<1>2. ASSUME ~Reinvoke, NEW c \in AllContainers(pod') PROVE Given(c)'
  <2>1. /\ UNCHANGED <<cfg, submitted>> /\ (mutated => mutated')
        /\ (pod.share => pod'.share)
    BY <1>2, Kept0
  <2>2. AllContainers(pod) \subseteq Container
    BY RangeOfSeq DEF AllContainers, TypeOK, Pod
  (* What a container has that has an older one's name and no less. *)
  <2>3. ASSUME NEW o \in AllContainers(pod), c.name = o.name, c.caps = o.caps,
               c.env = o.env, RunsVaultEnv(c) <=> RunsVaultEnv(o),
               Range(o.mounts) \subseteq Range(c.mounts)
        PROVE  Given(c)'
    <3>1. Given(o)
      BY DEF GivenInv
    <3>2. Originals(c)' = Originals(o)
      BY <2>1, <2>3 DEF Originals
    <3>3. SharedIfTraced(c)'
      BY <2>1, <2>3, <3>1, <3>2 DEF Given, SharedIfTraced
    <3>4. MountedIfNamed(c)'
      BY <2>1, <2>3, <3>1, <3>2 DEF Given, MountedIfNamed
    <3>5. MadeToRunVaultEnv(c)' => MadeToRunVaultEnv(o)
      BY <2>3, <3>2 DEF MadeToRunVaultEnv, RunsVaultEnv, IsWrapped
    <3>6. MadeToRunVaultEnv(c)' => mutated' /\ MountsVaultDir(c)'
      BY <2>1, <2>3, <3>1, <3>5 DEF Given, MountsVaultDir
    <3>7. ToldToReadToken(c)' => ToldToReadToken(o)
      BY <2>3, <3>2 DEF ToldToReadToken, ReadsTokenFile
    <3>8. ToldToReadToken(c)' => mutated' /\ HasAgent'
      BY <2>1, <3>1, <3>7 DEF Given, HasAgent
    <3> QED BY <3>3, <3>4, <3>6, <3>8 DEF Given
  <2>4. CASE c \in AllContainers(pod)
    BY <2>3, <2>4
  <2>5. ASSUME NEW o \in AllContainers(pod), NEW m, c = Mounting(o, m) PROVE Given(c)'
    BY <2>2, <2>3, <2>5, MountingKeeps
  <2>6. CASE pc = "wrap" /\ Container0 \in AllContainers(pod) /\ c = Wrapped0
    <3> DEFINE o == Container0
    <3>1. Given(o) /\ o \in Container
      BY <2>2, <2>6 DEF GivenInv
    <3>2. pod.vols = submitted.vols /\ mutated
      BY <2>6 DEF VolumeInv, StartInv
    <3>3. /\ c.name = o.name /\ c.caps = o.caps
          /\ Range(c.env) = Range(o.env) \cup Range(wrapperEnv(cfg, o.env, submitted.vols))
          /\ Range(o.mounts) \subseteq Range(c.mounts)
          /\ MountsVaultDir(c)
          /\ cfg.TLSSecret => TLSMount(submitted.vols) \in Range(c.mounts)
      BY <2>6, <3>1, <3>2, WrappingGives DEF Wrapped0
    <3> HIDE DEF o
    <3>4. Originals(c)' = Originals(o)
      BY <2>1, <3>3 DEF Originals
    <3>5. SharedIfTraced(c)'
      BY <2>1, <3>1, <3>3, <3>4 DEF Given, SharedIfTraced
    <3>6. MountedIfNamed(c)'
      <4> SUFFICES ASSUME NEW e \in Range(c.env), e.name = "VAULT_CACERT"
                   PROVE  \/ \E x \in Originals(o) : e \in Range(x.env)
                          \/ /\ cfg.TLSSecret
                             /\ e.value = TLSMount(submitted.vols).path
                             /\ TLSMount(submitted.vols) \in Range(c.mounts)
        BY <2>1, <3>4 DEF MountedIfNamed
      <4>1. CASE e \in Range(o.env)
        BY <3>1, <3>3, <4>1 DEF Given, MountedIfNamed
      <4>2. CASE e \in Range(wrapperEnv(cfg, o.env, submitted.vols))
        <5>1. cfg.TLSSecret /\ e.value = TLSMount(submitted.vols).path
          BY <4>2, WrapperCacert
        <5> QED BY <3>3, <5>1
      <4> QED BY <3>3, <4>1, <4>2
    <3>7. MadeToRunVaultEnv(c)' => mutated' /\ MountsVaultDir(c)'
      BY <2>1, <3>2, <3>3 DEF MountsVaultDir
    <3>8. ToldToReadToken(c)' => mutated' /\ HasAgent'
      <4> SUFFICES ASSUME ToldToReadToken(c)' PROVE HasAgent
        BY <2>1, <3>2 DEF HasAgent
      <4>1. PICK e \in Range(c.env) : e.name = "VAULT_TOKEN_FILE"
        BY DEF ToldToReadToken, ReadsTokenFile
      <4>2. CASE e \in Range(o.env)
        <5>1. ToldToReadToken(o)
          BY <3>4, <4>1, <4>2 DEF ToldToReadToken, ReadsTokenFile
        <5> QED BY <3>1, <5>1 DEF Given
      <4>3. CASE e \in Range(wrapperEnv(cfg, o.env, submitted.vols))
        BY <4>1, <4>3, WrapperSettings DEF HasAgent
      <4> QED BY <3>3, <4>2, <4>3
    <3> QED BY <3>5, <3>6, <3>7, <3>8 DEF Given
  <2>7. ASSUME NEW share \in BOOLEAN, share => pod'.share,
               Fitting(cfg, submitted.vols, share, c)
        PROVE  Given(c)'
    <3>1. SharedIfTraced(c)'
      BY <2>7 DEF Fitting, SharedIfTraced
    <3>2. MountedIfNamed(c)'
      BY <2>1, <2>7 DEF Fitting, MountedIfNamed
    <3>3. ~MadeToRunVaultEnv(c)' /\ ~ToldToReadToken(c)'
      BY <2>7 DEF Fitting, MadeToRunVaultEnv, ToldToReadToken, RunsVaultEnv,
         IsWrapped, ReadsTokenFile
    <3> QED BY <3>1, <3>2, <3>3 DEF Given
  <2> QED BY <1>2, <2>4, <2>5, <2>6, <2>7, Provenance
<1> QED BY <1>1, <1>2 DEF GivenInv

-----------------------------------------------------------------------------
(* No container is wrapped for another's reference *)

(* What runs vault-env did before, or may have had a reference of its own; *)
(* and so may the container for which found is set.                        *)
Caused(w) == IsWrapped(w) => \E o \in Originals(w) : IsWrapped(o) \/ o \in MaybeNeedy

CauseInv ==
    /\ \A w \in AllContainers(pod) : Caused(w)
    /\ (pc = "entries" /\ found) \/ pc = "wrap" => Container0 \in MaybeNeedy

(* What a container may have needed stays so while a request runs: the     *)
(* sources that change are counted.                                        *)
LEMMA MaybeNeedyGrows ==
    ASSUME TypeOK, [Next]_vars, ~Reinvoke
    PROVE  MaybeNeedy \subseteq MaybeNeedy'
<1>1. UNCHANGED <<cfg, submitted>>
  BY Kept0
<1>2. ASSUME NEW e, MightDemand(e) PROVE MightDemand(e)'
  <2>1. \/ UNCHANGED <<sources, unseen>> \/ SkipOptional \/ ChangeSource
    BY DEF Next, MutatePod, Environment, vars, clusterVars,
       AlreadyMutated, StartMutation, EnterContainer, NextList, EndScan, ReadEntry,
       LookupFails, LeaveContainer, DecideToWrap, WrapContainer,
       RegistryFails, SkipTemplate, RunTemplate, VersionUnavailable, NothingToInject,
       NoConfigMapToWrite, CreateConfigMap, CreateFails, UpdateConfigMap, UpdateFails,
       Inject, InjectPanics, Finish, ChangeGenerated
  <2>2. CASE UNCHANGED <<sources, unseen>>
    BY <1>2, <2>2 DEF MightDemand, HoldsRef
  <2>3. CASE SkipOptional
    BY <1>2, <2>3 DEF SkipOptional, MightDemand, HoldsRef, clusterVars
  <2>4. CASE ChangeSource
    <3>1. PICK s \in Sources, content \in Contents :
              /\ sources' = [sources EXCEPT ![s] = content]
              /\ unseen' = unseen \cup {s}
      BY <2>4 DEF ChangeSource
    <3>2. \A x \in Sources \ {s} : sources'[x] = sources[x]
      BY <3>1 DEF TypeOK
    <3> QED BY <1>2, <3>1, <3>2 DEF MightDemand, HoldsRef
  <2> QED BY <2>1, <2>2, <2>3, <2>4
<1> QED BY <1>1, <1>2 DEF MaybeNeedy

(* Up to its own turn a container is as submitted.                         *)
LEMMA AtSubmitted ==
    ASSUME IInv, pc \in {"entries", "wrap"}
    PROVE  Container0 \in AllContainers(submitted)
<1> USE DEF IInv
<1>1. cursor \in 1..Len(Here) /\ Here \in Seq(Container)
  <2>1. cursor \in DOMAIN Here /\ Here \in Seq(Container)
    BY HereType DEF AtContainer
  <2> QED BY <2>1
<1> DEFINE cs == IF list = "init" THEN submitted.init ELSE submitted.main
<1>2. Scanned(Needy, cs, Here, cursor)
  BY DEF ScanInv, Here, Containers
<1>3. cs \in Seq(Container)
  BY DEF TypeOK, Pod
<1> HIDE DEF cs
<1>4. cursor \in 1..Len(cs) /\ Here[cursor] = cs[cursor]
  BY <1>1, <1>2 DEF Scanned
<1>5. Container0 \in Range(cs)
  BY <1>3, <1>4 DEF Container0, Range
<1> QED BY <1>5 DEF cs, AllContainers

(* Every step keeps found, and the decision to wrap, the container's own.  *)
LEMMA FoundStep ==
    ASSUME IInv, CauseInv, [Next]_vars, (pc' = "entries" /\ found') \/ pc' = "wrap"
    PROVE  (Container0 \in MaybeNeedy)'
<1> USE DEF IInv
<1>1. ~Reinvoke
  BY DEF Reinvoke
<1>2. MaybeNeedy \subseteq MaybeNeedy'
  BY <1>1, MaybeNeedyGrows
<1>3. pc \in {"entries", "wrap"} /\ UNCHANGED <<pod, list, cursor>>
  <2>1. ~EnterContainer
    BY DEF EnterContainer, StartInv, scanVars
  <2> QED
    BY <1>1, <2>1
       DEF Next, MutatePod, Environment, AlreadyMutated, StartMutation, NextList,
           EndScan, ReadEntry, SkipOptional, LookupFails, LeaveContainer, DecideToWrap,
           WrapContainer, RegistryFails, SkipTemplate, RunTemplate, VersionUnavailable,
           NothingToInject, NoConfigMapToWrite, CreateConfigMap, Creates, CreateFails,
           UpdateConfigMap, UpdateFails, Inject, InjectPanics, Finish, ChangeSource,
           ChangeGenerated, Answer, Fail, Panic, scanVars, vars
<1>4. Container0' = Container0
  BY <1>3 DEF Container0, Here, Containers
<1>5. Container0 \in MaybeNeedy
  <2>1. CASE (pc = "entries" /\ found) \/ pc = "wrap"
    BY <2>1 DEF CauseInv
  <2>2. CASE pc = "entries" /\ ~found
    <3>1. Container0 \in AllContainers(submitted)
      BY <2>2, AtSubmitted
    <3>2. \/ cfg.VaultEnvFromPath
          \/ /\ entry <= Len(Entries(Container0))
             /\ Entry0.ref \/ HoldsRef(Entry0)
      <4>1. ReadEntry \/ DecideToWrap
        <5>1. (pc' = "entries" /\ found') \/ pc' = "wrap"
          OBVIOUS
        <5> QED
          BY <1>1, <2>2, <5>1
             DEF Next, MutatePod, Environment, AlreadyMutated, StartMutation,
                 EnterContainer, NextList, EndScan, SkipOptional, LookupFails,
                 LeaveContainer, WrapContainer, RegistryFails, SkipTemplate,
                 RunTemplate, VersionUnavailable, NothingToInject, NoConfigMapToWrite,
                 CreateConfigMap, Creates, CreateFails, UpdateConfigMap, UpdateFails,
                 Inject, InjectPanics, Finish, ChangeSource, ChangeGenerated, Answer,
                 Fail, Panic, NextContainer, scanVars, vars
      <4>2. CASE ReadEntry
        <5>1. pc' = "entries" /\ entry <= Len(Entries(Container0))
          BY <2>2, <4>2 DEF ReadEntry
        <5>2. found' = (found \/ Entry0.ref \/ HoldsRef(Entry0)) /\ found'
          BY <4>2, <5>1 DEF ReadEntry
        <5> QED BY <2>2, <5>1, <5>2
      <4>3. CASE DecideToWrap
        BY <2>2, <4>3 DEF DecideToWrap
      <4> QED BY <4>1, <4>2, <4>3
    <3>3. CASE cfg.VaultEnvFromPath
      BY <3>1, <3>3 DEF MaybeNeedy
    <3>4. CASE entry <= Len(Entries(Container0)) /\ (Entry0.ref \/ HoldsRef(Entry0))
      <4>1. Container0 \in Container
        BY <2>2, HereType DEF AtContainer
      <4>2. entry \in DOMAIN Entries(Container0)
        BY <3>4, <4>1, EntriesOf DEF TypeOK
      <4>3. Entry0 \in Range(Entries(Container0)) /\ MightDemand(Entry0)
        BY <3>4, <4>2 DEF Entry0, Range, MightDemand
      <4> QED BY <3>1, <4>3 DEF MaybeNeedy
    <3> QED BY <3>2, <3>3, <3>4
  <2> QED BY <1>3, <2>1, <2>2
<1> QED BY <1>2, <1>4, <1>5

(* Every step wraps only a container that may have a reference.            *)
LEMMA CauseStep ==
    ASSUME IInv, WriteInv, CauseInv, [Next]_vars
    PROVE  CauseInv'
<1> USE DEF IInv, WriteInv
<1> SUFFICES ASSUME NEW w \in AllContainers(pod'), IsWrapped(w)
             PROVE  \E o \in Originals(w)' : IsWrapped(o) \/ o \in MaybeNeedy'
  BY FoundStep DEF CauseInv, Caused, IsWrapped
<1>1. CASE Reinvoke
  <2>1. w \in Originals(w)'
    BY <1>1 DEF Reinvoke, Originals
  <2> QED BY <2>1
<1>2. CASE ~Reinvoke
  <2>1. submitted' = submitted
    BY <1>2, Kept0
  <2>2. MaybeNeedy \subseteq MaybeNeedy'
    BY <1>2, MaybeNeedyGrows
  <2>3. AllContainers(pod) \subseteq Container
    BY RangeOfSeq DEF AllContainers, TypeOK, Pod
  <2>4. ASSUME NEW o \in AllContainers(pod), w.name = o.name, w.command = o.command
        PROVE  \E x \in Originals(w)' : IsWrapped(x) \/ x \in MaybeNeedy'
    <3>1. IsWrapped(o)
      BY <2>4 DEF IsWrapped
    <3>2. PICK x \in Originals(o) : IsWrapped(x) \/ x \in MaybeNeedy
      BY <3>1 DEF CauseInv, Caused
    <3>3. x \in Originals(w)'
      BY <2>1, <2>4 DEF Originals
    <3> QED BY <2>2, <3>2, <3>3
  <2>5. CASE w \in AllContainers(pod)
    BY <2>4, <2>5
  <2>6. ASSUME NEW o \in AllContainers(pod), NEW m, w = Mounting(o, m)
        PROVE  \E x \in Originals(w)' : IsWrapped(x) \/ x \in MaybeNeedy'
    <3>1. w.name = o.name /\ w.command = o.command
      BY <2>3, <2>6 DEF Mounting, Container
    <3> QED BY <2>4, <3>1
  <2>7. CASE pc = "wrap" /\ Container0 \in AllContainers(pod) /\ w = Wrapped0
    <3>1. Container0 \in MaybeNeedy
      BY <2>7 DEF CauseInv
    <3>2. w.name = Container0.name
      BY <2>7, WrappedType DEF AtContainer
    <3>3. Container0 \in Originals(w)'
      BY <2>1, <3>1, <3>2 DEF Originals, MaybeNeedy
    <3> QED BY <2>2, <3>1, <3>3
  <2>8. ASSUME NEW share \in BOOLEAN, Fitting(cfg, submitted.vols, share, w)
        PROVE  FALSE
    BY <2>8 DEF Fitting, RunsVaultEnv
  <2> QED BY <1>2, <2>5, <2>6, <2>7, <2>8, Provenance
<1> QED BY <1>1, <1>2

(* vault-env starts a container only for a reference that may have been    *)
(* seen in it: not for one of the container before it, of the other list,  *)
(* or of a source nobody changed.                                          *)
THEOREM NothingIsWrappedInVain == Spec => []NoNeedlessWrapping
<1>1. Init => CauseInv
  <2> SUFFICES ASSUME Init PROVE CauseInv
    OBVIOUS
  <2>1. pc = "received" /\ pod = submitted
    BY DEF Init
  <2> QED BY <2>1 DEF CauseInv, Caused, Originals
<1>2. IInv /\ WriteInv /\ CauseInv /\ [Next]_vars => CauseInv'
  BY CauseStep
<1>3. CauseInv => NoNeedlessWrapping
  BY DEF CauseInv, Caused, NoNeedlessWrapping
<1> QED BY <1>1, <1>2, <1>3, WritesInvariance, PTL DEF Spec

-----------------------------------------------------------------------------
(* The order of the init containers *)

(* In a mutated pod the env copier is the last of those added, and a       *)
(* writer of the token, where there is one, the first.                     *)
LEMMA InitPrefix ==
    ASSUME TypeOK, Inject, mutated
    PROVE  LET added == getInitContainers(cfg, pod.vols, pod.main, mutated)
           IN  /\ Len(added) \in Nat \ {0}
               /\ added[Len(added)] = envCopier
               /\ ~cfg.Token /\ HasAgent =>
                    added[1] \in {tokenCopier, initAgent(cfg, pod.vols, pod.main)}
               /\ 1..Len(added) \subseteq DOMAIN pod'.init
               /\ \A i \in 1..Len(added) :
                    pod'.init[i] = added[i] /\ added[i] \in Range(added)
<1> DEFINE ag == initAgent(cfg, pod.vols, pod.main)
           s == IF cfg.TokenAuthMount # "" THEN <<tokenCopier>>
                ELSE IF startsInitAgent(cfg) THEN <<ag>>
                ELSE <<>>
           t == <<envCopier>>
           added == getInitContainers(cfg, pod.vols, pod.main, mutated)
<1>1. added = s \o t
  BY DEF getInitContainers
<1>2. /\ added \in Seq(Container) /\ pod'.init = added \o pod.init
      /\ pod.init \in Seq(Container)
  BY InitLists DEF TypeOK, Pod
<1>3. tokenCopier \in Container /\ envCopier \in Container /\ ag \in Container
  <2>1. TRUE \in BOOLEAN /\ pod.main \in Seq(Container)
    BY DEF TypeOK, Pod
  <2> QED BY <2>1, AgentTypes
<1> HIDE DEF added
<1>4. ASSUME cfg.TokenAuthMount # "" \/ startsInitAgent(cfg)
      PROVE  /\ Len(added) = 2 /\ added[2] = envCopier
             /\ added[1] \in {tokenCopier, ag}
  <2>1. PICK x \in {tokenCopier, ag} : s = <<x>>
    BY <1>4
  <2>2. added = <<x>> \o <<envCopier>>
    BY <1>1, <2>1
  <2> QED BY <2>2, Joined
<1>5. ASSUME ~(cfg.TokenAuthMount # "" \/ startsInitAgent(cfg))
      PROVE  Len(added) = 1 /\ added[1] = envCopier
  <2>1. added = <<>> \o <<envCopier>>
    BY <1>1, <1>5
  <2> QED BY <2>1, Joined
<1>6. ~cfg.Token /\ HasAgent => cfg.TokenAuthMount # "" \/ startsInitAgent(cfg)
  BY DEF HasAgent, startsInitAgent
<1>7. Len(added) \in Nat \ {0} /\ added[Len(added)] = envCopier
  <2>1. Len(added) \in {1, 2} /\ added[Len(added)] = envCopier
    <3> HIDE DEF ag, s, t
    <3>1. CASE cfg.TokenAuthMount # "" \/ startsInitAgent(cfg)
      BY <1>4, <3>1
    <3>2. CASE ~(cfg.TokenAuthMount # "" \/ startsInitAgent(cfg))
      BY <1>5, <3>2
    <3> QED BY <3>1, <3>2
  <2> QED BY <2>1
<1>8. \A i \in 1..Len(added) : added[i] \in Range(added)
  BY <1>2 DEF Range
<1>9. 1..Len(added) \subseteq DOMAIN pod'.init
  BY <1>2, ConcatProperties
<1>10. \A i \in 1..Len(added) : pod'.init[i] = added[i]
  BY <1>2, ConcatProperties
<1> HIDE DEF ag, s, t
<1>11. ~cfg.Token /\ HasAgent => added[1] \in {tokenCopier, ag}
  BY <1>4, <1>6
<1> QED BY <1>7, <1>8, <1>9, <1>10, <1>11 DEF added, ag

(* The names of the writers, and that they write.                          *)
LEMMA Writers ==
    ASSUME NEW cs \in Seq(Container)
    PROVE  /\ Writes(envCopier, {"copy-vault-env"})
           /\ Writes(tokenCopier, {"vault-agent", "copy-vault-token"})
           /\ \A g, vols : Writes(initAgent(g, vols, cs), {"vault-agent", "copy-vault-token"})
<1>1. envCopier.name = "copy-vault-env" /\ tokenCopier.name = "copy-vault-token"
  BY DEF envCopier, tokenCopier, Injected
<1>2. \A g, vols : initAgent(g, vols, cs).name = "vault-agent"
  BY DEF initAgent, Injected
<1>3. MountsVaultDir(envCopier) /\ MountsVaultDir(tokenCopier)
  BY CopiersFit DEF Fitting
<1>4. \A g, vols : MountsVaultDir(initAgent(g, vols, cs))
  <2>1. TRUE \in BOOLEAN
    OBVIOUS
  <2> QED BY <2>1, AgentsFit DEF Fitting
<1> QED BY <1>1, <1>2, <1>3, <1>4 DEF Writes

(* Finish adds no init container.                                          *)
LEMMA FinishInit ==
    ASSUME TypeOK, Finish
    PROVE  pod'.init = pod.init
<1>1. CASE ~cfg.AgentConfigMap
  BY <1>1 DEF Finish
<1>2. CASE cfg.AgentConfigMap
  BY <1>2 DEF Finish, WithAgent, TypeOK, Pod
<1> QED BY <1>1, <1>2

(* How a step can get behind the init containers.                          *)
LEMMA BehindStep ==
    ASSUME TypeOK, [Next]_vars, (pc = "agent" \/ Allowed)'
    PROVE  \/ AlreadyMutated \/ NothingToInject \/ Inject \/ Finish
           \/ /\ pc = "agent" \/ Allowed
              /\ UNCHANGED <<pod, submitted, cfg, mutated>>
<1> QED
  BY DEF Allowed, Next, MutatePod, Environment, AlreadyMutated, StartMutation,
     EnterContainer, NextList, EndScan, ReadEntry, SkipOptional, LookupFails,
     LeaveContainer, DecideToWrap, WrapContainer, RegistryFails, SkipTemplate,
     RunTemplate, VersionUnavailable, NothingToInject, NoConfigMapToWrite,
     CreateConfigMap, CreateFails, UpdateConfigMap, UpdateFails, InjectPanics,
     Reinvoke, ChangeSource, ChangeGenerated, Answer, Fail, Panic, vars, requestVars

(* Every step keeps the writers in front of their readers.                 *)
LEMMA OrderStep ==
    ASSUME IInv, WriteInv, OrderInv, [Next]_vars
    PROVE  OrderInv'
<1> USE DEF IInv, WriteInv
<1> SUFFICES ASSUME (pc = "agent" \/ Allowed)', mutated'
             PROVE  (EnvReady /\ (~cfg.Token /\ HasAgent => TokenReady))'
  BY DEF OrderInv
<1>1. CASE AlreadyMutated
  BY <1>1 DEF AlreadyMutated, StartInv
<1>2. CASE NothingToInject
  BY <1>2 DEF NothingToInject, Injects
<1>3. CASE Inject
  <2> DEFINE added == getInitContainers(cfg, pod.vols, pod.main, mutated)
  <2>0. PICK n : n = Len(added)
    OBVIOUS
  <2>1. mutated /\ UNCHANGED <<cfg, submitted>> /\ pod.main \in Seq(Container)
    BY <1>3 DEF Inject, requestVars, TypeOK, Pod
  <2>2. /\ n \in Nat \ {0} /\ added[n] = envCopier
        /\ ~cfg.Token /\ HasAgent =>
                    added[1] \in {tokenCopier, initAgent(cfg, pod.vols, pod.main)}
        /\ 1..n \subseteq DOMAIN pod'.init
        /\ \A i \in 1..n : pod'.init[i] = added[i] /\ added[i] \in Range(added)
    BY <1>3, <2>0, <2>1, InitPrefix
  <2>3. \A c \in Range(added) :
            c \in {tokenCopier, initAgent(cfg, pod.vols, pod.main), envCopier}
    BY <1>3, InitLists
  <2> HIDE DEF added
  <2>4. ASSUME NEW i \in 1..n
        PROVE  ~MadeToRunVaultEnv(pod.init[i])' /\ ~ToldToReadToken(pod.init[i])'
    <3>1. pod'.init[i] \in {tokenCopier, initAgent(cfg, pod.vols, pod.main), envCopier}
      BY <2>2, <2>3
    <3>2. Fitting(cfg, submitted.vols, FALSE, tokenCopier)
      BY CopiersFit
    <3>3. Fitting(cfg, submitted.vols, FALSE, envCopier)
      BY CopiersFit
    <3>4. Fitting(cfg, pod.vols, FALSE, initAgent(cfg, pod.vols, pod.main))
      BY <2>1, AgentsFit
    <3>5. ~RunsVaultEnv(pod'.init[i]) /\ ~ReadsTokenFile(pod'.init[i])
      BY <3>1, <3>2, <3>3, <3>4 DEF Fitting
    <3> QED
      BY <3>5 DEF MadeToRunVaultEnv, ToldToReadToken, RunsVaultEnv, IsWrapped, ReadsTokenFile
  <2>5. EnvReady'
    <3>1. n \in DOMAIN pod'.init /\ n \in 1..n /\ pod'.init[n] = envCopier
      BY <2>2
    <3>2. Writes(envCopier, {"copy-vault-env"})
      BY <2>1, Writers
    <3>3. Writes(pod.init[n], {"copy-vault-env"})'
      BY <3>1, <3>2 DEF Writes, MountsVaultDir
    <3>4. \A i \in 1..n : ~MadeToRunVaultEnv(pod.init[i])'
      BY <2>4
    <3> QED BY <3>1, <3>3, <3>4 DEF EnvReady
  <2>6. ASSUME ~cfg.Token /\ HasAgent PROVE TokenReady'
    <3>1. 1 \in DOMAIN pod'.init /\ 1 \in 1..n /\ pod'.init[1] = added[1]
      BY <2>2
    <3>2. Writes(pod.init[1], {"vault-agent", "copy-vault-token"})'
      BY <2>1, <2>2, <2>6, <3>1, Writers DEF Writes, MountsVaultDir
    <3>3. \A i \in 1..1 : i \in 1..n
      BY <3>1
    <3> QED BY <2>4, <3>1, <3>2, <3>3 DEF TokenReady
  <2>7. (~cfg.Token /\ HasAgent)' => ~cfg.Token /\ HasAgent
    BY <2>1 DEF HasAgent
  <2> QED BY <2>5, <2>6, <2>7
<1>4. ASSUME pc = "agent" \/ Allowed, mutated, UNCHANGED <<cfg, submitted>>,
             pod'.init = pod.init
      PROVE  (EnvReady /\ (~cfg.Token /\ HasAgent => TokenReady))'
  <2>1. EnvReady /\ (~cfg.Token /\ HasAgent => TokenReady)
    BY <1>4 DEF OrderInv
  <2>2. EnvReady'
    <3>1. PICK k \in DOMAIN pod.init :
                /\ Writes(pod.init[k], {"copy-vault-env"})
                /\ \A i \in 1..k : ~MadeToRunVaultEnv(pod.init[i])
      BY <2>1 DEF EnvReady
    <3>2. k \in DOMAIN pod'.init /\ Writes(pod.init[k], {"copy-vault-env"})'
      BY <1>4, <3>1 DEF Writes, MountsVaultDir
    <3>3. ASSUME NEW i \in 1..k PROVE ~MadeToRunVaultEnv(pod.init[i])'
      <4>1. Originals(pod.init[i])' = Originals(pod.init[i])
        BY <1>4 DEF Originals
      <4> QED BY <1>4, <3>1, <4>1 DEF MadeToRunVaultEnv, RunsVaultEnv, IsWrapped
    <3> QED BY <3>2, <3>3 DEF EnvReady
  <2>3. TokenReady => TokenReady'
    BY <1>4 DEF TokenReady, Writes, MountsVaultDir, ToldToReadToken,
       ReadsTokenFile, Originals
  <2> QED BY <1>4, <2>1, <2>2, <2>3 DEF HasAgent
<1>5. CASE Finish
  BY <1>4, <1>5, FinishInit DEF Finish, requestVars
<1> QED BY <1>1, <1>2, <1>3, <1>4, <1>5, BehindStep

-----------------------------------------------------------------------------
(* The volume of the TLS secret *)

(* The volumes of a configuration with a TLS secret hold it.               *)
LEMMA TLSVolume ==
    ASSUME NEW g, NEW vols \in Seq(Volume), g.TLSSecret
    PROVE  [name |-> TLSMount(vols).vol, from |-> "TLSSecret"] \in Range(getVolumes(g, vols))
<1> DEFINE v(n, f) == [name |-> n, from |-> f]
           tls == v(TLSMount(vols).vol, "TLSSecret")
           s1 == <<v(VaultEnvVolumeName, "emptyDir")>>
           s2 == IF g.UseAgent \/ g.CtConfigMap
                 THEN <<v("vault-agent-config",
                          IF g.AgentConfigMap THEN "AgentConfigMap" ELSE "generated")>>
                 ELSE <<>>
           s3 == <<tls>>
           s4 == IF g.CtConfigMap
                 THEN << v("ct-secrets", "emptyDir"), v("ct-configmap", "CtConfigMap") >>
                 ELSE <<>>
           s5 == IF g.AgentConfigMap
                 THEN << v("agent-secrets", "emptyDir"),
                         v("agent-configmap", "AgentConfigMap") >>
                 ELSE <<>>
<1>1. getVolumes(g, vols) = (((s1 \o s2) \o s3) \o s4) \o s5
  BY DEF getVolumes
<1>2. \A a, b : <<a>> \in Seq({a}) /\ <<a, b>> \in Seq({a, b}) /\ <<>> \in Seq({})
  OBVIOUS
<1>3. /\ \E S : s1 \in Seq(S)
      /\ \E S : s2 \in Seq(S)
      /\ \E S : s4 \in Seq(S)
      /\ \E S : s5 \in Seq(S)
  BY <1>2
<1>4. s3 \in Seq({tls}) /\ tls \in Range(s3)
  BY <1>2, ShortRanges
<1> HIDE DEF s1, s2, s3, s4, s5, tls
<1>5. PICK S : /\ s1 \in Seq(S) /\ s2 \in Seq(S) /\ s3 \in Seq(S)
               /\ s4 \in Seq(S) /\ s5 \in Seq(S)
  <2>1. PICK S1, S2, S4, S5 : s1 \in Seq(S1) /\ s2 \in Seq(S2) /\ s4 \in Seq(S4) /\ s5 \in Seq(S5)
    BY <1>3
  <2> DEFINE S == S1 \cup S2 \cup {tls} \cup S4 \cup S5
  <2>2. s1 \in Seq(S) /\ s2 \in Seq(S) /\ s3 \in Seq(S) /\ s4 \in Seq(S) /\ s5 \in Seq(S)
    BY <1>4, <2>1
  <2> QED BY <2>2
<1> DEFINE t2 == s1 \o s2
           t3 == t2 \o s3
           t4 == t3 \o s4
           t5 == t4 \o s5
<1>6. t2 \in Seq(S)
  BY <1>5
<1> HIDE DEF t2
<1>7. t3 \in Seq(S) /\ tls \in Range(t3)
  BY <1>4, <1>5, <1>6, RangeConcatenation
<1> HIDE DEF t3
<1>8. t4 \in Seq(S) /\ tls \in Range(t4)
  BY <1>5, <1>7, RangeConcatenation
<1> HIDE DEF t4
<1>9. tls \in Range(t5)
  BY <1>5, <1>8, RangeConcatenation
<1> QED BY <1>1, <1>9 DEF tls, t2, t3, t4

(* Every step keeps the volume, and Inject adds it.                        *)
LEMMA SecretStep ==
    ASSUME IInv, WriteInv, SecretInv, [Next]_vars
    PROVE  SecretInv'
<1> USE DEF IInv, WriteInv
<1> SUFFICES ASSUME (pc = "agent" \/ Allowed)', cfg'.TLSSecret
             PROVE  \/ isPodAlreadyMutated(submitted)'
                    \/ (pod = submitted /\ ~Injects)'
                    \/ SecretVolume(pod)'
  BY DEF SecretInv
<1>1. CASE AlreadyMutated
  BY <1>1 DEF AlreadyMutated, StartInv, requestVars, isPodAlreadyMutated
<1>2. CASE NothingToInject
  BY <1>2 DEF NothingToInject, MarkInv, Injects, requestVars
<1>3. CASE Inject
  <2>1. /\ pod'.vols = pod.vols \o getVolumes(cfg, pod.vols)
        /\ pc = "inject" /\ UNCHANGED <<cfg, submitted>>
    BY <1>3 DEF Inject, TypeOK, Pod, requestVars
  <2>2. pod.vols \in Seq(Volume) /\ getVolumes(cfg, pod.vols) \in Seq(Volume)
    BY VolumesType DEF TypeOK, Pod
  <2>3. pod.vols = submitted.vols
    BY <2>1 DEF VolumeInv
  <2> DEFINE v == [name |-> TLSMount(submitted.vols).vol, from |-> "TLSSecret"]
  <2>4. v \in Range(getVolumes(cfg, pod.vols))
    BY <2>1, <2>2, <2>3, TLSVolume
  <2>5. v \in Range(pod'.vols)
    BY <2>1, <2>2, <2>4, RangeConcatenation
  <2>6. SecretVolume(pod)'
    BY <2>1, <2>5 DEF SecretVolume
  <2> QED BY <2>6
<1>4. CASE Finish
  <2>1. /\ pc = "agent" /\ UNCHANGED <<cfg, submitted, mutated>>
        /\ ~cfg.AgentConfigMap => pod' = pod
    BY <1>4 DEF Finish, requestVars
  <2>2. pod'.vols = pod.vols
    <3>1. ~Inject
      BY <2>1 DEF Inject
    <3> QED BY <3>1, VolumesStay
  <2>3. CASE isPodAlreadyMutated(submitted)
    BY <2>1, <2>3 DEF isPodAlreadyMutated
  <2>4. CASE pod = submitted /\ ~Injects
    BY <2>1, <2>4 DEF Injects
  <2>5. CASE SecretVolume(pod)
    BY <2>1, <2>2, <2>5 DEF SecretVolume
  <2> QED BY <2>1, <2>3, <2>4, <2>5 DEF SecretInv
<1>5. CASE (pc = "agent" \/ Allowed) /\ UNCHANGED <<pod, submitted, cfg, mutated>>
  BY <1>5 DEF SecretInv, isPodAlreadyMutated, Injects, SecretVolume
<1> QED BY <1>1, <1>2, <1>3, <1>4, <1>5, BehindStep

-----------------------------------------------------------------------------
(* Every submitted container is kept *)

(* The command line the webhook reconstructs is the one the kubelet would  *)
(* have started.                                                           *)
LEMMA OriginalArgsAreKubelets ==
    ASSUME NEW c \in Container
    PROVE  originalArgs(c, ImageConfig[c.image]) = KubeletArgv(c, ImageConfig[c.image])
<1>1. c.command \in Seq(Text) /\ c.args \in Seq(Text) /\ c.image \in Images
  BY DEF Container
<1>2. \A s \in Seq(Text) : s \o <<>> = s
  OBVIOUS
<1>3. ASSUME NEW im, im.entrypoint \in Seq(Text), im.cmd \in Seq(Text)
      PROVE  originalArgs(c, im) = KubeletArgv(c, im)
  <2>1. CASE c.command # <<>>
    BY <2>1 DEF originalArgs, KubeletArgv
  <2>2. CASE c.command = <<>> /\ c.args # <<>>
    <3>1. originalArgs(c, im) = (im.entrypoint \o <<>>) \o c.args
      BY <2>2 DEF originalArgs
    <3>2. KubeletArgv(c, im) = im.entrypoint \o c.args
      BY <2>2 DEF KubeletArgv
    <3> QED BY <1>2, <1>3, <3>1, <3>2
  <2>3. CASE c.command = <<>> /\ c.args = <<>>
    <3>1. originalArgs(c, im) = (im.entrypoint \o im.cmd) \o <<>>
      BY <2>3 DEF originalArgs
    <3>2. KubeletArgv(c, im) = im.entrypoint \o im.cmd
      BY <2>3 DEF KubeletArgv
    <3>3. im.entrypoint \o im.cmd \in Seq(Text)
      BY <1>3
    <3> QED BY <1>2, <3>1, <3>2, <3>3
  <2> QED BY <2>1, <2>2, <2>3
<1> QED BY <1>1, <1>3, ImageConfigAssumption

(* What keeps a container.                                                 *)
LEMMA KeptSelf == \A c : Kept(c, c)
BY DEF Kept, SameEntrypoint

(* A wrapped container starts vault-env with what it started before.       *)
LEMMA KeptWrapped ==
    ASSUME NEW c \in Container, NEW g, NEW vols
    PROVE  Kept(c, wrap(c, originalArgs(c, ImageConfig[c.image]), g, vols))
<1> DEFINE argv == originalArgs(c, ImageConfig[c.image])
           w    == wrap(c, argv, g, vols)
<1>1. w.name = c.name /\ w.command = <<VaultEnv>> /\ w.args = argv
  BY DEF wrap, Container
<1>2. argv = KubeletArgv(c, ImageConfig[c.image])
  BY OriginalArgsAreKubelets
<1> HIDE DEF w, argv
<1>3. <<VaultEnv>> # <<>>
  OBVIOUS
<1>4. KubeletArgv(w, ImageConfig[w.image]) = <<VaultEnv>> \o argv
  BY <1>1, <1>3 DEF KubeletArgv
<1> QED BY <1>1, <1>2, <1>4 DEF Kept, SameEntrypoint, w, argv

(* A mount changes nothing of what is started.                             *)
LEMMA KeptMounting ==
    ASSUME NEW c, NEW w \in Container, NEW m, Kept(c, w)
    PROVE  Kept(c, Mounting(w, m))
<1> DEFINE x == Mounting(w, m)
<1>1. /\ x.name = w.name /\ x.command = w.command
      /\ x.args = w.args /\ x.image = w.image
  BY DEF Mounting, Container
<1> HIDE DEF x
<1>2. KubeletArgv(x, ImageConfig[x.image]) = KubeletArgv(w, ImageConfig[w.image])
  BY <1>1 DEF KubeletArgv
<1>3. Kept(c, x)
  BY <1>1, <1>2 DEF Kept, SameEntrypoint
<1> QED BY <1>3 DEF x

(* What keeps the containers of a list.                                    *)
LEMMA KeptInFront ==
    ASSUME NEW cs, NEW a \in Seq(Container), NEW ws \in Seq(Container), KeptIn(cs, ws)
    PROVE  KeptIn(cs, a \o ws)
<1>1. Range(ws) \subseteq Range(a \o ws)
  BY RangeConcatenation
<1> QED BY <1>1 DEF KeptIn

(* Nor does one in each container of a list.                               *)
LEMMA KeptAddMount ==
    ASSUME NEW cs, NEW ws \in Seq(Container), NEW m, KeptIn(cs, ws)
    PROVE  KeptIn(cs, AddMount(ws, m))
<1>1. \A w \in Range(ws) : Mounting(w, m) \in Range(AddMount(ws, m))
  BY DEF AddMount, Mounting, Range
<1>2. Range(ws) \subseteq Container
  BY RangeOfSeq
<1> QED BY <1>1, <1>2, KeptMounting DEF KeptIn

(* What is kept at its index is kept.                                      *)
LEMMA KeptEachIn ==
    ASSUME NEW cs \in Seq(Container), NEW ws \in Seq(Container), Len(ws) = Len(cs),
           KeptEach(cs, ws)
    PROVE  KeptIn(cs, ws)
<1>1. DOMAIN ws = DOMAIN cs
  BY LenProperties
<1> QED BY <1>1 DEF KeptEach, KeptIn, Range

(* It is enough to look at the container that is replaced.                 *)
LEMMA KeptEachReplaced ==
    ASSUME NEW cs, NEW ws, NEW i, NEW w, KeptEach(cs, ws), DOMAIN ws = DOMAIN cs,
           i \in DOMAIN cs => Kept(cs[i], w)
    PROVE  KeptEach(cs, [ws EXCEPT ![i] = w])
BY DEF KeptEach

(* The steps behind the scan keep what is in the pod.                      *)
LEMMA KeptByTemplate ==
    ASSUME TypeOK, NEW share \in BOOLEAN, NEW cs, NEW ds,
           KeptIn(cs, pod.init), KeptIn(ds, pod.main)
    PROVE  /\ KeptIn(cs, WithTemplate(share).init)
           /\ KeptIn(ds, WithTemplate(share).main)
<1> DEFINE mount == MountAt("ct-secrets", ConfigfilePath)
           main == addSecretsVolToContainers(pod.main)
           init == IF cfg.CtOnce /\ cfg.CtInjectInInitcontainers
                   THEN addSecretsVolToContainers(pod.init) ELSE pod.init
           ct == <<consulTemplate(cfg, pod.vols, share)>>
<1>1. mount \in Mount
  BY MountType, TextAssumption DEF ConfigfilePath
<1>2. pod.init \in Seq(Container) /\ pod.main \in Seq(Container)
  BY DEF TypeOK, Pod
<1>3. main \in Seq(Container) /\ KeptIn(ds, main)
  BY <1>1, <1>2, AddMountType, KeptAddMount DEF addSecretsVolToContainers
<1>4. init \in Seq(Container) /\ KeptIn(cs, init)
  BY <1>1, <1>2, AddMountType, KeptAddMount DEF addSecretsVolToContainers
<1>5. ct \in Seq(Container)
  <2>1. consulTemplate(cfg, pod.vols, share) \in Container
    BY <1>2, AgentTypes
  <2> QED BY <2>1
<1>6. /\ WithTemplate(share).init = IF cfg.CtOnce THEN ct \o init ELSE init
      /\ WithTemplate(share).main = IF cfg.CtOnce THEN main ELSE ct \o main
  BY DEF WithTemplate, TypeOK, Pod
<1> HIDE DEF main, init, ct
<1>7. KeptIn(cs, ct \o init) /\ KeptIn(ds, ct \o main)
  BY <1>3, <1>4, <1>5, KeptInFront
<1> QED BY <1>3, <1>4, <1>6, <1>7

(* Nor do the agent's secrets, or its sidecar in front.                    *)
LEMMA KeptByAgent ==
    ASSUME TypeOK, Finish, NEW cs, KeptIn(cs, pod.main)
    PROVE  KeptIn(cs, pod'.main)
<1> DEFINE m    == MountAt("agent-secrets", ConfigfilePath)
           main == addAgentSecretsVolToContainers(pod.main)
<1>1. pod.main \in Seq(Container)
  BY DEF TypeOK, Pod
<1>2. KeptIn(cs, main)
  BY <1>1, KeptAddMount DEF addAgentSecretsVolToContainers
<1>3. CASE ~cfg.AgentConfigMap
  BY <1>3 DEF Finish
<1>4. CASE cfg.AgentConfigMap /\ cfg.UseAgent
  <2>1. pod'.main = main
    BY <1>4 DEF Finish, TypeOK, Pod
  <2> QED BY <1>2, <2>1
<1>5. CASE cfg.AgentConfigMap /\ ~cfg.UseAgent
  <2>1. PICK share \in ShareOutcomes(cfg.AgentShareProcess) : pod' = WithAgent(share)
    BY <1>5 DEF Finish
  <2>2. share \in BOOLEAN
    BY ShareType
  <2> DEFINE ag == agentSidecar(cfg, submitted.vols, main, share)
  <2>3. pod'.main = <<ag>> \o main /\ main \in Seq(Container)
    BY <2>1, <2>2, AgentLists
  <2> HIDE DEF main
  <2>4. <<ag>> \in Seq(Container)
    <3>1. ag \in Container
      BY <2>2, <2>3, AgentTypes
    <3> HIDE DEF ag
    <3> QED BY <3>1
  <2> HIDE DEF ag
  <2> QED BY <1>2, <2>3, <2>4, KeptInFront
<1> QED BY <1>3, <1>4, <1>5

(* While the lists are scanned, place by place.                            *)
LEMMA KeptScan ==
    ASSUME IInv, KeptInv, WrapContainer
    PROVE  KeptEach(submitted.init, pod'.init) /\ KeptEach(submitted.main, pod'.main)
<1> USE DEF IInv
<1>1. pc = "wrap" /\ pod \in Pod /\ submitted \in Pod
  BY DEF WrapContainer, TypeOK
<1>2. cursor \in DOMAIN Here /\ Container0 \in Container /\ cursor \in Nat
  BY <1>1, HereType DEF AtContainer, Container0, TypeOK
<1>3. Kept(Container0, Wrapped0)
  BY <1>2, KeptWrapped DEF Wrapped0
<1>4. KeptEach(submitted.init, pod.init) /\ KeptEach(submitted.main, pod.main)
  BY <1>1 DEF KeptInv
<1>5. /\ pod.init \in Seq(Container) /\ pod.main \in Seq(Container)
      /\ submitted.init \in Seq(Container) /\ submitted.main \in Seq(Container)
  BY <1>1 DEF Pod
<1>6. CASE list = "init"
  <2>1. Scanned(Needy, submitted.init, pod.init, cursor)
    BY <1>1, <1>6 DEF ScanInv
  <2>2. DOMAIN pod.init = DOMAIN submitted.init
    BY <1>5, <2>1, LenProperties DEF Scanned
  <2>3. Container0 = submitted.init[cursor]
    BY <1>2, <1>5, <1>6, <2>1, <2>2, LenProperties DEF Scanned, Container0, Here, Containers
  <2>4. pod'.init = [pod.init EXCEPT ![cursor] = Wrapped0] /\ pod'.main = pod.main
    BY <1>1, <1>6 DEF WrapContainer, Pod
  <2>5. KeptEach(submitted.init, pod'.init)
    BY <1>3, <1>4, <2>2, <2>3, <2>4, KeptEachReplaced
  <2> QED BY <1>4, <2>4, <2>5
<1>7. CASE list # "init"
  <2>1. Scanned(Needy, submitted.main, pod.main, cursor)
    BY <1>1, <1>7 DEF ScanInv
  <2>2. DOMAIN pod.main = DOMAIN submitted.main
    BY <1>5, <2>1, LenProperties DEF Scanned
  <2>3. Container0 = submitted.main[cursor]
    BY <1>2, <1>5, <1>7, <2>1, <2>2, LenProperties DEF Scanned, Container0, Here, Containers
  <2>4. pod'.main = [pod.main EXCEPT ![cursor] = Wrapped0] /\ pod'.init = pod.init
    BY <1>1, <1>7 DEF WrapContainer, Pod
  <2>5. KeptEach(submitted.main, pod'.main)
    BY <1>3, <1>4, <2>2, <2>3, <2>4, KeptEachReplaced
  <2> QED BY <1>4, <2>4, <2>5
<1> QED BY <1>6, <1>7

(* When the scan is over, container by container.                          *)
LEMMA KeptScanned ==
    ASSUME IInv, KeptInv, pc = "containers", list = "main"
    PROVE  KeptIn(submitted.init, pod.init) /\ KeptIn(submitted.main, pod.main)
<1> USE DEF IInv
<1>1. KeptEach(submitted.init, pod.init) /\ KeptEach(submitted.main, pod.main)
  BY DEF KeptInv
<1>2. /\ pod.init \in Seq(Container) /\ pod.main \in Seq(Container)
      /\ submitted.init \in Seq(Container) /\ submitted.main \in Seq(Container)
  BY DEF TypeOK, Pod
<1>3. Len(pod.init) = Len(submitted.init) /\ Len(pod.main) = Len(submitted.main)
  BY DEF ScanInv, Scanned
<1> QED BY <1>1, <1>2, <1>3, KeptEachIn

(* How a step can change the pod or what the invariant says of it.         *)
LEMMA PodSteps ==
    ASSUME TypeOK, [Next]_vars
    PROVE  \/ AlreadyMutated \/ WrapContainer \/ EndScan \/ RunTemplate
           \/ Inject \/ Finish \/ Reinvoke
           \/ (pc' = "answered" /\ ~Allowed')
           \/ /\ UNCHANGED <<pod, submitted>>
              /\ \/ /\ pc \in {"received", "containers", "entries", "wrap"}
                    /\ pc' \in {"received", "containers", "entries", "wrap"}
                 \/ /\ pc \in {"template", "configmap", "update", "inject", "agent"}
                    /\ pc' \in {"template", "configmap", "update", "inject", "agent"}
                 \/ pc = "answered" /\ pc' = "answered" /\ UNCHANGED verdict
BY DEF Allowed, Next, MutatePod, Environment, AlreadyMutated, StartMutation,
   EnterContainer, NextList, EndScan, ReadEntry, SkipOptional, LookupFails,
   LeaveContainer, DecideToWrap, WrapContainer, RegistryFails, SkipTemplate,
   RunTemplate, VersionUnavailable, NothingToInject, NoConfigMapToWrite,
   CreateConfigMap, Creates, CreateFails, UpdateConfigMap, UpdateFails, InjectPanics,
   Reinvoke, ChangeSource, ChangeGenerated, Answer, Fail, Panic, vars, requestVars, TypeOK

(* Every step keeps every container.                                       *)
LEMMA KeptStep ==
    ASSUME IInv, KeptInv, [Next]_vars
    PROVE  KeptInv'
<1> USE DEF IInv
<1> DEFINE Past == pc \in {"template", "configmap", "update", "inject", "agent"}
<1>1. CASE AlreadyMutated
  <2>1. /\ pod' = pod /\ submitted' = submitted /\ pod = submitted
        /\ pc' = "answered"
    BY <1>1 DEF AlreadyMutated, Answer, StartInv, requestVars
  <2>2. KeptIn(submitted.init, pod.init)' /\ KeptIn(submitted.main, pod.main)'
    BY <2>1, KeptSelf DEF KeptIn
  <2> QED BY <2>1, <2>2 DEF KeptInv
<1>2. CASE WrapContainer
  <2>1. pc' = "containers" /\ submitted' = submitted
    BY <1>2 DEF WrapContainer, requestVars
  <2>2. KeptEach(submitted.init, pod.init)' /\ KeptEach(submitted.main, pod.main)'
    BY <1>2, <2>1, KeptScan
  <2> QED BY <2>1, <2>2 DEF KeptInv, Allowed
<1>3. CASE EndScan
  <2>1. pc' = "template" /\ UNCHANGED <<pod, submitted>>
    BY <1>3 DEF EndScan, requestVars
  <2>2. KeptIn(submitted.init, pod.init) /\ KeptIn(submitted.main, pod.main)
    BY <1>3, KeptScanned DEF EndScan
  <2> QED BY <2>1, <2>2 DEF KeptInv
<1>4. ASSUME Past PROVE KeptIn(submitted.init, pod.init) /\ KeptIn(submitted.main, pod.main)
  BY <1>4 DEF KeptInv
<1>5. CASE RunTemplate
  <2>1. Past /\ pc' = "configmap" /\ submitted' = submitted
    BY <1>5 DEF RunTemplate, requestVars
  <2>2. PICK share \in ShareOutcomes(cfg.CtShareProcess) : pod' = WithTemplate(share)
    BY <1>5 DEF RunTemplate
  <2>3. share \in BOOLEAN
    BY ShareType
  <2>4. KeptIn(submitted.init, pod.init)' /\ KeptIn(submitted.main, pod.main)'
    BY <1>4, <2>1, <2>2, <2>3, KeptByTemplate
  <2> QED BY <2>1, <2>4 DEF KeptInv
<1>6. CASE Inject
  <2>1. Past /\ pc' = "agent" /\ submitted' = submitted
    BY <1>6 DEF Inject, requestVars
  <2> DEFINE added == getInitContainers(cfg, pod.vols, pod.main, mutated)
  <2>2. /\ added \in Seq(Container) /\ pod.init \in Seq(Container)
        /\ pod'.init = added \o pod.init /\ pod'.main = pod.main
    BY <1>6, InitLists DEF TypeOK, Pod
  <2> HIDE DEF added
  <2>3. KeptIn(submitted.init, pod.init)' /\ KeptIn(submitted.main, pod.main)'
    BY <1>4, <2>1, <2>2, KeptInFront
  <2> QED BY <2>1, <2>3 DEF KeptInv
<1>7. CASE Finish
  <2>1. Past /\ pc' = "answered" /\ submitted' = submitted
    BY <1>7 DEF Finish, Answer, requestVars
  <2>2. KeptIn(submitted.init, pod.init)' /\ KeptIn(submitted.main, pod.main)'
    BY <1>4, <1>7, <2>1, FinishInit, KeptByAgent
  <2> QED BY <2>1, <2>2 DEF KeptInv
<1>8. CASE Reinvoke
  <2>1. pc' = "received" /\ pod' = submitted'
    BY <1>8 DEF Reinvoke
  <2>2. KeptEach(submitted.init, pod.init)' /\ KeptEach(submitted.main, pod.main)'
    BY <2>1, KeptSelf DEF KeptEach
  <2> QED BY <2>1, <2>2 DEF KeptInv, Allowed
<1>9. CASE pc' = "answered" /\ ~Allowed'
  BY <1>9 DEF KeptInv
<1>10. CASE /\ UNCHANGED <<pod, submitted>>
            /\ \/ /\ pc \in {"received", "containers", "entries", "wrap"}
                  /\ pc' \in {"received", "containers", "entries", "wrap"}
               \/ /\ pc \in {"template", "configmap", "update", "inject", "agent"}
                  /\ pc' \in {"template", "configmap", "update", "inject", "agent"}
               \/ pc = "answered" /\ pc' = "answered" /\ UNCHANGED verdict
  BY <1>10 DEF KeptInv, Allowed
<1> QED BY <1>1, <1>2, <1>3, <1>5, <1>6, <1>7, <1>8, <1>9, <1>10, PodSteps

-----------------------------------------------------------------------------
(* The theorems *)

(* The invariant holds at first.                                           *)
LEMMA ShapeInit == Init => ShapeInv
<1> SUFFICES ASSUME Init PROVE ShapeInv
  OBVIOUS
<1>1. pc = "received" /\ pod = submitted /\ verdict = "pending"
  BY DEF Init
<1>2. ASSUME NEW c \in AllContainers(pod) PROVE Given(c)
  <2>1. c \in Originals(c)
    BY <1>1 DEF Originals
  <2>2. SharedIfTraced(c) /\ MountedIfNamed(c)
    BY <2>1 DEF SharedIfTraced, MountedIfNamed
  <2>3. ~MadeToRunVaultEnv(c) /\ ~ToldToReadToken(c)
    BY <2>1 DEF MadeToRunVaultEnv, ToldToReadToken
  <2> QED BY <2>2, <2>3 DEF Given
<1>3. OrderInv /\ SecretInv
  BY <1>1 DEF OrderInv, SecretInv, Allowed
<1>4. KeptInv
  BY <1>1, KeptSelf DEF KeptInv, KeptEach, Allowed
<1> QED BY <1>2, <1>3, <1>4 DEF ShapeInv, GivenInv

(* The strengthened invariant is inductive.                                *)
THEOREM ShapeInvariance == Spec => [](IInv /\ WriteInv /\ ShapeInv)
<1>1. Init => ShapeInv
  BY ShapeInit
<1>2. IInv /\ WriteInv /\ ShapeInv /\ [Next]_vars => ShapeInv'
  BY GivenStep, OrderStep, SecretStep, KeptStep DEF ShapeInv
<1> QED BY <1>1, <1>2, WritesInvariance, PTL DEF Spec

(* What comes in front of what.                                            *)
LEMMA Before ==
    ASSUME NEW a \in Seq(Container), NEW b \in Seq(Container), NEW k \in DOMAIN a,
           NEW i \in DOMAIN (a \o b)
    PROVE  /\ (a \o b)[k] = a[k]
           /\ (a \o b)[i] \in Range(a) \cup Range(b)
           /\ k < i \/ (i \in 1..k /\ (a \o b)[i] = a[i])
<1>1. /\ Len(a) \in Nat /\ DOMAIN a = 1..Len(a) /\ DOMAIN (a \o b) = 1..Len(a \o b)
      /\ Len(a \o b) \in Nat
  OBVIOUS
<1>2. \A j \in DOMAIN a : (a \o b)[j] = a[j]
  BY <1>1, ConcatProperties
<1>3. (a \o b)[i] \in Range(a) \cup Range(b)
  <2>1. (a \o b)[i] \in Range(a \o b)
    BY DEF Range
  <2> QED BY <2>1, RangeConcatenation
<1>4. CASE i <= k
  BY <1>1, <1>2, <1>3, <1>4
<1>5. CASE k < i
  BY <1>2, <1>3, <1>5
<1> QED BY <1>1, <1>4, <1>5

(* vault-env still starts what the kubelet would have started: a container *)
(* of the allowed pod has the effective command line of the one submitted  *)
(* under its name, or vault-env followed by it.                            *)
THEOREM EntrypointsArePreserved == Spec => []EntrypointPreserved
<1>1. ASSUME IInv, ShapeInv PROVE EntrypointPreserved
  <2> SUFFICES ASSUME Allowed, NEW old \in AllContainers(submitted),
                      NEW new \in AllContainers(pod),
                      old.name = new.name, OnlyOne(new.name)
               PROVE  SameEntrypoint(old, new)
    BY DEF EntrypointPreserved
  <2>1. KeptIn(submitted.init, pod.init) /\ KeptIn(submitted.main, pod.main)
    BY <1>1 DEF ShapeInv, KeptInv
  <2>2. PICK w \in AllContainers(pod) : Kept(old, w)
    BY <2>1 DEF KeptIn, AllContainers
  <2>3. pod.init \in Seq(Container) /\ pod.main \in Seq(Container)
    BY <1>1 DEF IInv, TypeOK, Pod
  <2> DEFINE order == pod.init \o pod.main
  <2>4. AllContainers(pod) = Range(order)
    BY <2>3, RangeConcatenation DEF AllContainers
  <2>5. PICK i \in DOMAIN order : order[i] = w
    BY <2>4 DEF Range
  <2>6. PICK j \in DOMAIN order : order[j] = new
    BY <2>4 DEF Range
  <2>7. i = j
    BY <2>2, <2>5, <2>6 DEF OnlyOne, Kept
  <2> QED BY <2>2, <2>5, <2>6, <2>7 DEF Kept
<1> QED BY <1>1, ShapeInvariance, PTL

(* Before each container that mutateContainers made run vault-env, probes  *)
(* included, an init container copied it into the volume both mount.       *)
THEOREM VaultEnvIsCopiedFirst == Spec => []DependenciesFirst
<1>1. ASSUME IInv, ShapeInv PROVE DependenciesFirst
  <2> DEFINE order == pod.init \o pod.main
  <2> SUFFICES ASSUME Allowed, NEW i \in DOMAIN order, MadeToRunVaultEnv(order[i])
               PROVE  /\ MountsVaultDir(order[i])
                      /\ \E j \in DOMAIN pod.init :
                            j < i /\ Writes(order[j], {"copy-vault-env"})
    BY DEF DependenciesFirst
  <2>1. pod.init \in Seq(Container) /\ pod.main \in Seq(Container)
    BY <1>1 DEF IInv, TypeOK, Pod
  <2>2. order[i] \in AllContainers(pod)
    <3>1. order[i] \in Range(order)
      BY DEF Range
    <3> QED BY <2>1, <3>1, RangeConcatenation DEF AllContainers
  <2>3. mutated /\ MountsVaultDir(order[i])
    BY <1>1, <2>2 DEF ShapeInv, GivenInv, Given
  <2>4. PICK k \in DOMAIN pod.init :
            /\ Writes(pod.init[k], {"copy-vault-env"})
            /\ \A n \in 1..k : ~MadeToRunVaultEnv(pod.init[n])
    BY <1>1, <2>3 DEF ShapeInv, OrderInv, EnvReady
  <2>5. order[k] = pod.init[k] /\ (k < i \/ (i \in 1..k /\ order[i] = pod.init[i]))
    BY <2>1, Before
  <2> QED BY <2>3, <2>4, <2>5
<1> QED BY <1>1, ShapeInvariance, PTL

(* A container that was told to read its token from a file comes after the *)
(* init container that writes the file, unless VAULT_TOKEN is set too.     *)
THEOREM TokenIsWrittenFirst == Spec => []TokenFileHasWriter
<1>1. ASSUME IInv, ShapeInv PROVE TokenFileHasWriter
  <2> DEFINE order == pod.init \o pod.main
  <2> SUFFICES ASSUME Allowed, ~cfg.Token, NEW i \in DOMAIN order,
                      ToldToReadToken(order[i])
               PROVE  \E j \in DOMAIN pod.init :
                        j < i /\ Writes(order[j], {"vault-agent", "copy-vault-token"})
    BY DEF TokenFileHasWriter
  <2>1. pod.init \in Seq(Container) /\ pod.main \in Seq(Container)
    BY <1>1 DEF IInv, TypeOK, Pod
  <2>2. order[i] \in AllContainers(pod)
    <3>1. order[i] \in Range(order)
      BY DEF Range
    <3> QED BY <2>1, <3>1, RangeConcatenation DEF AllContainers
  <2>3. mutated /\ HasAgent
    BY <1>1, <2>2 DEF ShapeInv, GivenInv, Given
  <2>4. PICK k \in DOMAIN pod.init :
            /\ Writes(pod.init[k], {"vault-agent", "copy-vault-token"})
            /\ \A n \in 1..k : ~ToldToReadToken(pod.init[n])
    BY <1>1, <2>3 DEF ShapeInv, OrderInv, TokenReady
  <2>5. order[k] = pod.init[k] /\ (k < i \/ (i \in 1..k /\ order[i] = pod.init[i]))
    BY <2>1, Before
  <2> QED BY <2>4, <2>5
<1> QED BY <1>1, ShapeInvariance, PTL

(* Wherever the webhook points VAULT_CACERT, that container mounts the     *)
(* volume of the TLS secret there, and the pod has that volume.            *)
THEOREM CacertsAreMounted == Spec => []CacertIsMounted
<1>1. ASSUME IInv, WriteInv, ShapeInv PROVE CacertIsMounted
  <2> SUFFICES ASSUME Allowed, NEW c \in AllContainers(pod), NEW e \in Range(c.env),
                      e.name = "VAULT_CACERT",
                      ~\E o \in Originals(c) : e \in Range(o.env)
               PROVE  \E m \in Range(c.mounts), v \in Range(pod.vols) :
                        m.path = e.value /\ v.name = m.vol /\ v.from = "TLSSecret"
    BY DEF CacertIsMounted
  <2>1. /\ cfg.TLSSecret /\ e.value = TLSMount(submitted.vols).path
        /\ TLSMount(submitted.vols) \in Range(c.mounts)
    BY <1>1 DEF ShapeInv, GivenInv, Given, MountedIfNamed
  <2>2. pod # submitted
    BY DEF Originals
  <2>3. ~isPodAlreadyMutated(submitted)
    BY <1>1, <2>2 DEF WriteInv, RoundInv, Allowed
  <2>4. SecretVolume(pod)
    BY <1>1, <2>1, <2>2, <2>3 DEF ShapeInv, SecretInv
  <2> QED BY <2>1, <2>4 DEF SecretVolume
<1> QED BY <1>1, ShapeInvariance, PTL

(* A container is given SYS_PTRACE only in a pod whose process namespace   *)
(* the webhook, or the pod itself, shares.                                 *)
THEOREM PtraceMeansSharing == Spec => []PtraceNeedsSharing
<1>1. ShapeInv => PtraceNeedsSharing
  BY DEF ShapeInv, GivenInv, Given, SharedIfTraced, PtraceNeedsSharing
<1> QED BY <1>1, ShapeInvariance, PTL
================================================================================
