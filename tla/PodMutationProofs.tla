-------------------------- MODULE PodMutationProofs --------------------------
(***************************************************************************)
(* Theorems about PodMutation, for every configuration, pod, cluster and   *)
(* registry that satisfy the assumptions of that module.                   *)
(***************************************************************************)
EXTENDS PodMutation, WellFoundedInduction, SequenceTheorems, TLAPS

-----------------------------------------------------------------------------
(* Types of what pod.go builds *)

(* A variable the webhook sets is a variable.                              *)
LEMMA SettingType ==
    ASSUME NEW n \in Text, NEW v \in Text
    PROVE  /\ Setting(n, v) \in EnvVar
           /\ \A b : SettingIf(b, n, v) \in Seq(EnvVar)
<1>1. Setting(n, v) \in EnvVar
  BY TextAssumption DEF Setting, EnvVar, NoSource
<1>2. <<Setting(n, v)>> \in Seq(EnvVar) /\ <<>> \in Seq(EnvVar)
  BY <1>1
<1> QED BY <1>1, <1>2 DEF SettingIf

(* A mount the webhook adds is a mount.                                    *)
LEMMA MountType ==
    ASSUME NEW v \in Text, NEW p \in Text
    PROVE  MountAt(v, p) \in Mount /\ <<MountAt(v, p)>> \in Seq(Mount)
<1>1. MountAt(v, p) \in Mount BY DEF MountAt, Mount
<1> QED BY <1>1

(* Whichever volumes the pod has, the TLS mount is a mount.                *)
LEMMA TLSMountType ==
    ASSUME NEW vols
    PROVE  TLSMount(vols) \in Mount /\ <<TLSMount(vols)>> \in Seq(Mount)
<1>1. MountAt("vault-env-tls", "/vault-env/tls/") \in Mount BY MountType, TextAssumption
<1>2. MountAt("vault-tls", "/vault/tls/") \in Mount BY MountType, TextAssumption
<1>3. TLSMount(vols) \in Mount BY <1>1, <1>2 DEF TLSMount
<1> QED BY <1>3

(* What vault-env needs is a sequence of variables and one of mounts.      *)
LEMMA WrapperTypes ==
    ASSUME NEW g, NEW env, NEW vols
    PROVE  /\ wrapperEnv(g, env, vols) \in Seq(EnvVar)
           /\ wrapperMounts(g, vols) \in Seq(Mount)
<1> DEFINE s1 == <<Setting("VAULT_ADDR", "operator")>>
           s2 == SettingIf(g.Token, "VAULT_TOKEN", "operator")
           s3 == SettingIf(g.LogLevel /\ ~isLogLevelSet(env), "VAULT_LOG_LEVEL", "operator")
           s4 == SettingIf(g.TLSSecret, "VAULT_CACERT", TLSMount(vols).path)
           s5 == SettingIf(g.UseAgent \/ g.TokenAuthMount # "", "VAULT_TOKEN_FILE", TokenFile)
           s6 == SettingIf(g.VaultEnvFromPath, "VAULT_ENV_FROM_PATH", "path")
<1>1. s1 \in Seq(EnvVar)
  <2>1. Setting("VAULT_ADDR", "operator") \in EnvVar BY SettingType, TextAssumption
  <2> QED BY <2>1
<1>2. s2 \in Seq(EnvVar) BY SettingType, TextAssumption
<1>3. s3 \in Seq(EnvVar) BY SettingType, TextAssumption
<1>4. s4 \in Seq(EnvVar)
  <2>1. TLSMount(vols).path \in Text BY TLSMountType DEF Mount
  <2> QED BY <2>1, SettingType, TextAssumption
<1>5. s5 \in Seq(EnvVar) BY SettingType, TextAssumption DEF TokenFile
<1>6. s6 \in Seq(EnvVar) BY SettingType, TextAssumption
<1>7. wrapperEnv(g, env, vols) \in Seq(EnvVar)
  <2> HIDE DEF s1, s2, s3, s4, s5, s6
  <2>1. (((((s1 \o s2) \o s3) \o s4) \o s5) \o s6) \in Seq(EnvVar)
    BY <1>1, <1>2, <1>3, <1>4, <1>5, <1>6
  <2> QED BY <2>1 DEF wrapperEnv, s1, s2, s3, s4, s5, s6
<1>8. wrapperMounts(g, vols) \in Seq(Mount)
  <2>1. <<MountAt(VaultEnvVolumeName, VaultDir)>> \in Seq(Mount)
    BY MountType, TextAssumption DEF VaultEnvVolumeName, VaultDir
  <2>2. (IF g.TLSSecret THEN <<TLSMount(vols)>> ELSE <<>>) \in Seq(Mount)
    BY TLSMountType
  <2> QED BY <2>1, <2>2 DEF wrapperMounts
<1> QED BY <1>7, <1>8

(* A wrapped container is a container with the same name and command vault-env. *)
LEMMA WrapType ==
    ASSUME NEW c \in Container, NEW argv \in Seq(Text),
           NEW g, NEW vols
    PROVE  /\ wrap(c, argv, g, vols) \in Container
           /\ wrap(c, argv, g, vols).name = c.name
           /\ IsWrapped(wrap(c, argv, g, vols))
<1> DEFINE w == wrap(c, argv, g, vols)
           probes == [k \in ProbeKinds |-> mutateProbe(g, c.probes[k])]
           mounts == c.mounts \o wrapperMounts(g, vols)
           env    == c.env \o wrapperEnv(g, c.env, vols)
<1>1. w = [c EXCEPT !.command = <<VaultEnv>>, !.args = argv, !.probes = probes,
                    !.mounts = mounts, !.env = env]
  BY DEF wrap, Container
<1>2. probes \in [ProbeKinds -> Seq(Text)]
  <2>1. VaultEnv \in Text BY TextAssumption DEF VaultEnv
  <2>2. <<VaultEnv>> \in Seq(Text) BY <2>1
  <2>3. ASSUME NEW k \in ProbeKinds PROVE mutateProbe(g, c.probes[k]) \in Seq(Text)
    <3>1. c.probes[k] \in Seq(Text) BY DEF Container
    <3> HIDE DEF ProbeKinds
    <3>2. <<VaultEnv>> \o c.probes[k] \in Seq(Text) BY <2>2, <3>1
    <3> QED BY <3>1, <3>2 DEF mutateProbe
  <2> QED BY <2>3
<1>3. mounts \in Seq(Mount)
  <2>1. c.mounts \in Seq(Mount) BY DEF Container
  <2>2. wrapperMounts(g, vols) \in Seq(Mount) BY WrapperTypes
  <2> QED BY <2>1, <2>2
<1>4. env \in Seq(EnvVar) BY WrapperTypes DEF Container
<1>5. <<VaultEnv>> \in Seq(Text)
  <2>1. VaultEnv \in Text BY TextAssumption DEF VaultEnv
  <2> QED BY <2>1
<1> HIDE DEF probes, mounts, env
<1>6. w \in Container BY <1>1, <1>2, <1>3, <1>4, <1>5 DEF Container
<1>7. w.name = c.name /\ w.command = <<VaultEnv>> BY <1>1 DEF Container
<1> QED BY <1>6, <1>7 DEF IsWrapped

(* The command line handed to vault-env is a sequence of words.            *)
LEMMA ArgsType ==
    ASSUME NEW c \in Container
    PROVE  originalArgs(c, ImageConfig[c.image]) \in Seq(Text)
<1>1. ImageConfig[c.image] \in [entrypoint : Seq(Text), cmd : Seq(Text)]
  BY ImageConfigAssumption DEF Container
<1> DEFINE im == ImageConfig[c.image]
           tail == IF c.args = <<>> THEN im.cmd ELSE <<>>
<1>2. c.command \in Seq(Text) /\ c.args \in Seq(Text) BY DEF Container
<1>3. im.entrypoint \in Seq(Text) /\ tail \in Seq(Text) BY <1>1
<1>4. originalArgs(c, im) = IF c.command # <<>> THEN c.command \o c.args
                            ELSE (im.entrypoint \o tail) \o c.args
  BY DEF originalArgs
<1> HIDE DEF tail, im
<1>5. originalArgs(c, im) \in Seq(Text) BY <1>2, <1>3, <1>4
<1> QED BY <1>5 DEF im

(* Adding a mount to every container changes neither names nor commands.   *)
LEMMA AddMountType ==
    ASSUME NEW cs \in Seq(Container), NEW m \in Mount
    PROVE  /\ AddMount(cs, m) \in Seq(Container)
           /\ Len(AddMount(cs, m)) = Len(cs)
           /\ \A i \in 1..Len(cs) :
                /\ AddMount(cs, m)[i].name = cs[i].name
                /\ AddMount(cs, m)[i].command = cs[i].command
<1> DEFINE t(i) == [cs[i] EXCEPT !.mounts = Append(@, m)]
<1>1. ASSUME NEW i \in 1..Len(cs)
      PROVE  t(i) \in Container /\ t(i).name = cs[i].name /\ t(i).command = cs[i].command
  <2>1. cs[i] \in Container OBVIOUS
  <2>2. Append(cs[i].mounts, m) \in Seq(Mount) BY <2>1 DEF Container
  <2> QED BY <2>1, <2>2 DEF Container
<1>2. DOMAIN cs = 1..Len(cs) /\ Len(cs) \in Nat OBVIOUS
<1>3. AddMount(cs, m) = [i \in 1..Len(cs) |-> t(i)]
  BY <1>2 DEF AddMount
<1> HIDE DEF t
<1>4. AddMount(cs, m) \in Seq(Container) /\ Len(AddMount(cs, m)) = Len(cs)
  BY <1>1, <1>2, <1>3
<1>5. \A i \in 1..Len(cs) : AddMount(cs, m)[i] = t(i) BY <1>3
<1> QED BY <1>1, <1>4, <1>5

(* Replacing one element of a sequence of containers.                      *)
LEMMA ReplaceType ==
    ASSUME NEW S, NEW s \in Seq(S), NEW i \in DOMAIN s, NEW e \in S
    PROVE  /\ [s EXCEPT ![i] = e] \in Seq(S)
           /\ Len([s EXCEPT ![i] = e]) = Len(s)
           /\ \A j \in 1..Len(s) : [s EXCEPT ![i] = e][j] = IF j = i THEN e ELSE s[j]
<1>1. DOMAIN s = 1..Len(s) /\ Len(s) \in Nat OBVIOUS
<1>2. s \in [1..Len(s) -> S] OBVIOUS
<1> DEFINE n == Len(s)
           t == [s EXCEPT ![i] = e]
<1>3. t \in [1..n -> S] BY <1>2
<1>4. \A j \in 1..n : t[j] = IF j = i THEN e ELSE s[j] BY <1>2
<1>5. n \in Nat BY <1>1
<1> HIDE DEF n, t
<1>6. t \in Seq(S) /\ Len(t) = n BY <1>3, <1>5
<1> QED BY <1>4, <1>6 DEF n, t

(* A container the webhook adds is a container.                            *)
LEMMA InjectedType ==
    ASSUME NEW n \in Text, NEW im \in Images, NEW cmd \in Seq(Text),
           NEW env \in Seq(EnvVar), NEW ms \in Seq(Mount), NEW caps \in SUBSET Text
    PROVE  /\ Injected(n, im, cmd, env, ms, caps) \in Container
           /\ Injected(n, im, cmd, env, ms, caps).command = cmd
BY DEF Injected, Container

(* The variables and mounts shared by the webhook's own containers.        *)
LEMMA BaseTypes ==
    ASSUME NEW g, NEW vols
    PROVE  /\ containerEnvVars(g, vols) \in Seq(EnvVar)
           /\ containerVolMounts(g, vols) \in Seq(Mount)
<1> DEFINE s1 == <<Setting("VAULT_ADDR", "operator")>>
           s2 == SettingIf(g.Token, "VAULT_TOKEN", "operator")
           s3 == SettingIf(g.TLSSecret, "VAULT_CACERT", TLSMount(vols).path)
<1>1. s1 \in Seq(EnvVar)
  <2>1. Setting("VAULT_ADDR", "operator") \in EnvVar BY SettingType, TextAssumption
  <2> QED BY <2>1
<1>2. s2 \in Seq(EnvVar) BY SettingType, TextAssumption
<1>3. s3 \in Seq(EnvVar)
  <2>1. TLSMount(vols).path \in Text BY TLSMountType DEF Mount
  <2> QED BY <2>1, SettingType, TextAssumption
<1>4. containerEnvVars(g, vols) \in Seq(EnvVar)
  <2> HIDE DEF s1, s2, s3
  <2>1. (s1 \o s2) \o s3 \in Seq(EnvVar) BY <1>1, <1>2, <1>3
  <2> QED BY <2>1 DEF containerEnvVars, s1, s2, s3
<1>5. containerVolMounts(g, vols) \in Seq(Mount)
  BY WrapperTypes DEF wrapperMounts, containerVolMounts
<1> QED BY <1>4, <1>5

(* The service account mount is one of a container, or the zero one.       *)
LEMMA ServiceAccountFound ==
    ASSUME NEW cs \in Seq(Container)
    PROVE  LET m   == getServiceAccountMount(cs)
               has == \E c \in Range(cs) : mountsServiceAccount(c)
           IN  /\ ~has => m = NoMount
               /\ has => /\ m.path = ServiceAccountPath
                         /\ \E c \in Range(cs) : m \in Range(c.mounts)
<1>1. CASE ~\E c \in Range(cs) : mountsServiceAccount(c)
  BY <1>1 DEF getServiceAccountMount
<1>2. CASE \E c \in Range(cs) : mountsServiceAccount(c)
  <2> DEFINE Has == {i \in DOMAIN cs : mountsServiceAccount(cs[i])}
             IsFirst(i) == /\ mountsServiceAccount(cs[i])
                           /\ \A j \in 1..(i - 1) : ~mountsServiceAccount(cs[j])
  <2>1. DOMAIN cs = 1..Len(cs) /\ Len(cs) \in Nat OBVIOUS
  <2>2. Has # {} BY <1>2 DEF Range
  <2>3. Has \subseteq Nat BY <2>1
  <2>4. PICK k \in Has : \A j \in Has : <<j, k>> \notin OpToRel(<, Nat)
    <3> HIDE DEF Has
    <3> QED BY <2>2, <2>3, NatLessThanWellFounded, WFMin
  <2>5. \A j \in 1..(k - 1) : ~mountsServiceAccount(cs[j])
    <3> SUFFICES ASSUME NEW j \in 1..(k - 1), mountsServiceAccount(cs[j])
                 PROVE  FALSE
      OBVIOUS
    <3>1. j \in Has /\ j < k /\ k \in Nat /\ j \in Nat BY <2>1
    <3> QED BY <3>1, <2>4 DEF OpToRel
  <2>6. \E i \in DOMAIN cs : IsFirst(i) BY <2>4, <2>5
  <2> DEFINE first == CHOOSE i \in DOMAIN cs : IsFirst(i)
  <2>7. first \in DOMAIN cs /\ IsFirst(first)
    <3> HIDE DEF IsFirst
    <3> QED BY <2>6
  <2>8. getServiceAccountMount(cs) =
            CHOOSE m \in Range(cs[first].mounts) : m.path = ServiceAccountPath
    BY <1>2 DEF getServiceAccountMount
  <2>9. cs[first] \in Range(cs) BY <2>7 DEF Range
  <2>10. \E m \in Range(cs[first].mounts) : m.path = ServiceAccountPath
    <3> HIDE DEF first
    <3> QED BY <2>7 DEF mountsServiceAccount
  <2> HIDE DEF first
  <2> QED BY <1>2, <2>8, <2>9, <2>10
<1> QED BY <1>1, <1>2

(* So it is a mount.                                                       *)
LEMMA ServiceAccountType ==
    ASSUME NEW cs \in Seq(Container)
    PROVE  getServiceAccountMount(cs) \in Mount
<1>1. NoMount \in Mount
  BY MountType, TextAssumption DEF NoMount
<1>2. ASSUME NEW c \in Range(cs) PROVE Range(c.mounts) \subseteq Mount
  <2>1. c \in Container BY DEF Range
  <2>2. c.mounts \in Seq(Mount) BY <2>1 DEF Container
  <2> QED BY <2>2 DEF Range
<1> QED BY <1>1, <1>2, ServiceAccountFound

(* Every container the webhook adds is a container.                        *)
LEMMA AgentTypes ==
    ASSUME NEW g, NEW vols, NEW cs \in Seq(Container), NEW share \in BOOLEAN
    PROVE  /\ consulTemplate(g, vols, share) \in Container
           /\ agentSidecar(g, vols, cs, share) \in Container
           /\ initAgent(g, vols, cs) \in Container
           /\ tokenCopier \in Container
           /\ envCopier \in Container
<1>1. Ptrace(share) \in SUBSET Text BY TextAssumption DEF Ptrace
<1>2. AgentCapabilities \in SUBSET Text BY TextAssumption DEF AgentCapabilities
<1>3. \A v, p \in Text : MountAt(v, p) \in Mount BY MountType
<1>4. containerEnvVars(g, vols) \in Seq(EnvVar) /\ containerVolMounts(g, vols) \in Seq(Mount)
  BY BaseTypes
<1>5. getServiceAccountMount(cs) \in Mount BY ServiceAccountType
<1>6. /\ VaultEnvVolumeName \in Text /\ VaultDir \in Text /\ ConfigfilePath \in Text
      /\ \A n \in {"consul-template", "vault-agent", "copy-vault-token", "copy-vault-env"} :
            n \in Text
  BY TextAssumption DEF VaultEnvVolumeName, VaultDir, ConfigfilePath
<1>7. AgentImage \in Images /\ EnvImage \in Images /\ CtImage \in Images
  BY ImagesAssumption
<1>8. ASSUME NEW a \in Mount, NEW b \in Mount, NEW c \in Mount
      PROVE  /\ <<a, b, c>> \in Seq(Mount) /\ <<a, b>> \in Seq(Mount)
             /\ <<a>> \in Seq(Mount) /\ <<>> \in Seq(Mount)
  OBVIOUS
<1>9. consulTemplate(g, vols, share) \in Container
  <2> DEFINE ms == << MountAt("ct-secrets", ConfigfilePath),
                      MountAt(VaultEnvVolumeName, "/home/consul-template"),
                      MountAt("ct-configmap", "/vault/ct-config/config.hcl") >>
  <2>1. ms \in Seq(Mount) BY <1>3, <1>6, <1>8, TextAssumption
  <2> HIDE DEF ms
  <2>2. containerVolMounts(g, vols) \o ms \in Seq(Mount) BY <1>4, <2>1
  <2>3. <<>> \in Seq(Text) OBVIOUS
  <2> QED BY <1>1, <1>4, <1>6, <1>7, <2>2, <2>3, InjectedType DEF consulTemplate, ms
<1>10. agentSidecar(g, vols, cs, share) \in Container
  <2> DEFINE ms == << getServiceAccountMount(cs),
                      MountAt("agent-secrets", ConfigfilePath),
                      MountAt("agent-configmap", "/vault/config/config.hcl") >>
  <2>1. ms \in Seq(Mount) BY <1>3, <1>5, <1>6, <1>8, TextAssumption
  <2> HIDE DEF ms
  <2>2. containerVolMounts(g, vols) \o ms \in Seq(Mount) BY <1>4, <2>1
  <2>3. <<>> \in Seq(Text) OBVIOUS
  <2>4. AgentCapabilities \cup Ptrace(share) \in SUBSET Text BY <1>1, <1>2
  <2> QED BY <1>4, <1>6, <1>7, <2>2, <2>3, <2>4, InjectedType DEF agentSidecar, ms
<1>11. initAgent(g, vols, cs) \in Container
  <2> DEFINE ms == << getServiceAccountMount(cs),
                      MountAt("vault-agent-config", "/vault/agent/") >>
             ns == IF g.CtConfigMap THEN <<>>
                   ELSE <<MountAt("agent-secrets", ConfigfilePath)>>
             cmd == <<"vault", "agent", "-exit-after-auth">>
  <2>1. ms \in Seq(Mount) BY <1>3, <1>5, <1>6, <1>8, TextAssumption
  <2>2. ns \in Seq(Mount) BY <1>3, <1>6, <1>8, TextAssumption
  <2>3. cmd \in Seq(Text)
    <3>1. \A a, b, c \in Text : <<a, b, c>> \in Seq(Text) OBVIOUS
    <3> QED BY <3>1, TextAssumption
  <2> HIDE DEF ms, ns, cmd
  <2>4. (containerVolMounts(g, vols) \o ms) \o ns \in Seq(Mount) BY <1>4, <2>1, <2>2
  <2> QED BY <1>2, <1>4, <1>6, <1>7, <2>3, <2>4, InjectedType DEF initAgent, ms, ns, cmd
<1>12. tokenCopier \in Container
  <2> DEFINE ms == << MountAt(VaultEnvVolumeName, VaultDir), MountAt("token", "/token") >>
             cmd == <<"sh", "-c", "cp token">>
  <2>1. ms \in Seq(Mount) BY <1>3, <1>6, <1>8, TextAssumption
  <2>2. cmd \in Seq(Text)
    <3>1. \A a, b, c \in Text : <<a, b, c>> \in Seq(Text) OBVIOUS
    <3> QED BY <3>1, TextAssumption
  <2>3. <<>> \in Seq(EnvVar) /\ {} \in SUBSET Text OBVIOUS
  <2> HIDE DEF ms, cmd
  <2> QED BY <1>6, <1>7, <2>1, <2>2, <2>3, InjectedType DEF tokenCopier, ms, cmd
<1>13. envCopier \in Container
  <2> DEFINE ms == << MountAt(VaultEnvVolumeName, VaultDir) >>
             cmd == <<"sh", "-c", "cp vault-env">>
  <2>1. ms \in Seq(Mount) BY <1>3, <1>6, <1>8
  <2>2. cmd \in Seq(Text)
    <3>1. \A a, b, c \in Text : <<a, b, c>> \in Seq(Text) OBVIOUS
    <3> QED BY <3>1, TextAssumption
  <2>3. <<>> \in Seq(EnvVar) /\ {} \in SUBSET Text OBVIOUS
  <2> HIDE DEF ms, cmd
  <2> QED BY <1>6, <1>7, <2>1, <2>2, <2>3, InjectedType DEF envCopier, ms, cmd
<1> QED BY <1>9, <1>10, <1>11, <1>12, <1>13

(* getInitContainers returns a sequence of containers.                     *)
LEMMA InitContainersType ==
    ASSUME NEW g, NEW vols, NEW cs \in Seq(Container), NEW wrapped
    PROVE  getInitContainers(g, vols, cs, wrapped) \in Seq(Container)
<1> DEFINE s == IF g.TokenAuthMount # "" THEN <<tokenCopier>>
                ELSE IF startsInitAgent(g) THEN <<initAgent(g, vols, cs)>>
                ELSE <<>>
           t == IF wrapped THEN <<envCopier>> ELSE <<>>
<1>1. \A c \in Container : <<c>> \in Seq(Container) OBVIOUS
<1>a. /\ tokenCopier \in Container /\ envCopier \in Container
      /\ initAgent(g, vols, cs) \in Container
  <2>1. TRUE \in BOOLEAN OBVIOUS
  <2> QED BY <2>1, AgentTypes
<1>b. <<>> \in Seq(Container) OBVIOUS
<1>2. s \in Seq(Container) BY <1>1, <1>a, <1>b
<1>3. t \in Seq(Container) BY <1>1, <1>a, <1>b
<1> HIDE DEF s, t
<1>4. s \o t \in Seq(Container) BY <1>2, <1>3
<1> QED BY <1>4 DEF getInitContainers, s, t

(* A concatenation starts with the head of its first part.                 *)
LEMMA ConcatHead ==
    ASSUME NEW S, NEW a \in Seq(S), NEW b \in Seq(S), Len(a) >= 1
    PROVE  a \o b \in Seq(S) /\ Len(a \o b) >= 1 /\ (a \o b)[1] = a[1]
<1>1. a \o b \in Seq(S) /\ Len(a \o b) = Len(a) + Len(b) BY ConcatProperties
<1>2. (a \o b)[1] = a[1] BY ConcatProperties
<1> QED BY <1>1, <1>2

(* getVolumes returns volumes, the marker first.                           *)
LEMMA VolumesType ==
    ASSUME NEW g, NEW vols \in Seq(Volume)
    PROVE  /\ getVolumes(g, vols) \in Seq(Volume)
           /\ getVolumes(g, vols) # <<>>
           /\ getVolumes(g, vols)[1].name = VaultEnvVolumeName
<1> DEFINE v(n, f) == [name |-> n, from |-> f]
           s1 == <<v(VaultEnvVolumeName, "emptyDir")>>
           s2 == IF g.UseAgent \/ g.CtConfigMap
                 THEN <<v("vault-agent-config",
                          IF g.AgentConfigMap THEN "AgentConfigMap" ELSE "generated")>>
                 ELSE <<>>
           s3 == IF g.TLSSecret THEN <<v(TLSMount(vols).vol, "TLSSecret")>> ELSE <<>>
           s4 == IF g.CtConfigMap
                 THEN << v("ct-secrets", "emptyDir"), v("ct-configmap", "CtConfigMap") >>
                 ELSE <<>>
           s5 == IF g.AgentConfigMap
                 THEN << v("agent-secrets", "emptyDir"),
                         v("agent-configmap", "AgentConfigMap") >>
                 ELSE <<>>
<1>1. \A n, f \in Text : v(n, f) \in Volume BY DEF Volume
<1>2. \A a, b \in Volume : <<a>> \in Seq(Volume) /\ <<a, b>> \in Seq(Volume) OBVIOUS
<1>3. TLSMount(vols).vol \in Text BY TLSMountType DEF Mount
<1>4. getVolumes(g, vols) = (((s1 \o s2) \o s3) \o s4) \o s5
  BY DEF getVolumes
<1>5. VaultEnvVolumeName \in Text BY TextAssumption DEF VaultEnvVolumeName
<1>6. s1 \in Seq(Volume) /\ Len(s1) = 1 /\ s1[1].name = VaultEnvVolumeName
  <2>1. v(VaultEnvVolumeName, "emptyDir") \in Volume BY <1>1, <1>5, TextAssumption
  <2> QED BY <2>1, <1>2
<1>e. <<>> \in Seq(Volume) OBVIOUS
<1>7. s2 \in Seq(Volume)
  <2> DEFINE f == IF g.AgentConfigMap THEN "AgentConfigMap" ELSE "generated"
  <2>1. f \in Text /\ "vault-agent-config" \in Text BY TextAssumption
  <2>2. v("vault-agent-config", f) \in Volume BY <1>1, <2>1
  <2> QED BY <1>2, <1>e, <2>2
<1>8. s3 \in Seq(Volume)
  <2>1. "TLSSecret" \in Text BY TextAssumption
  <2>2. v(TLSMount(vols).vol, "TLSSecret") \in Volume BY <1>1, <1>3, <2>1
  <2> QED BY <1>2, <1>e, <2>2
<1>9. s4 \in Seq(Volume)
  <2>1. {"ct-secrets", "emptyDir", "ct-configmap", "CtConfigMap"} \subseteq Text
    BY TextAssumption
  <2>2. v("ct-secrets", "emptyDir") \in Volume /\ v("ct-configmap", "CtConfigMap") \in Volume
    BY <1>1, <2>1
  <2> QED BY <1>2, <1>e, <2>2
<1>10. s5 \in Seq(Volume)
  <2>1. {"agent-secrets", "emptyDir", "agent-configmap", "AgentConfigMap"} \subseteq Text
    BY TextAssumption
  <2>2. /\ v("agent-secrets", "emptyDir") \in Volume
        /\ v("agent-configmap", "AgentConfigMap") \in Volume
    BY <1>1, <2>1
  <2> QED BY <1>2, <1>e, <2>2
<1> HIDE DEF s1, s2, s3, s4, s5
<1> DEFINE t2 == s1 \o s2
           t3 == t2 \o s3
           t4 == t3 \o s4
           t5 == t4 \o s5
<1>h. Len(s1) >= 1 BY <1>6
<1>11. t2 \in Seq(Volume) /\ Len(t2) >= 1 /\ t2[1] = s1[1]
  BY <1>6, <1>h, <1>7, ConcatHead
<1> HIDE DEF t2
<1>12. t3 \in Seq(Volume) /\ Len(t3) >= 1 /\ t3[1] = t2[1]
  BY <1>11, <1>8, ConcatHead
<1> HIDE DEF t3
<1>13. t4 \in Seq(Volume) /\ Len(t4) >= 1 /\ t4[1] = t3[1]
  BY <1>12, <1>9, ConcatHead
<1> HIDE DEF t4
<1>14. t5 \in Seq(Volume) /\ Len(t5) >= 1 /\ t5[1] = t4[1]
  BY <1>13, <1>10, ConcatHead
<1>15. getVolumes(g, vols) = t5 BY <1>4 DEF t2, t3, t4
<1> HIDE DEF t5
<1>16. t5[1].name = VaultEnvVolumeName BY <1>6, <1>11, <1>12, <1>13, <1>14
<1>17. t5 # <<>> BY <1>14
<1> QED BY <1>14, <1>15, <1>16, <1>17

(* Both halves of the entries of a container are entries.                  *)
LEMMA EntriesParts ==
    ASSUME NEW c \in Container
    PROVE  /\ [i \in DOMAIN c.envFrom |-> EnvFromEntry(c.envFrom[i])] \in Seq(Entry)
           /\ [i \in DOMAIN c.env |-> EnvEntry(c.env[i])] \in Seq(Entry)
<1> DEFINE a == [i \in DOMAIN c.envFrom |-> EnvFromEntry(c.envFrom[i])]
           b == [i \in DOMAIN c.env |-> EnvEntry(c.env[i])]
<1>1. c.envFrom \in Seq(EnvSource) /\ c.env \in Seq(EnvVar) BY DEF Container
<1>2. \A s \in EnvSource : EnvFromEntry(s) \in Entry
  BY TextAssumption DEF EnvSource, EnvFromEntry, Entry, AllKeys
<1>3. \A v \in EnvVar : EnvEntry(v) \in Entry
  BY DEF EnvVar, EnvEntry, Entry
<1>4. a \in Seq(Entry)
  <2>1. \A i \in DOMAIN c.envFrom : EnvFromEntry(c.envFrom[i]) \in Entry BY <1>1, <1>2
  <2>2. DOMAIN c.envFrom = 1..Len(c.envFrom) /\ Len(c.envFrom) \in Nat BY <1>1
  <2> QED BY <2>1, <2>2
<1>5. b \in Seq(Entry)
  <2>1. \A i \in DOMAIN c.env : EnvEntry(c.env[i]) \in Entry BY <1>1, <1>3
  <2>2. DOMAIN c.env = 1..Len(c.env) /\ Len(c.env) \in Nat BY <1>1
  <2> QED BY <2>1, <2>2
<1> QED BY <1>4, <1>5

(* The entries of a container are a sequence of entries.                   *)
LEMMA EntriesType ==
    ASSUME NEW c \in Container
    PROVE  Entries(c) \in Seq(Entry)
<1> DEFINE a == [i \in DOMAIN c.envFrom |-> EnvFromEntry(c.envFrom[i])]
           b == [i \in DOMAIN c.env |-> EnvEntry(c.env[i])]
<1>1. a \in Seq(Entry) /\ b \in Seq(Entry) BY EntriesParts
<1>2. Entries(c) = a \o b BY DEF Entries
<1> HIDE DEF a, b
<1>3. a \o b \in Seq(Entry) BY <1>1
<1> QED BY <1>2, <1>3

(* Domain, length and elements of the entries of a container.              *)
LEMMA EntriesOf ==
    ASSUME NEW c \in Container
    PROVE  /\ DOMAIN Entries(c) = 1..Len(Entries(c))
           /\ Len(Entries(c)) \in Nat
           /\ \A i \in 1..Len(Entries(c)) : Entries(c)[i] \in Entry
<1> DEFINE s == Entries(c)
<1>1. s \in Seq(Entry) BY EntriesType
<1> HIDE DEF s
<1>2. DOMAIN s = 1..Len(s) /\ Len(s) \in Nat /\ \A i \in 1..Len(s) : s[i] \in Entry
  BY <1>1
<1> QED BY <1>2 DEF s

(* The container at the cursor. *)
LEMMA HereType ==
    ASSUME TypeOK
    PROVE  /\ Here \in Seq(Container)
           /\ Len(Here) \in Nat
           /\ cursor <= Len(Here) => Container0 \in Container /\ cursor \in DOMAIN Here
<1>1. Here \in Seq(Container) BY DEF TypeOK, Pod, Here, Containers
<1>2. cursor \in Nat /\ cursor >= 1 BY DEF TypeOK
<1> QED BY <1>1, <1>2 DEF Container0

-----------------------------------------------------------------------------
(* Types are preserved *)

(* The types hold at first.                                                *)
LEMMA InitType == Init => TypeOK
<1> SUFFICES ASSUME Init PROVE TypeOK OBVIOUS
<1>1. cfg \in Config /\ dryRun \in BOOLEAN /\ submitted \in Pod /\ pod \in Pod
  BY ConfigsAssumption, PodsAssumption, DryRunsAssumption DEF Init
<1>2. sources \in [Sources -> ContentType]
  <2>1. sources \in [Sources -> Contents] BY ClustersAssumption DEF Init
  <2> QED BY <2>1, ContentsAssumption
<1>3. faults \in 0..MaxFaults /\ changes \in 0..MaxChanges /\ round \in 1..MaxRounds
  BY BoundsAssumption DEF Init
<1>4. list \in {"init", "main"} /\ cursor \in Nat \ {0} /\ entry \in Nat \ {0}
  BY DEF Init
<1>5. /\ pc = "received" /\ verdict = "pending" /\ unseen = {} /\ generated \in BOOLEAN
      /\ mutated \in BOOLEAN /\ found \in BOOLEAN /\ wrote \in BOOLEAN
  BY DEF Init
<1> QED BY <1>1, <1>2, <1>3, <1>4, <1>5 DEF TypeOK

(* Moving on to the next container keeps the types of the cursors.         *)
LEMMA NextContainerType ==
    ASSUME TypeOK, NextContainer
    PROVE  /\ list' \in {"init", "main"} /\ cursor' \in Nat \ {0}
           /\ entry' \in Nat \ {0} /\ found' \in BOOLEAN
<1>1. found' \in BOOLEAN
  <2>1. found' = FALSE BY DEF NextContainer
  <2> QED BY <2>1
<1>2. entry' = 1 /\ cursor' = cursor + 1 /\ list' = list BY DEF NextContainer
<1>3. list \in {"init", "main"} /\ cursor \in Nat \ {0} BY DEF TypeOK
<1> QED BY <1>1, <1>2, <1>3

(* The container at the cursor, wrapped, is a container.                   *)
LEMMA WrappedType ==
    ASSUME TypeOK, cursor <= Len(Here)
    PROVE  /\ Wrapped0 \in Container
           /\ Wrapped0.name = Container0.name
           /\ IsWrapped(Wrapped0)
<1>1. Container0 \in Container BY HereType
<1>2. originalArgs(Container0, ImageConfig[Container0.image]) \in Seq(Text)
  BY <1>1, ArgsType
<1> QED BY <1>1, <1>2, WrapType DEF Wrapped0

(* The pod after each of the steps that change it. *)
LEMMA ShareType ==
    ASSUME TypeOK
    PROVE  /\ ShareOutcomes(cfg.CtShareProcess) \subseteq BOOLEAN
           /\ ShareOutcomes(cfg.AgentShareProcess) \subseteq BOOLEAN
BY DEF TypeOK, Config, ShareProcess, ShareOutcomes

(* With consul-template the pod is a pod.                                  *)
LEMMA WithTemplateType ==
    ASSUME TypeOK, NEW share \in BOOLEAN
    PROVE  /\ WithTemplate(share) \in Pod
           /\ WithTemplate(share).vols = pod.vols
<1> DEFINE mount == MountAt("ct-secrets", ConfigfilePath)
           main == addSecretsVolToContainers(pod.main)
           init == IF cfg.CtOnce /\ cfg.CtInjectInInitcontainers
                   THEN addSecretsVolToContainers(pod.init) ELSE pod.init
           ct == <<consulTemplate(cfg, pod.vols, share)>>
<1>1. mount \in Mount BY MountType, TextAssumption DEF ConfigfilePath
<1>2. pod.init \in Seq(Container) /\ pod.main \in Seq(Container) BY DEF TypeOK, Pod
<1>3. main \in Seq(Container)
  BY <1>1, <1>2, AddMountType DEF addSecretsVolToContainers
<1>4. init \in Seq(Container)
  BY <1>1, <1>2, AddMountType DEF addSecretsVolToContainers
<1>5. ct \in Seq(Container)
  <2>1. consulTemplate(cfg, pod.vols, share) \in Container BY <1>2, AgentTypes
  <2> QED BY <2>1
<1>6. WithTemplate(share) = [pod EXCEPT !.share = pod.share \/ share,
                               !.init = IF cfg.CtOnce THEN ct \o init ELSE init,
                               !.main = IF cfg.CtOnce THEN main ELSE ct \o main]
  BY DEF WithTemplate
<1> HIDE DEF main, init, ct
<1>7. ct \o init \in Seq(Container) /\ ct \o main \in Seq(Container)
  BY <1>3, <1>4, <1>5
<1>8. (pod.share \/ share) \in BOOLEAN OBVIOUS
<1> QED BY <1>3, <1>4, <1>6, <1>7, <1>8 DEF TypeOK, Pod

(* With the agent sidecar the pod is a pod.                                *)
LEMMA WithAgentType ==
    ASSUME TypeOK, NEW share \in BOOLEAN
    PROVE  /\ WithAgent(share) \in Pod
           /\ WithAgent(share).vols = pod.vols
           /\ [pod EXCEPT !.main = addAgentSecretsVolToContainers(@)] \in Pod
           /\ [pod EXCEPT !.main = addAgentSecretsVolToContainers(@)].vols = pod.vols
<1> DEFINE mount == MountAt("agent-secrets", ConfigfilePath)
           main == addAgentSecretsVolToContainers(pod.main)
           agent == <<agentSidecar(cfg, submitted.vols, main, share)>>
<1>1. mount \in Mount BY MountType, TextAssumption DEF ConfigfilePath
<1>2. pod.main \in Seq(Container) BY DEF TypeOK, Pod
<1>3. main \in Seq(Container)
  BY <1>1, <1>2, AddMountType DEF addAgentSecretsVolToContainers
<1> HIDE DEF main
<1>4. agent \in Seq(Container)
  <2>1. agentSidecar(cfg, submitted.vols, main, share) \in Container BY <1>3, AgentTypes
  <2> QED BY <2>1
<1>5. WithAgent(share) = [pod EXCEPT !.share = pod.share \/ share, !.main = agent \o main]
  BY DEF WithAgent, main
<1>6. [pod EXCEPT !.main = addAgentSecretsVolToContainers(@)] = [pod EXCEPT !.main = main]
  BY DEF main
<1> HIDE DEF agent
<1>7. agent \o main \in Seq(Container) BY <1>3, <1>4
<1>8. (pod.share \/ share) \in BOOLEAN OBVIOUS
<1> QED BY <1>3, <1>5, <1>6, <1>7, <1>8 DEF TypeOK, Pod

(* With init containers and volumes the pod is a pod, and marked.          *)
LEMMA InjectType ==
    ASSUME TypeOK
    PROVE  LET next == [pod EXCEPT
                 !.init = getInitContainers(cfg, pod.vols, pod.main, mutated) \o @,
                 !.vols = @ \o getVolumes(cfg, @)]
           IN  next \in Pod /\ isPodAlreadyMutated(next)
<1> DEFINE added == getInitContainers(cfg, pod.vols, pod.main, mutated)
           vols  == getVolumes(cfg, pod.vols)
           next  == [pod EXCEPT !.init = added \o pod.init, !.vols = pod.vols \o vols]
<1>1. /\ pod.init \in Seq(Container) /\ pod.main \in Seq(Container)
      /\ pod.vols \in Seq(Volume)
  BY DEF TypeOK, Pod
<1>2. added \in Seq(Container) BY <1>1, InitContainersType
<1>3. /\ vols \in Seq(Volume) /\ vols # <<>>
      /\ vols[1].name = VaultEnvVolumeName
  BY <1>1, VolumesType
<1> HIDE DEF added, vols
<1>4. added \o pod.init \in Seq(Container) /\ pod.vols \o vols \in Seq(Volume)
  BY <1>1, <1>2, <1>3
<1>5. next \in Pod /\ next.vols = pod.vols \o vols BY <1>4 DEF TypeOK, Pod
<1>6. isPodAlreadyMutated(next)
  <2>1. vols[1] \in Range(pod.vols \o vols)
    <3>1. Len(vols) >= 1 BY <1>3
    <3>2. /\ Len(pod.vols \o vols) = Len(pod.vols) + Len(vols)
          /\ (pod.vols \o vols)[Len(pod.vols) + 1] = vols[1]
      BY <1>1, <1>3, <3>1, ConcatProperties
    <3>3. Len(pod.vols) + 1 \in DOMAIN (pod.vols \o vols)
      BY <1>1, <1>3, <1>4, <3>1, <3>2
    <3> QED BY <3>2, <3>3 DEF Range
  <2> QED BY <1>3, <1>5, <2>1 DEF isPodAlreadyMutated
<1> QED BY <1>5, <1>6 DEF added, vols

(* Every step keeps the types; AtContainer says the cursor is on a container. *)
LEMMA TypeStep ==
    ASSUME TypeOK, AtContainer, [Next]_vars
    PROVE  TypeOK'
<1> USE DEF TypeOK
<1>1. CASE AlreadyMutated
  BY <1>1 DEF AlreadyMutated, Answer, scanVars, clusterVars, requestVars
<1>2. CASE StartMutation
  BY <1>2 DEF StartMutation, scanVars, clusterVars, requestVars
<1>3. CASE EnterContainer
  BY <1>3 DEF EnterContainer, scanVars, clusterVars, requestVars
<1>4. CASE NextList
  BY <1>4 DEF NextList, scanVars, clusterVars, requestVars
<1>5. CASE EndScan
  BY <1>5 DEF EndScan, scanVars, clusterVars, requestVars
<1>6. CASE ReadEntry
  BY <1>6 DEF ReadEntry, clusterVars, requestVars
<1>7. CASE SkipOptional
  <2>1. unseen' \subseteq Sources BY <1>7 DEF SkipOptional
  <2> QED BY <1>7, <2>1, BoundsAssumption
      DEF SkipOptional, Fault, clusterVars, requestVars
<1>8. CASE LookupFails
  BY <1>8, BoundsAssumption
  DEF LookupFails, Fault, Fail, Answer, scanVars, clusterVars, requestVars
<1>9. CASE LeaveContainer
  <2>1. NextContainer BY <1>9 DEF LeaveContainer
  <2> QED BY <1>9, <2>1, NextContainerType DEF LeaveContainer, clusterVars, requestVars
<1>10. CASE DecideToWrap
  BY <1>10 DEF DecideToWrap, scanVars, clusterVars, requestVars
<1>11. CASE WrapContainer
  <2>1. Wrapped0 \in Container BY <1>11, WrappedType DEF WrapContainer, AtContainer
  <2>2. cursor \in DOMAIN Here BY <1>11, HereType DEF WrapContainer, AtContainer
  <2>3. pod.init \in Seq(Container) /\ pod.main \in Seq(Container) BY DEF Pod
  <2>4. [Here EXCEPT ![cursor] = Wrapped0] \in Seq(Container)
    <3>1. Here \in Seq(Container) BY HereType
    <3> QED BY <2>1, <2>2, <3>1, ReplaceType
  <2>5. pod' \in Pod
    <3>1. CASE list = "init"
      BY <1>11, <2>4, <3>1 DEF WrapContainer, Here, Containers, Pod
    <3>2. CASE list = "main"
      BY <1>11, <2>4, <3>2 DEF WrapContainer, Here, Containers, Pod
    <3> QED BY <3>1, <3>2
  <2>6. NextContainer BY <1>11 DEF WrapContainer
  <2> QED BY <1>11, <2>5, <2>6, NextContainerType
      DEF WrapContainer, clusterVars, requestVars
<1>12. CASE RegistryFails
  BY <1>12, BoundsAssumption
  DEF RegistryFails, Fault, Fail, Answer, scanVars, clusterVars, requestVars
<1>13. CASE SkipTemplate
  BY <1>13 DEF SkipTemplate, scanVars, clusterVars, requestVars
<1>14. CASE RunTemplate
  <2>1. PICK share \in ShareOutcomes(cfg.CtShareProcess) : pod' = WithTemplate(share)
    BY <1>14 DEF RunTemplate
  <2>2. share \in BOOLEAN BY <2>1, ShareType
  <2>3. pod' \in Pod BY <2>1, <2>2, WithTemplateType
  <2> QED BY <1>14, <2>3 DEF RunTemplate, scanVars, clusterVars, requestVars
<1>15. CASE VersionUnavailable
  BY <1>15, BoundsAssumption
  DEF VersionUnavailable, Fault, Panic, Answer, scanVars, clusterVars, requestVars
<1>16. CASE NothingToInject
  BY <1>16 DEF NothingToInject, scanVars, clusterVars, requestVars
<1>17. CASE NoConfigMapToWrite
  BY <1>17 DEF NoConfigMapToWrite, scanVars, clusterVars, requestVars
<1>18. CASE CreateConfigMap
  BY <1>18 DEF CreateConfigMap, Creates, scanVars, requestVars
<1>19. CASE CreateFails
  <2>1. generated' \in BOOLEAN /\ wrote' \in BOOLEAN
    <3>1. \/ UNCHANGED <<generated, wrote>>
          \/ generated' = TRUE /\ wrote' = TRUE
      BY <1>19 DEF CreateFails
    <3> QED BY <3>1
  <2>2. faults' \in 0..MaxFaults
    BY <1>19, BoundsAssumption DEF CreateFails, Fault
  <2>3. /\ pc' = "answered" /\ verdict' = "failed"
        /\ UNCHANGED <<pod, mutated, list, cursor, entry, found>>
        /\ UNCHANGED <<sources, cfg, dryRun, submitted, round, unseen, changes>>
    BY <1>19 DEF CreateFails, Fail, Answer, scanVars, requestVars
  <2> QED BY <2>1, <2>2, <2>3
<1>20. CASE UpdateConfigMap
  BY <1>20 DEF UpdateConfigMap, scanVars, clusterVars, requestVars
<1>21. CASE UpdateFails
  BY <1>21, BoundsAssumption
  DEF UpdateFails, Fault, Fail, Answer, scanVars, clusterVars, requestVars
<1>22. CASE Inject
  <2>1. pod' \in Pod BY <1>22, InjectType DEF Inject
  <2> QED BY <1>22, <2>1 DEF Inject, scanVars, clusterVars, requestVars
<1>23. CASE InjectPanics
  BY <1>23 DEF InjectPanics, Panic, Answer, scanVars, clusterVars, requestVars
<1>24. CASE Finish
  <2>1. pod' \in Pod
    <3>1. \A share \in ShareOutcomes(cfg.AgentShareProcess) : WithAgent(share) \in Pod
      BY ShareType, WithAgentType
    <3>2. [pod EXCEPT !.main = addAgentSecretsVolToContainers(@)] \in Pod
      <4>1. TRUE \in BOOLEAN OBVIOUS
      <4> QED BY <4>1, WithAgentType
    <3> QED BY <1>24, <3>1, <3>2 DEF Finish
  <2> QED BY <1>24, <2>1 DEF Finish, Answer, scanVars, clusterVars, requestVars
<1>25. CASE Reinvoke
  <2>1. PICK extra \in Sidecars : pod' = [pod EXCEPT !.main = @ \o extra]
    BY <1>25 DEF Reinvoke
  <2>2. pod.main \o extra \in Seq(Container)
    <3>1. pod.main \in Seq(Container) /\ extra \in Seq(Container)
      BY SidecarsAssumption DEF Pod
    <3> QED BY <3>1
  <2>3. pod' \in Pod BY <2>1, <2>2 DEF Pod
  <2>4. submitted' = pod' BY <1>25 DEF Reinvoke
  <2>5. round' \in 1..MaxRounds BY <1>25, BoundsAssumption DEF Reinvoke
  <2>6. /\ pc' = "received" /\ verdict' = "pending" /\ list' = "init" /\ unseen' = {}
        /\ cursor' = 1 /\ entry' = 1
        /\ found' \in BOOLEAN /\ mutated' \in BOOLEAN /\ wrote' \in BOOLEAN
    BY <1>25 DEF Reinvoke
  <2>7. UNCHANGED <<cfg, dryRun, sources, generated, faults, changes>>
    BY <1>25 DEF Reinvoke, clusterVars
  <2> QED BY <2>3, <2>4, <2>5, <2>6, <2>7
<1>26. CASE ChangeSource
  <2>1. PICK s \in Sources, content \in Contents :
            /\ sources' = [sources EXCEPT ![s] = content]
            /\ unseen' = unseen \cup {s}
    BY <1>26 DEF ChangeSource
  <2>2. sources' \in [Sources -> ContentType] BY <2>1, ContentsAssumption
  <2>3. unseen' \subseteq Sources BY <2>1
  <2>4. changes' \in 0..MaxChanges BY <1>26, BoundsAssumption DEF ChangeSource, Change
  <2> QED BY <1>26, <2>2, <2>3, <2>4 DEF ChangeSource, scanVars, requestVars
<1>27. CASE ChangeGenerated
  BY <1>27, BoundsAssumption DEF ChangeGenerated, Change, scanVars, requestVars
<1>28. CASE UNCHANGED vars
  BY <1>28 DEF vars, scanVars, clusterVars, requestVars
<1> QED
  BY <1>1, <1>2, <1>3, <1>4, <1>5, <1>6, <1>7, <1>8, <1>9, <1>10, <1>11, <1>12,
     <1>13, <1>14, <1>15, <1>16, <1>17, <1>18, <1>19, <1>20, <1>21, <1>22, <1>23,
     <1>24, <1>25, <1>26, <1>27, <1>28
  DEF Next, MutatePod, Environment

-----------------------------------------------------------------------------
(* Facts about the sets and sequences of the invariant *)

(* Fewer needy containers leave the scan as far as it was.                 *)
LEMMA ScannedShrinks ==
    ASSUME NEW N, NEW M \in SUBSET N, NEW cs, NEW ws, NEW n, Scanned(N, cs, ws, n)
    PROVE  Scanned(M, cs, ws, n)
BY DEF Scanned, Done

(* Fewer needy containers are covered all the more.                        *)
LEMMA CoveredShrinks ==
    ASSUME NEW N, NEW M \in SUBSET N, NEW cs, NEW ws, Covered(N, cs, ws)
    PROVE  Covered(M, cs, ws)
BY DEF Covered

(* A scan that is through covers its list.                                 *)
LEMMA ScannedAll ==
    ASSUME NEW N, NEW cs \in Seq(Container), NEW ws \in Seq(Container),
           NEW n \in Nat, n > Len(cs), Scanned(N, cs, ws, n)
    PROVE  Scanned(N, cs, ws, Len(cs) + 1) /\ Covered(N, cs, ws)
<1>1. Len(cs) \in Nat /\ DOMAIN cs = 1..Len(cs) /\ DOMAIN ws = 1..Len(ws) OBVIOUS
<1>2. Len(ws) = Len(cs) /\ \A i \in 1..Len(cs) : Done(N, cs[i], ws[i])
  BY <1>1 DEF Scanned
<1>3. Scanned(N, cs, ws, Len(cs) + 1) BY <1>1, <1>2 DEF Scanned
<1>4. Covered(N, cs, ws)
  <2> SUFFICES ASSUME NEW c \in Range(cs), c \in N
               PROVE  WrappedIn(c, ws)
    BY DEF Covered
  <2>1. PICK i \in 1..Len(cs) : c = cs[i] BY <1>1 DEF Range
  <2>2. ws[i] \in Range(ws) BY <1>1, <1>2 DEF Range
  <2> QED BY <1>2, <2>1, <2>2 DEF Done, WrappedIn
<1> QED BY <1>3, <1>4

(* Containers put in front uncover none.                                   *)
LEMMA CoveredConcat ==
    ASSUME NEW N, NEW cs, NEW a \in Seq(Container), NEW ws \in Seq(Container),
           Covered(N, cs, ws)
    PROVE  Covered(N, cs, a \o ws)
<1>1. Range(ws) \subseteq Range(a \o ws)
  BY RangeConcatenation
<1> QED BY <1>1 DEF Covered, WrappedIn

(* A mount added to every container uncovers none.                         *)
LEMMA CoveredAddMount ==
    ASSUME NEW N, NEW cs, NEW ws \in Seq(Container), NEW m \in Mount,
           Covered(N, cs, ws)
    PROVE  Covered(N, cs, AddMount(ws, m))
<1> DEFINE xs == AddMount(ws, m)
<1>1. /\ xs \in Seq(Container) /\ Len(xs) = Len(ws)
      /\ \A i \in 1..Len(ws) : xs[i].name = ws[i].name /\ xs[i].command = ws[i].command
  BY AddMountType
<1>2. DOMAIN ws = 1..Len(ws) /\ DOMAIN xs = 1..Len(xs)
  <2> HIDE DEF xs
  <2> QED BY <1>1
<1> HIDE DEF xs
<1>3. \A c : WrappedIn(c, ws) => WrappedIn(c, xs)
  BY <1>1, <1>2 DEF WrappedIn, IsWrapped, Range
<1> QED BY <1>3 DEF Covered, xs

(* What a container needs can only become unknown while a request runs:    *)
(* a source that changes is no longer counted.                             *)
LEMMA DemandsShrink ==
    ASSUME TypeOK, [Next]_vars, ~Reinvoke
    PROVE  \A e : Demands(e)' => Demands(e)
<1>1. \/ UNCHANGED <<sources, unseen>> \/ SkipOptional \/ ChangeSource
  BY DEF Next, MutatePod, Environment, vars, scanVars, clusterVars, requestVars,
     AlreadyMutated, StartMutation, EnterContainer, NextList, EndScan, ReadEntry,
     LookupFails, LeaveContainer, DecideToWrap, WrapContainer,
     RegistryFails, SkipTemplate, RunTemplate, VersionUnavailable, NothingToInject,
     NoConfigMapToWrite, CreateConfigMap, CreateFails, UpdateConfigMap, UpdateFails,
     Inject, InjectPanics, Finish, ChangeGenerated
<1>2. \A e : Demands(e)' => Demands(e)
  <2>1. CASE UNCHANGED <<sources, unseen>> BY <2>1 DEF Demands, HoldsRef
  <2>2. CASE SkipOptional BY <2>2 DEF SkipOptional, Demands, HoldsRef, clusterVars
  <2>3. CASE ChangeSource
    <3>1. PICK s \in Sources, content \in Contents :
              /\ sources' = [sources EXCEPT ![s] = content]
              /\ unseen' = unseen \cup {s}
      BY <2>3 DEF ChangeSource
    <3>2. \A x \in Sources \ {s} : sources'[x] = sources[x] BY <3>1 DEF TypeOK
    <3> QED BY <3>1, <3>2 DEF Demands, HoldsRef
  <2> QED BY <1>1, <2>1, <2>2, <2>3
<1> QED BY <1>2

(* No step of an invocation makes a container needy.                       *)
LEMMA NeedyShrinks ==
    ASSUME TypeOK, [Next]_vars, ~Reinvoke
    PROVE  submitted' = submitted /\ Needy' \in SUBSET Needy
<1>1. submitted' = submitted
  BY DEF Next, MutatePod, Environment, vars, scanVars, clusterVars, requestVars,
     AlreadyMutated, StartMutation, EnterContainer, NextList, EndScan, ReadEntry,
     SkipOptional, LookupFails, LeaveContainer, DecideToWrap, WrapContainer,
     RegistryFails, SkipTemplate, RunTemplate, VersionUnavailable, NothingToInject,
     NoConfigMapToWrite, CreateConfigMap, CreateFails, UpdateConfigMap, UpdateFails,
     Inject, InjectPanics, Finish, ChangeSource, ChangeGenerated
<1>2. \A e : Demands(e)' => Demands(e) BY DemandsShrink
<1> QED BY <1>1, <1>2 DEF Needy

(* Only an envFrom source is optional, and it is no literal. *)
LEMMA OptionalIsNoLiteral ==
    ASSUME NEW c \in Container, NEW k \in 1..Len(Entries(c)), Entries(c)[k].optional
    PROVE  ~Entries(c)[k].ref
<1> DEFINE a == [i \in DOMAIN c.envFrom |-> EnvFromEntry(c.envFrom[i])]
           b == [i \in DOMAIN c.env |-> EnvEntry(c.env[i])]
<1>1. a \in Seq(Entry) /\ b \in Seq(Entry) BY EntriesParts
<1>2. \A i \in DOMAIN a : ~a[i].ref BY DEF EnvFromEntry
<1>3. \A i \in DOMAIN b : ~b[i].optional BY DEF EnvEntry
<1>4. Entries(c) = a \o b BY DEF Entries
<1> HIDE DEF a, b
<1>5. \/ k \in DOMAIN a /\ Entries(c)[k] = a[k]
      \/ \E j \in DOMAIN b : Entries(c)[k] = b[j]
  <2>1. Len(a) \in Nat /\ DOMAIN a = 1..Len(a) /\ Len(b) \in Nat /\ DOMAIN b = 1..Len(b)
    BY <1>1
  <2>2. /\ Len(a \o b) = Len(a) + Len(b)
        /\ \A i \in 1..Len(a) : (a \o b)[i] = a[i]
        /\ \A j \in 1..Len(b) : (a \o b)[Len(a) + j] = b[j]
    BY <1>1, ConcatProperties
  <2>3. CASE k <= Len(a) BY <1>4, <2>1, <2>2, <2>3
  <2>4. CASE k > Len(a)
    <3>1. k - Len(a) \in 1..Len(b) /\ k = Len(a) + (k - Len(a))
      BY <1>4, <2>1, <2>2, <2>4
    <3> QED BY <1>4, <2>1, <2>2, <3>1
  <2> QED BY <2>1, <2>3, <2>4
<1> QED BY <1>2, <1>3, <1>5

-----------------------------------------------------------------------------
(* The control part of the invariant *)

(* Every step keeps the cursor on a container and the start as submitted.  *)
LEMMA ControlStep ==
    ASSUME TypeOK, AtContainer, StartInv, [Next]_vars
    PROVE  AtContainer' /\ StartInv'
<1> USE DEF AtContainer, StartInv
<1>1. CASE WrapContainer
  <2>1. pc' = "containers" /\ entry' = 1 BY <1>1 DEF WrapContainer, NextContainer
  <2>2. ~found' BY <1>1 DEF WrapContainer, NextContainer
  <2> QED BY <2>1, <2>2
<1>2. CASE LeaveContainer
  <2>1. pc' = "containers" /\ entry' = 1 BY <1>2 DEF LeaveContainer, NextContainer
  <2>2. ~found' BY <1>2 DEF LeaveContainer, NextContainer
  <2> QED BY <2>1, <2>2
<1>3. CASE NextList
  BY <1>3 DEF NextList
<1>4. CASE EnterContainer
  BY <1>4 DEF EnterContainer, scanVars, Here, Containers
<1>5. CASE ReadEntry
  BY <1>5 DEF ReadEntry, Here, Containers
<1>6. CASE SkipOptional
  BY <1>6 DEF SkipOptional, Here, Containers
<1>7. CASE StartMutation
  BY <1>7 DEF StartMutation, scanVars
<1>8. CASE Reinvoke
  <2>1. /\ pc' = "received" /\ pod' = submitted' /\ list' = "init"
        /\ cursor' = 1 /\ entry' = 1
    BY <1>8 DEF Reinvoke
  <2>2. ~found' /\ ~mutated' BY <1>8 DEF Reinvoke
  <2> QED BY <2>1, <2>2
<1>9. CASE DecideToWrap
  BY <1>9 DEF DecideToWrap, scanVars, Here, Containers
<1>10. CASE ChangeSource
  BY <1>10 DEF ChangeSource, scanVars, requestVars, Here, Containers
<1>11. CASE ChangeGenerated
  BY <1>11 DEF ChangeGenerated, scanVars, requestVars, Here, Containers
<1>12. CASE UNCHANGED vars
  BY <1>12 DEF vars, scanVars, requestVars, Here, Containers
<1>13. CASE pc' \in {"template", "configmap", "update", "inject", "agent", "answered"}
  BY <1>13
<1> QED
  BY <1>1, <1>2, <1>3, <1>4, <1>5, <1>6, <1>7, <1>8, <1>9, <1>10, <1>11, <1>12, <1>13
  DEF Next, MutatePod, Environment, AlreadyMutated, EndScan, LookupFails,
      RegistryFails, SkipTemplate, RunTemplate, VersionUnavailable,
      NothingToInject, NoConfigMapToWrite, CreateConfigMap, CreateFails,
      UpdateConfigMap, UpdateFails, Inject, InjectPanics, Finish,
      Answer, Fail, Panic

(* The marker: a changed pod has the vault-env volume, or is on the way to *)
(* the step that adds it.                                                  *)
LEMMA MarkStep ==
    ASSUME TypeOK, StartInv, MarkInv, [Next]_vars
    PROVE  MarkInv'
<1> USE DEF MarkInv, Allowed, Injects
<1>1. CASE AlreadyMutated
  BY <1>1 DEF AlreadyMutated, Answer, isPodAlreadyMutated
<1>2. CASE StartMutation
  BY <1>2 DEF StartMutation, StartInv, requestVars, isPodAlreadyMutated
<1>3. CASE EnterContainer \/ NextList
  BY <1>3 DEF EnterContainer, NextList, requestVars
<1>4. CASE EndScan
  BY <1>4 DEF EndScan, requestVars
<1>5. CASE ReadEntry \/ SkipOptional
  BY <1>5 DEF ReadEntry, SkipOptional, requestVars
<1>6. CASE LookupFails \/ RegistryFails \/ CreateFails \/ UpdateFails
  BY <1>6 DEF LookupFails, RegistryFails, CreateFails, UpdateFails, Fail, Answer, Allowed
<1>7. CASE LeaveContainer \/ DecideToWrap
  BY <1>7 DEF LeaveContainer, DecideToWrap, requestVars
<1>8. CASE WrapContainer
  BY <1>8 DEF WrapContainer, StartInv
<1>9. CASE SkipTemplate
  BY <1>9 DEF SkipTemplate, Injects, requestVars
<1>10. CASE RunTemplate
  BY <1>10 DEF RunTemplate, Injects, requestVars
<1>11. CASE VersionUnavailable \/ InjectPanics
  BY <1>11 DEF VersionUnavailable, InjectPanics, Panic, Answer, Allowed
<1>12. CASE NothingToInject \/ NoConfigMapToWrite
  BY <1>12 DEF NothingToInject, NoConfigMapToWrite, Injects, requestVars, isPodAlreadyMutated
<1>13. CASE CreateConfigMap \/ UpdateConfigMap
  BY <1>13 DEF CreateConfigMap, Creates, UpdateConfigMap, Injects, requestVars
<1>14. CASE Inject
  <2>1. isPodAlreadyMutated(pod')
    BY <1>14, InjectType DEF Inject
  <2>2. isPodAlreadyMutated(pod)' BY <2>1
  <2>3. pc' = "agent" BY <1>14 DEF Inject
  <2> QED BY <2>2, <2>3
<1>15. CASE Finish
  <2>1. CASE ~cfg.AgentConfigMap
    BY <1>15, <2>1 DEF Finish, Answer, requestVars, Allowed, isPodAlreadyMutated
  <2>2. CASE cfg.AgentConfigMap
    <3>1. isPodAlreadyMutated(pod) BY <1>15, <2>2 DEF Finish, Injects
    <3>2. \A share \in ShareOutcomes(cfg.AgentShareProcess) : WithAgent(share).vols = pod.vols
      BY ShareType, WithAgentType
    <3>3. [pod EXCEPT !.main = addAgentSecretsVolToContainers(@)].vols = pod.vols
      <4>1. TRUE \in BOOLEAN OBVIOUS
      <4> QED BY <4>1, WithAgentType
    <3>4. pod'.vols = pod.vols BY <1>15, <2>2, <3>2, <3>3 DEF Finish
    <3>5. isPodAlreadyMutated(pod)' BY <3>1, <3>4 DEF isPodAlreadyMutated
    <3>6. pc' = "answered" BY <1>15 DEF Finish, Answer
    <3> QED BY <3>5, <3>6
  <2> QED BY <2>1, <2>2
<1>16. CASE Reinvoke
  BY <1>16 DEF Reinvoke, Allowed
<1>17. CASE ChangeSource \/ ChangeGenerated
  BY <1>17 DEF ChangeSource, ChangeGenerated, requestVars, Allowed, isPodAlreadyMutated
<1>18. CASE UNCHANGED vars
  BY <1>18 DEF vars, requestVars, Allowed, isPodAlreadyMutated
<1> QED
  BY <1>1, <1>2, <1>3, <1>4, <1>5, <1>6, <1>7, <1>8, <1>9, <1>10, <1>11, <1>12,
     <1>13, <1>14, <1>15, <1>16, <1>17, <1>18
  DEF Next, MutatePod, Environment

-----------------------------------------------------------------------------
(* The containers scanned so far *)

(* Every step keeps the containers before the cursor done, the others as they were. *)
LEMMA ScanStep ==
    ASSUME TypeOK, AtContainer, StartInv, ScanInv, ReadInv, [Next]_vars
    PROVE  ScanInv'
<1> DEFINE Scanning == pc \in {"received", "containers", "entries", "wrap"}
(* A step that moves neither the cursor nor the pod. *)
<1>1. ASSUME ~Reinvoke, Scanning, UNCHANGED <<pod, list, cursor>>
      PROVE  ScanInv'
  <2>1. submitted' = submitted /\ Needy' \in SUBSET Needy BY <1>1, NeedyShrinks
  <2>2. list' = list /\ pod' = pod /\ cursor' = cursor BY <1>1
  <2>3. \A cs, ws, n : Scanned(Needy, cs, ws, n) => Scanned(Needy', cs, ws, n)
    BY <2>1, ScannedShrinks
  <2> HIDE DEF Needy
  <2> QED BY <1>1, <2>1, <2>2, <2>3 DEF ScanInv
(* A step that leaves the container at the cursor, done. *)
<1>2. ASSUME ~Reinvoke, pc \in {"entries", "wrap"}, NextContainer,
             NEW c \in Container, Done(Needy, Container0, c),
             pod' = IF list = "init" THEN [pod EXCEPT !.init = [@ EXCEPT ![cursor] = c]]
                                     ELSE [pod EXCEPT !.main = [@ EXCEPT ![cursor] = c]]
      PROVE  ScanInv'
  <2>1. submitted' = submitted /\ Needy' \in SUBSET Needy BY <1>2, NeedyShrinks
  <2>2. list' = list /\ cursor' = cursor + 1 BY <1>2 DEF NextContainer
  <2>3. cursor \in DOMAIN Here /\ Here \in Seq(Container)
    BY <1>2, HereType DEF AtContainer
  <2>4. cursor \in Nat BY DEF TypeOK
  <2>5. pod \in Pod BY DEF TypeOK
  <2> DEFINE cs == IF list = "init" THEN submitted.init ELSE submitted.main
             ws == [Here EXCEPT ![cursor] = c]
  <2>6. Scanned(Needy, cs, Here, cursor)
    BY <1>2 DEF ScanInv, Here, Containers
  <2>7. Scanned(Needy, cs, ws, cursor + 1)
    <3>1. /\ Len(ws) = Len(Here)
          /\ \A j \in 1..Len(Here) : ws[j] = IF j = cursor THEN c ELSE Here[j]
      BY <2>3, ReplaceType
    <3>2. Len(cs) = Len(Here) BY <2>6 DEF Scanned
    <3>3. Len(Here) \in Nat /\ cursor \in 1..Len(Here) BY <2>3
    <3>4. Here[cursor] = cs[cursor] /\ Done(Needy, cs[cursor], c)
      BY <1>2, <2>6, <3>2, <3>3 DEF Scanned, Container0
    <3> HIDE DEF cs, ws
    <3>5. ASSUME NEW i \in 1..Len(cs)
          PROVE  IF i < cursor + 1 THEN Done(Needy, cs[i], ws[i]) ELSE ws[i] = cs[i]
      <4>1. CASE i = cursor BY <3>1, <3>2, <3>4, <4>1, <2>4
      <4>2. CASE i < cursor BY <2>4, <2>6, <3>1, <3>2, <4>2 DEF Scanned
      <4>3. CASE i > cursor BY <2>4, <2>6, <3>1, <3>2, <4>3 DEF Scanned
      <4> QED BY <4>1, <4>2, <4>3, <2>4, <3>2, <3>3
    <3> QED BY <3>1, <3>2, <3>5 DEF Scanned
  <2>8. Scanned(Needy', cs, ws, cursor + 1) BY <2>1, <2>7, ScannedShrinks
  <2>9. CASE list = "init"
    <3>1. pod'.init = ws /\ pod'.main = pod.main
      BY <1>2, <2>5, <2>9 DEF Pod, Here, Containers
    <3>2. pod.main = submitted.main BY <1>2, <2>9 DEF ScanInv
    <3> HIDE DEF Needy, ws
    <3> QED BY <2>1, <2>2, <2>8, <2>9, <3>1, <3>2 DEF ScanInv
  <2>10. CASE list # "init"
    <3>1. pod'.main = ws /\ pod'.init = pod.init
      BY <1>2, <2>5, <2>10 DEF Pod, Here, Containers
    <3>2. Scanned(Needy, submitted.init, pod.init, Len(submitted.init) + 1)
      BY <1>2, <2>10 DEF ScanInv
    <3>3. Scanned(Needy', submitted.init, pod.init, Len(submitted.init) + 1)
      BY <2>1, <3>2, ScannedShrinks
    <3> HIDE DEF Needy, ws
    <3> QED BY <2>1, <2>2, <2>8, <2>10, <3>1, <3>3 DEF ScanInv
  <2> QED BY <2>9, <2>10
<1>3. CASE Reinvoke
  <2>1. pc' = "received" /\ list' = "init" /\ cursor' = 1 /\ pod' = submitted'
    BY <1>3 DEF Reinvoke
  <2> QED BY <2>1 DEF ScanInv, Scanned
<1>4. CASE \/ StartMutation \/ EnterContainer \/ ReadEntry \/ SkipOptional
           \/ DecideToWrap \/ ChangeSource \/ ChangeGenerated \/ UNCHANGED vars
  <2>1. UNCHANGED <<pod, list, cursor>>
    BY <1>4 DEF StartMutation, EnterContainer, ReadEntry, SkipOptional, DecideToWrap,
       ChangeSource, ChangeGenerated, vars, scanVars
  <2>2. CASE Scanning /\ ~Reinvoke BY <1>1, <2>1, <2>2
  <2>3. CASE ~Scanning
    <3>1. pc' = pc
      BY <1>4, <2>3 DEF StartMutation, EnterContainer, ReadEntry, SkipOptional,
         DecideToWrap, ChangeSource, ChangeGenerated, vars
    <3> QED BY <2>3, <3>1 DEF ScanInv
  <2> QED BY <1>3, <2>2, <2>3
<1>5. CASE LeaveContainer
  <2>1. /\ pc = "entries" /\ NextContainer /\ pod' = pod /\ ~found
        /\ entry > Len(Entries(Container0))
    BY <1>5 DEF LeaveContainer
  <2>2. cursor \in DOMAIN Here /\ Here \in Seq(Container) /\ Container0 \in Container
    BY <2>1, HereType DEF AtContainer
  <2>3. Container0 \notin Needy
    <3>1. \A k \in 1..Len(Entries(Container0)) : ~Demands(Entries(Container0)[k])
      <4>1. Len(Entries(Container0)) \in Nat BY <2>2, EntriesOf
      <4>2. entry \in Nat BY DEF TypeOK
      <4> QED BY <2>1, <4>1, <4>2 DEF ReadInv
    <3>2. DOMAIN Entries(Container0) = 1..Len(Entries(Container0)) BY <2>2, EntriesOf
    <3> QED BY <3>1, <3>2 DEF Needy, Range
  <2>4. Done(Needy, Container0, Container0) BY <2>3 DEF Done
  <2>5. pod \in Pod BY DEF TypeOK
  <2>6. CASE list = "init"
    <3>1. [pod.init EXCEPT ![cursor] = Container0] = pod.init
      BY <2>2, <2>6 DEF Here, Containers, Container0
    <3>2. [pod EXCEPT !.init = [@ EXCEPT ![cursor] = Container0]] = pod
      BY <2>5, <3>1 DEF Pod
    <3>3. ~Reinvoke BY <2>1 DEF Reinvoke
    <3> QED BY <1>2, <2>1, <2>2, <2>4, <2>6, <3>2, <3>3
  <2>7. CASE list # "init"
    <3>1. [pod.main EXCEPT ![cursor] = Container0] = pod.main
      BY <2>2, <2>7 DEF Here, Containers, Container0
    <3>2. [pod EXCEPT !.main = [@ EXCEPT ![cursor] = Container0]] = pod
      BY <2>5, <3>1 DEF Pod
    <3>3. ~Reinvoke BY <2>1 DEF Reinvoke
    <3> QED BY <1>2, <2>1, <2>2, <2>4, <2>7, <3>2, <3>3
  <2> QED BY <2>6, <2>7
<1>6. CASE WrapContainer
  <2>1. pc = "wrap" /\ NextContainer BY <1>6 DEF WrapContainer
  <2>2. /\ Wrapped0 \in Container /\ Wrapped0.name = Container0.name
        /\ IsWrapped(Wrapped0)
    BY <2>1, WrappedType DEF AtContainer
  <2>3. Done(Needy, Container0, Wrapped0) BY <2>2 DEF Done
  <2>4. pod' = IF list = "init"
               THEN [pod EXCEPT !.init = [@ EXCEPT ![cursor] = Wrapped0]]
               ELSE [pod EXCEPT !.main = [@ EXCEPT ![cursor] = Wrapped0]]
    BY <1>6 DEF WrapContainer
  <2>5. ~Reinvoke BY <2>1 DEF Reinvoke
  <2> QED BY <1>2, <2>1, <2>2, <2>3, <2>4, <2>5
<1>7. CASE NextList
  <2>1. /\ pc = "containers" /\ list = "init" /\ list' = "main" /\ cursor' = 1
        /\ pod' = pod /\ cursor > Len(pod.init)
    BY <1>7 DEF NextList, Here, Containers
  <2>2. submitted' = submitted /\ Needy' \in SUBSET Needy
    <3>1. ~Reinvoke BY <2>1 DEF Reinvoke
    <3> QED BY <3>1, NeedyShrinks
  <2>3. Scanned(Needy, submitted.init, pod.init, cursor) /\ pod.main = submitted.main
    BY <2>1 DEF ScanInv
  <2>4. Scanned(Needy, submitted.init, pod.init, Len(submitted.init) + 1)
    <3>1. /\ submitted.init \in Seq(Container) /\ pod.init \in Seq(Container)
          /\ cursor \in Nat
      BY DEF TypeOK, Pod
    <3>2. cursor > Len(submitted.init) BY <2>1, <2>3 DEF Scanned
    <3> QED BY <2>3, <3>1, <3>2, ScannedAll
  <2>5. Scanned(Needy', submitted.init, pod.init, Len(submitted.init) + 1)
    BY <2>2, <2>4, ScannedShrinks
  <2>6. Scanned(Needy', submitted.main, pod.main, 1) BY <2>3 DEF Scanned
  <2> HIDE DEF Needy
  <2> QED BY <2>1, <2>2, <2>5, <2>6 DEF ScanInv
<1>8. CASE pc' \in {"template", "configmap", "update", "inject", "agent", "answered"}
  BY <1>8 DEF ScanInv
<1> QED
  BY <1>3, <1>4, <1>5, <1>6, <1>7, <1>8
  DEF Next, MutatePod, Environment, AlreadyMutated, EndScan, LookupFails,
      RegistryFails, SkipTemplate, RunTemplate, VersionUnavailable,
      NothingToInject, NoConfigMapToWrite, CreateConfigMap, CreateFails,
      UpdateConfigMap, UpdateFails, Inject, InjectPanics, Finish,
      Answer, Fail, Panic

(* Every step keeps found true once an entry demanded vault-env.           *)
LEMMA ReadStep ==
    ASSUME TypeOK, AtContainer, StartInv, ReadInv, [Next]_vars
    PROVE  ReadInv'
<1>1. CASE pc' # "entries"
  BY <1>1 DEF ReadInv
<1>2. CASE EnterContainer
  <2>1. entry' = 1 BY <1>2 DEF EnterContainer, scanVars, StartInv
  <2> QED BY <2>1 DEF ReadInv
<1>3. ASSUME pc = "entries", pc' = "entries", UNCHANGED <<pod, list, cursor>>,
             ~Reinvoke,
             \/ entry' = entry /\ found' = found
             \/ SkipOptional \/ ReadEntry
      PROVE  ReadInv'
  <2>1. Container0' = Container0 /\ Container0 \in Container
    BY <1>3, HereType DEF Container0, Here, Containers, AtContainer
  <2> DEFINE es == Entries(Container0)
  <2>2. Len(es) \in Nat /\ entry \in Nat BY <2>1, EntriesOf DEF TypeOK
  <2>3. \A e : Demands(e)' => Demands(e) BY <1>3, DemandsShrink
  <2>4. CASE entry' = entry /\ found' = found
    BY <1>3, <2>1, <2>3, <2>4 DEF ReadInv
  <2>5. CASE SkipOptional
    <3>1. entry' = entry + 1 /\ found' = found /\ es[entry].from \in unseen'
      BY <2>5 DEF SkipOptional, Entry0
    <3>2. es[entry].optional /\ entry \in 1..Len(es)
      BY <2>2, <2>5 DEF SkipOptional, Entry0, TypeOK
    <3>3. ~es[entry].ref BY <2>1, <3>2, OptionalIsNoLiteral
    <3>4. \A e : e.from \in unseen' /\ ~e.ref => ~Demands(e)' BY DEF Demands
    <3>5. ASSUME ~found, NEW k \in 1..Len(es), k < entry + 1
          PROVE  ~Demands(es[k])'
      <4>1. es' = es BY <2>1
      <4>2. CASE k < entry
        <5>1. ~Demands(es[k]) BY <1>3, <3>5, <4>2 DEF ReadInv
        <5> QED BY <2>3, <4>1, <5>1
      <4>3. CASE k = entry
        <5>1. es[k].from \in unseen' /\ ~es[k].ref BY <3>1, <3>3, <4>3
        <5> QED BY <3>4, <4>1, <5>1
      <4> QED BY <2>2, <3>5, <4>2, <4>3
    <3> QED BY <2>1, <3>1, <3>5 DEF ReadInv
  <2>6. CASE ReadEntry
    <3>1. /\ entry' = entry + 1 /\ UNCHANGED <<sources, unseen>>
          /\ found' = (found \/ es[entry].ref \/ HoldsRef(es[entry]))
      BY <2>6 DEF ReadEntry, Entry0, clusterVars
    <3>2. CASE found' BY <3>2 DEF ReadInv
    <3>3. CASE ~found'
      <4>1. ~found /\ ~Demands(es[entry]) BY <3>1, <3>3 DEF Demands
      <4>2. ASSUME NEW k \in 1..Len(es), k < entry + 1
            PROVE  ~Demands(es[k])'
        <5>1. es' = es BY <2>1
        <5>2. ~Demands(es[k])
          <6>1. CASE k < entry BY <1>3, <4>1, <4>2, <6>1 DEF ReadInv
          <6>2. CASE k = entry BY <4>1, <6>2
          <6> QED BY <2>2, <4>2, <6>1, <6>2
        <5> QED BY <2>3, <5>1, <5>2
      <4> QED BY <2>1, <3>1, <4>2 DEF ReadInv
    <3> QED BY <3>2, <3>3
  <2> QED BY <1>3, <2>4, <2>5, <2>6
<1>4. CASE ReadEntry \/ SkipOptional
  <2>1. pc = "entries" /\ pc' = pc /\ UNCHANGED <<pod, list, cursor>>
    BY <1>4 DEF ReadEntry, SkipOptional
  <2>2. ~Reinvoke BY <2>1 DEF Reinvoke
  <2> QED BY <1>3, <1>4, <2>1, <2>2
<1>5. CASE ChangeSource \/ ChangeGenerated \/ UNCHANGED vars
  <2>1. pc' = pc /\ UNCHANGED <<pod, list, cursor, entry, found>>
    BY <1>5 DEF ChangeSource, ChangeGenerated, vars, scanVars
  <2>2. CASE pc = "entries"
    <3>1. ~Reinvoke BY <2>2 DEF Reinvoke
    <3> QED BY <1>3, <2>1, <2>2, <3>1
  <2> QED BY <1>1, <2>1, <2>2
<1> QED
  BY <1>1, <1>2, <1>4, <1>5
  DEF Next, MutatePod, Environment, AlreadyMutated, StartMutation, NextList,
      EndScan, LookupFails, LeaveContainer, DecideToWrap, WrapContainer,
      RegistryFails, SkipTemplate, RunTemplate, VersionUnavailable,
      NothingToInject, NoConfigMapToWrite, CreateConfigMap, CreateFails,
      UpdateConfigMap, UpdateFails, Inject, InjectPanics, Finish, Reinvoke,
      Answer, Fail, Panic

-----------------------------------------------------------------------------
(* Every container that needs it stays covered until the answer *)

(* consul-template uncovers no container.                                  *)
LEMMA CoverTemplate ==
    ASSUME TypeOK, NEW share \in BOOLEAN, NEW N, NEW cs, NEW ds,
           Covered(N, cs, pod.init), Covered(N, ds, pod.main)
    PROVE  /\ Covered(N, cs, WithTemplate(share).init)
           /\ Covered(N, ds, WithTemplate(share).main)
<1> DEFINE mount == MountAt("ct-secrets", ConfigfilePath)
           main == addSecretsVolToContainers(pod.main)
           init == IF cfg.CtOnce /\ cfg.CtInjectInInitcontainers
                   THEN addSecretsVolToContainers(pod.init) ELSE pod.init
           ct == <<consulTemplate(cfg, pod.vols, share)>>
<1>1. mount \in Mount BY MountType, TextAssumption DEF ConfigfilePath
<1>2. pod.init \in Seq(Container) /\ pod.main \in Seq(Container) BY DEF TypeOK, Pod
<1>3. main \in Seq(Container) /\ Covered(N, ds, main)
  BY <1>1, <1>2, AddMountType, CoveredAddMount DEF addSecretsVolToContainers
<1>4. init \in Seq(Container) /\ Covered(N, cs, init)
  BY <1>1, <1>2, AddMountType, CoveredAddMount DEF addSecretsVolToContainers
<1>5. ct \in Seq(Container)
  <2>1. consulTemplate(cfg, pod.vols, share) \in Container BY <1>2, AgentTypes
  <2> QED BY <2>1
<1>6. WithTemplate(share) = [pod EXCEPT !.share = pod.share \/ share,
                               !.init = IF cfg.CtOnce THEN ct \o init ELSE init,
                               !.main = IF cfg.CtOnce THEN main ELSE ct \o main]
  BY DEF WithTemplate
<1> HIDE DEF main, init, ct
<1>7. Covered(N, cs, ct \o init) /\ Covered(N, ds, ct \o main)
  BY <1>3, <1>4, <1>5, CoveredConcat
<1>8. /\ WithTemplate(share).init = IF cfg.CtOnce THEN ct \o init ELSE init
      /\ WithTemplate(share).main = IF cfg.CtOnce THEN main ELSE ct \o main
  BY <1>6 DEF TypeOK, Pod
<1> QED BY <1>3, <1>4, <1>7, <1>8

(* The agent and its mounts uncover no container.                          *)
LEMMA CoverAgent ==
    ASSUME TypeOK, NEW share \in BOOLEAN, NEW N, NEW cs,
           Covered(N, cs, pod.main)
    PROVE  /\ WithAgent(share).init = pod.init
           /\ Covered(N, cs, WithAgent(share).main)
           /\ Covered(N, cs, addAgentSecretsVolToContainers(pod.main))
<1> DEFINE mount == MountAt("agent-secrets", ConfigfilePath)
           main == addAgentSecretsVolToContainers(pod.main)
           agent == <<agentSidecar(cfg, submitted.vols, main, share)>>
<1>1. mount \in Mount BY MountType, TextAssumption DEF ConfigfilePath
<1>2. pod.main \in Seq(Container) BY DEF TypeOK, Pod
<1>3. main \in Seq(Container) /\ Covered(N, cs, main)
  BY <1>1, <1>2, AddMountType, CoveredAddMount DEF addAgentSecretsVolToContainers
<1> HIDE DEF main
<1>4. agent \in Seq(Container)
  <2>1. agentSidecar(cfg, submitted.vols, main, share) \in Container BY <1>3, AgentTypes
  <2> QED BY <2>1
<1>5. WithAgent(share) = [pod EXCEPT !.share = pod.share \/ share, !.main = agent \o main]
  BY DEF WithAgent, main
<1> HIDE DEF agent
<1>6. Covered(N, cs, agent \o main) BY <1>3, <1>4, CoveredConcat
<1>7. WithAgent(share).init = pod.init /\ WithAgent(share).main = agent \o main
  BY <1>5 DEF TypeOK, Pod
<1> QED BY <1>3, <1>6, <1>7 DEF main

(* From the end of the scan to the answer every needy container is covered.*)
LEMMA CoverStep ==
    ASSUME TypeOK, StartInv, ScanInv, CoverInv, [Next]_vars
    PROVE  CoverInv'
<1> DEFINE Past == pc \in {"template", "configmap", "update", "inject", "agent"}
           N == Needy
<1>1. CASE /\ pc' \notin {"template", "configmap", "update", "inject", "agent"}
           /\ ~Allowed'
  BY <1>1 DEF CoverInv
<1>2. CASE AlreadyMutated
  <2>1. isPodAlreadyMutated(submitted) /\ submitted' = submitted
    BY <1>2 DEF AlreadyMutated, StartInv, requestVars
  <2>2. isPodAlreadyMutated(submitted)' BY <2>1 DEF isPodAlreadyMutated
  <2>3. pc' = "answered" BY <1>2 DEF AlreadyMutated, Answer
  <2> QED BY <2>2, <2>3 DEF CoverInv
<1>3. ASSUME Past, ~Reinvoke,
             Covered(N, submitted.init, pod'.init),
             Covered(N, submitted.main, pod'.main)
      PROVE  CoverInv'
  <2>1. submitted' = submitted /\ Needy' \in SUBSET Needy BY <1>3, NeedyShrinks
  <2>2. /\ Covered(Needy', submitted.init, pod'.init)
        /\ Covered(Needy', submitted.main, pod'.main)
    BY <1>3, <2>1, CoveredShrinks
  <2> HIDE DEF Needy
  <2> QED BY <2>1, <2>2 DEF CoverInv
<1>4. CASE EndScan
  <2>1. /\ pc = "containers" /\ list = "main" /\ cursor > Len(pod.main) /\ pod' = pod
    BY <1>4 DEF EndScan, Here, Containers
  <2>2. /\ Scanned(N, submitted.init, pod.init, Len(submitted.init) + 1)
        /\ Scanned(N, submitted.main, pod.main, cursor)
    BY <2>1 DEF ScanInv
  <2>3. /\ submitted.init \in Seq(Container) /\ submitted.main \in Seq(Container)
        /\ pod.init \in Seq(Container) /\ pod.main \in Seq(Container)
        /\ cursor \in Nat
    BY DEF TypeOK, Pod
  <2>4. cursor > Len(submitted.main) BY <2>1, <2>2 DEF Scanned
  <2>5. Len(submitted.init) + 1 \in Nat /\ Len(submitted.init) + 1 > Len(submitted.init)
    BY <2>3
  <2>6. Covered(N, submitted.init, pod.init) /\ Covered(N, submitted.main, pod.main)
    BY <2>2, <2>3, <2>4, <2>5, ScannedAll
  <2>7. ~Reinvoke BY <2>1 DEF Reinvoke
  <2>8. submitted' = submitted /\ Needy' \in SUBSET Needy BY <2>7, NeedyShrinks
  <2>9. /\ Covered(Needy', submitted.init, pod.init)
        /\ Covered(Needy', submitted.main, pod.main)
    BY <2>6, <2>8, CoveredShrinks
  <2> HIDE DEF Needy
  <2> QED BY <2>1, <2>8, <2>9 DEF CoverInv
<1>5. ASSUME Past
      PROVE  Covered(N, submitted.init, pod.init) /\ Covered(N, submitted.main, pod.main)
  BY <1>5 DEF CoverInv
<1>6. CASE \/ SkipTemplate \/ NothingToInject \/ NoConfigMapToWrite
           \/ CreateConfigMap \/ UpdateConfigMap
  <2>1. Past /\ pod' = pod /\ ~Reinvoke
    BY <1>6 DEF SkipTemplate, NothingToInject, NoConfigMapToWrite, CreateConfigMap,
       Creates, UpdateConfigMap, Reinvoke
  <2> QED BY <1>3, <1>5, <2>1
<1>7. CASE RunTemplate
  <2>1. PICK share \in ShareOutcomes(cfg.CtShareProcess) : pod' = WithTemplate(share)
    BY <1>7 DEF RunTemplate
  <2>2. Past /\ ~Reinvoke BY <1>7 DEF RunTemplate, Reinvoke
  <2>3. share \in BOOLEAN BY <2>1, ShareType
  <2>4. /\ Covered(N, submitted.init, pod'.init)
        /\ Covered(N, submitted.main, pod'.main)
    BY <1>5, <2>1, <2>2, <2>3, CoverTemplate
  <2> QED BY <1>3, <2>2, <2>4
<1>8. CASE Inject
  <2>1. Past /\ ~Reinvoke BY <1>8 DEF Inject, Reinvoke
  <2> DEFINE added == getInitContainers(cfg, pod.vols, pod.main, mutated)
  <2>2. pod'.init = added \o pod.init /\ pod'.main = pod.main
    BY <1>8 DEF Inject, TypeOK, Pod
  <2>3. pod.init \in Seq(Container) /\ pod.main \in Seq(Container) BY DEF TypeOK, Pod
  <2>4. added \in Seq(Container) BY <2>3, InitContainersType
  <2> HIDE DEF added
  <2>5. Covered(N, submitted.init, added \o pod.init)
    BY <1>5, <2>1, <2>3, <2>4, CoveredConcat
  <2> QED BY <1>3, <1>5, <2>1, <2>2, <2>5
<1>9. CASE Finish
  <2>1. Past /\ ~Reinvoke BY <1>9 DEF Finish, Reinvoke
  <2>2. Covered(N, submitted.init, pod.init) /\ Covered(N, submitted.main, pod.main)
    BY <1>5, <2>1
  <2>3. CASE pod' = pod BY <1>3, <2>1, <2>2, <2>3
  <2>4. CASE pod' = [pod EXCEPT !.main = addAgentSecretsVolToContainers(@)]
    <3>1. pod'.init = pod.init /\ pod'.main = addAgentSecretsVolToContainers(pod.main)
      BY <2>4 DEF TypeOK, Pod
    <3>2. TRUE \in BOOLEAN OBVIOUS
    <3>3. Covered(N, submitted.main, addAgentSecretsVolToContainers(pod.main))
      BY <2>2, <3>2, CoverAgent
    <3> QED BY <1>3, <2>1, <2>2, <3>1, <3>3
  <2>5. ASSUME NEW share \in ShareOutcomes(cfg.AgentShareProcess), pod' = WithAgent(share)
        PROVE  CoverInv'
    <3>1. share \in BOOLEAN BY ShareType
    <3>2. pod'.init = pod.init /\ Covered(N, submitted.main, pod'.main)
      BY <2>2, <2>5, <3>1, CoverAgent
    <3> QED BY <1>3, <2>1, <2>2, <3>2
  <2> QED BY <1>9, <2>3, <2>4, <2>5 DEF Finish
<1>10. CASE ChangeSource \/ ChangeGenerated
  <2>1. pod' = pod /\ pc' = pc /\ pc # "answered"
    BY <1>10 DEF ChangeSource, ChangeGenerated
  <2>2. CASE Past
    <3>1. ~Reinvoke BY <2>2 DEF Reinvoke
    <3> QED BY <1>3, <1>5, <2>1, <2>2, <3>1
  <2>3. CASE ~Past BY <1>1, <2>1, <2>3 DEF Allowed
  <2> QED BY <2>2, <2>3
<1>11. CASE UNCHANGED vars
  BY <1>11 DEF CoverInv, vars, scanVars, clusterVars, requestVars, Allowed, Covered,
     WrappedIn, IsWrapped, Needy, AllContainers, Demands, HoldsRef, isPodAlreadyMutated
<1>12. CASE pc' \in {"received", "containers", "entries", "wrap"}
  BY <1>1, <1>12 DEF Allowed
<1>13. CASE pc' = "answered" /\ verdict' \in {"failed", "panicked"}
  BY <1>1, <1>13 DEF Allowed
<1> QED
  BY <1>2, <1>4, <1>6, <1>7, <1>8, <1>9, <1>10, <1>11, <1>12, <1>13
  DEF Next, MutatePod, Environment, StartMutation, EnterContainer, NextList,
      ReadEntry, SkipOptional, LookupFails, LeaveContainer, DecideToWrap,
      WrapContainer, RegistryFails, VersionUnavailable, CreateFails, UpdateFails,
      InjectPanics, Reinvoke, Answer, Fail, Panic

-----------------------------------------------------------------------------
(* The theorems *)

(* The invariant holds at first.                                           *)
LEMMA InitInv == Init => IInv
<1> SUFFICES ASSUME Init PROVE IInv OBVIOUS
<1>1. TypeOK BY InitType
<1>2. /\ pc = "received" /\ pod = submitted /\ list = "init" /\ cursor = 1
      /\ entry = 1 /\ verdict = "pending"
  BY DEF Init
<1>3. ~found /\ ~mutated BY DEF Init
<1>4. Scanned(Needy, submitted.init, pod.init, cursor)
  BY <1>2 DEF Scanned
<1> QED
  BY <1>1, <1>2, <1>3, <1>4
  DEF IInv, AtContainer, StartInv, ScanInv, ReadInv, CoverInv, MarkInv, Allowed

(* Every step keeps the invariant.                                         *)
LEMMA StepInv == IInv /\ [Next]_vars => IInv'
<1> SUFFICES ASSUME IInv, [Next]_vars PROVE IInv' OBVIOUS
<1> USE DEF IInv
<1>1. TypeOK' BY TypeStep
<1>2. AtContainer' /\ StartInv' BY ControlStep
<1>3. ScanInv' BY ScanStep
<1>4. ReadInv' BY ReadStep
<1>5. CoverInv' BY CoverStep
<1>6. MarkInv' BY MarkStep
<1> QED BY <1>1, <1>2, <1>3, <1>4, <1>5, <1>6

(* The invariant is inductive.                                             *)
THEOREM Invariance == Spec => []IInv
BY InitInv, StepInv, PTL DEF Spec

(* The variables keep their types: the request's in-memory pod is a pod    *)
(* whatever annotations, cluster and registry it meets.                    *)
THEOREM TypeCorrect == Spec => []TypeOK
<1>1. IInv => TypeOK BY DEF IInv
<1> QED BY <1>1, Invariance, PTL

(* MutatePod allows no pod with a container whose reference it had no      *)
(* excuse not to see and that does not run through vault-env.              *)
THEOREM NoReferenceIsMissed == Spec => []NoMissedReference
<1>1. IInv => NoMissedReference BY DEF IInv, CoverInv, NoMissedReference
<1> QED BY <1>1, Invariance, PTL

(* A pod the webhook changed carries the vault-env volume, so that the     *)
(* next invocation leaves it alone.                                        *)
THEOREM ChangedPodsAreMarked == Spec => []MutationIsMarked
<1>1. IInv => MutationIsMarked BY DEF IInv, MarkInv, MutationIsMarked
<1> QED BY <1>1, Invariance, PTL

-----------------------------------------------------------------------------
(* What the webhook writes to the cluster, and that it leaves its own      *)
(* output alone: the inductive invariant, on top of IInv                   *)

HasGenerated(p) == \E v \in Range(p.vols) : v.from = "generated"

(* Only what was submitted with the marker is answered as it came.         *)
RoundInv ==
    /\ verdict = "pending" <=> pc # "answered"
    /\ isPodAlreadyMutated(submitted) => pc \in {"received", "answered"} /\ pod = submitted

(* The ConfigMap is written, and the write confirmed, on the way to the    *)
(* volumes.                                                                *)
WroteInv ==
    /\ wrote => NeedsGenerated /\ ~dryRun /\ pc \in {"inject", "agent", "answered"}
    /\ pc = "update" => NeedsGenerated /\ ~dryRun
    /\ pc = "inject" /\ NeedsGenerated => wrote \/ dryRun

(* Its volume is added with it.                                            *)
VolumeInv ==
    /\ ~isPodAlreadyMutated(submitted) => ~HasGenerated(submitted)
    /\ pc \notin {"agent", "answered"} => pod.vols = submitted.vols
    /\ pc = "agent" \/ Allowed =>
            isPodAlreadyMutated(submitted) \/ ~HasGenerated(pod) \/ wrote \/ dryRun

WriteInv == RoundInv /\ WroteInv /\ VolumeInv

-----------------------------------------------------------------------------
(* Volumes *)

(* The elements of two sequences behind each other.                        *)
LEMMA RangeConcat ==
    ASSUME NEW S, NEW a \in Seq(S), NEW b \in Seq(S), NEW x \in Range(a \o b)
    PROVE  x \in Range(a) \/ x \in Range(b)
BY RangeConcatenation

(* getVolumes adds a volume from the generated ConfigMap only where one is *)
(* needed.                                                                 *)
LEMMA GeneratedVolume ==
    ASSUME TypeOK, NEW x \in Range(getVolumes(cfg, pod.vols)), x.from = "generated"
    PROVE  NeedsGenerated
<1> DEFINE v(n, f) == [name |-> n, from |-> f]
           s1 == <<v(VaultEnvVolumeName, "emptyDir")>>
           s2 == IF cfg.UseAgent \/ cfg.CtConfigMap
                 THEN <<v("vault-agent-config",
                          IF cfg.AgentConfigMap THEN "AgentConfigMap" ELSE "generated")>>
                 ELSE <<>>
           s3 == IF cfg.TLSSecret THEN <<v(TLSMount(pod.vols).vol, "TLSSecret")>> ELSE <<>>
           s4 == IF cfg.CtConfigMap
                 THEN << v("ct-secrets", "emptyDir"), v("ct-configmap", "CtConfigMap") >>
                 ELSE <<>>
           s5 == IF cfg.AgentConfigMap
                 THEN << v("agent-secrets", "emptyDir"),
                         v("agent-configmap", "AgentConfigMap") >>
                 ELSE <<>>
           Any == { v(VaultEnvVolumeName, "emptyDir"),
                    v("vault-agent-config", "AgentConfigMap"),
                    v("vault-agent-config", "generated"),
                    v(TLSMount(pod.vols).vol, "TLSSecret"),
                    v("ct-secrets", "emptyDir"), v("ct-configmap", "CtConfigMap"),
                    v("agent-secrets", "emptyDir"),
                    v("agent-configmap", "AgentConfigMap") }
<1>1. getVolumes(cfg, pod.vols) = (((s1 \o s2) \o s3) \o s4) \o s5
  BY DEF getVolumes
<1>2. /\ s1 \in Seq(Any) /\ s2 \in Seq(Any) /\ s3 \in Seq(Any)
      /\ s4 \in Seq(Any) /\ s5 \in Seq(Any)
  <2>1. \A S : <<>> \in Seq(S)
    OBVIOUS
  <2>2. \A S : \A a, b \in S : <<a>> \in Seq(S) /\ <<a, b>> \in Seq(S)
    OBVIOUS
  <2>3. s1 \in Seq(Any)
    BY <2>2
  <2>4. s2 \in Seq(Any)
    BY <2>1, <2>2
  <2>5. s3 \in Seq(Any)
    BY <2>1, <2>2
  <2>6. s4 \in Seq(Any)
    BY <2>1, <2>2
  <2>7. s5 \in Seq(Any)
    BY <2>1, <2>2
  <2> QED BY <2>3, <2>4, <2>5, <2>6, <2>7
<1>3. /\ \A y \in Range(s1) : y.from = "emptyDir"
      /\ \A y \in Range(s3) : y.from = "TLSSecret"
      /\ \A y \in Range(s4) : y.from \in {"emptyDir", "CtConfigMap"}
      /\ \A y \in Range(s5) : y.from \in {"emptyDir", "AgentConfigMap"}
  BY DEF Range
<1>4. \A y \in Range(s2) : y.from = "generated" => NeedsGenerated
  BY DEF Range, NeedsGenerated
<1> HIDE DEF s1, s2, s3, s4, s5, Any
<1>5. /\ s1 \o s2 \in Seq(Any) /\ (s1 \o s2) \o s3 \in Seq(Any)
      /\ ((s1 \o s2) \o s3) \o s4 \in Seq(Any)
  BY <1>2
<1>6. x \in Range(((s1 \o s2) \o s3) \o s4) \/ x \in Range(s5)
  BY <1>1, <1>2, <1>5, RangeConcat
<1>7. x \in Range(((s1 \o s2) \o s3) \o s4) => x \in Range((s1 \o s2) \o s3) \/ x \in Range(s4)
  BY <1>2, <1>5, RangeConcat
<1>8. x \in Range((s1 \o s2) \o s3) => x \in Range(s1 \o s2) \/ x \in Range(s3)
  BY <1>2, <1>5, RangeConcat
<1>9. x \in Range(s1 \o s2) => x \in Range(s1) \/ x \in Range(s2)
  BY <1>2, RangeConcat
<1> QED BY <1>3, <1>4, <1>6, <1>7, <1>8, <1>9

(* Inject adds a volume from the generated ConfigMap where one is needed.  *)
LEMMA InjectVolumes ==
    ASSUME TypeOK, Inject, HasGenerated(pod')
    PROVE  HasGenerated(pod) \/ NeedsGenerated
<1>1. pod.vols \in Seq(Volume) /\ getVolumes(cfg, pod.vols) \in Seq(Volume)
  BY VolumesType DEF TypeOK, Pod
<1>2. pod'.vols = pod.vols \o getVolumes(cfg, pod.vols)
  BY DEF Inject, TypeOK, Pod
<1>3. PICK x \in Range(pod.vols \o getVolumes(cfg, pod.vols)) : x.from = "generated"
  BY <1>2 DEF HasGenerated
<1>4. x \in Range(pod.vols) \/ x \in Range(getVolumes(cfg, pod.vols))
  BY <1>1, RangeConcat
<1> QED BY <1>3, <1>4, GeneratedVolume DEF HasGenerated

(* No step but Inject and the next invocation touches the volumes.         *)
LEMMA VolumesStay ==
    ASSUME TypeOK, [Next]_vars, ~Inject
    PROVE  pod'.vols = pod.vols
<1>1. CASE WrapContainer
  BY <1>1 DEF WrapContainer, TypeOK, Pod
<1>2. CASE RunTemplate
  BY <1>2, ShareType, WithTemplateType DEF RunTemplate
<1>3. CASE Finish
  <2>1. TRUE \in BOOLEAN
    OBVIOUS
  <2> QED BY <1>3, <2>1, ShareType, WithAgentType DEF Finish
<1>4. CASE Reinvoke
  BY <1>4 DEF Reinvoke, TypeOK, Pod
<1>5. CASE UNCHANGED pod
  BY <1>5
<1> QED
  BY <1>1, <1>2, <1>3, <1>4, <1>5
     DEF Next, MutatePod, Environment, AlreadyMutated, StartMutation, EnterContainer,
         NextList, EndScan, ReadEntry, SkipOptional, LookupFails, LeaveContainer,
         DecideToWrap, RegistryFails, SkipTemplate, VersionUnavailable,
         NothingToInject, NoConfigMapToWrite, CreateConfigMap, CreateFails,
         UpdateConfigMap, UpdateFails, InjectPanics, ChangeSource, ChangeGenerated,
         Fail, Panic, vars

-----------------------------------------------------------------------------
(* The steps *)

(* The invariant holds at first.                                           *)
LEMMA WriteInit == Init => WriteInv
<1> SUFFICES ASSUME Init PROVE WriteInv
  OBVIOUS
<1>1. /\ pc = "received" /\ verdict = "pending" /\ ~wrote
      /\ pod = submitted /\ submitted \in Pods
  BY DEF Init
<1>2. ~isPodAlreadyMutated(submitted) => ~HasGenerated(submitted)
  BY <1>1, OthersAssumption DEF HasGenerated
<1> QED
  BY <1>1, <1>2 DEF WriteInv, RoundInv, WroteInv, VolumeInv, Allowed

(* A pod with the marker is answered as it came.                           *)
LEMMA RoundStep ==
    ASSUME TypeOK, StartInv, RoundInv, [Next]_vars
    PROVE  RoundInv'
<1> USE DEF RoundInv
<1>1. CASE AlreadyMutated
  BY <1>1 DEF AlreadyMutated, Answer, StartInv, requestVars
<1>2. CASE StartMutation
  BY <1>2 DEF StartMutation, StartInv, requestVars
<1>3. CASE Reinvoke
  BY <1>3 DEF Reinvoke
<1>4. CASE ChangeSource \/ ChangeGenerated \/ UNCHANGED vars
  BY <1>4 DEF ChangeSource, ChangeGenerated, vars, requestVars
<1>5. ASSUME pc \notin {"received", "answered"}, submitted' = submitted,
             verdict' = "pending" <=> pc' # "answered"
      PROVE  RoundInv'
  BY <1>5
<1> QED
  BY <1>1, <1>2, <1>3, <1>4, <1>5
     DEF Next, MutatePod, Environment, EnterContainer, NextList, EndScan, ReadEntry,
         SkipOptional, LookupFails, LeaveContainer, DecideToWrap, WrapContainer,
         RegistryFails, SkipTemplate, RunTemplate, VersionUnavailable,
         NothingToInject, NoConfigMapToWrite, CreateConfigMap, Creates, CreateFails,
         UpdateConfigMap, UpdateFails, Inject, InjectPanics, Finish,
         Answer, Fail, Panic, requestVars

(* Only a request that needs the ConfigMap, and no dry run, writes it.     *)
LEMMA WroteStep ==
    ASSUME TypeOK, RoundInv, WroteInv, [Next]_vars
    PROVE  WroteInv'
<1> USE DEF WroteInv, NeedsGenerated
<1>1. CASE \/ AlreadyMutated \/ StartMutation \/ EnterContainer \/ NextList
           \/ EndScan \/ ReadEntry \/ SkipOptional \/ LeaveContainer
           \/ DecideToWrap \/ WrapContainer \/ SkipTemplate \/ RunTemplate
  BY <1>1 DEF AlreadyMutated, StartMutation, EnterContainer, NextList, EndScan,
     ReadEntry, SkipOptional, LeaveContainer, DecideToWrap, WrapContainer,
     SkipTemplate, RunTemplate, Answer, requestVars
<1>2. CASE LookupFails \/ RegistryFails \/ CreateFails \/ UpdateFails
  BY <1>2 DEF LookupFails, RegistryFails, CreateFails, Creates, UpdateFails, Fail, Answer,
     requestVars
<1>3. CASE VersionUnavailable
  BY <1>3 DEF VersionUnavailable, Panic, Answer, requestVars
<1>4. CASE NothingToInject \/ NoConfigMapToWrite
  BY <1>4 DEF NothingToInject, NoConfigMapToWrite, requestVars, RoundInv
<1>5. CASE CreateConfigMap \/ UpdateConfigMap
  BY <1>5 DEF CreateConfigMap, Creates, UpdateConfigMap, requestVars, RoundInv
<1>6. CASE Inject \/ Finish
  BY <1>6 DEF Inject, Finish, Answer, requestVars, RoundInv
<1>7. CASE InjectPanics
  BY <1>7 DEF InjectPanics, Panic, Answer, requestVars
<1>8. CASE Reinvoke
  BY <1>8 DEF Reinvoke
<1>9. CASE ChangeSource \/ ChangeGenerated \/ UNCHANGED vars
  BY <1>9 DEF ChangeSource, ChangeGenerated, vars, requestVars
<1> QED
  BY <1>1, <1>2, <1>3, <1>4, <1>5, <1>6, <1>7, <1>8, <1>9
     DEF Next, MutatePod, Environment

(* The volume of the generated ConfigMap comes with the write.             *)
LEMMA VolumeStep ==
    ASSUME IInv, WriteInv, [Next]_vars
    PROVE  VolumeInv'
<1> USE DEF IInv, WriteInv
<1>1. CASE AlreadyMutated
  <2>1. /\ isPodAlreadyMutated(submitted) /\ pc' = "answered"
        /\ submitted' = submitted
    BY <1>1 DEF AlreadyMutated, Answer, StartInv, requestVars
  <2> QED BY <2>1 DEF VolumeInv, isPodAlreadyMutated
<1>2. CASE Inject
  <2>1. /\ pc = "inject" /\ pc' = "agent"
        /\ UNCHANGED <<submitted, wrote, dryRun>>
    BY <1>2 DEF Inject, requestVars
  <2>2. ~isPodAlreadyMutated(submitted) /\ ~HasGenerated(submitted)
    BY <2>1 DEF RoundInv, VolumeInv
  <2>3. ~HasGenerated(pod)
    BY <2>1, <2>2 DEF VolumeInv, HasGenerated
  <2>4. HasGenerated(pod') => NeedsGenerated
    BY <1>2, <2>3, InjectVolumes
  <2>5. HasGenerated(pod)' => wrote \/ dryRun
    BY <2>1, <2>4 DEF WroteInv
  <2> QED BY <2>1, <2>2, <2>5 DEF VolumeInv, HasGenerated
<1>3. CASE Reinvoke
  <2>1. /\ pc' = "received" /\ submitted' = pod' /\ Allowed
    BY <1>3 DEF Reinvoke, Allowed
  <2>2. pod'.vols = pod.vols
    BY <1>3 DEF Reinvoke, TypeOK, Pod
  <2>3. isPodAlreadyMutated(pod) \/ pod = submitted
    BY <2>1 DEF MarkInv
  <2>4. ~isPodAlreadyMutated(submitted)' => ~HasGenerated(submitted)'
    BY <2>1, <2>2, <2>3 DEF VolumeInv, isPodAlreadyMutated, HasGenerated
  <2> QED BY <2>1, <2>4 DEF VolumeInv, Allowed
<1>4. ASSUME ~Inject, ~AlreadyMutated, ~Reinvoke PROVE VolumeInv'
  <2>1. pod'.vols = pod.vols
    BY <1>4, VolumesStay
  <2>2. UNCHANGED <<submitted, dryRun>>
    BY <1>4 DEF Next, MutatePod, Environment, StartMutation, EnterContainer, NextList,
       EndScan, ReadEntry, SkipOptional, LookupFails, LeaveContainer, DecideToWrap,
       WrapContainer, RegistryFails, SkipTemplate, RunTemplate, VersionUnavailable,
       NothingToInject, NoConfigMapToWrite, CreateConfigMap, CreateFails,
       UpdateConfigMap, UpdateFails, InjectPanics, Finish, ChangeSource,
       ChangeGenerated, vars, requestVars
  <2>3. CASE pc \notin {"configmap", "agent", "answered"} /\ ~Allowed' /\ pc' # "agent"
    BY <2>1, <2>2, <2>3 DEF VolumeInv, HasGenerated, isPodAlreadyMutated
  <2>4. CASE pc = "configmap" /\ pc' # "answered"
    BY <2>1, <2>2, <2>4 DEF VolumeInv, HasGenerated, isPodAlreadyMutated, Allowed
  <2>5. CASE pc' = "answered" /\ ~Allowed'
    BY <2>1, <2>2, <2>5 DEF VolumeInv, HasGenerated, isPodAlreadyMutated
  <2>6. CASE Finish \/ ChangeSource \/ ChangeGenerated \/ UNCHANGED vars
    <3>1. /\ wrote' = wrote
          /\ Allowed' => pc = "agent" \/ Allowed
          /\ pc' = pc \/ (pc = "agent" /\ pc' = "answered")
      BY <2>6 DEF Finish, Answer, ChangeSource, ChangeGenerated, vars, Allowed
    <3> QED BY <2>1, <2>2, <3>1 DEF VolumeInv, HasGenerated, isPodAlreadyMutated
  <2> QED
    BY <1>4, <2>3, <2>4, <2>5, <2>6
       DEF Next, MutatePod, Environment, StartMutation, EnterContainer, NextList,
           EndScan, ReadEntry, SkipOptional, LookupFails, LeaveContainer, DecideToWrap,
           WrapContainer, RegistryFails, SkipTemplate, RunTemplate, VersionUnavailable,
           NothingToInject, NoConfigMapToWrite, CreateConfigMap, Creates, CreateFails,
           UpdateConfigMap, UpdateFails, InjectPanics, Answer, Fail, Panic, Allowed
<1> QED BY <1>1, <1>2, <1>3, <1>4

-----------------------------------------------------------------------------
(* The theorems *)

(* The strengthened invariant is inductive.                                *)
LEMMA WritesInvariance == Spec => [](IInv /\ WriteInv)
<1>1. Init => IInv /\ WriteInv
  BY InitInv, WriteInit
<1>2. IInv /\ WriteInv /\ [Next]_vars => (IInv /\ WriteInv)'
  <2> SUFFICES ASSUME IInv, WriteInv, [Next]_vars
               PROVE  IInv' /\ WriteInv'
    OBVIOUS
  <2>1. IInv'
    BY StepInv
  <2>2. RoundInv'
    BY RoundStep DEF IInv, WriteInv
  <2>3. WroteInv'
    BY WroteStep DEF IInv, WriteInv
  <2>4. VolumeInv'
    BY VolumeStep
  <2> QED BY <2>1, <2>2, <2>3, <2>4 DEF WriteInv
<1> QED BY <1>1, <1>2, PTL DEF Spec

(* No error or panic of MutatePod once its write of the generated          *)
(* ConfigMap is confirmed, whatever fails or changes in the cluster, but   *)
(* for the index out of range a malformed token-auth-mount causes.         *)
THEOREM WritingIsTheLastRisk == Spec => WrittenMeansAllowed
<1> DEFINE Risk == wrote /\ pc # "answered" /\ pc' = "answered" =>
                        verdict' = "allowed" \/ tokenAuthMountMalformed(cfg)
<1>1. ASSUME WroteInv, [Next]_vars PROVE [Risk]_vars
  <2> SUFFICES ASSUME wrote, pc # "answered", pc' = "answered"
               PROVE  verdict' = "allowed" \/ tokenAuthMountMalformed(cfg)
    OBVIOUS
  <2>1. NeedsGenerated /\ pc \in {"inject", "agent"}
    BY <1>1 DEF WroteInv
  <2>2. CASE InjectPanics
    BY <2>2 DEF InjectPanics
  <2>3. CASE Finish
    BY <2>3 DEF Finish, Answer
  <2>4. ~VersionUnavailable
    BY <2>1 DEF VersionUnavailable, NeedsGenerated
  <2> QED
    BY <1>1, <2>1, <2>2, <2>3, <2>4
       DEF Next, MutatePod, Environment, AlreadyMutated, StartMutation, EnterContainer,
           NextList, EndScan, ReadEntry, SkipOptional, LookupFails, LeaveContainer,
           DecideToWrap, WrapContainer, RegistryFails, SkipTemplate, RunTemplate,
           NothingToInject, NoConfigMapToWrite, CreateConfigMap, Creates, CreateFails,
           UpdateConfigMap, UpdateFails, Inject, Reinvoke, ChangeSource,
           ChangeGenerated, vars
<1>2. IInv /\ WriteInv /\ [Next]_vars => [Risk]_vars
  BY <1>1 DEF WriteInv
<1> QED BY <1>2, WritesInvariance, PTL DEF Spec, WrittenMeansAllowed

(* A pod allowed with the generated ConfigMap's volume had it written by   *)
(* its own request, and a dry run writes none.                             *)
THEOREM ConfigMapIsWrittenFirst == Spec => []GeneratedIsWritten
<1>1. ASSUME TypeOK, WriteInv PROVE GeneratedIsWritten
  <2>1. wrote \in BOOLEAN /\ dryRun \in BOOLEAN /\ (wrote => ~dryRun)
    BY <1>1 DEF TypeOK, WriteInv, WroteInv
  <2>2. ASSUME Allowed, HasGenerated(pod), ~isPodAlreadyMutated(submitted)
        PROVE  wrote = ~dryRun
    <3>1. wrote \/ dryRun
      BY <1>1, <2>2 DEF WriteInv, VolumeInv
    <3> QED BY <2>1, <3>1
  <2> QED BY <2>1, <2>2 DEF HasGenerated, GeneratedIsWritten
<1>2. IInv /\ WriteInv => GeneratedIsWritten
  BY <1>1 DEF IInv
<1> QED BY <1>2, WritesInvariance, PTL
=============================================================================
