----------------------------- MODULE PodValidProofs -----------------------------
(***************************************************************************)
(* A theorem about PodMutation: exactly which configurations make a valid  *)
(* pod one that the API server refuses, whatever the pod.                  *)
(***************************************************************************)
EXTENDS PodShapesProofs

-----------------------------------------------------------------------------
(* Names, paths and volumes of sequences *)

Names(s) == {x.name : x \in Range(s)}

Paths(ms) == {m.path : m \in Range(ms)}

VolsOf(ms) == {m.vol : m \in Range(ms)}

OnePath(ms) == \A i, j \in DOMAIN ms : ms[i].path = ms[j].path => i = j

(* Mounts of distinct paths, of volumes that are planned.                  *)
Fits(ms, plan) == OnePath(ms) /\ VolsOf(ms) \subseteq plan

(* The names of the volumes that getVolumes returns.                       *)
AddedVolumes(g, vols) ==
    {VaultEnvVolumeName}
        \cup (IF g.UseAgent \/ g.CtConfigMap THEN {"vault-agent-config"} ELSE {})
        \cup (IF g.TLSSecret THEN {TLSMount(vols).vol} ELSE {})
        \cup (IF g.CtConfigMap THEN {"ct-secrets", "ct-configmap"} ELSE {})
        \cup (IF g.AgentConfigMap THEN {"agent-secrets", "agent-configmap"} ELSE {})

Planned(g, vols) == Names(vols) \cup AddedVolumes(g, vols)

-----------------------------------------------------------------------------
(* The inductive invariant, on top of IInv, WriteInv and ShapeInv *)

Early  == pc \in {"received", "containers", "entries", "wrap", "template"}
Middle == pc \in {"configmap", "update", "inject"}

(* The containers' names are apart all along; only the agent's sidecar,    *)
(* the last to be added, may find its name taken.                          *)
Apart(p) ==
    /\ UniqueNames(p.init) /\ UniqueNames(p.main)
    /\ Names(p.init) \cap Names(p.main) = {}

AllNames(p) == Names(p.init) \cup Names(p.main)

InitNames == {"vault-agent", "copy-vault-token", "copy-vault-env"}

NamesInv ==
    /\ Early \/ Middle \/ pc = "agent" \/ (Allowed /\ ~Conflicting) => Apart(pod)
    /\ Early => "consul-template" \notin AllNames(pod)
    /\ Early \/ Middle => AllNames(pod) \cap InitNames = {}
    /\ pc = "agent" /\ "vault-agent" \in AllNames(pod) => startsInitAgent(cfg)

(* The place for secrets is free until consul-template takes it.           *)
Free(cs) == \A c \in Range(cs) : ConfigfilePath \notin Paths(c.mounts)

FreeInv ==
    /\ Early => Free(pod.init) /\ Free(pod.main) /\ Range(pod.main) # {}
    /\ Middle \/ pc = "agent" => (cfg.CtConfigMap <=> ~Free(pod.main))

(* The service account stays where it was.                                 *)
HasAccount(cs) == \E c \in Range(cs) : mountsServiceAccount(c)

AccountInv == pc # "answered" => (HasAccount(pod.main) <=> HasAccount(submitted.main))

(* The volumes are those submitted and those of getVolumes.                *)
VolumesInv ==
    (pc = "agent" \/ Allowed) /\ Injects =>
        pod.vols = submitted.vols \o getVolumes(cfg, submitted.vols)

(* Every container's mounts fit.                                           *)
AllFit(p) == \A c \in AllContainers(p) : Fits(c.mounts, Planned(cfg, submitted.vols))

FitInv == (pc # "answered" \/ Allowed) /\ ~Conflicting => AllFit(pod)

(* What goes wrong in a configuration that conflicts.                      *)
NoPlace(c) == ~cfg.CtConfigMap => MountAt("agent-secrets", ConfigfilePath) \in Range(c.mounts)

NoAccount(c) == ~HasAccount(submitted.main) => NoMount \in Range(c.mounts)

FlawInv ==
    /\ (pc = "agent" \/ Allowed) /\ Injects =>
        /\ startsInitAgent(cfg) /\ cfg.TokenAuthMount = "" =>
                \E c \in Range(pod.init) : NoPlace(c) /\ NoAccount(c)
        /\ cfg.TokenAuthMount # "" => tokenCopier \in Range(pod.init)
    /\ Allowed /\ cfg.AgentConfigMap =>
        /\ cfg.CtConfigMap => \E c \in Range(pod.main) : ~OnePath(c.mounts)
        /\ ~cfg.UseAgent => \E c \in Range(pod.main) : NoAccount(c)

ValidInv ==
    FreshPod => /\ NamesInv /\ FreeInv /\ AccountInv
                /\ VolumesInv /\ FitInv /\ FlawInv

-----------------------------------------------------------------------------
(* Sequences *)

(* Where the elements of a concatenation come from.                        *)
LEMMA ConcatParts ==
    ASSUME NEW S, NEW a \in Seq(S), NEW b \in Seq(S)
    PROVE  /\ \A i \in DOMAIN a : i \in DOMAIN (a \o b) /\ (a \o b)[i] = a[i]
           /\ \A i \in DOMAIN b :
                Len(a) + i \in DOMAIN (a \o b) /\ (a \o b)[Len(a) + i] = b[i]
           /\ \A i \in DOMAIN (a \o b) :
                i \in DOMAIN a \/ \E j \in DOMAIN b : i = Len(a) + j
           /\ \A i \in DOMAIN a, j \in DOMAIN b : i # Len(a) + j
           /\ Len(a) \in Nat /\ DOMAIN a \subseteq Nat /\ DOMAIN b \subseteq Nat
<1>1. /\ Len(a) \in Nat /\ Len(b) \in Nat
      /\ DOMAIN a = 1..Len(a) /\ DOMAIN b = 1..Len(b)
      /\ a \o b \in Seq(S)
  OBVIOUS
<1>2. DOMAIN (a \o b) = 1..(Len(a) + Len(b))
  BY <1>1, ConcatProperties
<1>3. \A i \in 1..(Len(a) + Len(b)) :
        (a \o b)[i] = IF i <= Len(a) THEN a[i] ELSE b[i - Len(a)]
  BY ConcatProperties
<1>4. ASSUME NEW i \in DOMAIN b
      PROVE  Len(a) + i \in DOMAIN (a \o b) /\ (a \o b)[Len(a) + i] = b[i]
  <2>1. /\ Len(a) + i \in 1..(Len(a) + Len(b)) /\ ~(Len(a) + i <= Len(a))
        /\ (Len(a) + i) - Len(a) = i
    BY <1>1
  <2> QED BY <1>2, <1>3, <2>1
<1>5. ASSUME NEW i \in DOMAIN (a \o b)
      PROVE  i \in DOMAIN a \/ \E j \in DOMAIN b : i = Len(a) + j
  <2>1. CASE i <= Len(a)
    BY <1>1, <1>2, <2>1
  <2>2. CASE i > Len(a)
    <3>1. i - Len(a) \in DOMAIN b /\ i = Len(a) + (i - Len(a))
      BY <1>1, <1>2, <2>2
    <3> QED BY <3>1
  <2> QED BY <1>1, <1>2, <2>1, <2>2
<1>6. \A i \in DOMAIN a : i \in DOMAIN (a \o b) /\ (a \o b)[i] = a[i]
  BY <1>1, <1>2, <1>3
<1>7. \A i \in DOMAIN a, j \in DOMAIN b : i # Len(a) + j
  BY <1>1
<1> QED BY <1>1, <1>4, <1>5, <1>6, <1>7

(* The names of a concatenation are unique if they are unique in its parts *)
(* and the parts share none.                                               *)
LEMMA UniqueConcat ==
    ASSUME NEW S, NEW a \in Seq(S), NEW b \in Seq(S)
    PROVE  /\ Names(a \o b) = Names(a) \cup Names(b)
           /\ UniqueNames(a \o b) <=>
                UniqueNames(a) /\ UniqueNames(b) /\ Names(a) \cap Names(b) = {}
<1>1. Names(a \o b) = Names(a) \cup Names(b)
  BY RangeConcatenation DEF Names
<1>2. ASSUME UniqueNames(a \o b)
      PROVE  UniqueNames(a) /\ UniqueNames(b) /\ Names(a) \cap Names(b) = {}
  <2>1. UniqueNames(a)
    BY <1>2, ConcatParts DEF UniqueNames
  <2>2. ASSUME NEW i \in DOMAIN b, NEW j \in DOMAIN b, b[i].name = b[j].name
        PROVE  i = j
    <3> DEFINE k == Len(a) + i
               l == Len(a) + j
    <3>1. /\ k \in DOMAIN (a \o b) /\ (a \o b)[k] = b[i]
          /\ l \in DOMAIN (a \o b) /\ (a \o b)[l] = b[j]
      BY ConcatParts, SMTT(30)
    <3>2. Len(a) \in Nat /\ i \in Nat /\ j \in Nat
      BY ConcatParts
    <3>3. k = l
      <4> HIDE DEF k, l
      <4> QED BY <1>2, <2>2, <3>1 DEF UniqueNames
    <3> QED BY <3>2, <3>3
  <2>3. ASSUME NEW i \in DOMAIN a, NEW j \in DOMAIN b PROVE a[i].name # b[j].name
    <3> DEFINE k == Len(a) + j
    <3>1. i \in DOMAIN (a \o b) /\ (a \o b)[i] = a[i]
      BY ConcatParts
    <3>2. k \in DOMAIN (a \o b) /\ (a \o b)[k] = b[j]
      BY ConcatParts, SMTT(30)
    <3>3. Len(a) \in Nat /\ i \in 1..Len(a) /\ j \in 1..Len(b)
      OBVIOUS
    <3>4. i # k
      BY <3>3
    <3> HIDE DEF k
    <3> QED BY <1>2, <3>1, <3>2, <3>4 DEF UniqueNames
  <2>4. Names(a) \cap Names(b) = {}
    BY <2>3 DEF Names, Range
  <2> QED BY <2>1, <2>2, <2>4 DEF UniqueNames
<1>3. ASSUME UniqueNames(a), UniqueNames(b), Names(a) \cap Names(b) = {}
      PROVE  UniqueNames(a \o b)
  <2> DEFINE c == a \o b
  <2> SUFFICES ASSUME NEW i \in DOMAIN c, NEW j \in DOMAIN c, c[i].name = c[j].name
               PROVE  i = j
    BY DEF UniqueNames
  <2>0. \A k \in DOMAIN a, l \in DOMAIN b : a[k].name # b[l].name
    BY <1>3 DEF Names, Range
  <2>1. \/ i \in DOMAIN a /\ c[i] = a[i]
        \/ \E k \in DOMAIN b : i = Len(a) + k /\ c[i] = b[k]
    BY ConcatParts
  <2>2. \/ j \in DOMAIN a /\ c[j] = a[j]
        \/ \E k \in DOMAIN b : j = Len(a) + k /\ c[j] = b[k]
    BY ConcatParts
  <2> HIDE DEF c
  <2> QED BY <1>3, <2>0, <2>1, <2>2 DEF UniqueNames
<1> QED BY <1>1, <1>2, <1>3

(* The same of the paths of mounts.                                        *)
LEMMA OnePathConcat ==
    ASSUME NEW a \in Seq(Mount), NEW b \in Seq(Mount)
    PROVE  /\ Paths(a \o b) = Paths(a) \cup Paths(b)
           /\ VolsOf(a \o b) = VolsOf(a) \cup VolsOf(b)
           /\ OnePath(a) /\ OnePath(b) /\ Paths(a) \cap Paths(b) = {} => OnePath(a \o b)
<1>1. /\ Paths(a \o b) = Paths(a) \cup Paths(b)
      /\ VolsOf(a \o b) = VolsOf(a) \cup VolsOf(b)
  BY RangeConcatenation DEF Paths, VolsOf
<1>2. ASSUME OnePath(a), OnePath(b), Paths(a) \cap Paths(b) = {}
      PROVE  OnePath(a \o b)
  <2> DEFINE c == a \o b
  <2> SUFFICES ASSUME NEW i \in DOMAIN c, NEW j \in DOMAIN c, c[i].path = c[j].path
               PROVE  i = j
    BY DEF OnePath
  <2>0. \A k \in DOMAIN a, l \in DOMAIN b : a[k].path # b[l].path
    BY <1>2 DEF Paths, Range
  <2>1. \/ i \in DOMAIN a /\ c[i] = a[i]
        \/ \E k \in DOMAIN b : i = Len(a) + k /\ c[i] = b[k]
    BY ConcatParts
  <2>2. \/ j \in DOMAIN a /\ c[j] = a[j]
        \/ \E k \in DOMAIN b : j = Len(a) + k /\ c[j] = b[k]
    BY ConcatParts
  <2> HIDE DEF c
  <2> QED BY <1>2, <2>0, <2>1, <2>2 DEF OnePath
<1> QED BY <1>1, <1>2

(* Short sequences.                                                        *)
LEMMA ShortTuples ==
    ASSUME NEW a, NEW b, NEW c
    PROVE  /\ DOMAIN <<a>> = {1} /\ <<a>>[1] = a
           /\ DOMAIN <<a, b>> = {1, 2} /\ <<a, b>>[1] = a /\ <<a, b>>[2] = b
           /\ DOMAIN <<a, b, c>> = {1, 2, 3}
           /\ <<a, b, c>>[1] = a /\ <<a, b, c>>[2] = b /\ <<a, b, c>>[3] = c
OBVIOUS

(* Their names.                                                            *)
LEMMA ShortNames ==
    /\ UniqueNames(<<>>) /\ Names(<<>>) = {}
    /\ \A a : UniqueNames(<<a>>) /\ Names(<<a>>) = {a.name}
    /\ \A a, b : /\ Names(<<a, b>>) = {a.name, b.name}
                 /\ a.name # b.name => UniqueNames(<<a, b>>)
<1>1. UniqueNames(<<>>) /\ Names(<<>>) = {}
  BY ShortRanges DEF UniqueNames, Names
<1>2. ASSUME NEW a PROVE UniqueNames(<<a>>) /\ Names(<<a>>) = {a.name}
  <2> DEFINE s == <<a>>
  <2>1. DOMAIN s = {1} /\ s[1] = a
    BY ShortTuples
  <2> HIDE DEF s
  <2>2. UniqueNames(s) /\ Names(s) = {a.name}
    BY <2>1 DEF UniqueNames, Names, Range
  <2> QED BY <2>2 DEF s
<1>3. ASSUME NEW a, NEW b
      PROVE  /\ Names(<<a, b>>) = {a.name, b.name}
             /\ a.name # b.name => UniqueNames(<<a, b>>)
  <2> DEFINE s == <<a, b>>
  <2>1. DOMAIN s = {1, 2} /\ s[1] = a /\ s[2] = b
    BY ShortTuples
  <2> HIDE DEF s
  <2>2. Names(s) = {a.name, b.name} /\ (a.name # b.name => UniqueNames(s))
    BY <2>1 DEF UniqueNames, Names, Range
  <2> QED BY <2>2 DEF s
<1> QED BY <1>1, <1>2, <1>3

(* Their paths and their volumes, as mounts.                               *)
LEMMA ShortMounts ==
    /\ OnePath(<<>>) /\ Paths(<<>>) = {} /\ VolsOf(<<>>) = {}
    /\ \A a : OnePath(<<a>>) /\ Paths(<<a>>) = {a.path} /\ VolsOf(<<a>>) = {a.vol}
    /\ \A a, b : /\ Paths(<<a, b>>) = {a.path, b.path}
                 /\ VolsOf(<<a, b>>) = {a.vol, b.vol}
                 /\ a \in Range(<<a, b>>) /\ b \in Range(<<a, b>>)
                 /\ a.path # b.path => OnePath(<<a, b>>)
    /\ \A a, b, c : /\ Paths(<<a, b, c>>) = {a.path, b.path, c.path}
                    /\ VolsOf(<<a, b, c>>) = {a.vol, b.vol, c.vol}
                    /\ a \in Range(<<a, b, c>>)
                    /\ a.path # b.path /\ a.path # c.path /\ b.path # c.path =>
                            OnePath(<<a, b, c>>)
<1>1. OnePath(<<>>) /\ Paths(<<>>) = {} /\ VolsOf(<<>>) = {}
  BY ShortRanges DEF OnePath, Paths, VolsOf
<1>2. ASSUME NEW a PROVE OnePath(<<a>>) /\ Paths(<<a>>) = {a.path} /\ VolsOf(<<a>>) = {a.vol}
  <2> DEFINE s == <<a>>
  <2>1. DOMAIN s = {1} /\ s[1] = a
    BY ShortTuples
  <2> HIDE DEF s
  <2>2. OnePath(s) /\ Paths(s) = {a.path} /\ VolsOf(s) = {a.vol}
    BY <2>1 DEF OnePath, Paths, VolsOf, Range
  <2> QED BY <2>2 DEF s
<1>3. ASSUME NEW a, NEW b
      PROVE  /\ Paths(<<a, b>>) = {a.path, b.path} /\ VolsOf(<<a, b>>) = {a.vol, b.vol}
             /\ a \in Range(<<a, b>>) /\ b \in Range(<<a, b>>)
             /\ a.path # b.path => OnePath(<<a, b>>)
  <2> DEFINE s == <<a, b>>
  <2>1. DOMAIN s = {1, 2} /\ s[1] = a /\ s[2] = b
    BY ShortTuples
  <2> HIDE DEF s
  <2>2. Range(s) = {a, b}
    BY <2>1 DEF Range
  <2>3. Paths(s) = {a.path, b.path} /\ VolsOf(s) = {a.vol, b.vol}
    BY <2>2 DEF Paths, VolsOf
  <2>4. a.path # b.path => OnePath(s)
    BY <2>1 DEF OnePath
  <2> QED BY <2>2, <2>3, <2>4 DEF s
<1>4. ASSUME NEW a, NEW b, NEW c
      PROVE  /\ Paths(<<a, b, c>>) = {a.path, b.path, c.path}
             /\ VolsOf(<<a, b, c>>) = {a.vol, b.vol, c.vol}
             /\ a \in Range(<<a, b, c>>)
             /\ a.path # b.path /\ a.path # c.path /\ b.path # c.path =>
                    OnePath(<<a, b, c>>)
  <2> DEFINE s == <<a, b, c>>
  <2>1. DOMAIN s = {1, 2, 3} /\ s[1] = a /\ s[2] = b /\ s[3] = c
    BY ShortTuples
  <2> HIDE DEF s
  <2>2. Range(s) = {a, b, c}
    BY <2>1 DEF Range
  <2>3. Paths(s) = {a.path, b.path, c.path} /\ VolsOf(s) = {a.vol, b.vol, c.vol}
    BY <2>2 DEF Paths, VolsOf
  <2>4. a.path # b.path /\ a.path # c.path /\ b.path # c.path => OnePath(s)
    BY <2>1 DEF OnePath
  <2> QED BY <2>2, <2>3, <2>4 DEF s
<1> QED BY <1>1, <1>2, <1>3, <1>4

-----------------------------------------------------------------------------
(* What the webhook adds, as the validation of a pod sees it *)

(* Two lists of mounts that fit, behind each other.                        *)
LEMMA FitsConcat ==
    ASSUME NEW a \in Seq(Mount), NEW b \in Seq(Mount), NEW plan,
           Fits(a, plan), Fits(b, plan), Paths(a) \cap Paths(b) = {}
    PROVE  Fits(a \o b, plan) /\ Paths(a \o b) = Paths(a) \cup Paths(b)
BY OnePathConcat DEF Fits

(* The TLS secret's volume and mount have one of two names and paths.      *)
LEMMA TLSMounts ==
    ASSUME NEW vols
    PROVE  /\ TLSMount(vols).vol \in {"vault-tls", "vault-env-tls"}
           /\ TLSMount(vols).path \in {"/vault/tls/", "/vault-env/tls/"}
BY DEF TLSMount, MountAt

(* Two elements, or none.                                                  *)
LEMMA NamesIf ==
    ASSUME NEW b, NEW x, NEW y, x.name # y.name
    PROVE  /\ UniqueNames(IF b THEN <<x, y>> ELSE <<>>)
           /\ Names(IF b THEN <<x, y>> ELSE <<>>) = IF b THEN {x.name, y.name} ELSE {}
<1>1. CASE b
  BY <1>1, ShortNames
<1>2. CASE ~b
  BY <1>2, ShortNames
<1> QED BY <1>1, <1>2

(* The volumes that getVolumes returns have distinct names.                *)
LEMMA VolumeNames ==
    ASSUME NEW g, NEW vols
    PROVE  /\ Names(getVolumes(g, vols)) = AddedVolumes(g, vols)
           /\ UniqueNames(getVolumes(g, vols))
<1> DEFINE v(n, f) == [name |-> n, from |-> f]
           s1 == <<v(VaultEnvVolumeName, "emptyDir")>>
           s2 == IF g.UseAgent \/ g.CtConfigMap
                 THEN <<v("vault-agent-config",
                          IF g.AgentConfigMap THEN "AgentConfigMap" ELSE "generated")>>
                 ELSE <<>>
           s3 == IF g.TLSSecret THEN <<v(TLSMount(vols).vol, "TLSSecret")>> ELSE <<>>
           s4 == IF g.CtConfigMap
                 THEN << v("ct-secrets", "emptyDir"), v("ct-configmap", "CtConfigMap") >>
                 ELSE <<>>
           s5 == IF g.AgentConfigMap
                 THEN << v("agent-secrets", "emptyDir"),
                         v("agent-configmap", "AgentConfigMap") >>
                 ELSE <<>>
           n2 == IF g.UseAgent \/ g.CtConfigMap THEN {"vault-agent-config"} ELSE {}
           n3 == IF g.TLSSecret THEN {TLSMount(vols).vol} ELSE {}
           n4 == IF g.CtConfigMap THEN {"ct-secrets", "ct-configmap"} ELSE {}
           n5 == IF g.AgentConfigMap THEN {"agent-secrets", "agent-configmap"} ELSE {}
<1>1. getVolumes(g, vols) = (((s1 \o s2) \o s3) \o s4) \o s5
  BY DEF getVolumes
<1>2. \A n, f : v(n, f).name = n
  OBVIOUS
<1>3. /\ UniqueNames(s1) /\ Names(s1) = {VaultEnvVolumeName}
      /\ UniqueNames(s2) /\ Names(s2) = n2
      /\ UniqueNames(s3) /\ Names(s3) = n3
  BY <1>2, ShortNames
<1>4. /\ UniqueNames(s4) /\ Names(s4) = n4
      /\ UniqueNames(s5) /\ Names(s5) = n5
  <2>1. UniqueNames(s4) /\ Names(s4) = n4
    <3>1. PICK x, y : x = v("ct-secrets", "emptyDir") /\ y = v("ct-configmap", "CtConfigMap")
      OBVIOUS
    <3>2. x.name = "ct-secrets" /\ y.name = "ct-configmap" /\ x.name # y.name
      BY <3>1
    <3>3. s4 = IF g.CtConfigMap THEN <<x, y>> ELSE <<>>
      BY <3>1
    <3>4. n4 = IF g.CtConfigMap THEN {x.name, y.name} ELSE {}
      BY <3>2
    <3> HIDE DEF s4, n4, v
    <3> QED BY <3>2, <3>3, <3>4, NamesIf
  <2>2. UniqueNames(s5) /\ Names(s5) = n5
    <3>1. PICK x, y : x = v("agent-secrets", "emptyDir") /\ y = v("agent-configmap", "AgentConfigMap")
      OBVIOUS
    <3>2. x.name = "agent-secrets" /\ y.name = "agent-configmap" /\ x.name # y.name
      BY <3>1
    <3>3. s5 = IF g.AgentConfigMap THEN <<x, y>> ELSE <<>>
      BY <3>1
    <3>4. n5 = IF g.AgentConfigMap THEN {x.name, y.name} ELSE {}
      BY <3>2
    <3> HIDE DEF s5, n5, v
    <3> QED BY <3>2, <3>3, <3>4, NamesIf
  <2> QED BY <2>1, <2>2
<1>5. \A a, b : <<a>> \in Seq({a}) /\ <<a, b>> \in Seq({a, b}) /\ <<>> \in Seq({})
  OBVIOUS
<1>6. /\ \E S : s1 \in Seq(S)
      /\ \E S : s2 \in Seq(S)
      /\ \E S : s3 \in Seq(S)
      /\ \E S : s4 \in Seq(S)
      /\ \E S : s5 \in Seq(S)
  BY <1>5
<1>7. /\ n2 \subseteq {"vault-agent-config"} /\ n3 \subseteq {"vault-tls", "vault-env-tls"}
      /\ n4 \subseteq {"ct-secrets", "ct-configmap"}
      /\ n5 \subseteq {"agent-secrets", "agent-configmap"}
      /\ VaultEnvVolumeName = "vault-env"
  BY TLSMounts DEF VaultEnvVolumeName
<1>8. AddedVolumes(g, vols) = {VaultEnvVolumeName} \cup n2 \cup n3 \cup n4 \cup n5
  BY DEF AddedVolumes
<1> HIDE DEF s1, s2, s3, s4, s5, n2, n3, n4, n5
<1>9. PICK S : /\ s1 \in Seq(S) /\ s2 \in Seq(S) /\ s3 \in Seq(S)
               /\ s4 \in Seq(S) /\ s5 \in Seq(S)
  <2>1. PICK S1, S2, S3, S4, S5 : /\ s1 \in Seq(S1) /\ s2 \in Seq(S2) /\ s3 \in Seq(S3)
                                  /\ s4 \in Seq(S4) /\ s5 \in Seq(S5)
    BY <1>6
  <2> DEFINE S == S1 \cup S2 \cup S3 \cup S4 \cup S5
  <2>2. s1 \in Seq(S) /\ s2 \in Seq(S) /\ s3 \in Seq(S) /\ s4 \in Seq(S) /\ s5 \in Seq(S)
    BY <2>1
  <2> QED BY <2>2
<1> DEFINE t2 == s1 \o s2
           t3 == t2 \o s3
           t4 == t3 \o s4
           t5 == t4 \o s5
<1> DEFINE m2 == {VaultEnvVolumeName} \cup n2
           m3 == m2 \cup n3
           m4 == m3 \cup n4
<1>14. /\ {VaultEnvVolumeName} \cap n2 = {} /\ m2 \cap n3 = {}
       /\ m3 \cap n4 = {} /\ m4 \cap n5 = {}
  BY <1>7
<1>15. AddedVolumes(g, vols) = m4 \cup n5
  BY <1>8
<1> HIDE DEF m2, m3, m4
<1>10. t2 \in Seq(S) /\ UniqueNames(t2) /\ Names(t2) = m2
  BY <1>3, <1>9, <1>14, UniqueConcat DEF m2
<1> HIDE DEF t2
<1>11. t3 \in Seq(S) /\ UniqueNames(t3) /\ Names(t3) = m3
  BY <1>3, <1>9, <1>10, <1>14, UniqueConcat DEF m3
<1> HIDE DEF t3
<1>12. t4 \in Seq(S) /\ UniqueNames(t4) /\ Names(t4) = m4
  BY <1>4, <1>9, <1>11, <1>14, UniqueConcat DEF m4
<1> HIDE DEF t4
<1>13. UniqueNames(t5) /\ Names(t5) = m4 \cup n5
  BY <1>4, <1>9, <1>12, <1>14, UniqueConcat
<1> QED BY <1>1, <1>15, <1>13 DEF t2, t3, t4

(* The mounts that every wrapped container and every agent gets.           *)
LEMMA BaseFits ==
    ASSUME NEW g, NEW vols, NEW plan, VaultEnvVolumeName \in plan,
           g.TLSSecret => TLSMount(vols).vol \in plan
    PROVE  LET ms == containerVolMounts(g, vols)
           IN  /\ ms \in Seq(Mount) /\ Fits(ms, plan)
               /\ Paths(ms) \subseteq {VaultDir, TLSMount(vols).path}
<1> DEFINE ms == containerVolMounts(g, vols)
           vm == MountAt(VaultEnvVolumeName, VaultDir)
           s1 == <<vm>>
           s2 == IF g.TLSSecret THEN <<TLSMount(vols)>> ELSE <<>>
<1>1. vm.vol = VaultEnvVolumeName /\ vm.path = VaultDir
  BY DEF MountAt
<1>2. s1 \in Seq(Mount) /\ Fits(s1, plan) /\ Paths(s1) = {VaultDir}
  <2>1. s1 \in Seq(Mount)
    BY MountType, TextAssumption DEF VaultEnvVolumeName, VaultDir
  <2> HIDE DEF vm
  <2> QED BY <1>1, <2>1, ShortMounts DEF Fits
<1>3. s2 \in Seq(Mount) /\ Fits(s2, plan) /\ Paths(s2) \subseteq {TLSMount(vols).path}
  <2>1. s2 \in Seq(Mount)
    BY TLSMountType
  <2> QED BY <2>1, ShortMounts DEF Fits
<1>4. VaultDir # TLSMount(vols).path
  BY TLSMounts DEF VaultDir
<1>5. ms = s1 \o s2
  BY DEF containerVolMounts
<1> HIDE DEF ms, s1, s2
<1>6. Fits(ms, plan) /\ Paths(ms) \subseteq {VaultDir, TLSMount(vols).path}
  BY <1>2, <1>3, <1>4, <1>5, FitsConcat
<1> QED BY <1>2, <1>3, <1>5, <1>6 DEF ms

(* A container with three or two mounts of its own behind those.           *)
LEMMA BehindBase ==
    ASSUME NEW g, NEW vols, NEW plan, NEW ms \in Seq(Mount), Fits(ms, plan),
           VaultEnvVolumeName \in plan, g.TLSSecret => TLSMount(vols).vol \in plan,
           Paths(ms) \cap {VaultDir, "/vault/tls/", "/vault-env/tls/"} = {}
    PROVE  LET ts == containerVolMounts(g, vols) \o ms
           IN  /\ ts \in Seq(Mount) /\ Fits(ts, plan)
               /\ Paths(ts) \subseteq {VaultDir, TLSMount(vols).path} \cup Paths(ms)
               /\ Range(ms) \subseteq Range(ts)
<1>1. PICK bs : bs = containerVolMounts(g, vols)
  OBVIOUS
<1>2. /\ bs \in Seq(Mount) /\ Fits(bs, plan)
      /\ Paths(bs) \subseteq {VaultDir, TLSMount(vols).path}
  BY <1>1, BaseFits
<1>3. Paths(bs) \cap Paths(ms) = {}
  BY <1>2, TLSMounts
<1>4. bs \o ms \in Seq(Mount) /\ Range(ms) \subseteq Range(bs \o ms)
  BY <1>2, RangeConcatenation
<1>5. Fits(bs \o ms, plan) /\ Paths(bs \o ms) = Paths(bs) \cup Paths(ms)
  BY <1>2, <1>3, FitsConcat
<1> QED BY <1>1, <1>2, <1>4, <1>5

(* The container of consul-template.                                       *)
LEMMA TemplateFits ==
    ASSUME NEW g, NEW vols, NEW share, NEW plan,
           {VaultEnvVolumeName, "ct-secrets", "ct-configmap"} \subseteq plan,
           g.TLSSecret => TLSMount(vols).vol \in plan
    PROVE  LET ct == consulTemplate(g, vols, share)
           IN  /\ ct.name = "consul-template" /\ Fits(ct.mounts, plan)
               /\ ServiceAccountPath \notin Paths(ct.mounts)
<1> DEFINE ms == << MountAt("ct-secrets", ConfigfilePath),
                    MountAt(VaultEnvVolumeName, "/home/consul-template"),
                    MountAt("ct-configmap", "/vault/ct-config/config.hcl") >>
           ps == {"/vault/secrets", "/home/consul-template", "/vault/ct-config/config.hcl"}
<1>1. ms \in Seq(Mount)
  <2>1. \A a, b, c \in Mount : <<a, b, c>> \in Seq(Mount)
    OBVIOUS
  <2> QED BY <2>1, MountType, TextAssumption DEF ConfigfilePath, VaultEnvVolumeName
<1>2. Fits(ms, plan) /\ Paths(ms) = ps
  <2>1. PICK a, b, c : /\ a = MountAt("ct-secrets", ConfigfilePath)
                       /\ b = MountAt(VaultEnvVolumeName, "/home/consul-template")
                       /\ c = MountAt("ct-configmap", "/vault/ct-config/config.hcl")
    OBVIOUS
  <2>2. /\ a.path = "/vault/secrets" /\ b.path = "/home/consul-template"
        /\ c.path = "/vault/ct-config/config.hcl"
        /\ a.vol \in plan /\ b.vol \in plan /\ c.vol \in plan
    BY <2>1 DEF MountAt, ConfigfilePath
  <2>3. Fits(<<a, b, c>>, plan) /\ Paths(<<a, b, c>>) = ps
    BY <2>2, ShortMounts DEF Fits
  <2> QED BY <2>1, <2>3
<1>3. ps \cap {VaultDir, "/vault/tls/", "/vault-env/tls/"} = {}
  BY DEF VaultDir
<1>4. ServiceAccountPath \notin ps \cup {VaultDir, "/vault/tls/", "/vault-env/tls/"}
  BY DEF VaultDir, ServiceAccountPath
<1> DEFINE ct == consulTemplate(g, vols, share)
<1>5. ct.name = "consul-template" /\ ct.mounts = containerVolMounts(g, vols) \o ms
  BY DEF consulTemplate, Injected
<1> HIDE DEF ms, ps, ct
<1>6. Fits(ct.mounts, plan) /\ Paths(ct.mounts) \subseteq {VaultDir, TLSMount(vols).path} \cup ps
  <2>1. VaultEnvVolumeName \in plan /\ Paths(ms) \cap {VaultDir, "/vault/tls/", "/vault-env/tls/"} = {}
    BY <1>2, <1>3
  <2>2. LET ts == containerVolMounts(g, vols) \o ms
        IN  Fits(ts, plan) /\ Paths(ts) \subseteq {VaultDir, TLSMount(vols).path} \cup Paths(ms)
    BY <1>1, <1>2, <2>1, BehindBase
  <2> QED BY <1>2, <1>5, <2>2
<1> QED BY <1>4, <1>5, <1>6, TLSMounts DEF ct

(* The agent's sidecar, where a container mounts the service account.      *)
LEMMA SidecarFits ==
    ASSUME NEW g, NEW vols, NEW cs \in Seq(Container), NEW share, NEW plan,
           {VaultEnvVolumeName, "agent-secrets", "agent-configmap"} \subseteq plan,
           g.TLSSecret => TLSMount(vols).vol \in plan,
           getServiceAccountMount(cs).path = ServiceAccountPath,
           getServiceAccountMount(cs).vol \in plan
    PROVE  Fits(agentSidecar(g, vols, cs, share).mounts, plan)
<1> DEFINE sa == getServiceAccountMount(cs)
           ms == << sa,
                    MountAt("agent-secrets", ConfigfilePath),
                    MountAt("agent-configmap", "/vault/config/config.hcl") >>
           ps == {ServiceAccountPath, "/vault/secrets", "/vault/config/config.hcl"}
<1>0. sa \in Mount
  BY ServiceAccountType
<1> HIDE DEF sa
<1>1. ms \in Seq(Mount)
  <2>1. \A a, b, c \in Mount : <<a, b, c>> \in Seq(Mount)
    OBVIOUS
  <2> QED BY <1>0, <2>1, MountType, TextAssumption DEF ConfigfilePath
<1>2. Fits(ms, plan) /\ Paths(ms) = ps
  <2>1. PICK b, c : /\ b = MountAt("agent-secrets", ConfigfilePath)
                    /\ c = MountAt("agent-configmap", "/vault/config/config.hcl")
    OBVIOUS
  <2>2. /\ sa.path = ServiceAccountPath /\ b.path = "/vault/secrets"
        /\ c.path = "/vault/config/config.hcl"
        /\ sa.vol \in plan /\ b.vol \in plan /\ c.vol \in plan
    BY <2>1 DEF MountAt, ConfigfilePath, sa
  <2>3. /\ ServiceAccountPath # "/vault/secrets"
        /\ ServiceAccountPath # "/vault/config/config.hcl"
    BY DEF ServiceAccountPath
  <2>4. Fits(<<sa, b, c>>, plan) /\ Paths(<<sa, b, c>>) = ps
    BY <2>2, <2>3, ShortMounts DEF Fits
  <2> QED BY <2>1, <2>4
<1>3. ps \cap {VaultDir, "/vault/tls/", "/vault-env/tls/"} = {}
  BY DEF VaultDir, ServiceAccountPath
<1> DEFINE ag == agentSidecar(g, vols, cs, share)
<1>4. ag.mounts = containerVolMounts(g, vols) \o ms
  BY DEF agentSidecar, Injected, sa
<1> HIDE DEF ms, ps, ag
<1>5. Fits(ag.mounts, plan)
  BY <1>1, <1>2, <1>3, <1>4, BehindBase
<1> QED BY <1>5 DEF ag

(* And where none does.                                                    *)
LEMMA SidecarMounts ==
    ASSUME NEW g, NEW vols, NEW cs \in Seq(Container), NEW share
    PROVE  /\ agentSidecar(g, vols, cs, share).name = "vault-agent"
           /\ getServiceAccountMount(cs) \in Range(agentSidecar(g, vols, cs, share).mounts)
<1> DEFINE sa == getServiceAccountMount(cs)
           ms == << sa,
                    MountAt("agent-secrets", ConfigfilePath),
                    MountAt("agent-configmap", "/vault/config/config.hcl") >>
           ag == agentSidecar(g, vols, cs, share)
<1>1. sa \in Mount
  BY ServiceAccountType
<1>2. ag.name = "vault-agent" /\ ag.mounts = containerVolMounts(g, vols) \o ms
  BY DEF agentSidecar, Injected
<1> HIDE DEF sa, ag
<1>3. ms \in Seq(Mount)
  <2>1. \A a, b, c \in Mount : <<a, b, c>> \in Seq(Mount)
    OBVIOUS
  <2> QED BY <1>1, <2>1, MountType, TextAssumption DEF ConfigfilePath
<1>4. sa \in Range(ms)
  BY ShortMounts
<1> HIDE DEF ms
<1>5. sa \in Range(ag.mounts)
  BY <1>2, <1>3, <1>4, BaseTypes, RangeConcatenation
<1> QED BY <1>2, <1>5 DEF sa, ag

(* One mount, or none.                                                     *)
LEMMA MountUnless ==
    ASSUME NEW b, NEW m \in Mount
    PROVE  LET s == IF b THEN <<>> ELSE <<m>>
           IN  /\ s \in Seq(Mount) /\ OnePath(s)
               /\ Paths(s) \subseteq {m.path}
               /\ VolsOf(s) \subseteq (IF b THEN {} ELSE {m.vol})
               /\ ~b => m \in Range(s)
<1>1. CASE b
  <2>1. <<>> \in Seq(Mount)
    OBVIOUS
  <2> QED BY <1>1, <2>1, ShortMounts
<1>2. CASE ~b
  <2>1. <<m>> \in Seq(Mount)
    OBVIOUS
  <2> QED BY <1>2, <2>1, ShortMounts, ShortRanges
<1> QED BY <1>1, <1>2

(* The init container of the agent: what it mounts beside the base mounts. *)
InitAgentMounts(g, cs) ==
    << getServiceAccountMount(cs),
       MountAt("vault-agent-config", "/vault/agent/") >>
        \o (IF g.CtConfigMap THEN <<>> ELSE <<MountAt("agent-secrets", ConfigfilePath)>>)

(* They are behind the base mounts, the service account among them.        *)
LEMMA InitAgentShape ==
    ASSUME NEW g, NEW vols, NEW cs \in Seq(Container)
    PROVE  LET ag == initAgent(g, vols, cs)
               ms == InitAgentMounts(g, cs)
           IN  /\ ms \in Seq(Mount)
               /\ ag.name = "vault-agent"
               /\ ag.mounts = containerVolMounts(g, vols) \o ms
               /\ getServiceAccountMount(cs) \in Range(ag.mounts)
               /\ ~g.CtConfigMap => MountAt("agent-secrets", ConfigfilePath) \in Range(ag.mounts)
<1> DEFINE sa == getServiceAccountMount(cs)
           cm == MountAt("vault-agent-config", "/vault/agent/")
           as == MountAt("agent-secrets", ConfigfilePath)
           s1 == <<sa, cm>>
           s2 == IF g.CtConfigMap THEN <<>> ELSE <<as>>
           ms == InitAgentMounts(g, cs)
           base == containerVolMounts(g, vols)
           ag == initAgent(g, vols, cs)
<1>1. sa \in Mount /\ cm \in Mount /\ as \in Mount
  BY ServiceAccountType, MountType, TextAssumption DEF ConfigfilePath
<1>2. ag.name = "vault-agent" /\ ag.mounts = (base \o s1) \o s2
  BY DEF initAgent, Injected
<1>3. ms = s1 \o s2
  BY DEF InitAgentMounts
<1> HIDE DEF sa, cm, as, ms, base, ag
<1>4. s1 \in Seq(Mount) /\ sa \in Range(s1)
  BY <1>1, ShortMounts
<1>5. s2 \in Seq(Mount) /\ (~g.CtConfigMap => as \in Range(s2))
  BY <1>1, MountUnless
<1>6. base \in Seq(Mount)
  BY BaseTypes DEF base
<1> HIDE DEF s1, s2
<1>7. (base \o s1) \o s2 = base \o (s1 \o s2)
  BY <1>4, <1>5, <1>6, ConcatAssociative
<1>8. /\ ms \in Seq(Mount) /\ sa \in Range(ms)
      /\ ~g.CtConfigMap => as \in Range(ms)
  <2>1. s1 \o s2 \in Seq(Mount)
    BY <1>4, <1>5
  <2>2. Range(s1 \o s2) = Range(s1) \cup Range(s2)
    BY <1>4, <1>5, RangeConcatenation
  <2> QED BY <1>3, <1>4, <1>5, <2>1, <2>2
<1>9. Range(base \o ms) = Range(base) \cup Range(ms)
  BY <1>6, <1>8, RangeConcatenation
<1> QED BY <1>2, <1>3, <1>7, <1>8, <1>9 DEF sa, as, ms, base, ag

(* They fit, where a container mounts the service account.                 *)
LEMMA InitAgentFits ==
    ASSUME NEW g, NEW vols, NEW cs \in Seq(Container), NEW plan,
           {VaultEnvVolumeName, "vault-agent-config"} \subseteq plan,
           g.TLSSecret => TLSMount(vols).vol \in plan,
           g.CtConfigMap \/ "agent-secrets" \in plan,
           getServiceAccountMount(cs).path = ServiceAccountPath,
           getServiceAccountMount(cs).vol \in plan
    PROVE  Fits(initAgent(g, vols, cs).mounts, plan)
<1> DEFINE sa == getServiceAccountMount(cs)
           cm == MountAt("vault-agent-config", "/vault/agent/")
           as == MountAt("agent-secrets", ConfigfilePath)
           s1 == <<sa, cm>>
           s2 == IF g.CtConfigMap THEN <<>> ELSE <<as>>
           ms == InitAgentMounts(g, cs)
           ag == initAgent(g, vols, cs)
<1>1. sa \in Mount /\ cm \in Mount /\ as \in Mount
  BY ServiceAccountType, MountType, TextAssumption DEF ConfigfilePath
<1>2. /\ sa.path = ServiceAccountPath /\ cm.path = "/vault/agent/" /\ as.path = "/vault/secrets"
      /\ sa.vol \in plan /\ cm.vol \in plan /\ as.vol = "agent-secrets"
  BY DEF MountAt, ConfigfilePath
<1>3. ms = s1 \o s2
  BY DEF InitAgentMounts
<1>4. ms \in Seq(Mount) /\ ag.mounts = containerVolMounts(g, vols) \o ms
  BY InitAgentShape
<1> HIDE DEF sa, cm, as, ms, ag
<1>5. s1 \in Seq(Mount) /\ Fits(s1, plan) /\ Paths(s1) = {ServiceAccountPath, "/vault/agent/"}
  <2>1. s1 \in Seq(Mount)
    BY <1>1
  <2>2. sa.path # cm.path
    BY <1>2 DEF ServiceAccountPath
  <2>3. Fits(s1, plan) /\ Paths(s1) = {sa.path, cm.path}
    BY <1>2, <2>2, ShortMounts DEF Fits
  <2> QED BY <1>2, <2>1, <2>3
<1>6. s2 \in Seq(Mount) /\ Fits(s2, plan) /\ Paths(s2) \subseteq {"/vault/secrets"}
  <2>1. /\ s2 \in Seq(Mount) /\ OnePath(s2) /\ Paths(s2) \subseteq {as.path}
        /\ VolsOf(s2) \subseteq (IF g.CtConfigMap THEN {} ELSE {as.vol})
    BY <1>1, MountUnless
  <2> HIDE DEF s2
  <2> QED BY <1>2, <2>1 DEF Fits
<1> HIDE DEF s1, s2
<1>7. Paths(s1) \cap Paths(s2) = {}
  BY <1>5, <1>6 DEF ServiceAccountPath
<1>8. /\ Fits(ms, plan)
      /\ Paths(ms) \subseteq {ServiceAccountPath, "/vault/agent/", "/vault/secrets"}
  BY <1>3, <1>5, <1>6, <1>7, FitsConcat
<1>9. VaultEnvVolumeName \in plan /\ Paths(ms) \cap {VaultDir, "/vault/tls/", "/vault-env/tls/"} = {}
  BY <1>8 DEF VaultDir, ServiceAccountPath
<1>10. Fits(ag.mounts, plan)
  BY <1>4, <1>8, <1>9, BehindBase
<1> QED BY <1>10 DEF ag

(* The containers that copy the token and vault-env.                       *)
LEMMA CopierMounts ==
    /\ tokenCopier.name = "copy-vault-token" /\ envCopier.name = "copy-vault-env"
    /\ MountAt("token", "/token") \in Range(tokenCopier.mounts)
    /\ \A plan : {VaultEnvVolumeName, "token"} \subseteq plan => Fits(tokenCopier.mounts, plan)
    /\ \A plan : VaultEnvVolumeName \in plan => Fits(envCopier.mounts, plan)
<1>1. PICK a, b : a = MountAt(VaultEnvVolumeName, VaultDir) /\ b = MountAt("token", "/token")
  OBVIOUS
<1>2. /\ tokenCopier.name = "copy-vault-token" /\ envCopier.name = "copy-vault-env"
      /\ tokenCopier.mounts = <<a, b>> /\ envCopier.mounts = <<a>>
  BY <1>1 DEF tokenCopier, envCopier, Injected
<1>3. a.path # b.path /\ a.vol = VaultEnvVolumeName /\ b.vol = "token"
  BY <1>1 DEF MountAt, VaultDir
<1>4. \A plan : {VaultEnvVolumeName, "token"} \subseteq plan => Fits(<<a, b>>, plan)
  BY <1>3, ShortMounts DEF Fits
<1>5. \A plan : VaultEnvVolumeName \in plan => Fits(<<a>>, plan)
  BY <1>3, ShortMounts DEF Fits
<1>6. b \in Range(<<a, b>>)
  BY ShortMounts
<1> QED BY <1>1, <1>2, <1>4, <1>5, <1>6

-----------------------------------------------------------------------------
(* What the webhook changes, as validation sees it *)

(* A container that is wrapped.                                            *)
LEMMA WrapFits ==
    ASSUME NEW c \in Container, NEW argv \in Seq(Text), NEW g, NEW vols, NEW plan,
           Fits(c.mounts, plan), VaultEnvVolumeName \in plan,
           g.TLSSecret => TLSMount(vols).vol \in plan,
           VaultDir \notin Paths(c.mounts), TLSMount(vols).path \notin Paths(c.mounts)
    PROVE  Fits(wrap(c, argv, g, vols).mounts, plan)
<1> DEFINE ms == wrapperMounts(g, vols)
           w  == wrap(c, argv, g, vols)
<1>1. w.mounts = c.mounts \o ms
  BY DEF wrap, Container
<1>2. ms = containerVolMounts(g, vols)
  BY BaseMounts
<1> HIDE DEF ms, w
<1>3. ms \in Seq(Mount) /\ Fits(ms, plan) /\ Paths(ms) \subseteq {VaultDir, TLSMount(vols).path}
  BY <1>2, BaseFits
<1>4. c.mounts \in Seq(Mount)
  BY DEF Container
<1>5. Paths(c.mounts) \cap Paths(ms) = {}
  BY <1>3
<1>6. Fits(w.mounts, plan)
  BY <1>1, <1>3, <1>4, <1>5, FitsConcat
<1> QED BY <1>6 DEF w

(* Its paths, whatever they were.                                          *)
LEMMA WrapPaths ==
    ASSUME NEW c \in Container, NEW argv \in Seq(Text), NEW g, NEW vols
    PROVE  Paths(wrap(c, argv, g, vols).mounts) \subseteq
                Paths(c.mounts) \cup {VaultDir, "/vault/tls/", "/vault-env/tls/"}
             /\ Paths(c.mounts) \subseteq Paths(wrap(c, argv, g, vols).mounts)
<1> DEFINE ms == wrapperMounts(g, vols)
           w  == wrap(c, argv, g, vols)
           plan == {VaultEnvVolumeName, TLSMount(vols).vol}
<1>1. w.mounts = c.mounts \o ms
  BY DEF wrap, Container
<1>2. ms = containerVolMounts(g, vols)
  BY BaseMounts
<1> HIDE DEF ms, w
<1>3. ms \in Seq(Mount) /\ Paths(ms) \subseteq {VaultDir, TLSMount(vols).path}
  <2>1. VaultEnvVolumeName \in plan /\ TLSMount(vols).vol \in plan
    OBVIOUS
  <2> HIDE DEF plan
  <2> QED BY <1>2, <2>1, BaseFits
<1>4. c.mounts \in Seq(Mount)
  BY DEF Container
<1>5. Paths(w.mounts) = Paths(c.mounts) \cup Paths(ms)
  BY <1>1, <1>3, <1>4, OnePathConcat
<1> QED BY <1>3, <1>5, TLSMounts DEF w

(* A container that gets one more mount.                                   *)
LEMMA MountingFits ==
    ASSUME NEW c \in Container, NEW m \in Mount, NEW plan
    PROVE  LET w == Mounting(c, m)
           IN  /\ w.name = c.name
               /\ Paths(w.mounts) = Paths(c.mounts) \cup {m.path}
               /\ m \in Range(w.mounts) /\ Range(c.mounts) \subseteq Range(w.mounts)
               /\ Fits(c.mounts, plan) /\ m.vol \in plan /\ m.path \notin Paths(c.mounts) =>
                        Fits(w.mounts, plan)
               /\ m.path \in Paths(c.mounts) => ~OnePath(w.mounts)
<1> DEFINE w == Mounting(c, m)
           one == <<m>>
<1>0. c.mounts \in Seq(Mount)
  BY DEF Container
<1>1. w.name = c.name /\ w.mounts = c.mounts \o one
  <2>1. w.name = c.name /\ w.mounts = Append(c.mounts, m)
    BY DEF Mounting, Container
  <2> QED BY <1>0, <2>1, AppendIsConcat
<1>2. /\ one \in Seq(Mount) /\ Paths(one) = {m.path} /\ m \in Range(one)
      /\ OnePath(one) /\ VolsOf(one) = {m.vol}
      /\ 1 \in DOMAIN one /\ one[1] = m
  BY ShortMounts, ShortRanges
<1> HIDE DEF w, one
<1>3. /\ Paths(w.mounts) = Paths(c.mounts) \cup {m.path}
      /\ Range(w.mounts) = Range(c.mounts) \cup Range(one)
  BY <1>0, <1>1, <1>2, OnePathConcat, RangeConcatenation
<1>4. ASSUME Fits(c.mounts, plan), m.vol \in plan, m.path \notin Paths(c.mounts)
      PROVE  Fits(w.mounts, plan)
  <2>1. Fits(one, plan) /\ Paths(c.mounts) \cap Paths(one) = {}
    BY <1>2, <1>4 DEF Fits
  <2> QED BY <1>0, <1>1, <1>2, <1>4, <2>1, FitsConcat
<1>5. ASSUME m.path \in Paths(c.mounts) PROVE ~OnePath(w.mounts)
  <2>1. PICK i \in DOMAIN c.mounts : c.mounts[i].path = m.path
    BY <1>5 DEF Paths, Range
  <2> DEFINE j == Len(c.mounts) + 1
             ws == w.mounts
  <2>2. i \in DOMAIN ws /\ ws[i] = c.mounts[i]
    BY <1>0, <1>1, <1>2, ConcatParts
  <2>3. j \in DOMAIN ws /\ ws[j] = m /\ i # j
    BY <1>0, <1>1, <1>2, ConcatParts
  <2> HIDE DEF j, ws
  <2>4. ~OnePath(ws)
    BY <2>1, <2>2, <2>3 DEF OnePath
  <2> QED BY <2>4 DEF ws
<1> QED BY <1>1, <1>2, <1>3, <1>4, <1>5 DEF w

-----------------------------------------------------------------------------
(* Lists of containers *)

(* Other containers of the same names.                                     *)
LEMMA SameNames ==
    ASSUME NEW s \in Seq(Container), NEW t \in Seq(Container), Len(t) = Len(s),
           \A i \in 1..Len(s) : t[i].name = s[i].name
    PROVE  Names(t) = Names(s) /\ (UniqueNames(t) <=> UniqueNames(s))
<1>1. DOMAIN s = 1..Len(s) /\ DOMAIN t = 1..Len(s)
  OBVIOUS
<1>2. UniqueNames(t) <=> UniqueNames(s)
  BY <1>1 DEF UniqueNames
<1>3. Names(t) = Names(s)
  BY <1>1 DEF Names, Range
<1> QED BY <1>2, <1>3

(* A container mounts the service account by its path.                     *)
LEMMA AccountPath ==
    ASSUME NEW c
    PROVE  mountsServiceAccount(c) <=> ServiceAccountPath \in Paths(c.mounts)
BY DEF mountsServiceAccount, Paths

(* A list of which one container is replaced.                              *)
LEMMA Replaced ==
    ASSUME NEW s \in Seq(Container), NEW i \in DOMAIN s, NEW w \in Container,
           w.name = s[i].name
    PROVE  LET t == [s EXCEPT ![i] = w]
           IN  /\ Names(t) = Names(s) /\ (UniqueNames(t) <=> UniqueNames(s))
               /\ \A c \in Range(t) : c \in Range(s) \/ c = w
               /\ \A c \in Range(s) : c \in Range(t) \/ c = s[i]
               /\ w \in Range(t) /\ s[i] \in Range(s)
<1> DEFINE t == [s EXCEPT ![i] = w]
<1>1. /\ t \in Seq(Container) /\ Len(t) = Len(s)
      /\ \A j \in 1..Len(s) : t[j] = IF j = i THEN w ELSE s[j]
  BY ReplaceType
<1>2. DOMAIN s = 1..Len(s) /\ DOMAIN t = 1..Len(s)
  BY <1>1
<1> HIDE DEF t
<1>3. \A j \in 1..Len(s) : t[j].name = s[j].name
  BY <1>1
<1>4. Names(t) = Names(s) /\ (UniqueNames(t) <=> UniqueNames(s))
  BY <1>1, <1>3, SameNames
<1>5. \A c \in Range(t) : c \in Range(s) \/ c = w
  BY <1>1, <1>2 DEF Range
<1>6. \A c \in Range(s) : c \in Range(t) \/ c = s[i]
  BY <1>1, <1>2 DEF Range
<1>7. w \in Range(t) /\ s[i] \in Range(s)
  BY <1>1, <1>2 DEF Range
<1> QED BY <1>4, <1>5, <1>6, <1>7 DEF t

(* A list of which every container gets one more mount.                    *)
LEMMA AddMountParts ==
    ASSUME NEW cs \in Seq(Container), NEW m \in Mount
    PROVE  LET ws == AddMount(cs, m)
           IN  /\ ws \in Seq(Container)
               /\ Names(ws) = Names(cs) /\ (UniqueNames(ws) <=> UniqueNames(cs))
               /\ \A c \in Range(cs) : Mounting(c, m) \in Range(ws)
               /\ \A w \in Range(ws) : \E c \in Range(cs) : c \in Container /\ w = Mounting(c, m)
<1> DEFINE ws == AddMount(cs, m)
<1>1. /\ ws \in Seq(Container) /\ Len(ws) = Len(cs)
      /\ \A i \in 1..Len(cs) : ws[i].name = cs[i].name
  BY AddMountType
<1>2. Names(ws) = Names(cs) /\ (UniqueNames(ws) <=> UniqueNames(cs))
  <2> HIDE DEF ws
  <2> QED BY <1>1, SameNames
<1>3. \A c \in Range(cs) : Mounting(c, m) \in Range(ws)
  BY DEF AddMount, Mounting, Range
<1>4. ASSUME NEW w \in Range(ws)
      PROVE  \E c \in Range(cs) : c \in Container /\ w = Mounting(c, m)
  <2>1. PICK c \in Range(cs) : w = Mounting(c, m)
    BY AddMountRange
  <2>2. c \in Container
    BY DEF Range
  <2> QED BY <2>1, <2>2
<1> QED BY <1>1, <1>2, <1>3, <1>4

(* It fits in each of them, if its path was free.                          *)
LEMMA AddMountFits ==
    ASSUME NEW cs \in Seq(Container), NEW m \in Mount, NEW plan, m.vol \in plan,
           \A c \in Range(cs) : Fits(c.mounts, plan) /\ m.path \notin Paths(c.mounts)
    PROVE  \A w \in Range(AddMount(cs, m)) : Fits(w.mounts, plan)
<1> SUFFICES ASSUME NEW w \in Range(AddMount(cs, m)) PROVE Fits(w.mounts, plan)
  OBVIOUS
<1>1. PICK c \in Range(cs) : c \in Container /\ w = Mounting(c, m)
  BY AddMountParts
<1> QED BY <1>1, MountingFits

(* The service account stays where it was.                                 *)
LEMMA AddMountAccount ==
    ASSUME NEW cs \in Seq(Container), NEW m \in Mount, m.path # ServiceAccountPath
    PROVE  HasAccount(AddMount(cs, m)) <=> HasAccount(cs)
<1>1. ASSUME NEW c \in Container
      PROVE  mountsServiceAccount(Mounting(c, m)) <=> mountsServiceAccount(c)
  <2>1. Paths(Mounting(c, m).mounts) = Paths(c.mounts) \cup {m.path}
    BY MountingFits
  <2> QED BY <2>1, AccountPath
<1>2. \A c \in Range(cs) : c \in Container /\ Mounting(c, m) \in Range(AddMount(cs, m))
  BY AddMountParts DEF Range
<1>3. \A w \in Range(AddMount(cs, m)) : \E c \in Range(cs) : c \in Container /\ w = Mounting(c, m)
  BY AddMountParts
<1> QED BY <1>1, <1>2, <1>3 DEF HasAccount

(* Two lists behind each other.                                            *)
LEMMA TwoLists ==
    ASSUME NEW s \in Seq(Container), NEW t \in Seq(Container), NEW u, u = s \o t
    PROVE  /\ u \in Seq(Container)
           /\ Range(u) = Range(s) \cup Range(t)
           /\ Names(u) = Names(s) \cup Names(t)
           /\ UniqueNames(s) /\ UniqueNames(t) /\ Names(s) \cap Names(t) = {} =>
                UniqueNames(u)
<1>1. u \in Seq(Container) /\ Range(u) = Range(s) \cup Range(t)
  BY RangeConcatenation
<1>2. Names(u) = Names(s) \cup Names(t)
  BY UniqueConcat
<1>3. UniqueNames(s) /\ UniqueNames(t) /\ Names(s) \cap Names(t) = {} => UniqueNames(u)
  BY UniqueConcat
<1> QED BY <1>1, <1>2, <1>3

(* A list to the front of which one container is put.                      *)
LEMMA FrontNames ==
    ASSUME NEW x \in Container, NEW s \in Seq(Container)
    PROVE  /\ Names(<<x>> \o s) = {x.name} \cup Names(s)
           /\ UniqueNames(<<x>> \o s) <=> UniqueNames(s) /\ x.name \notin Names(s)
<1>1. PICK one : one = <<x>>
  OBVIOUS
<1>2. one \in Seq(Container) /\ Names(one) = {x.name} /\ UniqueNames(one)
  BY <1>1, ShortNames
<1>3. /\ Names(one \o s) = {x.name} \cup Names(s)
      /\ UniqueNames(one \o s) <=> UniqueNames(s) /\ x.name \notin Names(s)
  BY <1>2, UniqueConcat
<1> QED BY <1>1, <1>3

-----------------------------------------------------------------------------
(* The steps *)

(* It keeps clear of the TLS secret's volume and mount too, which          *)
(* hasTLSVolume sends out of its way.                                      *)
LEMMA ClearOfTLS ==
    ASSUME NEW p, KeepsClear(p)
    PROVE  /\ \A c \in AllContainers(p) : TLSMount(p.vols).path \notin Paths(c.mounts)
           /\ TLSMount(p.vols).vol \notin Names(p.vols)
<1>1. CASE hasTLSVolume(p.vols)
  <2>1. TLSMount(p.vols).path = "/vault-env/tls/" /\ TLSMount(p.vols).vol = "vault-env-tls"
    BY <1>1 DEF TLSMount, MountAt
  <2> QED BY <2>1 DEF KeepsClear, Paths, Names
<1>2. CASE ~hasTLSVolume(p.vols)
  <2>1. TLSMount(p.vols).path = "/vault/tls/" /\ TLSMount(p.vols).vol = "vault-tls"
    BY <1>2 DEF TLSMount, MountAt
  <2> QED BY <1>2, <2>1 DEF KeepsClear, Paths, Names, hasTLSVolume
<1> QED BY <1>1, <1>2

(* A pod that keeps clear satisfies the invariant as it is submitted.      *)
LEMMA FreshFacts ==
    ASSUME NEW p \in Pod, NEW plan, WellFormed(p), KeepsClear(p), Names(p.vols) \subseteq plan
    PROVE  /\ Apart(p) /\ AllNames(p) \cap (InitNames \cup {"consul-template"}) = {}
           /\ Free(p.init) /\ Free(p.main) /\ Range(p.main) # {}
           /\ \A c \in AllContainers(p) : Fits(c.mounts, plan)
<1>1. p.init \in Seq(Container) /\ p.main \in Seq(Container)
  BY DEF Pod
<1>2. Apart(p)
  BY <1>1, UniqueConcat DEF Apart, WellFormed
<1>3. AllNames(p) \cap (InitNames \cup {"consul-template"}) = {}
  BY DEF AllNames, Names, InitNames, KeepsClear, AllContainers
<1>4. Free(p.init) /\ Free(p.main)
  BY DEF Free, Paths, KeepsClear, AllContainers
<1>5. Range(p.main) # {}
  <2>1. PICK s : s = p.main
    OBVIOUS
  <2>2. s \in Seq(Container) /\ s # <<>>
    BY <1>1, <2>1 DEF KeepsClear
  <2>3. 1 \in DOMAIN s
    BY <2>2
  <2> QED BY <2>1, <2>3 DEF Range
<1>6. ASSUME NEW c \in AllContainers(p) PROVE Fits(c.mounts, plan)
  <2>1. OnePath(c.mounts)
    BY DEF WellFormed, OnePath
  <2>2. VolsOf(c.mounts) \subseteq Names(p.vols)
    BY DEF WellFormed, VolsOf, Names
  <2> QED BY <2>1, <2>2 DEF Fits
<1> QED BY <1>2, <1>3, <1>4, <1>5, <1>6

(* The invariant holds of the pod of the first invocation.                 *)
LEMMA ValidInit == Init => ValidInv
<1> SUFFICES ASSUME Init, FreshPod PROVE ValidInv
  BY DEF ValidInv
<1>1. pc = "received" /\ pod = submitted /\ submitted \in Pod
  BY PodsAssumption DEF Init
<1>2. WellFormed(submitted) /\ KeepsClear(submitted)
  BY DEF FreshPod
<1>3. Names(submitted.vols) \subseteq Planned(cfg, submitted.vols)
  BY DEF Planned
<1>4. /\ Apart(pod) /\ AllNames(pod) \cap (InitNames \cup {"consul-template"}) = {}
      /\ Free(pod.init) /\ Free(pod.main) /\ Range(pod.main) # {} /\ AllFit(pod)
  BY <1>1, <1>2, <1>3, FreshFacts DEF AllFit
<1>5. NamesInv
  BY <1>1, <1>4 DEF NamesInv, Early, Middle, Allowed
<1>6. FreeInv /\ AccountInv /\ FitInv
  BY <1>1, <1>4 DEF FreeInv, AccountInv, FitInv, Early, Middle, Allowed
<1>7. VolumesInv /\ FlawInv
  BY <1>1 DEF VolumesInv, FlawInv, Allowed
<1> QED BY <1>5, <1>6, <1>7 DEF ValidInv

(* And of the pod of every later one.                                      *)
LEMMA ReinvokeValid ==
    ASSUME TypeOK', Reinvoke
    PROVE  ValidInv'
<1> SUFFICES ASSUME FreshPod' PROVE ValidInv'
  BY DEF ValidInv
<1>1. pc' = "received" /\ pod' = submitted' /\ submitted' \in Pod
  BY DEF Reinvoke, TypeOK
<1>2. WellFormed(submitted') /\ KeepsClear(submitted')
  BY DEF FreshPod
<1>3. Names(submitted'.vols) \subseteq Planned(cfg', submitted'.vols)
  BY DEF Planned
<1>4. /\ Apart(pod') /\ AllNames(pod') \cap (InitNames \cup {"consul-template"}) = {}
      /\ Free(pod'.init) /\ Free(pod'.main) /\ Range(pod'.main) # {}
      /\ \A c \in AllContainers(pod') : Fits(c.mounts, Planned(cfg', submitted'.vols))
  BY <1>1, <1>2, <1>3, FreshFacts
<1>5. NamesInv'
  BY <1>1, <1>4 DEF NamesInv, Early, Middle, Allowed
<1>6. FreeInv' /\ AccountInv' /\ FitInv'
  BY <1>1, <1>4 DEF FreeInv, AccountInv, FitInv, AllFit, Early, Middle, Allowed
<1>7. VolumesInv' /\ FlawInv'
  BY <1>1 DEF VolumesInv, FlawInv, Allowed
<1> QED BY <1>5, <1>6, <1>7 DEF ValidInv

(* What a step says of the request it does not change.                     *)
LEMMA SameRequest ==
    ASSUME UNCHANGED <<cfg, submitted>>
    PROVE  /\ FreshPod' <=> FreshPod
           /\ Conflicting' <=> Conflicting
BY DEF FreshPod, Conflicting, SubmittedVolumes

(* How a step can change the pod or what the invariant says of it.         *)
LEMMA ValidSteps ==
    ASSUME TypeOK, [Next]_vars
    PROVE  \/ AlreadyMutated \/ WrapContainer \/ SkipTemplate \/ RunTemplate
           \/ NothingToInject \/ Inject \/ Finish \/ Reinvoke
           \/ /\ UNCHANGED <<submitted, cfg>>
              /\ pc' = "answered" /\ ~Allowed'
           \/ /\ UNCHANGED <<pod, submitted, cfg>>
              /\ \/ Early /\ Early'
                 \/ Middle /\ Middle'
                 \/ pc = "agent" /\ pc' = "agent" /\ UNCHANGED mutated
                 \/ pc = "answered" /\ pc' = "answered" /\ UNCHANGED <<verdict, mutated>>
BY ZenonT(60) DEF Early, Middle, Allowed, Next, MutatePod, Environment, AlreadyMutated, StartMutation,
   EnterContainer, NextList, EndScan, ReadEntry, SkipOptional, LookupFails,
   LeaveContainer, DecideToWrap, WrapContainer, RegistryFails, SkipTemplate,
   RunTemplate, VersionUnavailable, NothingToInject, NoConfigMapToWrite,
   CreateConfigMap, Creates, CreateFails, UpdateConfigMap, UpdateFails, InjectPanics,
   Reinvoke, ChangeSource, ChangeGenerated, Answer, Fail, Panic, vars, requestVars, TypeOK

(* Steps that leave the pod alone.                                         *)
LEMMA QuietValid ==
    ASSUME ValidInv, UNCHANGED <<pod, submitted, cfg>>,
           \/ Early /\ Early'
           \/ Middle /\ Middle'
           \/ pc = "agent" /\ pc' = "agent" /\ UNCHANGED mutated
           \/ pc = "answered" /\ pc' = "answered" /\ UNCHANGED <<verdict, mutated>>
    PROVE  ValidInv'
<1> SUFFICES ASSUME FreshPod' PROVE ValidInv'
  BY DEF ValidInv
<1>1. FreshPod /\ (Conflicting' <=> Conflicting)
  BY SameRequest
<1>2. NamesInv /\ FreeInv /\ AccountInv /\ VolumesInv /\ FitInv /\ FlawInv
  BY <1>1 DEF ValidInv
<1>3. /\ Early' <=> Early
      /\ Middle' <=> Middle
      /\ (pc = "agent")' <=> pc = "agent"
      /\ (pc = "answered")' <=> pc = "answered"
      /\ Allowed' <=> Allowed
  BY DEF Early, Middle, Allowed
<1>4. NamesInv'
  BY <1>1, <1>2, <1>3 DEF NamesInv
<1>5. FreeInv' /\ AccountInv'
  BY <1>2, <1>3 DEF FreeInv, AccountInv
<1>6. VolumesInv' /\ FlawInv'
  <2>1. (pc = "agent" \/ Allowed)' /\ Injects' => (pc = "agent" \/ Allowed) /\ Injects
    BY DEF Allowed, Early, Middle, Injects
  <2>2. VolumesInv'
    BY <1>2, <2>1 DEF VolumesInv
  <2>3. FlawInv'
    BY <1>2, <1>3, <2>1 DEF FlawInv, NoPlace, NoAccount
  <2> QED BY <2>2, <2>3
<1>7. FitInv'
  BY <1>1, <1>2, <1>3 DEF FitInv, AllFit
<1> QED BY <1>4, <1>5, <1>6, <1>7 DEF ValidInv

(* Steps to an answer that is no pod, or of a pod that is not fresh.       *)
LEMMA RefusedValid ==
    ASSUME UNCHANGED <<submitted, cfg>>, pc' = "answered", ~Allowed'
    PROVE  ValidInv'
<1>1. NamesInv' /\ FreeInv'
  BY DEF NamesInv, FreeInv, Early, Middle
<1>2. AccountInv' /\ VolumesInv' /\ FitInv' /\ FlawInv'
  BY DEF AccountInv, VolumesInv, FitInv, FlawInv
<1> QED BY <1>1, <1>2 DEF ValidInv

(* A pod that carries the marker is not fresh.                             *)
LEMMA MarkedValid ==
    ASSUME IInv, AlreadyMutated
    PROVE  ValidInv'
<1>1. isPodAlreadyMutated(submitted) /\ submitted' = submitted
  BY DEF AlreadyMutated, IInv, StartInv, requestVars
<1>2. ~FreshPod'
  BY <1>1 DEF FreshPod
<1> QED BY <1>2 DEF ValidInv

(* Steps past a part of MutatePod that has nothing to do.                  *)
LEMMA SkipValid ==
    ASSUME ValidInv, SkipTemplate \/ NothingToInject
    PROVE  ValidInv'
<1> SUFFICES ASSUME FreshPod' PROVE ValidInv'
  BY DEF ValidInv
<1>1. UNCHANGED <<pod, submitted, cfg, mutated>>
  BY DEF SkipTemplate, NothingToInject, requestVars
<1>2. FreshPod /\ (Conflicting' <=> Conflicting)
  BY <1>1, SameRequest
<1>3. NamesInv /\ FreeInv /\ AccountInv /\ FitInv
  BY <1>2 DEF ValidInv
<1>4. AccountInv' /\ FitInv'
  BY <1>1, <1>2, <1>3
     DEF AccountInv, FitInv, AllFit, Allowed, SkipTemplate, NothingToInject
<1>5. CASE SkipTemplate
  <2>1. pc = "template" /\ pc' = "configmap" /\ ~cfg.CtConfigMap
    BY <1>5 DEF SkipTemplate
  <2>2. NamesInv' /\ FreeInv'
    BY <1>1, <1>3, <2>1 DEF NamesInv, FreeInv, Early, Middle, Allowed
  <2>3. VolumesInv' /\ FlawInv'
    BY <2>1 DEF VolumesInv, FlawInv, Allowed
  <2> QED BY <1>4, <2>2, <2>3 DEF ValidInv
<1>6. CASE NothingToInject
  <2>1. pc = "configmap" /\ pc' = "agent" /\ ~Injects
    BY <1>6 DEF NothingToInject
  <2>2. NamesInv' /\ FreeInv'
    BY <1>1, <1>3, <2>1 DEF NamesInv, FreeInv, Early, Middle, Allowed, InitNames
  <2>3. ~Injects' /\ ~Allowed'
    BY <1>1, <2>1 DEF Injects, Allowed
  <2>4. VolumesInv' /\ FlawInv'
    BY <2>3 DEF VolumesInv, FlawInv
  <2> QED BY <1>4, <2>2, <2>4 DEF ValidInv
<1> QED BY <1>5, <1>6

(* The container at the cursor is still as it was submitted.               *)
LEMMA HereIsSubmitted ==
    ASSUME IInv, pc = "wrap"
    PROVE  /\ Container0 \in Container /\ cursor \in DOMAIN Here
           /\ Container0 \in AllContainers(submitted)
<1> USE DEF IInv
<1>1. Container0 \in Container /\ cursor \in DOMAIN Here /\ cursor \in Nat
  BY HereType DEF AtContainer, TypeOK
<1>2. /\ pod.init \in Seq(Container) /\ pod.main \in Seq(Container)
      /\ submitted.init \in Seq(Container) /\ submitted.main \in Seq(Container)
  BY DEF TypeOK, Pod
<1>3. CASE list = "init"
  <2>1. Scanned(Needy, submitted.init, pod.init, cursor)
    BY <1>3 DEF ScanInv
  <2>2. cursor \in DOMAIN submitted.init /\ Container0 = submitted.init[cursor]
    BY <1>1, <1>2, <1>3, <2>1, LenProperties DEF Scanned, Container0, Here, Containers
  <2> QED BY <1>1, <2>2 DEF AllContainers, Range
<1>4. CASE list # "init"
  <2>1. Scanned(Needy, submitted.main, pod.main, cursor)
    BY <1>4 DEF ScanInv
  <2>2. cursor \in DOMAIN submitted.main /\ Container0 = submitted.main[cursor]
    BY <1>1, <1>2, <1>4, <2>1, LenProperties DEF Scanned, Container0, Here, Containers
  <2> QED BY <1>1, <2>2 DEF AllContainers, Range
<1> QED BY <1>3, <1>4

(* What wrapping makes of it.                                              *)
LEMMA WrappedHere ==
    ASSUME IInv, WriteInv, FreshPod, pc = "wrap"
    PROVE  /\ Wrapped0 \in Container /\ Wrapped0.name = Container0.name
           /\ Fits(Wrapped0.mounts, Planned(cfg, submitted.vols))
           /\ ConfigfilePath \notin Paths(Wrapped0.mounts)
           /\ mountsServiceAccount(Wrapped0) <=> mountsServiceAccount(Container0)
<1> DEFINE plan == Planned(cfg, submitted.vols)
           c    == Container0
           argv == originalArgs(c, ImageConfig[c.image])
<1>1. c \in Container /\ c \in AllContainers(submitted)
  BY HereIsSubmitted
<1>2. Wrapped0 = wrap(c, argv, cfg, submitted.vols)
  BY DEF Wrapped0, WriteInv, VolumeInv
<1>3. argv \in Seq(Text)
  BY <1>1, ArgsType
<1> HIDE DEF c, argv
<1>4. Wrapped0 \in Container /\ Wrapped0.name = c.name
  BY <1>1, <1>2, <1>3, WrapType
<1>5. /\ VaultDir \notin Paths(c.mounts) /\ TLSMount(submitted.vols).path \notin Paths(c.mounts)
      /\ ConfigfilePath \notin Paths(c.mounts)
  BY <1>1, ClearOfTLS DEF FreshPod, KeepsClear, Paths
<1>6. /\ VaultEnvVolumeName \in plan
      /\ cfg.TLSSecret => TLSMount(submitted.vols).vol \in plan
  BY DEF Planned, AddedVolumes
<1>7. Fits(c.mounts, plan)
  <2>1. OnePath(c.mounts) /\ VolsOf(c.mounts) \subseteq Names(submitted.vols)
    BY <1>1 DEF FreshPod, WellFormed, OnePath, VolsOf, Names
  <2> QED BY <2>1 DEF Fits, Planned
<1>8. Fits(Wrapped0.mounts, plan)
  <2> HIDE DEF plan
  <2> QED BY <1>1, <1>2, <1>3, <1>5, <1>6, <1>7, WrapFits
<1>9. /\ Paths(Wrapped0.mounts) \subseteq
                Paths(c.mounts) \cup {VaultDir, "/vault/tls/", "/vault-env/tls/"}
      /\ Paths(c.mounts) \subseteq Paths(Wrapped0.mounts)
  BY <1>1, <1>2, <1>3, WrapPaths
<1>10. \A q \in {ConfigfilePath, ServiceAccountPath} :
            q \notin {VaultDir, "/vault/tls/", "/vault-env/tls/"}
  BY DEF ConfigfilePath, ServiceAccountPath, VaultDir
<1>11. ConfigfilePath \notin Paths(Wrapped0.mounts)
  BY <1>5, <1>9, <1>10
<1>12. ServiceAccountPath \in Paths(Wrapped0.mounts) <=> ServiceAccountPath \in Paths(c.mounts)
  BY <1>9, <1>10
<1>13. mountsServiceAccount(Wrapped0) <=> mountsServiceAccount(c)
  BY <1>12, AccountPath
<1> QED BY <1>4, <1>8, <1>11, <1>13 DEF c

(* The lists with the wrapped container in the place of the other.         *)
LEMMA WrapLists ==
    ASSUME IInv, WriteInv, FreshPod, WrapContainer
    PROVE  /\ Names(pod'.init) = Names(pod.init) /\ Names(pod'.main) = Names(pod.main)
           /\ UniqueNames(pod.init) => UniqueNames(pod'.init)
           /\ UniqueNames(pod.main) => UniqueNames(pod'.main)
           /\ \A c \in AllContainers(pod') : c \in AllContainers(pod) \/ c = Wrapped0
           /\ Free(pod.init) => Free(pod'.init)
           /\ Free(pod.main) => Free(pod'.main)
           /\ Range(pod.main) # {} => Range(pod'.main) # {}
           /\ HasAccount(pod'.main) <=> HasAccount(pod.main)
<1>1. pc = "wrap" /\ pod \in Pod
  BY DEF WrapContainer, IInv, TypeOK
<1>2. /\ Wrapped0 \in Container /\ Wrapped0.name = Container0.name
      /\ ConfigfilePath \notin Paths(Wrapped0.mounts)
      /\ mountsServiceAccount(Wrapped0) <=> mountsServiceAccount(Container0)
  BY <1>1, WrappedHere
<1>3. cursor \in DOMAIN Here
  BY <1>1, HereIsSubmitted
<1>4. pod.init \in Seq(Container) /\ pod.main \in Seq(Container)
  BY <1>1 DEF Pod
<1>5. CASE list = "init"
  <2>1. pod'.init = [pod.init EXCEPT ![cursor] = Wrapped0] /\ pod'.main = pod.main
    BY <1>1, <1>5 DEF WrapContainer, Pod
  <2>2. cursor \in DOMAIN pod.init /\ Container0 = pod.init[cursor]
    BY <1>3, <1>5 DEF Here, Containers, Container0
  <2>3. /\ Names(pod'.init) = Names(pod.init)
        /\ UniqueNames(pod'.init) <=> UniqueNames(pod.init)
        /\ \A c \in Range(pod'.init) : c \in Range(pod.init) \/ c = Wrapped0
    BY <1>2, <1>4, <2>1, <2>2, Replaced
  <2> QED BY <1>2, <2>1, <2>3 DEF AllContainers, Free
<1>6. CASE list # "init"
  <2>1. pod'.main = [pod.main EXCEPT ![cursor] = Wrapped0] /\ pod'.init = pod.init
    BY <1>1, <1>6 DEF WrapContainer, Pod
  <2>2. cursor \in DOMAIN pod.main /\ Container0 = pod.main[cursor]
    BY <1>3, <1>6 DEF Here, Containers, Container0
  <2>3. /\ Names(pod'.main) = Names(pod.main)
        /\ UniqueNames(pod'.main) <=> UniqueNames(pod.main)
        /\ \A c \in Range(pod'.main) : c \in Range(pod.main) \/ c = Wrapped0
        /\ \A c \in Range(pod.main) : c \in Range(pod'.main) \/ c = Container0
        /\ Wrapped0 \in Range(pod'.main) /\ Container0 \in Range(pod.main)
    <3>1. PICK s : s = pod.main
      OBVIOUS
    <3>2. s \in Seq(Container) /\ cursor \in DOMAIN s /\ Wrapped0.name = s[cursor].name
      BY <1>2, <1>4, <2>2, <3>1
    <3>3. PICK t : t = [s EXCEPT ![cursor] = Wrapped0]
      OBVIOUS
    <3>4. /\ Names(t) = Names(s) /\ (UniqueNames(t) <=> UniqueNames(s))
          /\ \A c \in Range(t) : c \in Range(s) \/ c = Wrapped0
          /\ \A c \in Range(s) : c \in Range(t) \/ c = s[cursor]
          /\ Wrapped0 \in Range(t) /\ s[cursor] \in Range(s)
      BY <1>2, <3>2, <3>3, Replaced
    <3> QED BY <2>1, <2>2, <3>1, <3>3, <3>4
  <2>4. HasAccount(pod'.main) <=> HasAccount(pod.main)
    BY <1>2, <2>3 DEF HasAccount
  <2> QED BY <1>2, <2>1, <2>3, <2>4 DEF AllContainers, Free
<1> QED BY <1>5, <1>6

(* WrapContainer preserves the invariant.                                  *)
LEMMA WrapValid ==
    ASSUME IInv, WriteInv, ValidInv, WrapContainer
    PROVE  ValidInv'
<1> SUFFICES ASSUME FreshPod' PROVE ValidInv'
  BY DEF ValidInv
<1>1. /\ pc = "wrap" /\ pc' = "containers" /\ UNCHANGED <<submitted, cfg>>
  BY DEF WrapContainer, requestVars
<1>2. FreshPod /\ (Conflicting' <=> Conflicting)
  BY <1>1, SameRequest
<1>3. NamesInv /\ FreeInv /\ AccountInv /\ FitInv
  BY <1>2 DEF ValidInv
<1>4. Apart(pod') /\ AllNames(pod') = AllNames(pod)
  BY <1>1, <1>2, <1>3, WrapLists DEF NamesInv, Apart, AllNames, Early
<1>5. NamesInv'
  BY <1>1, <1>3, <1>4 DEF NamesInv, Early, Middle, Allowed
<1>6. FreeInv'
  BY <1>1, <1>2, <1>3, WrapLists DEF FreeInv, Early, Middle
<1>7. AccountInv'
  BY <1>1, <1>2, <1>3, WrapLists DEF AccountInv
<1>8. FitInv'
  <2> SUFFICES ASSUME ~Conflicting, NEW c \in AllContainers(pod')
               PROVE  Fits(c.mounts, Planned(cfg, submitted.vols))
    BY <1>1, <1>2 DEF FitInv, AllFit
  <2>1. AllFit(pod)
    BY <1>1, <1>3 DEF FitInv
  <2>2. Fits(Wrapped0.mounts, Planned(cfg, submitted.vols))
    BY <1>1, <1>2, WrappedHere
  <2>3. c \in AllContainers(pod) \/ c = Wrapped0
    BY <1>2, WrapLists
  <2> QED BY <2>1, <2>2, <2>3 DEF AllFit
<1>9. VolumesInv' /\ FlawInv'
  BY <1>1 DEF VolumesInv, FlawInv, Allowed
<1> QED BY <1>5, <1>6, <1>7, <1>8, <1>9 DEF ValidInv

(* consul-template's container and its volume.                             *)
LEMMA TemplateParts ==
    ASSUME TypeOK, NEW share \in BOOLEAN, NEW next, next = WithTemplate(share)
    PROVE  LET m    == MountAt("ct-secrets", ConfigfilePath)
               ct   == consulTemplate(cfg, pod.vols, share)
               main == AddMount(pod.main, m)
               init == IF cfg.CtOnce /\ cfg.CtInjectInInitcontainers
                       THEN AddMount(pod.init, m) ELSE pod.init
           IN  /\ m \in Mount /\ ct \in Container
               /\ main \in Seq(Container) /\ init \in Seq(Container)
               /\ Names(main) = Names(pod.main) /\ (UniqueNames(main) <=> UniqueNames(pod.main))
               /\ Names(init) = Names(pod.init) /\ (UniqueNames(init) <=> UniqueNames(pod.init))
               /\ \/ next.init = <<ct>> \o init /\ next.main = main
                  \/ next.init = init /\ next.main = <<ct>> \o main
<1> DEFINE m    == MountAt("ct-secrets", ConfigfilePath)
           ct   == consulTemplate(cfg, pod.vols, share)
           main == AddMount(pod.main, m)
           init == IF cfg.CtOnce /\ cfg.CtInjectInInitcontainers
                   THEN AddMount(pod.init, m) ELSE pod.init
<1>1. pod.init \in Seq(Container) /\ pod.main \in Seq(Container)
  BY DEF TypeOK, Pod
<1>2. m \in Mount
  BY MountType, TextAssumption DEF ConfigfilePath
<1>3. ct \in Container
  BY <1>1, AgentTypes
<1>4. /\ next.init = IF cfg.CtOnce THEN <<ct>> \o init ELSE init
      /\ next.main = IF cfg.CtOnce THEN main ELSE <<ct>> \o main
  BY DEF WithTemplate, addSecretsVolToContainers, TypeOK, Pod
<1> HIDE DEF m, ct
<1>5. /\ main \in Seq(Container)
      /\ Names(main) = Names(pod.main) /\ (UniqueNames(main) <=> UniqueNames(pod.main))
  BY <1>1, <1>2, AddMountParts
<1>6. /\ init \in Seq(Container)
      /\ Names(init) = Names(pod.init) /\ (UniqueNames(init) <=> UniqueNames(pod.init))
  BY <1>1, <1>2, AddMountParts
<1> HIDE DEF main, init
<1>7. \/ next.init = <<ct>> \o init /\ next.main = main
      \/ next.init = init /\ next.main = <<ct>> \o main
  BY <1>4
<1> QED BY <1>2, <1>3, <1>5, <1>6, <1>7 DEF m, ct, main, init

(* Its name is new.                                                        *)
LEMMA TemplateNames ==
    ASSUME TypeOK, NEW share \in BOOLEAN, NEW next, next = WithTemplate(share),
           Apart(pod), "consul-template" \notin AllNames(pod)
    PROVE  Apart(next) /\ AllNames(next) = AllNames(pod) \cup {"consul-template"}
<1> DEFINE m    == MountAt("ct-secrets", ConfigfilePath)
           ct   == consulTemplate(cfg, pod.vols, share)
           main == AddMount(pod.main, m)
           init == IF cfg.CtOnce /\ cfg.CtInjectInInitcontainers
                   THEN AddMount(pod.init, m) ELSE pod.init
<1>1. /\ ct \in Container /\ main \in Seq(Container) /\ init \in Seq(Container)
      /\ Names(main) = Names(pod.main) /\ (UniqueNames(main) <=> UniqueNames(pod.main))
      /\ Names(init) = Names(pod.init) /\ (UniqueNames(init) <=> UniqueNames(pod.init))
      /\ \/ next.init = <<ct>> \o init /\ next.main = main
         \/ next.init = init /\ next.main = <<ct>> \o main
  BY TemplateParts
<1>2. ct.name = "consul-template"
  BY DEF consulTemplate, Injected
<1> HIDE DEF ct, main, init
<1>3. /\ Names(<<ct>> \o init) = {ct.name} \cup Names(init)
      /\ Names(<<ct>> \o main) = {ct.name} \cup Names(main)
      /\ UniqueNames(<<ct>> \o init) <=> UniqueNames(init) /\ ct.name \notin Names(init)
      /\ UniqueNames(<<ct>> \o main) <=> UniqueNames(main) /\ ct.name \notin Names(main)
  BY <1>1, FrontNames
<1> QED BY <1>1, <1>2, <1>3 DEF Apart, AllNames

(* Its mounts fit, and so does its volume in the other containers.         *)
LEMMA TemplateMounts ==
    ASSUME TypeOK, NEW share \in BOOLEAN, NEW next, next = WithTemplate(share),
           cfg.CtConfigMap, pod.vols = submitted.vols, Range(pod.main) # {}
    PROVE  /\ ~Free(next.main)
           /\ HasAccount(next.main) <=> HasAccount(pod.main)
           /\ Free(pod.init) /\ Free(pod.main) /\ AllFit(pod) => AllFit(next)
<1> DEFINE m    == MountAt("ct-secrets", ConfigfilePath)
           ct   == consulTemplate(cfg, pod.vols, share)
           main == AddMount(pod.main, m)
           init == IF cfg.CtOnce /\ cfg.CtInjectInInitcontainers
                   THEN AddMount(pod.init, m) ELSE pod.init
           plan == Planned(cfg, submitted.vols)
<1>1. /\ m \in Mount /\ ct \in Container
      /\ main \in Seq(Container) /\ init \in Seq(Container)
      /\ \/ next.init = <<ct>> \o init /\ next.main = main
         \/ next.init = init /\ next.main = <<ct>> \o main
  BY TemplateParts
<1>2. /\ {VaultEnvVolumeName, "ct-secrets", "ct-configmap"} \subseteq plan
      /\ cfg.TLSSecret => TLSMount(pod.vols).vol \in plan
  BY DEF Planned, AddedVolumes
<1>3. Fits(ct.mounts, plan) /\ ServiceAccountPath \notin Paths(ct.mounts)
  <2> HIDE DEF plan
  <2> QED BY <1>2, TemplateFits
<1>4. m.vol = "ct-secrets" /\ m.path = ConfigfilePath /\ m.path # ServiceAccountPath
  BY DEF MountAt, ConfigfilePath, ServiceAccountPath
<1>5. pod.init \in Seq(Container) /\ pod.main \in Seq(Container)
  BY DEF TypeOK, Pod
<1> HIDE DEF m, ct
<1>6. HasAccount(main) <=> HasAccount(pod.main)
  BY <1>1, <1>4, <1>5, AddMountAccount
<1>7. \E w \in Range(main) : ConfigfilePath \in Paths(w.mounts)
  <2>1. PICK c \in Range(pod.main) : c \in Container
    BY <1>5 DEF Range
  <2>2. Mounting(c, m) \in Range(main)
    BY <1>1, <1>5, AddMountParts
  <2>3. Paths(Mounting(c, m).mounts) = Paths(c.mounts) \cup {m.path}
    BY <1>1, <2>1, MountingFits
  <2> QED BY <1>4, <2>2, <2>3
<1>8. ASSUME Free(pod.init), Free(pod.main), AllFit(pod)
      PROVE  /\ \A c \in Range(main) : Fits(c.mounts, plan)
             /\ \A c \in Range(init) : Fits(c.mounts, plan)
  <2>1. /\ \A c \in Range(pod.main) : Fits(c.mounts, plan) /\ m.path \notin Paths(c.mounts)
        /\ \A c \in Range(pod.init) : Fits(c.mounts, plan) /\ m.path \notin Paths(c.mounts)
    BY <1>4, <1>8 DEF Free, AllFit, AllContainers
  <2>2. m.vol \in plan
    BY <1>2, <1>4
  <2> HIDE DEF plan
  <2> QED BY <1>1, <1>5, <2>1, <2>2, AddMountFits
<1> HIDE DEF main, init, plan
<1>9. /\ Range(<<ct>> \o init) = {ct} \cup Range(init)
      /\ Range(<<ct>> \o main) = {ct} \cup Range(main)
  BY <1>1, InFront
<1>10. ~Free(next.main)
  BY <1>1, <1>7, <1>9 DEF Free
<1>11. HasAccount(next.main) <=> HasAccount(pod.main)
  BY <1>1, <1>3, <1>6, <1>9, AccountPath DEF HasAccount
<1>12. ASSUME Free(pod.init), Free(pod.main), AllFit(pod) PROVE AllFit(next)
  BY <1>1, <1>3, <1>8, <1>9, <1>12 DEF AllFit, AllContainers, plan
<1> QED BY <1>10, <1>11, <1>12

(* RunTemplate preserves the invariant.                                    *)
LEMMA TemplateValid ==
    ASSUME IInv, WriteInv, ValidInv, RunTemplate
    PROVE  ValidInv'
<1> SUFFICES ASSUME FreshPod' PROVE ValidInv'
  BY DEF ValidInv
<1>1. /\ pc = "template" /\ pc' = "configmap" /\ cfg.CtConfigMap
      /\ UNCHANGED <<submitted, cfg>>
  BY DEF RunTemplate, requestVars
<1>2. FreshPod /\ (Conflicting' <=> Conflicting)
  BY <1>1, SameRequest
<1>3. NamesInv /\ FreeInv /\ AccountInv /\ FitInv
  BY <1>2 DEF ValidInv
<1>4. PICK share \in ShareOutcomes(cfg.CtShareProcess) : pod' = WithTemplate(share)
  BY DEF RunTemplate
<1>5. TypeOK /\ share \in BOOLEAN /\ pod.vols = submitted.vols
  BY <1>1, ShareType DEF IInv, WriteInv, VolumeInv
<1>6. /\ Apart(pod) /\ "consul-template" \notin AllNames(pod)
      /\ AllNames(pod) \cap InitNames = {}
      /\ Free(pod.init) /\ Free(pod.main) /\ Range(pod.main) # {}
  BY <1>1, <1>3 DEF NamesInv, FreeInv, Early
<1>7. Apart(pod') /\ AllNames(pod') = AllNames(pod) \cup {"consul-template"}
  BY <1>4, <1>5, <1>6, TemplateNames
<1>8. NamesInv'
  BY <1>1, <1>6, <1>7 DEF NamesInv, Early, Middle, Allowed, InitNames
<1>9. /\ ~Free(pod'.main)
      /\ HasAccount(pod'.main) <=> HasAccount(pod.main)
      /\ AllFit(pod) => AllFit(pod')
  BY <1>1, <1>4, <1>5, <1>6, TemplateMounts
<1>10. FreeInv' /\ AccountInv'
  BY <1>1, <1>3, <1>9 DEF FreeInv, AccountInv, Early, Middle
<1>11. FitInv'
  BY <1>1, <1>2, <1>3, <1>9 DEF FitInv, AllFit
<1>12. VolumesInv' /\ FlawInv'
  BY <1>1 DEF VolumesInv, FlawInv, Allowed
<1> QED BY <1>8, <1>10, <1>11, <1>12 DEF ValidInv

(* The init containers that are added.                                     *)
LEMMA AddedInit ==
    ASSUME TypeOK
    PROVE  LET added == getInitContainers(cfg, pod.vols, pod.main, mutated)
               ag    == initAgent(cfg, pod.vols, pod.main)
           IN  /\ added \in Seq(Container)
               /\ UniqueNames(added) /\ Names(added) \subseteq InitNames
               /\ "vault-agent" \in Names(added) => startsInitAgent(cfg)
               /\ cfg.TokenAuthMount # "" => tokenCopier \in Range(added)
               /\ startsInitAgent(cfg) /\ cfg.TokenAuthMount = "" => ag \in Range(added)
               /\ \A c \in Range(added) :
                    \/ c = tokenCopier /\ cfg.TokenAuthMount # ""
                    \/ c = ag /\ startsInitAgent(cfg) /\ cfg.TokenAuthMount = ""
                    \/ c = envCopier
<1> DEFINE ag == initAgent(cfg, pod.vols, pod.main)
           s == IF cfg.TokenAuthMount # "" THEN <<tokenCopier>>
                ELSE IF startsInitAgent(cfg) THEN <<ag>>
                ELSE <<>>
           t == IF mutated THEN <<envCopier>> ELSE <<>>
           added == getInitContainers(cfg, pod.vols, pod.main, mutated)
<1>1. pod.main \in Seq(Container)
  BY DEF TypeOK, Pod
<1>2. tokenCopier \in Container /\ envCopier \in Container /\ ag \in Container
  <2>1. TRUE \in BOOLEAN
    OBVIOUS
  <2> QED BY <1>1, <2>1, AgentTypes
<1>3. /\ tokenCopier.name = "copy-vault-token" /\ envCopier.name = "copy-vault-env"
      /\ ag.name = "vault-agent"
  BY <1>1, CopierMounts, InitAgentShape
<1>4. added = s \o t
  BY DEF getInitContainers
<1> HIDE DEF ag, added
<1>5. \A c \in Container : <<c>> \in Seq(Container) /\ Range(<<c>>) = {c}
  BY ShortRanges
<1>6. <<>> \in Seq(Container) /\ Range(<<>>) = {}
  BY ShortRanges
<1>7. /\ t \in Seq(Container) /\ UniqueNames(t) /\ Names(t) \subseteq {"copy-vault-env"}
      /\ Range(t) \subseteq {envCopier}
  BY <1>2, <1>3, <1>5, <1>6, ShortNames
<1>8. CASE cfg.TokenAuthMount # ""
  <2>1. /\ s \in Seq(Container) /\ UniqueNames(s) /\ Names(s) = {"copy-vault-token"}
        /\ Range(s) = {tokenCopier}
    BY <1>2, <1>3, <1>5, <1>8, ShortNames
  <2> HIDE DEF s, t
  <2>2. Names(s) \cap Names(t) = {}
    BY <1>7, <2>1
  <2>3. /\ UniqueNames(added) /\ Names(added) = Names(s) \cup Names(t)
        /\ Range(added) = Range(s) \cup Range(t) /\ added \in Seq(Container)
    BY <1>4, <1>7, <2>1, <2>2, TwoLists
  <2> QED BY <1>7, <1>8, <2>1, <2>3 DEF ag, added, InitNames
<1>9. CASE cfg.TokenAuthMount = "" /\ startsInitAgent(cfg)
  <2>1. /\ s \in Seq(Container) /\ UniqueNames(s) /\ Names(s) = {"vault-agent"}
        /\ Range(s) = {ag}
    BY <1>2, <1>3, <1>5, <1>9, ShortNames
  <2> HIDE DEF s, t
  <2>2. Names(s) \cap Names(t) = {}
    BY <1>7, <2>1
  <2>3. /\ UniqueNames(added) /\ Names(added) = Names(s) \cup Names(t)
        /\ Range(added) = Range(s) \cup Range(t) /\ added \in Seq(Container)
    BY <1>4, <1>7, <2>1, <2>2, TwoLists
  <2> QED BY <1>7, <1>9, <2>1, <2>3 DEF ag, added, InitNames
<1>10. CASE cfg.TokenAuthMount = "" /\ ~startsInitAgent(cfg)
  <2>1. s \in Seq(Container) /\ UniqueNames(s) /\ Names(s) = {} /\ Range(s) = {}
    BY <1>6, <1>10, ShortNames
  <2> HIDE DEF s, t
  <2>2. Names(s) \cap Names(t) = {}
    BY <2>1
  <2>3. /\ UniqueNames(added) /\ Names(added) = Names(s) \cup Names(t)
        /\ Range(added) = Range(s) \cup Range(t) /\ added \in Seq(Container)
    BY <1>4, <1>7, <2>1, <2>2, TwoLists
  <2> QED BY <1>7, <1>10, <2>1, <2>3 DEF ag, added, InitNames
<1> QED BY <1>8, <1>9, <1>10

(* Outside the conflicts the agent in it finds what it mounts.             *)
LEMMA AgentFits ==
    ASSUME TypeOK, pod.vols = submitted.vols, AllFit(pod), AccountInv, pc = "inject",
           startsInitAgent(cfg), cfg.TokenAuthMount = "", ~Conflicting
    PROVE  Fits(initAgent(cfg, pod.vols, pod.main).mounts, Planned(cfg, submitted.vols))
<1> DEFINE plan == Planned(cfg, submitted.vols)
           sa   == getServiceAccountMount(pod.main)
<1>1. pod.main \in Seq(Container)
  BY DEF TypeOK, Pod
<1>2. HasAccount(pod.main) /\ (cfg.CtConfigMap \/ cfg.AgentConfigMap)
  BY DEF Conflicting, AccountInv, HasAccount
<1>3. sa.path = ServiceAccountPath /\ \E c \in Range(pod.main) : sa \in Range(c.mounts)
  BY <1>1, <1>2, ServiceAccountFound DEF HasAccount
<1> HIDE DEF sa
<1>4. sa.vol \in plan
  <2>1. PICK c \in Range(pod.main) : sa \in Range(c.mounts)
    BY <1>3
  <2>2. VolsOf(c.mounts) \subseteq plan
    BY DEF AllFit, AllContainers, Fits
  <2> QED BY <2>1, <2>2 DEF VolsOf
<1>5. /\ {VaultEnvVolumeName, "vault-agent-config"} \subseteq plan
      /\ cfg.TLSSecret => TLSMount(pod.vols).vol \in plan
      /\ cfg.CtConfigMap \/ "agent-secrets" \in plan
  BY <1>2 DEF Planned, AddedVolumes, startsInitAgent
<1> HIDE DEF plan
<1>6. Fits(initAgent(cfg, pod.vols, pod.main).mounts, plan)
  BY <1>1, <1>3, <1>4, <1>5, InitAgentFits DEF sa
<1> QED BY <1>6 DEF plan

(* Inject preserves the invariant.                                         *)
LEMMA InjectValid ==
    ASSUME IInv, WriteInv, ValidInv, Inject
    PROVE  ValidInv'
<1> SUFFICES ASSUME FreshPod' PROVE ValidInv'
  BY DEF ValidInv
<1>1. /\ pc = "inject" /\ pc' = "agent" /\ UNCHANGED <<submitted, cfg, mutated>>
  BY DEF Inject, requestVars
<1>2. FreshPod /\ (Conflicting' <=> Conflicting)
  BY <1>1, SameRequest
<1>3. NamesInv /\ FreeInv /\ AccountInv /\ FitInv
  BY <1>2 DEF ValidInv
<1> DEFINE added == getInitContainers(cfg, pod.vols, pod.main, mutated)
           ag    == initAgent(cfg, pod.vols, pod.main)
<1>4. /\ pod'.init = added \o pod.init /\ pod'.main = pod.main
      /\ pod'.vols = submitted.vols \o getVolumes(cfg, submitted.vols)
      /\ pod.vols = submitted.vols
      /\ pod.init \in Seq(Container) /\ pod.main \in Seq(Container)
  BY <1>1, InitLists DEF Inject, VolumeInv, TypeOK, Pod, IInv, WriteInv
<1>5. /\ added \in Seq(Container)
      /\ UniqueNames(added) /\ Names(added) \subseteq InitNames
      /\ "vault-agent" \in Names(added) => startsInitAgent(cfg)
      /\ cfg.TokenAuthMount # "" => tokenCopier \in Range(added)
      /\ startsInitAgent(cfg) /\ cfg.TokenAuthMount = "" => ag \in Range(added)
      /\ \A c \in Range(added) :
            \/ c = tokenCopier /\ cfg.TokenAuthMount # ""
            \/ c = ag /\ startsInitAgent(cfg) /\ cfg.TokenAuthMount = ""
            \/ c = envCopier
  BY AddedInit DEF IInv
<1> HIDE DEF added, ag
<1>6. /\ Range(pod'.init) = Range(added) \cup Range(pod.init)
      /\ Names(pod'.init) = Names(added) \cup Names(pod.init)
      /\ /\ UniqueNames(added) /\ UniqueNames(pod.init)
         /\ Names(added) \cap Names(pod.init) = {}
         => UniqueNames(pod'.init)
  <2>1. PICK old, new : old = pod.init /\ new = pod'.init
    OBVIOUS
  <2>2. old \in Seq(Container) /\ new = added \o old /\ added \in Seq(Container)
    BY <1>4, <1>5, <2>1
  <2>3. /\ Range(new) = Range(added) \cup Range(old)
        /\ Names(new) = Names(added) \cup Names(old)
        /\ UniqueNames(added) /\ UniqueNames(old) /\ Names(added) \cap Names(old) = {} =>
                UniqueNames(new)
    BY <2>2, TwoLists
  <2> QED BY <2>1, <2>3
<1>7. NamesInv'
  <2>1. Apart(pod) /\ AllNames(pod) \cap InitNames = {}
    BY <1>1, <1>3 DEF NamesInv, Middle
  <2>2. Names(added) \cap AllNames(pod) = {}
    BY <1>5, <2>1
  <2>3. UniqueNames(pod'.init)
    BY <1>5, <1>6, <2>1, <2>2 DEF Apart, AllNames
  <2>4. Apart(pod')
    BY <1>4, <1>6, <2>1, <2>2, <2>3 DEF Apart, AllNames
  <2>5. "vault-agent" \in AllNames(pod') => startsInitAgent(cfg)
    BY <1>4, <1>5, <1>6, <2>1 DEF AllNames, InitNames
  <2> QED BY <1>1, <2>4, <2>5 DEF NamesInv, Early, Middle, Allowed
<1>8. FreeInv' /\ AccountInv'
  BY <1>1, <1>3, <1>4 DEF FreeInv, AccountInv, Early, Middle
<1>9. VolumesInv'
  BY <1>1, <1>4 DEF VolumesInv
<1>10. FitInv'
  <2> DEFINE plan == Planned(cfg, submitted.vols)
  <2> SUFFICES ASSUME ~Conflicting, NEW c \in AllContainers(pod')
               PROVE  Fits(c.mounts, plan)
    BY <1>1, <1>2 DEF FitInv, AllFit
  <2>1. AllFit(pod)
    BY <1>1, <1>3 DEF FitInv
  <2>2. VaultEnvVolumeName \in plan
    BY DEF Planned, AddedVolumes
  <2>3. CASE c \in AllContainers(pod)
    BY <2>1, <2>3 DEF AllFit
  <2>4. CASE c = tokenCopier /\ cfg.TokenAuthMount # ""
    <3>1. "token" \in plan
      BY <2>4 DEF Conflicting, SubmittedVolumes, Planned, Names
    <3> QED BY <2>2, <2>4, <3>1, CopierMounts
  <2>5. CASE c = ag /\ startsInitAgent(cfg) /\ cfg.TokenAuthMount = ""
    BY <1>1, <1>3, <1>4, <2>1, <2>5, AgentFits DEF ag, IInv
  <2>6. CASE c = envCopier
    BY <2>2, <2>6, CopierMounts
  <2>7. c \in AllContainers(pod) \/ c \in Range(added)
    BY <1>4, <1>6 DEF AllContainers
  <2> QED BY <1>5, <2>3, <2>4, <2>5, <2>6, <2>7
<1>11. FlawInv'
  <2>1. ASSUME startsInitAgent(cfg), cfg.TokenAuthMount = ""
        PROVE  \E c \in Range(pod'.init) : NoPlace(c)' /\ NoAccount(c)'
    <3>0. PICK c : c = ag
      OBVIOUS
    <3>1. /\ getServiceAccountMount(pod.main) \in Range(c.mounts)
          /\ ~cfg.CtConfigMap => MountAt("agent-secrets", ConfigfilePath) \in Range(c.mounts)
      BY <1>4, <3>0, InitAgentShape DEF ag
    <3>2. ~HasAccount(submitted.main) => getServiceAccountMount(pod.main) = NoMount
      BY <1>1, <1>3, <1>4, ServiceAccountFound DEF AccountInv, HasAccount
    <3>3. NoPlace(c)' /\ NoAccount(c)'
      BY <1>1, <3>1, <3>2 DEF NoPlace, NoAccount
    <3>4. c \in Range(pod'.init)
      BY <1>5, <1>6, <2>1, <3>0
    <3> QED BY <3>3, <3>4
  <2>2. cfg.TokenAuthMount # "" => tokenCopier \in Range(pod'.init)
    BY <1>5, <1>6
  <2> QED BY <1>1, <2>1, <2>2 DEF FlawInv, Allowed
<1> QED BY <1>7, <1>8, <1>9, <1>10, <1>11 DEF ValidInv

(* The lists that Finish leaves: every container of the second has the     *)
(* agent's secrets, and the sidecar may be in front of it.                 *)
LEMMA FinishParts ==
    ASSUME TypeOK, Finish, cfg.AgentConfigMap
    PROVE  LET m    == MountAt("agent-secrets", ConfigfilePath)
               main == AddMount(pod.main, m)
           IN  /\ m \in Mount /\ main \in Seq(Container)
               /\ pod'.init = pod.init
               /\ \/ cfg.UseAgent /\ pod'.main = main
                  \/ /\ ~cfg.UseAgent
                     /\ \E share \in BOOLEAN :
                            pod'.main = <<agentSidecar(cfg, submitted.vols, main, share)>> \o main
<1> DEFINE m    == MountAt("agent-secrets", ConfigfilePath)
           main == AddMount(pod.main, m)
<1>1. pod.main \in Seq(Container)
  BY DEF TypeOK, Pod
<1>2. m \in Mount
  BY MountType, TextAssumption DEF ConfigfilePath
<1>3. main \in Seq(Container)
  <2> HIDE DEF m
  <2> QED BY <1>1, <1>2, AddMountParts
<1>4. pod'.init = pod.init
  BY FinishInit
<1>5. main = addAgentSecretsVolToContainers(pod.main)
  BY DEF addAgentSecretsVolToContainers
<1>6. CASE cfg.UseAgent
  <2>1. pod' = [pod EXCEPT !.main = addAgentSecretsVolToContainers(@)]
    BY <1>6 DEF Finish
  <2>2. pod'.main = addAgentSecretsVolToContainers(pod.main)
    BY <2>1 DEF TypeOK, Pod
  <2> QED BY <1>2, <1>3, <1>4, <1>5, <1>6, <2>2
<1>7. CASE ~cfg.UseAgent
  <2>1. PICK share \in ShareOutcomes(cfg.AgentShareProcess) : pod' = WithAgent(share)
    BY <1>7 DEF Finish
  <2>2. share \in BOOLEAN
    BY ShareType
  <2>3. pod'.main = <<agentSidecar(cfg, submitted.vols,
                                   addAgentSecretsVolToContainers(pod.main), share)>>
                        \o addAgentSecretsVolToContainers(pod.main)
    BY <2>1, <2>2, AgentLists
  <2> QED BY <1>2, <1>3, <1>4, <1>5, <1>7, <2>2, <2>3
<1> QED BY <1>6, <1>7

(* The sidecar's name is new unless the annotations conflict.              *)
LEMMA FinishNames ==
    ASSUME TypeOK, NamesInv, pc = "agent", Finish, cfg.AgentConfigMap, ~Conflicting
    PROVE  Apart(pod')
<1> DEFINE m == MountAt("agent-secrets", ConfigfilePath)
<1>1. PICK main : main = AddMount(pod.main, m)
  OBVIOUS
<1>2. /\ m \in Mount /\ main \in Seq(Container) /\ pod'.init = pod.init
      /\ \/ cfg.UseAgent /\ pod'.main = main
         \/ /\ ~cfg.UseAgent
            /\ \E share \in BOOLEAN :
                   pod'.main = <<agentSidecar(cfg, submitted.vols, main, share)>> \o main
  BY <1>1, FinishParts
<1> HIDE DEF m
<1>3. pod.main \in Seq(Container)
  BY DEF TypeOK, Pod
<1>4. Names(main) = Names(pod.main) /\ (UniqueNames(main) <=> UniqueNames(pod.main))
  BY <1>1, <1>2, <1>3, AddMountParts
<1>5. Apart(pod) /\ ("vault-agent" \in AllNames(pod) => startsInitAgent(cfg))
  BY DEF NamesInv
<1>6. CASE pod'.main = main
  BY <1>2, <1>4, <1>5, <1>6 DEF Apart
<1>7. CASE ~cfg.UseAgent /\ \E share \in BOOLEAN :
            pod'.main = <<agentSidecar(cfg, submitted.vols, main, share)>> \o main
  <2>0. PICK share \in BOOLEAN :
            pod'.main = <<agentSidecar(cfg, submitted.vols, main, share)>> \o main
    BY <1>7
  <2>1. PICK ag :
            /\ ag = agentSidecar(cfg, submitted.vols, main, share)
            /\ pod'.main = <<ag>> \o main
    BY <2>0
  <2>2. ag \in Container /\ ag.name = "vault-agent"
    BY <1>2, <2>1, AgentTypes, SidecarMounts
  <2>3. "vault-agent" \notin AllNames(pod)
    BY <1>5, <1>7 DEF Conflicting, startsInitAgent
  <2>4. /\ Names(<<ag>> \o main) = {ag.name} \cup Names(main)
        /\ UniqueNames(main) /\ ag.name \notin Names(main) => UniqueNames(<<ag>> \o main)
    BY <1>2, <2>2, FrontNames
  <2>5. ag.name \notin Names(main) /\ ag.name \notin Names(pod.init)
    BY <1>4, <2>2, <2>3 DEF AllNames
  <2> QED BY <1>2, <1>4, <1>5, <2>1, <2>4, <2>5 DEF Apart
<1> QED BY <1>2, <1>6, <1>7

(* The sidecar's mounts fit then, and the agent's secrets.                 *)
LEMMA FinishFits ==
    ASSUME TypeOK, FreeInv, AccountInv, AllFit(pod), pc = "agent", Finish,
           cfg.AgentConfigMap, ~Conflicting
    PROVE  \A c \in AllContainers(pod') : Fits(c.mounts, Planned(cfg, submitted.vols))
<1> DEFINE m    == MountAt("agent-secrets", ConfigfilePath)
           plan == Planned(cfg, submitted.vols)
<1>1. PICK main : main = AddMount(pod.main, m)
  OBVIOUS
<1>2. /\ m \in Mount /\ main \in Seq(Container) /\ pod'.init = pod.init
      /\ \/ cfg.UseAgent /\ pod'.main = main
         \/ /\ ~cfg.UseAgent
            /\ \E share \in BOOLEAN :
                   pod'.main = <<agentSidecar(cfg, submitted.vols, main, share)>> \o main
  BY <1>1, FinishParts
<1>3. m.vol = "agent-secrets" /\ m.path = ConfigfilePath /\ m.path # ServiceAccountPath
  BY DEF MountAt, ConfigfilePath, ServiceAccountPath
<1> HIDE DEF m
<1>4. pod.main \in Seq(Container)
  BY DEF TypeOK, Pod
<1>5. /\ {VaultEnvVolumeName, "agent-secrets", "agent-configmap"} \subseteq plan
      /\ cfg.TLSSecret => TLSMount(submitted.vols).vol \in plan
  BY DEF Planned, AddedVolumes
<1>6. Free(pod.main)
  BY DEF Conflicting, FreeInv
<1>7. \A c \in Range(pod.main) : Fits(c.mounts, plan) /\ m.path \notin Paths(c.mounts)
  BY <1>3, <1>6 DEF Free, AllFit, AllContainers
<1> HIDE DEF plan
<1>8. \A c \in Range(main) : Fits(c.mounts, plan)
  BY <1>1, <1>2, <1>3, <1>4, <1>5, <1>7, AddMountFits
<1>9. \A c \in Range(pod.init) : Fits(c.mounts, plan)
  BY DEF AllFit, AllContainers, plan
<1>10. CASE pod'.main = main
  BY <1>2, <1>8, <1>9, <1>10 DEF AllContainers, plan
<1>11. CASE ~cfg.UseAgent /\ \E share \in BOOLEAN :
            pod'.main = <<agentSidecar(cfg, submitted.vols, main, share)>> \o main
  <2>0. PICK share \in BOOLEAN :
            pod'.main = <<agentSidecar(cfg, submitted.vols, main, share)>> \o main
    BY <1>11
  <2>1. PICK ag :
            /\ ag = agentSidecar(cfg, submitted.vols, main, share)
            /\ pod'.main = <<ag>> \o main
    BY <2>0
  <2>2. HasAccount(submitted.main)
    BY <1>11 DEF Conflicting, HasAccount
  <2>3. HasAccount(main)
    BY <1>1, <1>2, <1>3, <1>4, <2>2, AddMountAccount DEF AccountInv
  <2>4. PICK sa : sa = getServiceAccountMount(main)
    OBVIOUS
  <2>5. sa.path = ServiceAccountPath /\ \E c \in Range(main) : sa \in Range(c.mounts)
    BY <1>2, <2>3, <2>4, ServiceAccountFound DEF HasAccount
  <2>6. sa.vol \in plan
    <3>1. PICK c \in Range(main) : sa \in Range(c.mounts)
      BY <2>5
    <3>2. VolsOf(c.mounts) \subseteq plan
      BY <1>8 DEF Fits
    <3> QED BY <3>1, <3>2 DEF VolsOf
  <2>7. Fits(ag.mounts, plan)
    BY <1>2, <1>5, <2>1, <2>4, <2>5, <2>6, SidecarFits
  <2>8. ag \in Container
    BY <1>2, <2>1, AgentTypes
  <2>9. Range(<<ag>> \o main) = {ag} \cup Range(main)
    BY <1>2, <2>8, InFront
  <2> QED BY <1>2, <1>8, <1>9, <2>1, <2>7, <2>9 DEF AllContainers, plan
<1> QED BY <1>2, <1>10, <1>11

(* And if they conflict something does not.                                *)
LEMMA FinishFlaws ==
    ASSUME TypeOK, FreeInv, AccountInv, pc = "agent", Finish, cfg.AgentConfigMap
    PROVE  /\ cfg.CtConfigMap => \E c \in Range(pod'.main) : ~OnePath(c.mounts)
           /\ ~cfg.UseAgent => \E c \in Range(pod'.main) : NoAccount(c)
<1> DEFINE m == MountAt("agent-secrets", ConfigfilePath)
<1>1. PICK main : main = AddMount(pod.main, m)
  OBVIOUS
<1>2. /\ m \in Mount /\ main \in Seq(Container)
      /\ \/ cfg.UseAgent /\ pod'.main = main
         \/ /\ ~cfg.UseAgent
            /\ \E share \in BOOLEAN :
                   pod'.main = <<agentSidecar(cfg, submitted.vols, main, share)>> \o main
  BY <1>1, FinishParts
<1>3. m.path = ConfigfilePath /\ m.path # ServiceAccountPath
  BY DEF MountAt, ConfigfilePath, ServiceAccountPath
<1> HIDE DEF m
<1>4. pod.main \in Seq(Container)
  BY DEF TypeOK, Pod
<1>5. ASSUME cfg.CtConfigMap PROVE \E c \in Range(main) : ~OnePath(c.mounts)
  <2>1. PICK c \in Range(pod.main) : ConfigfilePath \in Paths(c.mounts)
    BY <1>5 DEF FreeInv, Free
  <2>2. c \in Container
    BY <1>4 DEF Range
  <2>3. ~OnePath(Mounting(c, m).mounts)
    BY <1>2, <1>3, <2>1, <2>2, MountingFits
  <2>4. Mounting(c, m) \in Range(main)
    BY <1>1, <1>2, <1>4, AddMountParts
  <2> QED BY <2>3, <2>4
<1>6. CASE cfg.UseAgent /\ pod'.main = main
  BY <1>5, <1>6
<1>7. CASE ~cfg.UseAgent /\ \E share \in BOOLEAN :
            pod'.main = <<agentSidecar(cfg, submitted.vols, main, share)>> \o main
  <2>0. PICK share \in BOOLEAN :
            pod'.main = <<agentSidecar(cfg, submitted.vols, main, share)>> \o main
    BY <1>7
  <2>1. PICK ag :
            /\ ag = agentSidecar(cfg, submitted.vols, main, share)
            /\ pod'.main = <<ag>> \o main
    BY <2>0
  <2>2. ag \in Container /\ getServiceAccountMount(main) \in Range(ag.mounts)
    BY <1>2, <2>1, AgentTypes, SidecarMounts
  <2>3. Range(<<ag>> \o main) = {ag} \cup Range(main)
    BY <1>2, <2>2, InFront
  <2>4. ~HasAccount(submitted.main) => getServiceAccountMount(main) = NoMount
    <3>1. HasAccount(main) <=> HasAccount(submitted.main)
      BY <1>1, <1>2, <1>3, <1>4, AddMountAccount DEF AccountInv
    <3> QED BY <1>2, <3>1, ServiceAccountFound DEF HasAccount
  <2>5. NoAccount(ag)
    BY <2>2, <2>4 DEF NoAccount
  <2> QED BY <1>5, <2>1, <2>3, <2>5
<1> QED BY <1>2, <1>6, <1>7

(* Finish preserves the invariant.                                         *)
LEMMA FinishValid ==
    ASSUME IInv, ValidInv, Finish
    PROVE  ValidInv'
<1> SUFFICES ASSUME FreshPod' PROVE ValidInv'
  BY DEF ValidInv
<1>1. /\ pc = "agent" /\ pc' = "answered" /\ Allowed'
      /\ UNCHANGED <<submitted, cfg, mutated>>
  BY DEF Finish, Answer, Allowed, requestVars
<1>2. FreshPod /\ (Conflicting' <=> Conflicting) /\ (Injects' <=> Injects)
  BY <1>1, SameRequest DEF Injects
<1>3. NamesInv /\ FreeInv /\ AccountInv /\ VolumesInv /\ FitInv /\ FlawInv
  BY <1>2 DEF ValidInv
<1>4. TypeOK /\ pod'.init = pod.init
  BY FinishInit DEF IInv
<1>5. pod'.vols = pod.vols
  <2>1. [Next]_vars /\ ~Inject
    BY <1>1 DEF Next, MutatePod, Inject
  <2> QED BY <1>4, <2>1, VolumesStay
<1>6. CASE ~cfg.AgentConfigMap
  <2>1. pod' = pod
    BY <1>6 DEF Finish
  <2>2. NamesInv'
    BY <1>1, <1>3, <2>1 DEF NamesInv, Early, Middle
  <2>3. FitInv'
    BY <1>1, <1>2, <1>3, <2>1 DEF FitInv, AllFit
  <2>4. FlawInv'
    BY <1>1, <1>2, <1>3, <1>6, <2>1 DEF FlawInv, NoPlace, NoAccount
  <2> QED BY <1>1, <1>2, <1>3, <1>5, <2>2, <2>3, <2>4
          DEF ValidInv, FreeInv, AccountInv, VolumesInv, Early, Middle
<1>7. CASE cfg.AgentConfigMap
  <2>2. NamesInv'
    BY <1>1, <1>2, <1>3, <1>4, <1>7, FinishNames DEF NamesInv, Early, Middle
  <2>3. FitInv'
    BY <1>1, <1>2, <1>3, <1>4, <1>7, FinishFits DEF FitInv, AllFit
  <2>4. FlawInv'
    <3>1. /\ cfg.CtConfigMap => \E c \in Range(pod'.main) : ~OnePath(c.mounts)
          /\ ~cfg.UseAgent => \E c \in Range(pod'.main) : NoAccount(c)
      BY <1>1, <1>3, <1>4, <1>7, FinishFlaws
    <3> QED BY <1>1, <1>2, <1>3, <1>4, <3>1 DEF FlawInv, NoPlace, NoAccount
  <2> QED BY <1>1, <1>2, <1>3, <1>5, <2>2, <2>3, <2>4
          DEF ValidInv, FreeInv, AccountInv, VolumesInv, Early, Middle
<1> QED BY <1>6, <1>7

(* Every step preserves the invariant.                                     *)
LEMMA ValidStep ==
    ASSUME IInv, IInv', WriteInv, ValidInv, [Next]_vars
    PROVE  ValidInv'
<1>1. TypeOK /\ TypeOK'
  BY DEF IInv
<1>2. CASE AlreadyMutated
  BY <1>2, MarkedValid
<1>3. CASE WrapContainer
  BY <1>3, WrapValid
<1>4. CASE SkipTemplate \/ NothingToInject
  BY <1>4, SkipValid
<1>5. CASE RunTemplate
  BY <1>5, TemplateValid
<1>6. CASE Inject
  BY <1>6, InjectValid
<1>7. CASE Finish
  BY <1>7, FinishValid
<1>8. CASE Reinvoke
  BY <1>1, <1>8, ReinvokeValid
<1>9. CASE UNCHANGED <<submitted, cfg>> /\ pc' = "answered" /\ ~Allowed'
  BY <1>9, RefusedValid
<1>10. CASE /\ UNCHANGED <<pod, submitted, cfg>>
            /\ \/ Early /\ Early'
               \/ Middle /\ Middle'
               \/ pc = "agent" /\ pc' = "agent" /\ UNCHANGED mutated
               \/ pc = "answered" /\ pc' = "answered" /\ UNCHANGED <<verdict, mutated>>
  BY <1>10, QuietValid
<1> QED BY <1>1, <1>2, <1>3, <1>4, <1>5, <1>6, <1>7, <1>8, <1>9, <1>10, ValidSteps

(* ValidInv holds along every admission, on top of the two invariants that *)
(* say what the pod is and which volumes it has before Inject.             *)
THEOREM ValidInvariance == Spec => [](IInv /\ WriteInv /\ ValidInv)
<1>1. Init => ValidInv
  BY ValidInit
<1>2. IInv /\ IInv' /\ WriteInv /\ ValidInv /\ [Next]_vars => ValidInv'
  BY ValidStep
<1> QED BY <1>1, <1>2, WritesInvariance, PTL DEF Spec

(* The volumes of the pod that is allowed.                                 *)
LEMMA AllowedVolumes ==
    ASSUME IInv, FreshPod, VolumesInv, Allowed, Injects
    PROVE  /\ UniqueNames(pod.vols)
           /\ Names(pod.vols) = Planned(cfg, submitted.vols)
<1>1. PICK old, new : old = submitted.vols /\ new = getVolumes(cfg, submitted.vols)
  OBVIOUS
<1>2. old \in Seq(Volume) /\ new \in Seq(Volume)
  BY <1>1, VolumesType DEF IInv, TypeOK, Pod
<1>3. UniqueNames(new) /\ Names(new) = AddedVolumes(cfg, old)
  BY <1>1, VolumeNames
<1>4. UniqueNames(old)
  BY <1>1 DEF FreshPod, WellFormed
<1>5. Names(old) \cap AddedVolumes(cfg, old) = {}
  <2>1. VaultEnvVolumeName \notin Names(old)
    BY <1>1 DEF FreshPod, isPodAlreadyMutated, Names
  <2>2. \A n \in {"vault-agent-config", "ct-secrets", "ct-configmap", "agent-secrets",
                  "agent-configmap", TLSMount(old).vol} : n \notin Names(old)
    BY <1>1, ClearOfTLS DEF FreshPod, KeepsClear, Names
  <2>3. AddedVolumes(cfg, old) \subseteq
            {VaultEnvVolumeName, "vault-agent-config", "ct-secrets", "ct-configmap",
             "agent-secrets", "agent-configmap", TLSMount(old).vol}
    BY DEF AddedVolumes
  <2> QED BY <2>1, <2>2, <2>3
<1>6. Names(old \o new) = Names(old) \cup Names(new) /\ UniqueNames(old \o new)
  BY <1>2, <1>3, <1>4, <1>5, UniqueConcat
<1>7. pod.vols = old \o new
  BY <1>1 DEF VolumesInv
<1> QED BY <1>1, <1>3, <1>6, <1>7 DEF Planned

(* Without a conflict the pod is valid.                                    *)
LEMMA ValidWithoutConflict ==
    ASSUME IInv, FreshPod, ValidInv, Allowed, Injects, ~Conflicting
    PROVE  WellFormed(pod)
<1>1. NamesInv /\ VolumesInv /\ FitInv
  BY DEF ValidInv
<1>2. pod.init \in Seq(Container) /\ pod.main \in Seq(Container)
  BY DEF IInv, TypeOK, Pod
<1>3. UniqueNames(pod.init \o pod.main)
  BY <1>1, <1>2, UniqueConcat DEF NamesInv, Apart
<1>4. UniqueNames(pod.vols) /\ Names(pod.vols) = Planned(cfg, submitted.vols)
  BY <1>1, AllowedVolumes
<1>5. ASSUME NEW c \in AllContainers(pod)
      PROVE  /\ \A m \in Range(c.mounts) : \E v \in Range(pod.vols) : v.name = m.vol
             /\ OnePath(c.mounts)
  <2>1. OnePath(c.mounts) /\ VolsOf(c.mounts) \subseteq Names(pod.vols)
    BY <1>1, <1>4 DEF FitInv, AllFit, Fits
  <2> QED BY <2>1 DEF VolsOf, Names
<1> QED BY <1>3, <1>4, <1>5 DEF WellFormed, OnePath

(* In a conflict it is not, by one flaw for each of the conflicts.         *)
LEMMA ConflictIsInvalid ==
    ASSUME IInv, FreshPod, ValidInv, Allowed, Injects, Conflicting
    PROVE  ~WellFormed(pod)
<1> DEFINE old == submitted.vols
           names == Names(old) \cup AddedVolumes(cfg, old)
<1>1. VolumesInv /\ FlawInv
  BY DEF ValidInv
<1>2. Names(pod.vols) = names
  BY <1>1, AllowedVolumes DEF Planned
<1>3. \A n \in {"", "agent-secrets"} : n \notin Names(old)
  BY DEF FreshPod, KeepsClear, Names
<1>4. "" \notin names
  BY <1>3, TLSMounts DEF AddedVolumes, VaultEnvVolumeName
<1>5. ASSUME WellFormed(pod), NEW c \in AllContainers(pod)
      PROVE  OnePath(c.mounts) /\ \A m \in Range(c.mounts) : m.vol \in names
  <2>1. \A m \in Range(c.mounts) : m.vol \in Names(pod.vols)
    BY <1>5 DEF WellFormed, Names
  <2> QED BY <1>2, <1>5, <2>1 DEF WellFormed, OnePath
<1> HIDE DEF names
<1>6. ASSUME NEW c \in AllContainers(pod), NoMount \in Range(c.mounts)
      PROVE  ~WellFormed(pod)
  BY <1>4, <1>5, <1>6 DEF NoMount, MountAt
<1>7. CASE startsInitAgent(cfg) /\ cfg.TokenAuthMount = ""
  <2>1. PICK c \in Range(pod.init) : NoPlace(c) /\ NoAccount(c)
    BY <1>1, <1>7 DEF FlawInv
  <2>2. c \in AllContainers(pod)
    BY DEF AllContainers
  <2>3. CASE ~HasAccount(submitted.main)
    BY <1>6, <2>1, <2>2, <2>3 DEF NoAccount
  <2>4. CASE ~cfg.CtConfigMap /\ ~cfg.AgentConfigMap
    <3>1. MountAt("agent-secrets", ConfigfilePath) \in Range(c.mounts)
      BY <2>1, <2>4 DEF NoPlace
    <3>2. "agent-secrets" \notin names
      BY <1>3, <2>4, TLSMounts DEF names, AddedVolumes, VaultEnvVolumeName
    <3> QED BY <1>5, <2>2, <3>1, <3>2 DEF MountAt
  <2>5. CASE cfg.CtConfigMap /\ cfg.AgentConfigMap
    <3>1. PICK d \in Range(pod.main) : ~OnePath(d.mounts)
      BY <1>1, <2>5 DEF FlawInv
    <3> QED BY <1>5, <3>1 DEF AllContainers
  <2> QED BY <1>7, <2>3, <2>4, <2>5 DEF Conflicting, HasAccount
<1>8. CASE cfg.CtConfigMap /\ cfg.AgentConfigMap
  <2>1. PICK d \in Range(pod.main) : ~OnePath(d.mounts)
    BY <1>1, <1>8 DEF FlawInv
  <2> QED BY <1>5, <2>1 DEF AllContainers
<1>9. CASE ~HasAccount(submitted.main) /\ cfg.AgentConfigMap /\ ~cfg.UseAgent
  <2>1. PICK d \in Range(pod.main) : NoAccount(d)
    BY <1>1, <1>9 DEF FlawInv
  <2> QED BY <1>6, <1>9, <2>1 DEF AllContainers, NoAccount
<1>10. CASE cfg.TokenAuthMount # "" /\ "token" \notin Names(old)
  <2>1. tokenCopier \in AllContainers(pod)
    BY <1>1, <1>10 DEF FlawInv, AllContainers
  <2>2. "token" \notin names
    BY <1>10, TLSMounts DEF names, AddedVolumes, VaultEnvVolumeName
  <2> QED BY <1>5, <2>1, <2>2, CopierMounts DEF MountAt
<1>11. \/ startsInitAgent(cfg) /\ cfg.TokenAuthMount = ""
       \/ cfg.CtConfigMap /\ cfg.AgentConfigMap
       \/ ~HasAccount(submitted.main) /\ cfg.AgentConfigMap /\ ~cfg.UseAgent
       \/ cfg.TokenAuthMount # "" /\ "token" \notin Names(old)
  BY DEF Conflicting, HasAccount, SubmittedVolumes, Names
<1> QED BY <1>7, <1>8, <1>9, <1>10, <1>11

(* A valid pod that keeps clear of the webhook's names and paths is valid  *)
(* when the webhook is done with it, but for the configurations that       *)
(* conflict: and in each of those the API server refuses it.               *)
THEOREM ConflictsAreTheOnlyRefusals == Spec => []AllowedPodIsValid
<1>1. ASSUME IInv, WriteInv, ValidInv PROVE AllowedPodIsValid
  BY <1>1, ValidWithoutConflict, ConflictIsInvalid DEF AllowedPodIsValid
<1> QED BY <1>1, ValidInvariance, PTL
=============================================================================
