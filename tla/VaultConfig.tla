----------------------------- MODULE VaultConfig ------------------------------
(***************************************************************************)
(* parseVaultConfig of pkg/webhook/config.go: what the annotations of an   *)
(* object and the settings of the operator make of the configuration.      *)
(*                                                                         *)
(* Each field of VaultConfig is told from the others by where it comes     *)
(* from and how its text is parsed.  A text is "absent" or its meaning:    *)
(* "empty", "bad" (it does not parse), or one of two well-formed values.   *)
(***************************************************************************)
EXTENDS Naturals, AddressPolicy

CONSTANTS
    Objects,        \* what the webhook may be sent
    Operators       \* and how it may have been set up

ASSUME ObjectsAssumption ==
    \A o \in Objects :
        /\ o.address # <<>> => o.address[1] \in Address
        /\ {o.text, o.second} \subseteq {"absent", "empty", "bad", "one", "two"}
ASSUME OperatorsAssumption ==
    \A o \in Operators :
        /\ o.address \in Address /\ o.allowlist \subseteq Address
        /\ o.text \in {"absent", "bad", "one", "two"}

VARIABLES
    object,         \* skip, vault-addr, vault-skip-verify, and one field more
    operator,       \* the same settings in the environment
    result          \* status, address, skipVerify and value of the field

vars == <<object, operator, result>>

-----------------------------------------------------------------------------
(* The fields, by source and parser *)

Text ==
    {"Role", "AuthMethod", "Path", "VaultServiceAccount", "TLSSecret", "CtImage",
     "IgnoreMissingSecrets", "VaultEnvPassThrough", "LogLevel", "EnableJSONLog",
     "TransitKeyID", "TransitPath", "EnvImage", "AgentImage", "VaultNamespace",
     "ServiceAccountTokenVolumeName"}
Bool ==
    {"UseAgent", "VaultEnvDaemon", "PspAllowPrivilegeEscalation", "RunAsNonRoot",
     "ReadOnlyRootFilesystem", "RegistrySkipVerify"}
Number == {"ClientTimeout", "VaultEnvDelay", "RunAsUser", "RunAsGroup", "TransitBatchSize"}
PullPolicy == {"CtImagePullPolicy", "EnvImagePullPolicy", "AgentImagePullPolicy"}

ObjectText ==
    {"CtConfigMap", "AgentConfigMap", "VaultEnvFromPath", "TokenAuthMount",
     "AgentEnvVariables", "ConfigfilePath"}
ObjectBool ==
    {"CtOnce", "AgentOnce", "CtShareProcess", "AgentShareProcess",
     "CtInjectInInitcontainers", "MutateProbes"}
ObjectQuantity ==
    {"CtCPU", "CtMemory", "AgentCPULimit", "AgentMemoryLimit",
     "AgentCPURequest", "AgentMemoryRequest"}

OperatorText == {"Token", "EnvLogServer"}
OperatorQuantity == {"EnvCPURequest", "EnvMemoryRequest", "EnvCPULimit", "EnvMemoryLimit"}

Quantity == ObjectQuantity \cup OperatorQuantity
FromObject == ObjectText \cup ObjectBool \cup ObjectQuantity
FromOperator == OperatorText \cup OperatorQuantity
Fields == Text \cup Bool \cup Number \cup PullPolicy \cup FromObject \cup FromOperator

(* A second annotation for the same field, which the first one overrides.  *)
WithLegacy == {"ConfigfilePath", "AgentCPULimit", "AgentMemoryLimit"}

(* What the parser of the field returns; its error is not looked at.       *)
Parsed(f, text) ==
    IF text \notin {"empty", "bad"} \/ f \in Text \cup ObjectText \cup OperatorText
    THEN text
    ELSE IF f \in PullPolicy THEN "IfNotPresent"
    ELSE "zero"

(* Without a setting there is the built-in value, of SetConfigDefaults or  *)
(* of the code; viper takes an empty variable for none.                    *)
FromSettings(f) ==
    IF \/ f \in FromObject \/ operator.text = "absent"
       \/ f \in OperatorQuantity /\ operator.text = "bad"
    THEN "default" ELSE Parsed(f, operator.text)

Annotations(f) ==
    IF f \in FromOperator THEN <<"absent", "absent">>
    ELSE IF f \in WithLegacy THEN <<object.text, object.second>>
    ELSE <<object.text, "absent">>

(* Mutant of Value: an empty annotation counts as none.                    *)
ValueIfNotEmpty(f) ==
    LET texts == Annotations(f)
        given == {i \in 1..2 : texts[i] \notin {"absent", "empty"}}
    IN  IF given = {} THEN FromSettings(f)
        ELSE Parsed(f, texts[CHOOSE i \in given : \A j \in given : i <= j])

(* Quantities are the exception: one that does not parse is passed over.   *)
Value(f) ==
    LET texts == Annotations(f)
        given == {i \in 1..2 : /\ texts[i] # "absent"
                               /\ f \in Quantity => texts[i] \notin {"empty", "bad"}}
    IN  IF given # {} THEN Parsed(f, texts[CHOOSE i \in given : \A j \in given : i <= j])
        ELSE FromSettings(f)

-----------------------------------------------------------------------------
(* Mutant of ResolveObjectSkipVerify: the annotation is taken as it is.    *)
TakeObjectSkipVerify(text) == text = "one"

(* "one" is true.                                                          *)
ResolveObjectSkipVerify(text) ==
    IF operator.allowSkipVerify THEN text = "one" ELSE operator.skipVerify

(* Mutant of vaultAddrPolicy: the operator's own address is not on it.     *)
allowlistOnly == [allowlist |-> operator.allowlist, allowPrivate |-> operator.allowPrivate]

vaultAddrPolicy ==
    [allowlist |-> operator.allowlist \cup {operator.address},
     allowPrivate |-> operator.allowPrivate]

Nothing == [status |-> "none", address |-> <<>>, skipVerify |-> FALSE, value |-> "none"]

Init ==
    /\ object \in Objects
    /\ operator \in Operators
    /\ result = Nothing

Skipped ==
    /\ result = Nothing /\ object.skip
    /\ result' = [Nothing EXCEPT !.status = "skip"]
    /\ UNCHANGED <<object, operator>>

AddrFromObject == object.address # <<>>

Rejected ==
    /\ result = Nothing /\ ~object.skip
    /\ AddrFromObject /\ ~ValidateObjectAddr(object.address[1], vaultAddrPolicy)
    /\ result' = [Nothing EXCEPT !.status = "error"]
    /\ UNCHANGED <<object, operator>>

Parse ==
    /\ result = Nothing /\ ~object.skip
    /\ AddrFromObject => ValidateObjectAddr(object.address[1], vaultAddrPolicy)
    /\ result' =
        [status     |-> "parsed",
         address    |-> IF AddrFromObject THEN object.address ELSE <<operator.address>>,
         skipVerify |-> IF object.skipVerify = "absent" THEN operator.skipVerify
                        ELSE ResolveObjectSkipVerify(object.skipVerify),
         value      |-> Value(object.field)]
    /\ UNCHANGED <<object, operator>>

Next == Skipped \/ Rejected \/ Parse

(* The timeout of the client newVaultClient builds: vaultapi.DefaultConfig *)
(* takes it from the webhook's environment, and nothing else sets it.      *)
ClientTimeout == IF operator.text = "absent" THEN "default" ELSE operator.text

Spec == Init /\ [][Next]_vars

-----------------------------------------------------------------------------
(* Properties *)

(* The Vault server of an object is the operator's, or one the operator    *)
(* listed, its own default included; a private one needs the operator's    *)
(* consent, and the metadata hosts are out of reach.                       *)
Same(a, b) ==
    /\ a.form = "url" /\ b.form = "url" /\ a.scheme = b.scheme /\ a.host = b.host
    /\ \/ a.path = b.path
       \/ {a.path, b.path} \in {{"", "/"}, {"/x", "/x/"}}

AddressIsSanctioned ==
    result.status = "parsed" =>
        LET a == result.address[1] IN
        \/ ~AddrFromObject /\ a = operator.address
        \/ /\ \E entry \in operator.allowlist \cup {operator.address} : Same(a, entry)
           /\ a.extra = "none"
           /\ class[a.host] \in
                {"name", "public"} \cup
                IF operator.allowPrivate THEN {"unsafe", "numeric"} ELSE {}

(* "trusted operator default is implicitly allowed": an object that names  *)
(* it is served, in any of its spellings, unless it is a private address,  *)
(* which an annotation may not even repeat without the operator's consent. *)
DefaultMayBeNamed ==
    /\ AddrFromObject /\ Same(object.address[1], operator.address)
    /\ object.address[1].extra = "none"
    /\ operator.address.scheme \in {"http", "https"}
    /\ \/ class[operator.address.host] \in {"name", "public"}
       \/ operator.allowPrivate /\ class[operator.address.host] = "unsafe"
    => result.status # "error"

(* An object gets by without verified TLS only where the operator does not *)
(* verify it either or lets objects decide; where it lets them, an object  *)
(* can also have it back.                                                  *)
TLSNeedsConsent ==
    result.status = "parsed" =>
        /\ result.skipVerify => operator.skipVerify \/ operator.allowSkipVerify
        /\ operator.allowSkipVerify /\ object.skipVerify = "two" => ~result.skipVerify

(* A well-formed annotation counts, then a setting, then the built-in      *)
(* value.  A malformed annotation still hides the operator's setting: it   *)
(* switches a feature off, whatever the operator chose, save for the       *)
(* quantities, which get their default.                                    *)
ValueIsSourced ==
    result.status = "parsed" =>
        LET f == object.field
            WellFormed == {"one", "two"}
        IN
        /\ f \notin FromOperator /\ object.text \in WellFormed => result.value = object.text
        /\ f \in FromOperator \/ (f \notin FromObject /\ object.text = "absent") =>
                /\ operator.text \in WellFormed => result.value = operator.text
                /\ operator.text = "absent" => result.value = "default"
        /\ f \in Bool \cup Number \cup ObjectBool /\ object.text \in {"empty", "bad"} =>
                result.value = "zero"
        /\ f \in Text /\ object.text = "empty" => result.value = "empty"
        /\ f \in Quantity => result.value \in WellFormed \cup {"default"}
        /\ f \in WithLegacy /\ object.text = "absent" /\ object.second \in WellFormed =>
                result.value = object.second

(* values.yaml: VAULT_CLIENT_TIMEOUT is "the webhook's timeout for Vault    *)
(* communication, if not defined individually in resources by annotations".*)
TimeoutIsTheObjects ==
    /\ result.status = "parsed" /\ operator.text # "bad"
    /\ object.field = "ClientTimeout" /\ object.text \in {"one", "two"}
    => ClientTimeout = result.value
=============================================================================
