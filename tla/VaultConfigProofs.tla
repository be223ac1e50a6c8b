--------------------------- MODULE VaultConfigProofs ---------------------------
(***************************************************************************)
(* The configuration of an object, for whatever objects, operators and     *)
(* hosts there are.                                                        *)
(***************************************************************************)
EXTENDS VaultConfig, TLAPS

-----------------------------------------------------------------------------
(* Addresses *)

(* Two addresses normalise to the same if and only if they are the same    *)
(* but for a slash at the end.                                             *)
LEMMA NormalFacts ==
    ASSUME NEW a \in Address, NEW b \in Address, a.form = "url"
    PROVE  normalizeAddr(b) = normalizeAddr(a) <=> Same(a, b)
<1>1. \A p \in {"", "/", "/x", "/x/"}, q \in {"", "/", "/x", "/x/"} :
        TrimSuffix(p) = TrimSuffix(q)
            <=> p = q \/ {p, q} \in {{"", "/"}, {"/x", "/x/"}}
  <2>1. /\ TrimSuffix("") = "" /\ TrimSuffix("/") = ""
        /\ TrimSuffix("/x") = "/x" /\ TrimSuffix("/x/") = "/x"
    BY DEF TrimSuffix
  <2>2. {"", "/"} # {"/x", "/x/"}
    OBVIOUS
  <2> QED BY <2>1, <2>2
<1>2. a.path \in {"", "/", "/x", "/x/"} /\ b.path \in {"", "/", "/x", "/x/"}
  BY DEF Address
<1>3. b.form # "url" => normalizeAddr(b) # normalizeAddr(a)
  BY DEF normalizeAddr
<1>4. b.form = "url" =>
        (normalizeAddr(b) = normalizeAddr(a) <=>
            b.scheme = a.scheme /\ b.host = a.host
                /\ TrimSuffix(b.path) = TrimSuffix(a.path))
  BY DEF normalizeAddr
<1>5. TrimSuffix(b.path) = TrimSuffix(a.path)
        <=> a.path = b.path \/ {a.path, b.path} \in {{"", "/"}, {"/x", "/x/"}}
  BY <1>1, <1>2
<1> QED BY <1>3, <1>4, <1>5 DEF Same

(* What the policy lets pass is on the list and of a class it allows.      *)
LEMMA ValidatedFacts ==
    ASSUME operator \in Operators, NEW a \in Address,
           ValidateObjectAddr(a, vaultAddrPolicy)
    PROVE  /\ \E entry \in operator.allowlist \cup {operator.address} : Same(a, entry)
           /\ a.extra = "none"
           /\ class[a.host] \in
                {"name", "public"} \cup
                IF operator.allowPrivate THEN {"unsafe", "numeric"} ELSE {}
<1>1. /\ a.form = "url" /\ a.extra = "none"
      /\ \E entry \in operator.allowlist \cup {operator.address} :
            normalizeAddr(entry) = normalizeAddr(a)
      /\ class[a.host] \notin {"none", "metadata"}
      /\ operator.allowPrivate \/ class[a.host] \notin {"unsafe", "numeric"}
  BY DEF ValidateObjectAddr, vaultAddrPolicy, addrInAllowlist, checkHostIPSafety
<1>2. operator.allowlist \cup {operator.address} \subseteq Address
  BY OperatorsAssumption
<1>3. class[a.host] \in {"none", "name", "metadata", "public", "unsafe", "numeric"}
  BY ClassAssumption DEF Address
<1> QED BY <1>1, <1>2, <1>3, NormalFacts

-----------------------------------------------------------------------------
(* The inductive invariant: what was read stays, and a result is the one   *)
(* that parseVaultConfig returns for it.                                   *)

Returned ==
    \/ result = Nothing
    \/ object.skip /\ result = [Nothing EXCEPT !.status = "skip"]
    \/ /\ ~object.skip /\ AddrFromObject
       /\ ~ValidateObjectAddr(object.address[1], vaultAddrPolicy)
       /\ result = [Nothing EXCEPT !.status = "error"]
    \/ /\ ~object.skip
       /\ AddrFromObject => ValidateObjectAddr(object.address[1], vaultAddrPolicy)
       /\ result =
            [status     |-> "parsed",
             address    |-> IF AddrFromObject THEN object.address ELSE <<operator.address>>,
             skipVerify |-> IF object.skipVerify = "absent" THEN operator.skipVerify
                            ELSE ResolveObjectSkipVerify(object.skipVerify),
             value      |-> Value(object.field)]

IInv == object \in Objects /\ operator \in Operators /\ Returned

LEMMA Invariance == Spec => []IInv
<1>1. Init => IInv
  BY DEF Init, IInv, Returned
<1>2. IInv /\ [Next]_vars => IInv'
  <2> SUFFICES ASSUME IInv, [Next]_vars PROVE IInv'
    OBVIOUS
  <2>1. UNCHANGED <<object, operator>>
    BY DEF Next, Skipped, Rejected, Parse, vars
  <2>2. /\ AddrFromObject' = AddrFromObject /\ vaultAddrPolicy' = vaultAddrPolicy
        /\ Value(object.field)' = Value(object.field)
        /\ ResolveObjectSkipVerify(object.skipVerify)'
                = ResolveObjectSkipVerify(object.skipVerify)
    BY <2>1 DEF AddrFromObject, vaultAddrPolicy, Value, Annotations, FromSettings,
                ResolveObjectSkipVerify
  <2>3. Returned'
    BY <2>1, <2>2 DEF Next, Skipped, Rejected, Parse, vars, IInv, Returned
  <2> QED BY <2>1, <2>3 DEF IInv
<1> QED BY <1>1, <1>2, PTL DEF Spec

LEMMA ParsedFacts ==
    ASSUME IInv, result.status = "parsed"
    PROVE  /\ AddrFromObject => ValidateObjectAddr(object.address[1], vaultAddrPolicy)
           /\ result.address = IF AddrFromObject THEN object.address ELSE <<operator.address>>
           /\ result.skipVerify = IF object.skipVerify = "absent" THEN operator.skipVerify
                                  ELSE ResolveObjectSkipVerify(object.skipVerify)
           /\ result.value = Value(object.field)
BY DEF IInv, Returned, Nothing

-----------------------------------------------------------------------------
(* Fields *)

(* The first annotation that counts is taken, or else the setting.         *)
LEMMA ValueFacts ==
    ASSUME NEW f, NEW texts, texts = Annotations(f)
    PROVE  LET Counts(i) == /\ texts[i] # "absent"
                            /\ f \in Quantity => texts[i] \notin {"empty", "bad"}
           IN  /\ Counts(1) => Value(f) = Parsed(f, texts[1])
               /\ ~Counts(1) /\ Counts(2) => Value(f) = Parsed(f, texts[2])
               /\ ~Counts(1) /\ ~Counts(2) => Value(f) = FromSettings(f)
<1> DEFINE given == {i \in 1..2 : /\ texts[i] # "absent"
                                  /\ f \in Quantity => texts[i] \notin {"empty", "bad"}}
           least == CHOOSE i \in given : \A j \in given : i <= j
<1>1. Value(f) = IF given # {} THEN Parsed(f, texts[least]) ELSE FromSettings(f)
  BY DEF Value
<1>2. 1 \in given => least = 1
  OBVIOUS
<1>3. 1 \notin given /\ 2 \in given => least = 2
  <2>1. 1 \notin given /\ 2 \in given => given = {2}
    OBVIOUS
  <2> QED BY <2>1
<1>4. 1 \notin given /\ 2 \notin given => given = {}
  OBVIOUS
<1> QED BY <1>1, <1>2, <1>3, <1>4

LEMMA FieldFacts ==
    /\ WithLegacy \subseteq FromObject /\ FromOperator \cap FromObject = {}
    /\ (Bool \cup Number \cup ObjectBool)
            \cap (FromOperator \cup Quantity \cup Text \cup ObjectText \cup PullPolicy) = {}
    /\ Text \cap (FromOperator \cup Quantity) = {}
    /\ Quantity \cap (Text \cup ObjectText \cup OperatorText \cup PullPolicy) = {}
    /\ OperatorText \cap Quantity = {}
    /\ Quantity \subseteq FromObject \cup OperatorQuantity
BY DEF WithLegacy, FromObject, FromOperator, Bool, Number, ObjectBool, Quantity, Text,
       ObjectText, PullPolicy, OperatorText, ObjectQuantity, OperatorQuantity

-----------------------------------------------------------------------------
(* The theorems *)

(* No object is sent to a Vault server the operator did not name, nor to a *)
(* metadata host, nor to a private one without the operator's consent.     *)
THEOREM OnlySanctionedServers == Spec => []AddressIsSanctioned
<1>1. ASSUME IInv PROVE AddressIsSanctioned
  <2> SUFFICES ASSUME result.status = "parsed" PROVE AddressIsSanctioned
    BY DEF AddressIsSanctioned
  <2>1. CASE AddrFromObject
    <3>1. object.address[1] \in Address /\ operator \in Operators
      BY <1>1, <2>1, ObjectsAssumption DEF IInv, AddrFromObject
    <3>2. ValidateObjectAddr(object.address[1], vaultAddrPolicy)
          /\ result.address = object.address
      BY <1>1, <2>1, ParsedFacts
    <3> QED BY <3>1, <3>2, ValidatedFacts DEF AddressIsSanctioned
  <2>2. CASE ~AddrFromObject
    BY <1>1, <2>2, ParsedFacts DEF AddressIsSanctioned
  <2> QED BY <2>1, <2>2
<1> QED BY Invariance, <1>1, PTL

(* However an annotation spells the operator's own address, it is served.  *)
THEOREM OwnAddressIsServed == Spec => []DefaultMayBeNamed
<1>1. ASSUME IInv PROVE DefaultMayBeNamed
  <2> DEFINE a == object.address[1]
  <2> SUFFICES ASSUME AddrFromObject, Same(a, operator.address), a.extra = "none",
                      operator.address.scheme \in {"http", "https"},
                      \/ class[operator.address.host] \in {"name", "public"}
                      \/ /\ operator.allowPrivate
                         /\ class[operator.address.host] = "unsafe"
               PROVE  result.status # "error"
    BY DEF DefaultMayBeNamed
  <2>1. a \in Address /\ operator.address \in Address
    BY <1>1, ObjectsAssumption, OperatorsAssumption DEF IInv, AddrFromObject
  <2>2. /\ a.form = "url" /\ operator.address.form = "url"
        /\ a.scheme = operator.address.scheme /\ a.host = operator.address.host
    BY DEF Same
  <2>3. addrInAllowlist(a, vaultAddrPolicy.allowlist)
    <3>1. normalizeAddr(operator.address) = normalizeAddr(a)
      BY <2>1, <2>2, NormalFacts
    <3> QED BY <2>2, <3>1 DEF addrInAllowlist, vaultAddrPolicy
  <2>4. ValidateObjectAddr(a, vaultAddrPolicy)
    BY <2>2, <2>3 DEF ValidateObjectAddr, vaultAddrPolicy, checkHostIPSafety
  <2> QED BY <1>1, <2>4 DEF IInv, Returned, Nothing
<1> QED BY Invariance, <1>1, PTL

(* An object turns the verification of Vault's certificate off only with   *)
(* the operator's consent.                                                 *)
THEOREM NoTLSWithoutConsent == Spec => []TLSNeedsConsent
<1>1. IInv => TLSNeedsConsent
  BY ParsedFacts DEF TLSNeedsConsent, ResolveObjectSkipVerify
<1> QED BY Invariance, <1>1, PTL

(* Whatever the annotations, the environment and the field, the value is   *)
(* the one whose turn it is.                                               *)
THEOREM EveryFieldHasItsSource == Spec => []ValueIsSourced
<1>1. ASSUME IInv PROVE ValueIsSourced
  <2> SUFFICES ASSUME result.status = "parsed" PROVE ValueIsSourced
    BY DEF ValueIsSourced
  <2> DEFINE f == object.field
             texts == Annotations(f)
             WellFormed == {"one", "two"}
  <2>1. result.value = Value(f)
    BY <1>1, ParsedFacts
  <2>2. /\ {object.text, object.second} \subseteq {"absent", "empty", "bad", "one", "two"}
        /\ operator.text \in {"absent", "bad", "one", "two"}
    BY <1>1, ObjectsAssumption, OperatorsAssumption DEF IInv
  <2>3. /\ f \in FromOperator => texts[1] = "absent" /\ texts[2] = "absent"
        /\ f \notin FromOperator => texts[1] = object.text
        /\ f \notin FromOperator /\ f \in WithLegacy => texts[2] = object.second
        /\ f \notin FromOperator /\ f \notin WithLegacy => texts[2] = "absent"
    BY DEF Annotations
  <2>4. ASSUME f \notin FromOperator, object.text \in WellFormed
        PROVE  Value(f) = object.text
    BY <2>3, <2>4, ValueFacts DEF Parsed
  <2>5. ASSUME f \in FromOperator \/ (f \notin FromObject /\ object.text = "absent")
        PROVE  /\ operator.text \in WellFormed => Value(f) = operator.text
               /\ operator.text = "absent" => Value(f) = "default"
    <3>1. Value(f) = FromSettings(f) /\ f \notin FromObject
      BY <2>3, <2>5, FieldFacts, ValueFacts
    <3> QED BY <3>1 DEF FromSettings, Parsed
  <2>6. ASSUME f \in Bool \cup Number \cup ObjectBool, object.text \in {"empty", "bad"}
        PROVE  Value(f) = "zero"
    <3>1. Value(f) = Parsed(f, object.text)
      BY <2>3, <2>6, FieldFacts, ValueFacts
    <3>2. f \notin Text \cup ObjectText \cup OperatorText /\ f \notin PullPolicy
      BY <2>6, FieldFacts DEF FromOperator
    <3> QED BY <2>6, <3>1, <3>2 DEF Parsed
  <2>7. ASSUME f \in Text, object.text = "empty" PROVE Value(f) = "empty"
    <3>1. Value(f) = Parsed(f, object.text)
      BY <2>3, <2>7, FieldFacts, ValueFacts
    <3> QED BY <2>7, <3>1 DEF Parsed
  <2>8. ASSUME f \in Quantity PROVE Value(f) \in WellFormed \cup {"default"}
    <3>1. ASSUME NEW text \in WellFormed PROVE Parsed(f, text) \in WellFormed
      BY DEF Parsed
    <3>2. FromSettings(f) \in WellFormed \cup {"default"}
      <4>1. f \in FromObject \/ f \in OperatorQuantity
        BY <2>8, FieldFacts
      <4> QED BY <2>2, <3>1, <4>1 DEF FromSettings
    <3>3. /\ texts[1] \in {"absent", "empty", "bad", "one", "two"}
          /\ texts[2] \in {"absent", "empty", "bad", "one", "two"}
      BY <2>2, <2>3
    <3> QED BY <2>8, <3>1, <3>2, <3>3, ValueFacts
  <2>9. ASSUME f \in WithLegacy, object.text = "absent", object.second \in WellFormed
        PROVE  Value(f) = object.second
    <3>1. f \notin FromOperator
      BY <2>9, FieldFacts
    <3> QED BY <2>3, <2>9, <3>1, ValueFacts DEF Parsed
  <2> QED BY <2>1, <2>4, <2>5, <2>6, <2>7, <2>8, <2>9 DEF ValueIsSourced
<1> QED BY Invariance, <1>1, PTL
================================================================================
