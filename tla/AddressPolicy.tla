---------------------------- MODULE AddressPolicy -----------------------------
(***************************************************************************)
(* ValidateObjectAddr of pkg/common/addr.go: whether an object may name    *)
(* the Vault server its secrets come from.  An address is told apart by    *)
(* what the checks look at; hosts are classified by class.                 *)
(***************************************************************************)
CONSTANTS
    Hosts,
    class           \* "none", "name", "metadata", "public", "unsafe", "numeric"

ASSUME ClassAssumption ==
    class \in [Hosts -> {"none", "name", "metadata", "public", "unsafe", "numeric"}]

(* form is "blank", "malformed" or "url"; extra is "user", "query" or      *)
(* "none"; padded: space around it; upper: another case of scheme or host. *)
Address ==
    [form : {"blank", "malformed", "url"}, scheme : {"http", "https", "ftp"},
     host : Hosts, path : {"", "/", "/x", "/x/"}, extra : {"none", "user", "query"},
     padded : BOOLEAN, upper : BOOLEAN]

(* One slash at the end, the space and the case do not count.              *)
TrimSuffix(path) == CASE path = "/" -> "" [] path = "/x/" -> "/x" [] OTHER -> path

normalizeAddr(a) ==
    IF a.form = "url" THEN <<a.scheme, a.host, TrimSuffix(a.path)>> ELSE <<a.form>>

(* Mutant of addrInAllowlist: the path is not compared.                    *)
hostInAllowlist(a, allowlist) ==
    \E entry \in allowlist : entry.form # "blank" /\ entry.host = a.host

addrInAllowlist(a, allowlist) ==
    \E entry \in allowlist :
        entry.form # "blank" /\ normalizeAddr(entry) = normalizeAddr(a)

checkHostIPSafety(host) == class[host] \notin {"unsafe", "numeric"}

ValidateObjectAddr(a, policy) ==
    /\ a.form = "url"
    /\ a.scheme \in {"http", "https"}
    /\ class[a.host] # "none"
    /\ a.extra = "none"
    /\ addrInAllowlist(a, policy.allowlist)
    /\ class[a.host] # "metadata"
    /\ policy.allowPrivate \/ checkHostIPSafety(a.host)
=============================================================================
