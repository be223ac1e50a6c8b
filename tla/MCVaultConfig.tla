---------------------------- MODULE MCVaultConfig -----------------------------
(***************************************************************************)
(* VaultConfig for every field with every text, and for addresses that     *)
(* differ from what the operator listed in each way the checks look at.    *)
(***************************************************************************)
EXTENDS VaultConfig

MCClass ==
    [h \in {"", "vault", "eu.vault", "localhost", "10.0.0.5", "0x7f.1", "8.8.8.8"} |->
        CASE h = ""          -> "none"
          [] h = "localhost" -> "metadata"
          [] h = "10.0.0.5"  -> "unsafe"
          [] h = "0x7f.1"    -> "numeric"
          [] h = "8.8.8.8"   -> "public"
          [] OTHER           -> "name"]
MCHosts == DOMAIN MCClass

Url(scheme, host, path) ==
    [form |-> "url", scheme |-> scheme, host |-> host, path |-> path,
     extra |-> "none", padded |-> FALSE, upper |-> FALSE]

Plain ==
    [skip |-> FALSE, address |-> <<>>, skipVerify |-> "absent",
     field |-> "Role", text |-> "absent", second |-> "absent"]

Texts == {"absent", "empty", "bad", "one", "two"}

(* Every string is a well-formed text.                                     *)
TextsOf(f) ==
    IF f \in Text \cup ObjectText \cup OperatorText THEN Texts \ {"bad"} ELSE Texts

WithField ==
    UNION {{[Plain EXCEPT !.field = f, !.text = t, !.second = u] :
                t \in TextsOf(f), u \in IF f \in WithLegacy THEN TextsOf(f) ELSE {"absent"}} :
           f \in Fields}

Addresses ==
    {Url(s, h, p) : s \in {"https", "ftp"}, h \in MCHosts, p \in {"", "/x", "/x/"}}
      \cup {[Url("https", "vault", "/") EXCEPT !.padded = b, !.upper = b] : b \in BOOLEAN}
      \cup {[Url("https", "vault", "") EXCEPT !.extra = e] : e \in {"user", "query"}}
      \cup {[Url("https", "vault", "") EXCEPT !.form = f] : f \in {"blank", "malformed"}}

WithAddress ==
    {[Plain EXCEPT !.address = <<a>>, !.skip = b] : a \in Addresses, b \in BOOLEAN}

WithSkipVerify == {[Plain EXCEPT !.skipVerify = t] : t \in Texts}

MCObjects == WithField \cup WithAddress \cup WithSkipVerify

Operator(address, allowlist, private, skip, allow, text) ==
    [address |-> address, allowlist |-> allowlist, allowPrivate |-> private,
     skipVerify |-> skip, allowSkipVerify |-> allow, text |-> text]

Listed ==
    {Url("https", "eu.vault", "/x"), Url("ftp", "eu.vault", ""),
     Url("https", "localhost", ""), Url("https", "0x7f.1", ""),
     Url("https", "8.8.8.8", "/x/")}

MCOperators ==
    {Operator(Url("https", "vault", ""), {}, FALSE, b, c, t) :
        b \in BOOLEAN, c \in BOOLEAN, t \in Texts \ {"empty"}}
      \cup {Operator(Url("https", "10.0.0.5", ""), Listed, b, FALSE, FALSE, "absent") :
                b \in BOOLEAN}
=============================================================================
