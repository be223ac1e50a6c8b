----------------------------- MODULE VaultClient ------------------------------
(***************************************************************************)
(* newVaultClient of pkg/webhook/webhook.go with the counters of           *)
(* client_metrics.go: each review that needs Vault builds a client of its  *)
(* own, in steps that may fail, and closes it when its mutation returns.   *)
(* The counters belong to the process.                                     *)
(***************************************************************************)
EXTENDS Naturals, FiniteSets

CONSTANT Reviews

VARIABLES
    review,         \* what each review is about, its tlsSecret and account
    client,         \* what the client of each review waits for
    attempts,       \* vaultAuthAttemptsCount
    errors,         \* vaultAuthAttemptsErrorsCount, by reason
    tokens,         \* cluster: reviews a service account token was created for
    opened          \* history: clients built since the process started

counters == <<attempts, errors, opened>>
clientVars == <<client, counters, tokens>>

Reasons == {"config_error", "kubernetes_error"}

(* The calls of newVaultClient that may fail, and the reason counted.      *)
failure ==
    [config        |-> {"config_error"},
     tls           |-> {"kubernetes_error", "config_error"},
     account       |-> {"kubernetes_error"},
     accountSecret |-> {"kubernetes_error"},
     token         |-> {"kubernetes_error"},
     login         |-> {"config_error"}]

Steps == DOMAIN failure

ClientTypeOK ==
    /\ client \in [Reviews -> Steps \cup {"none", "open", "closed", "failed"}]
    /\ attempts \in Nat
    /\ errors \in [Reasons -> Nat]
    /\ tokens \subseteq Reviews
    /\ opened \in Nat

ClientInit ==
    /\ client = [r \in Reviews |-> "none"]
    /\ attempts = 0
    /\ errors = [reason \in Reasons |-> 0]
    /\ tokens = {}
    /\ opened = 0

Become(r, to) == client' = [client EXCEPT ![r] = to]
Count(reason) == errors' = [errors EXCEPT ![reason] = @ + 1]

-----------------------------------------------------------------------------
Attempt(r) ==
    /\ client[r] = "none"
    /\ attempts' = attempts + 1
    /\ Become(r, "config")
    /\ UNCHANGED <<errors, opened, tokens>>

Pass(r, from, to) ==
    /\ client[r] = from
    /\ Become(r, to)
    /\ UNCHANGED <<counters, tokens>>

AfterTLS(r) == IF review[r].account = "none" THEN "login" ELSE "account"

Configure(r) ==
    Pass(r, "config", IF review[r].tlsSecret THEN "tls" ELSE AfterTLS(r))

ReadTLSSecret(r) == Pass(r, "tls", AfterTLS(r))

ReadAccount(r) ==
    Pass(r, "account",
         IF review[r].account = "secret" THEN "accountSecret" ELSE "token")

(* The secret's token may be empty.                                        *)
ReadAccountSecret(r) ==
    Pass(r, "accountSecret", "login") \/ Pass(r, "accountSecret", "token")

CreateToken(r) ==
    /\ client[r] = "token"
    /\ Become(r, "login")
    /\ tokens' = tokens \cup {r}
    /\ UNCHANGED counters

Connect(r) ==
    /\ client[r] = "login"
    /\ Become(r, "open")
    /\ opened' = opened + 1
    /\ UNCHANGED <<attempts, errors, tokens>>

(* Mutant of ClientFails: the counter is left out for a bad CA bundle.     *)
ClientFailsQuietly(r) ==
    /\ client[r] \in Steps
    /\ \E reason \in failure[client[r]] :
            IF client[r] = "tls" /\ reason = "config_error"
            THEN UNCHANGED errors ELSE Count(reason)
    /\ tokens' \in {tokens, IF client[r] = "token" THEN tokens \cup {r} ELSE tokens}
    /\ Become(r, "failed")
    /\ UNCHANGED <<attempts, opened>>

(* A token may have been created although the call reports an error.       *)
ClientFails(r) ==
    /\ client[r] \in Steps
    /\ \E reason \in failure[client[r]] : Count(reason)
    /\ tokens' \in {tokens, IF client[r] = "token" THEN tokens \cup {r} ELSE tokens}
    /\ Become(r, "failed")
    /\ UNCHANGED <<attempts, opened>>

ClientStep(r) ==
    \/ Configure(r) \/ ReadTLSSecret(r) \/ ReadAccount(r)
    \/ ReadAccountSecret(r) \/ CreateToken(r)

(* The deferred Close.                                                     *)
Close(r) == Pass(r, "open", "closed")

ClientCrash(lost) ==
    /\ client' = [r \in Reviews |-> IF r \in lost THEN "closed" ELSE client[r]]
    /\ attempts' = 0
    /\ errors' = [reason \in Reasons |-> 0]
    /\ opened' = 0
    /\ UNCHANGED tokens

-----------------------------------------------------------------------------
(* Properties *)

(* newVaultClient returns on nine paths: whatever runs at the same time,   *)
(* each attempt is counted once and ends as exactly one counted error or   *)
(* one client.                                                             *)
Connecting == {r \in Reviews : client[r] \in Steps}

AttemptsAddUp ==
    attempts = Cardinality(Connecting) + opened
                 + errors["config_error"] + errors["kubernetes_error"]
=============================================================================
