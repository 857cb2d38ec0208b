--------------------------- MODULE CredentialVault ---------------------------
(***************************************************************************)
(* The credential vault (greentyper credential_vault.rs): secrets by target *)
(* name.  On Windows bind and replace read the entry and then write it, two *)
(* calls of the system's vault that other processes may come between; on    *)
(* the other platforms every operation is refused.  The command line and a  *)
(* server connection are its users.                                         *)
(***************************************************************************)
EXTENDS Integers, Sequences, FiniteSets

CONSTANTS
    Identifiers,          \* profile names and references, valid identifiers or not
    ValidName,      \* the ones validate_reference accepts
    Urls,           \* [scheme, loopback, plain, origin]
    Secrets,        \* secret values
    ValidSecret,    \* the ones SecretValue::new accepts
    VaultUsers      \* processes

\* An error is no secret.
ASSUME VaultAssumption ==
    /\ ValidName \subseteq Identifiers /\ ValidSecret \subseteq Secrets
    /\ {"InvalidScope", "NotFound", "InvalidSecret"} \cap Secrets = {}

VARIABLES
    entries,    \* target name -> secret
    access,     \* what a process has read of the vault and is about to write
    written     \* ghost: which secret was written for which scope

vault_vars == <<entries, access, written>>

NoAccess == [goal |-> "none"]

-----------------------------------------------------------------------------
\* ProviderCredentialScope::new: an origin, over TLS, or a loopback that was
\* allowed to do without.
InvalidScope(s) ==
    \/ s.profile \notin ValidName \/ s.reference \notin ValidName
    \/ s.url.scheme \notin {"http", "https"} \/ ~s.url.plain
    \/ s.url.scheme = "http" /\ ~(s.url.loopback /\ s.allow)
    \/ s.allow /\ ~s.url.loopback

\* The path of the URL is not part of the name.
target_name_Shared(s) == <<s.profile, s.reference>>
target_name(s) == <<s.profile, s.reference, s.url.origin>>

Scopes == [profile : Identifiers, reference : Identifiers, url : Urls, allow : BOOLEAN]

\* read: an entry that is not a valid secret is an error.
read(name) ==
    IF name \notin DOMAIN entries THEN "NotFound"
    ELSE IF entries[name] \in ValidSecret THEN "ok" ELSE "InvalidSecret"

\* The check of bind and replace.
begin_write(p, goal, s, secret) ==
    /\ access[p] = NoAccess
    /\ ~InvalidScope(s) /\ secret \in ValidSecret
    /\ read(target_name(s)) = (IF goal = "bind" THEN "NotFound" ELSE "ok")
    /\ access' = [access EXCEPT ![p] =
            [goal |-> goal, scope |-> s, secret |-> secret]]
    /\ UNCHANGED <<entries, written>>

bind(p, s, secret) == begin_write(p, "bind", s, secret)
replace(p, s, secret) == begin_write(p, "replace", s, secret)

\* What a scope stands for: a profile's reference at an origin.
Bound(s, secret) == [profile |-> s.profile, reference |-> s.reference, origin |-> s.url.origin, secret |-> secret]

\* write, or the system's refusal of it.
write(p) ==
    /\ access[p] # NoAccess
    /\ \/ UNCHANGED <<entries, written>>
       \/ LET name == target_name(access[p].scope) IN
          /\ entries' = [n \in DOMAIN entries \cup {name} |-> IF n = name THEN access[p].secret ELSE entries[n]]
          /\ written' = written \cup {Bound(access[p].scope, access[p].secret)}
    /\ access' = [access EXCEPT ![p] = NoAccess]

\* What resolve returns for a scope.
resolve(s) ==
    IF InvalidScope(s) THEN "InvalidScope"
    ELSE IF read(target_name(s)) = "ok" THEN entries[target_name(s)] ELSE read(target_name(s))

forget(p, s) ==
    /\ access[p] = NoAccess
    /\ ~InvalidScope(s) /\ target_name(s) \in DOMAIN entries
    /\ entries' = [n \in DOMAIN entries \ {target_name(s)} |-> entries[n]]
    /\ UNCHANGED <<access, written>>

VaultInit ==
    /\ entries = [n \in {} |-> 0] /\ written = {}
    /\ access = [p \in VaultUsers |-> NoAccess]

VaultNext ==
    \E p \in VaultUsers :
        \/ write(p)
        \/ \E s \in Scopes :
            \/ forget(p, s)
            \/ \E secret \in Secrets : bind(p, s, secret) \/ replace(p, s, secret)

\* What a Provider is given for a profile's reference at an origin is a secret
\* some process wrote for that profile, reference and origin, whichever of two
\* racing writers came last, and never for a plain-text remote origin.
SecretStaysWithItsOrigin ==
    \A s \in Scopes : resolve(s) \in Secrets =>
        /\ Bound(s, resolve(s)) \in written
        /\ s.url.loopback \/ s.url.scheme = "https"
==============================================================================
