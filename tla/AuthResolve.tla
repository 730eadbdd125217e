----------------------------- MODULE AuthResolve -----------------------------
(***************************************************************************)
(* internal/controller/authresolve: from the auth block of a CR and the    *)
(* Secrets it names to the credentials a request carries. The Secrets are  *)
(* read one after another, and each may change between two reads; the step *)
(* that reads one is the controller's.                                     *)
(*                                                                         *)
(* The content of a Secret is one value, its version: every key has it.    *)
(* A Secret that does not exist, or lacks the key, is Missing. Header      *)
(* names, the client ID and the like are copied from the CR and left out.  *)
(***************************************************************************)
EXTENDS Sequences, Naturals

CONSTANTS
    Secrets,    \* Secrets of the namespace
    Versions,   \* contents a Secret may have
    Missing,    \* no Secret, or not the key asked for
    Unset       \* a nil pointer

AuthTypes == {"basic", "bearer", "headers", "queryParam", "oauth"}

\* A nil pointer is neither a string nor a list of strings.
ASSUME AuthAssumption ==
    /\ Versions # {}
    /\ Unset \notin AuthTypes \cup Versions \cup Seq(Versions)

\* An auth block: its type and the Secrets it names, in the order they are
\* read. basic, bearer and queryParam name one, headers one for each header,
\* of which there may be none; an oauth block may do without (auth_types.go).
WellFormed(a) ==
    /\ a.type \in AuthTypes
    /\ a.refs \in Seq(Secrets)
    /\ a.type \in {"basic", "bearer", "queryParam"} => Len(a.refs) = 1
    /\ a.type = "oauth" => Len(a.refs) <= 1

\* No auth block. It names no Secret.
NoAuth == [type |-> Unset, refs |-> <<>>]

\* The fields of a request (Result) and of the object at ContextForge.
Credentials ==
    [AuthType: AuthTypes \cup {Unset},
     Username: Versions \cup {Unset}, Password: Versions \cup {Unset},
     Token: Versions \cup {Unset}, QPValue: Versions \cup {Unset},
     Headers: Seq(Versions) \cup {Unset}, OAuthCfg: Seq(Versions) \cup {Unset}]

NoCredentials ==
    [AuthType |-> Unset, Username |-> Unset, Password |-> Unset, Token |-> Unset,
     QPValue |-> Unset, Headers |-> Unset, OAuthCfg |-> Unset]

\* Both keys come from one read of one Secret.
resolveBasicAuth(vs) ==
    [NoCredentials EXCEPT !.AuthType = "basic", !.Username = vs[1], !.Password = vs[1]]

resolveBearerAuth(vs) == [NoCredentials EXCEPT !.AuthType = "bearer", !.Token = vs[1]]

\* An empty list is no nil pointer, but see SentAuth.
resolveHeadersAuth(vs) == [NoCredentials EXCEPT !.AuthType = "headers", !.Headers = vs]

resolveQueryParamAuth(vs) ==
    [NoCredentials EXCEPT !.AuthType = "queryParam", !.QPValue = vs[1]]

\* Never empty: the grant type and the client ID are always in it.
resolveOAuthAuth(vs) == [NoCredentials EXCEPT !.AuthType = "oauth", !.OAuthCfg = vs]

\* The credentials for auth block a, when its Secrets read as vs.
AuthResult(a, vs) ==
    CASE a.type = "basic" -> resolveBasicAuth(vs)
      [] a.type = "bearer" -> resolveBearerAuth(vs)
      [] a.type = "headers" -> resolveHeadersAuth(vs)
      [] a.type = "queryParam" -> resolveQueryParamAuth(vs)
      [] a.type = "oauth" -> resolveOAuthAuth(vs)
      [] OTHER -> NoCredentials

\* The fields an object needs to have for each type.
Carried(type) ==
    CASE type = "basic" -> {"Username", "Password"}
      [] type = "bearer" -> {"Token"}
      [] type = "headers" -> {"Headers"}
      [] type = "queryParam" -> {"QPValue"}
      [] type = "oauth" -> {"OAuthCfg"}
      [] OTHER -> {}

\* omitempty: nil pointers are not sent, nor is an empty list of headers. What
\* is not sent keeps its value, so fields of another auth type do.
SentAuth(new, old) ==
    [f \in DOMAIN old |->
        IF new[f] = Unset \/ (f = "Headers" /\ new[f] = <<>>) THEN old[f] ELSE new[f]]

\* With an empty list, a type goes out without its headers.
HeadersMissing(c) == c.AuthType = "headers" /\ c.Headers = <<>>
==============================================================================
