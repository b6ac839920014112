------------------------------- MODULE Egress -------------------------------
(***************************************************************************)
(* Mediated fetch and the secrets it injects: ScopedFetcher and            *)
(* ScopedSecrets, in a host worker of their own for each request of an     *)
(* app, and the policies AppHost keeps, which the room's owner may change  *)
(* at any time between two of their steps.                                 *)
(*                                                                         *)
(* A host name is the sequence of its labels, the top level first.  What   *)
(* servers answer is up to them.  Variables named after "\* history" are   *)
(* read by the properties only; operators named X_Y are faulty variants.   *)
(***************************************************************************)
EXTENDS Integers, Sequences, SequencesExt, FiniteSets

CONSTANTS
  Fetches,     \* calls of send
  Hosts,       \* hosts of http(s) URLs
  NotHttp,     \* a URL of another kind, or none at all
  Lists,       \* egress allowlists an owner may set: sets of entries
  SecretNames, Values,
  Redirects, MaxBytes, \* limits: fetchMaxRedirects and fetchMaxBytes
  None

ASSUME LimitAssumption == Redirects \in Nat /\ MaxBytes \in Nat

Secret == [v : Values, r : BOOLEAN]

VARIABLES
  allow,    \* AppHost: the allowlist
  secrets,  \* AppHost: each secret and whether it is readable, or None
  net,      \* the calls of send
  known,    \* the values an app has read
  listed,   \* history: for each call, the entries in force since it began
  readable  \* history: the values that were ever stored as readable

vars == <<allow, secrets, net, known, listed, readable>>

Idle == [at |-> "idle", list |-> {}, first |-> None, target |-> None, hop |-> 0,
         wants |-> {}, carries |-> {}, got |-> 0]

\* An entry names one host, or with wild all that are below it.
Matches(host, e) ==
  IF e.wild THEN Len(host) > Len(e.name) /\ IsPrefix(e.name, host) ELSE host = e.name

HostAllowed(host, list) == host # NotHttp /\ \E e \in list : Matches(host, e)

-----------------------------------------------------------------------------
(* AppHost.                                                                *)

SetEgressAllowlist(list) ==
  /\ allow' = list
  /\ listed' = [c \in Fetches |-> IF net[c].at = "idle" THEN {} ELSE listed[c] \cup list]
  /\ UNCHANGED <<secrets, net, known, readable>>

SetSecret(name, secret) ==
  /\ secrets' = [secrets EXCEPT ![name] = secret]
  /\ readable' = IF secret.r THEN readable \cup {secret.v} ELSE readable
  /\ UNCHANGED <<allow, net, known, listed>>

DeleteSecret(name) ==
  /\ secrets' = [secrets EXCEPT ![name] = None]
  /\ UNCHANGED <<allow, net, known, listed, readable>>

\* What resolveSecret answers: empty when it throws.
ResolveSecret_Unchecked(name, requireReadable) ==
  IF secrets[name] = None THEN {} ELSE {secrets[name].v}

ResolveSecret(name, requireReadable) ==
  IF secrets[name] = None \/ (requireReadable /\ ~secrets[name].r)
  THEN {} ELSE {secrets[name].v}

-----------------------------------------------------------------------------
(* ScopedSecrets.get.                                                      *)

GetSecret(name) ==
  /\ known' = known \cup ResolveSecret(name, TRUE)
  /\ UNCHANGED <<allow, secrets, net, listed, readable>>

-----------------------------------------------------------------------------
(* ScopedFetcher.send.                                                     *)

Moves(c, record) ==
  /\ net' = [net EXCEPT ![c] = record]
  /\ UNCHANGED <<allow, secrets, known, listed, readable>>

\* The call is over; a slot is used once.
Ends(c, how) == Moves(c, [Idle EXCEPT !.at = how])

\* The allowlist and the limits are read once, for all hops.
Send(c, target, wants) ==
  /\ net[c].at = "idle"
  /\ net' = [net EXCEPT ![c] =
       IF HostAllowed(target, allow)
       THEN [at |-> "secrets", list |-> allow, first |-> target, target |-> target,
             hop |-> 0, wants |-> wants, carries |-> {}, got |-> 0]
       ELSE [Idle EXCEPT !.at = "failed"]]
  /\ listed' = [listed EXCEPT ![c] = allow]
  /\ UNCHANGED <<allow, secrets, known, readable>>

\* One secret header after another, each by a call of AppHost.
InjectSecret(c) ==
  /\ net[c].at = "secrets"
  /\ \E name \in net[c].wants :
       LET value == ResolveSecret(name, FALSE) IN
       IF value = {} THEN Ends(c, "failed")
       ELSE Moves(c, [net[c] EXCEPT !.wants = @ \ {name}, !.carries = @ \cup value])

\* The timer is set, and the first request goes out.
FirstHop(c) ==
  /\ net[c].at = "secrets"
  /\ net[c].wants = {}
  /\ Moves(c, [net[c] EXCEPT !.at = "sent"])

Redirected_Unchecked(c, next) ==
  /\ net[c].at = "sent"
  /\ IF net[c].hop >= Redirects THEN Ends(c, "failed")
     ELSE Moves(c, [net[c] EXCEPT !.target = next, !.hop = @ + 1, !.carries = {}])

Redirected(c, next) ==
  /\ net[c].at = "sent"
  /\ IF net[c].hop >= Redirects \/ ~HostAllowed(next, net[c].list) THEN Ends(c, "failed")
     ELSE Moves(c, [net[c] EXCEPT !.target = next, !.hop = @ + 1, !.carries = {}])

Answered(c) ==
  /\ net[c].at = "sent"
  /\ Moves(c, [net[c] EXCEPT !.at = "reading"])

\* A chunk of the body; the end of it.
ReadCapped(c) ==
  /\ net[c].at = "reading"
  /\ IF net[c].got + 1 > MaxBytes THEN Ends(c, "failed")
     ELSE Moves(c, [net[c] EXCEPT !.got = @ + 1])

BodyEnds(c) == net[c].at = "reading" /\ Ends(c, "done")

Timeout_HeadersOnly(c) == net[c].at = "sent" /\ Ends(c, "failed")

\* One timer bounds all hops and the reading of the body.
Timeout(c) == net[c].at \in {"sent", "reading"} /\ Ends(c, "failed")

-----------------------------------------------------------------------------

Init ==
  /\ allow \in Lists
  /\ secrets = [name \in SecretNames |-> None]
  /\ net = [c \in Fetches |-> Idle]
  /\ known = {}
  /\ listed = [c \in Fetches |-> {}]
  /\ readable = {}

Owner ==
  \/ \E list \in Lists : SetEgressAllowlist(list)
  \/ \E name \in SecretNames : DeleteSecret(name) \/ \E s \in Secret : SetSecret(name, s)

App ==
  \/ \E name \in SecretNames : GetSecret(name)
  \/ \E c \in Fetches, target \in Hosts \cup {NotHttp}, wants \in SUBSET SecretNames :
       Send(c, target, wants)

Servers == \E c \in Fetches :
  \/ \E next \in Hosts \cup {NotHttp} : Redirected(c, next)
  \/ Answered(c) \/ ReadCapped(c) \/ BodyEnds(c)

\* What the platform sees to: calls of AppHost answer, timers fire.
Runtime(c) == InjectSecret(c) \/ FirstHop(c) \/ Timeout(c)

Next == Owner \/ App \/ Servers \/ \E c \in Fetches : Runtime(c)

\* Fetch and secrets alone; a run of them is part of SandboxedApp.
Spec == Init /\ [][Next]_vars

-----------------------------------------------------------------------------
(* Properties.                                                             *)

\* A call sends no more requests than fetchMaxRedirects allows, and each of them,
\* after whatever redirects, to a host that was on the allowlist at some time
\* since the call began (send, requireAllowed).
RequestsStayOnTheLists ==
  \A c \in Fetches : net[c].at = "sent" =>
    /\ HostAllowed(net[c].target, listed[c])
    /\ net[c].hop <= Redirects

\* The app has read no value that was never readable, and those it has injected
\* are sent to the host it named and to no host that redirects elsewhere
\* (resolveSecret, send).
SecretsAreUsedNotRead ==
  /\ known \subseteq readable
  /\ \A c \in Fetches : net[c].carries # {} => net[c].target = net[c].first

\* Every call of send ends, though servers redirect for ever, never answer or
\* never end the body.
FetchesEnd == \A c \in Fetches : net[c].at # "idle" ~> net[c].at \in {"done", "failed"}
=============================================================================
