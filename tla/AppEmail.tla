------------------------------ MODULE AppEmail ------------------------------
(***************************************************************************)
(* Email on behalf of an app: ScopedEmail reserves a slot of the day in    *)
(* AppHost, which checks the owner's policy in the same call, and then     *)
(* hands the mail to the email service, which may take its time or fail.   *)
(*                                                                         *)
(* An address is a record of a user and a domain, and the domain the       *)
(* sequence of its labels, the top level first.  Variables after           *)
(* "\* history" are read by the properties only; operators named X_Y are   *)
(* faulty variants of X that no action uses.                               *)
(***************************************************************************)
EXTENDS Integers, Sequences, SequencesExt, FiniteSets, FiniteSetsExt

CONSTANTS
  Mails,       \* calls of send
  Senders, Recipients,
  Entries,     \* of an allowlist: addresses and domains, plain or below (wild)
  Caps,        \* values of emailPerDay
  Days,        \* bound: 1 .. Days
  None

VARIABLES
  policy,   \* AppHost: allowedFrom and allowRecipients, and defaultFrom or None
  cap,      \* AppHost: limits.emailPerDay
  day,      \* the day in UTC
  sent,     \* AppHost: the counter of each day
  mail,     \* the calls of send
  highest   \* history: the highest cap of each day

vars == <<policy, cap, day, sent, mail, highest>>

NoPolicy == [from |-> {}, default |-> None, to |-> {}]

RecipientAllowed(address, list) == \E e \in list :
  \/ e.user = address.user /\ e.domain = address.domain
  \/ e.user = None /\ IF e.wild THEN Len(address.domain) > Len(e.domain) /\ IsPrefix(e.domain, address.domain)
                                ELSE address.domain = e.domain

\* The sender asked for, else the default, else any of the list (its first).
Sender(from) ==
  IF from # None THEN {from}
  ELSE IF policy.default # None THEN {policy.default}
  ELSE IF policy.from # {} THEN policy.from ELSE {None}

-----------------------------------------------------------------------------

SetEmailPolicy(from, default, to) ==
  /\ policy' = [from |-> from, default |-> default, to |-> to]
  /\ UNCHANGED <<cap, day, sent, mail, highest>>

\* Of setLimits.
SetCap(n) ==
  /\ cap' = n
  /\ highest' = [highest EXCEPT ![day] = Max({@, n})]
  /\ UNCHANGED <<policy, day, sent, mail>>

Midnight ==
  /\ day < Days
  /\ day' = day + 1
  /\ highest' = [highest EXCEPT ![day + 1] = cap]
  /\ UNCHANGED <<policy, cap, sent, mail>>

\* The checks of reserveEmail before the cap.
MaySend(from, to) ==
  /\ policy.from # {}
  /\ from \in policy.from
  /\ to # {}
  /\ policy.to # {} => \A r \in to : RecipientAllowed(r, policy.to)

UnderCap == sent[day] + 1 <= cap

\* reserveEmail: check and count in one call of AppHost.
Reserve(c, from, to) ==
  /\ mail[c].at = "new"
  /\ \E sender \in Sender(from) :
       IF MaySend(sender, to) /\ UnderCap
       THEN /\ sent' = [sent EXCEPT ![day] = @ + 1]
            /\ mail' = [mail EXCEPT ![c] = [at |-> "reserved", on |-> day, from |-> sender]]
       ELSE /\ mail' = [mail EXCEPT ![c].at = "refused"]
            /\ UNCHANGED sent
  /\ UNCHANGED <<policy, cap, day, highest>>

\* The service accepts the mail.
Accepted(c) ==
  /\ mail[c].at = "reserved"
  /\ mail' = [mail EXCEPT ![c].at = "sent"]
  /\ UNCHANGED <<policy, cap, day, sent, highest>>

SendFailed_Refunds(c) ==
  /\ mail[c].at = "reserved"
  /\ mail' = [mail EXCEPT ![c].at = "failed"]
  /\ sent' = [sent EXCEPT ![day] = Max({0, @ - 1})]
  /\ UNCHANGED <<policy, cap, day, highest>>

\* It does not, or its answer is lost: the slot stays taken.
SendFailed(c) ==
  /\ mail[c].at = "reserved"
  /\ mail' = [mail EXCEPT ![c].at = "failed"]
  /\ UNCHANGED <<policy, cap, day, sent, highest>>

-----------------------------------------------------------------------------

Init ==
  /\ policy = NoPolicy
  /\ cap \in Caps
  /\ day = 1
  /\ sent = [d \in 1 .. Days |-> 0]
  /\ mail = [c \in Mails |-> [at |-> "new", on |-> 0, from |-> None]]
  /\ highest = [d \in 1 .. Days |-> IF d = 1 THEN cap ELSE 0]

Next ==
  \/ \E from \in SUBSET Senders, default \in Senders \cup {None}, to \in SUBSET Entries :
       SetEmailPolicy(from, default, to)
  \/ \E n \in Caps : SetCap(n)
  \/ Midnight
  \/ \E c \in Mails :
       \/ \E from \in Senders \cup {None}, to \in SUBSET Recipients : Reserve(c, from, to)
       \/ Accepted(c)
       \/ SendFailed(c)

\* Email alone; a run of it is part of SandboxedApp.
Spec == Init /\ [][Next]_vars

-----------------------------------------------------------------------------
(* Properties.                                                             *)

ReservedOn(d) == {c \in Mails : mail[c].on = d}

\* However sends, failures of the service, changes of the cap and midnight
\* interleave, no more mails are let through on a day than the highest cap it has
\* had, and each of them is counted on that day and no other (reserveEmail).
MailKeepsToTheCap ==
  \A d \in 1 .. Days :
    /\ sent[d] = Cardinality(ReservedOn(d))
    /\ sent[d] <= highest[d]
=============================================================================
