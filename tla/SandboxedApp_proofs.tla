------------------------- MODULE SandboxedApp_proofs -------------------------
(***************************************************************************)
(* Safety of what an app in the sandbox runs on and reaches.  Mediated     *)
(* fetch with secrets comes first, as Egress specifies it alone, for any   *)
(* number of calls, any hosts, allowlists and secrets, and whatever the    *)
(* owner and the servers do meanwhile, and email, for any number of mails, *)
(* days and caps; then the app that uses any of the parts.  Each of its    *)
(* steps is a step of a part or leaves that part alone, so that what is    *)
(* proved of fetch, email and the workers of the runs holds for it.  The   *)
(* counter and the caps of the store, and the namespaces of files and      *)
(* blobs, are proved for the app directly.                                 *)
(***************************************************************************)
EXTENDS SandboxedApp, OperatorLemmas, FiniteSetTheorems, TLAPS

-----------------------------------------------------------------------------
(* Mediated fetch (Egress).                                                *)

Active == {"secrets", "sent", "reading"}

Call == [at : Active \cup {"idle", "failed", "done"}, list : SUBSET UNION Lists,
         first : Hosts \cup {NotHttp, None}, target : Hosts \cup {NotHttp, None}, hop : Nat,
         wants : SUBSET SecretNames, carries : SUBSET Values, got : Nat]

TypeOK ==
  /\ allow \in SUBSET UNION Lists
  /\ secrets \in [SecretNames -> Secret \cup {None}]
  /\ net \in [Fetches -> Call]
  /\ known \subseteq Values
  /\ listed \in [Fetches -> SUBSET UNION Lists]
  /\ readable \subseteq Values

\* A call has checked its target against its own list, whose entries were in force
\* since it began, and what it carries goes where the app wanted it.
IsSound(call, inForce) ==
  /\ call.at \in Active =>
       /\ call.list \subseteq inForce
       /\ HostAllowed(call.target, call.list)
       /\ call.hop <= Redirects
  /\ call.at = "secrets" => call.target = call.first
  /\ call.carries # {} => call.target = call.first

CallsAreSound == \A c \in Fetches : IsSound(net[c], listed[c])

\* What may be read was stored as readable; the app has read nothing else.
ReadableIsRemembered ==
  /\ \A name \in SecretNames :
       secrets[name] # None /\ secrets[name].r => secrets[name].v \in readable
  /\ known \subseteq readable

\* The inductive invariant.
IInv == TypeOK /\ CallsAreSound /\ ReadableIsRemembered

-----------------------------------------------------------------------------
(* Lemmas.                                                                 *)

\* An allowlist that grows allows no fewer hosts.
LEMMA AllowedIsMonotone ==
  ASSUME NEW host, NEW small, NEW large, small \subseteq large, HostAllowed(host, small)
  PROVE  HostAllowed(host, large)
BY DEF HostAllowed

\* The record every call begins and ends with is sound.
LEMMA IdleIsSound ==
  ASSUME NEW how \in {"idle", "failed", "done"}, NEW inForce
  PROVE  /\ [Idle EXCEPT !.at = how] \in Call
         /\ IsSound([Idle EXCEPT !.at = how], inForce)
         /\ Idle \in Call /\ IsSound(Idle, inForce)
BY DEF Idle, Call, IsSound, Active

\* A step of one call that leaves it sound keeps the invariant.
LEMMA SoundMove ==
  ASSUME IInv, NEW c \in Fetches, NEW record \in Call, IsSound(record, listed[c]),
         Moves(c, record)
  PROVE  IInv'
<1>1. TypeOK'
  BY DEF IInv, TypeOK, Moves
<1>2. CallsAreSound'
  <2> SUFFICES ASSUME NEW d \in Fetches PROVE IsSound(net'[d], listed'[d])
    BY DEF CallsAreSound
  <2>1. net'[d] = IF d = c THEN record ELSE net[d]
    BY DEF IInv, TypeOK, Moves
  <2>2. listed' = listed
    BY DEF Moves
  <2> QED BY <2>1, <2>2 DEF IInv, CallsAreSound
<1>3. ReadableIsRemembered'
  BY DEF IInv, ReadableIsRemembered, Moves
<1> QED BY <1>1, <1>2, <1>3 DEF IInv

\* A call that ends is sound.
LEMMA EndMove ==
  ASSUME IInv, NEW c \in Fetches, NEW how \in {"failed", "done"}, Ends(c, how)
  PROVE  IInv'
BY SoundMove, IdleIsSound DEF Ends, IInv

\* What resolveSecret answers.
LEMMA ResolveSecretType ==
  ASSUME IInv, NEW name \in SecretNames, NEW requireReadable \in BOOLEAN
  PROVE  /\ ResolveSecret(name, requireReadable) \subseteq Values
         /\ ResolveSecret(name, TRUE) \subseteq readable
<1>1. ResolveSecret(name, requireReadable) \subseteq Values
  BY DEF IInv, TypeOK, ResolveSecret, Secret
<1>2. ResolveSecret(name, TRUE) \subseteq readable
  BY DEF IInv, ReadableIsRemembered, ResolveSecret
<1> QED BY <1>1, <1>2

-----------------------------------------------------------------------------
(* The owner and the app.                                                  *)

LEMMA OwnerSteps == ASSUME IInv, Owner PROVE IInv'
<1>1. ASSUME NEW list \in Lists, SetEgressAllowlist(list)
      PROVE  IInv'
  <2>1. TypeOK'
    BY <1>1 DEF IInv, TypeOK, SetEgressAllowlist
  <2>2. CallsAreSound'
    <3> SUFFICES ASSUME NEW d \in Fetches PROVE IsSound(net[d], listed'[d])
      BY <1>1 DEF CallsAreSound, SetEgressAllowlist
    <3>1. CASE net[d].at = "idle"
      BY <3>1 DEF IInv, CallsAreSound, IsSound, Active
    <3>2. CASE net[d].at # "idle"
      <4>1. listed[d] \subseteq listed'[d]
        BY <1>1, <3>2 DEF SetEgressAllowlist
      <4> QED BY <4>1 DEF IInv, CallsAreSound, IsSound
    <3> QED BY <3>1, <3>2
  <2>3. ReadableIsRemembered'
    BY <1>1 DEF IInv, ReadableIsRemembered, SetEgressAllowlist
  <2> QED BY <2>1, <2>2, <2>3 DEF IInv
<1>2. ASSUME NEW name \in SecretNames, DeleteSecret(name)
      PROVE  IInv'
  <2>1. TypeOK' /\ CallsAreSound'
    BY <1>2 DEF IInv, TypeOK, CallsAreSound, DeleteSecret
  <2>2. ReadableIsRemembered'
    BY <1>2 DEF IInv, TypeOK, ReadableIsRemembered, DeleteSecret
  <2> QED BY <2>1, <2>2 DEF IInv
<1>3. ASSUME NEW name \in SecretNames, NEW s \in Secret, SetSecret(name, s)
      PROVE  IInv'
  <2>1. s.v \in Values /\ s.r \in BOOLEAN
    BY DEF Secret
  <2>2. TypeOK'
    BY <1>3, <2>1 DEF IInv, TypeOK, SetSecret
  <2>3. CallsAreSound'
    BY <1>3 DEF IInv, CallsAreSound, SetSecret
  <2>4. readable \subseteq readable' /\ (s.r => s.v \in readable')
    BY <1>3 DEF SetSecret
  <2>5. \A n \in SecretNames : secrets'[n] = IF n = name THEN s ELSE secrets[n]
    BY <1>3 DEF IInv, TypeOK, SetSecret
  <2>6. ReadableIsRemembered'
    BY <1>3, <2>4, <2>5 DEF IInv, ReadableIsRemembered, SetSecret
  <2> QED BY <2>2, <2>3, <2>6 DEF IInv
<1> QED BY <1>1, <1>2, <1>3 DEF Owner

LEMMA AppSteps == ASSUME IInv, App PROVE IInv'
<1>1. ASSUME NEW name \in SecretNames, GetSecret(name)
      PROVE  IInv'
  <2>1. TypeOK' /\ CallsAreSound'
    BY <1>1, ResolveSecretType DEF IInv, TypeOK, CallsAreSound, GetSecret
  <2>2. ReadableIsRemembered'
    BY <1>1, ResolveSecretType DEF IInv, ReadableIsRemembered, GetSecret
  <2> QED BY <2>1, <2>2 DEF IInv
<1>2. ASSUME NEW c \in Fetches, NEW target \in Hosts \cup {NotHttp},
             NEW wants \in SUBSET SecretNames, Send(c, target, wants)
      PROVE  IInv'
  <2> DEFINE asked == [at |-> "secrets", list |-> allow, first |-> target, target |-> target,
                       hop |-> 0, wants |-> wants, carries |-> {}, got |-> 0]
             record == IF HostAllowed(target, allow) THEN asked ELSE [Idle EXCEPT !.at = "failed"]
  <2>1. record \in Call /\ IsSound(record, allow)
    <3>1. CASE ~HostAllowed(target, allow)
      BY <3>1, IdleIsSound
    <3>2. CASE HostAllowed(target, allow)
      <4>1. asked \in Call
        BY DEF Call, Active, IInv, TypeOK
      <4>2. IsSound(asked, allow)
        BY <3>2, LimitAssumption DEF IsSound, Active
      <4> QED BY <3>2, <4>1, <4>2
    <3> QED BY <3>1, <3>2
  <2>2. net' = [net EXCEPT ![c] = record] /\ listed' = [listed EXCEPT ![c] = allow]
    BY <1>2 DEF Send
  <2> HIDE DEF record
  <2>3. TypeOK'
    BY <1>2, <2>1, <2>2 DEF IInv, TypeOK, Send
  <2>4. CallsAreSound'
    <3> SUFFICES ASSUME NEW d \in Fetches PROVE IsSound(net'[d], listed'[d])
      BY DEF CallsAreSound
    <3>1. /\ net'[d] = IF d = c THEN record ELSE net[d]
          /\ listed'[d] = IF d = c THEN allow ELSE listed[d]
      BY <2>2 DEF IInv, TypeOK
    <3> QED BY <2>1, <3>1 DEF IInv, CallsAreSound
  <2>5. ReadableIsRemembered'
    BY <1>2 DEF IInv, ReadableIsRemembered, Send
  <2> QED BY <2>3, <2>4, <2>5 DEF IInv
<1> QED BY <1>1, <1>2 DEF App

-----------------------------------------------------------------------------
(* The servers and the platform.                                           *)

LEMMA ServerSteps == ASSUME IInv, NEW c \in Fetches,
                            \/ \E next \in Hosts \cup {NotHttp} : Redirected(c, next)
                            \/ Answered(c) \/ ReadCapped(c) \/ BodyEnds(c)
                     PROVE  IInv'
<1>0. net[c] \in Call /\ IsSound(net[c], listed[c])
  BY DEF IInv, TypeOK, CallsAreSound
<1>1. ASSUME NEW next \in Hosts \cup {NotHttp}, Redirected(c, next)
      PROVE  IInv'
  <2> DEFINE record == [net[c] EXCEPT !.target = next, !.hop = @ + 1, !.carries = {}]
  <2>1. CASE net[c].hop >= Redirects \/ ~HostAllowed(next, net[c].list)
    BY <1>1, <2>1, EndMove DEF Redirected
  <2>2. CASE ~(net[c].hop >= Redirects \/ ~HostAllowed(next, net[c].list))
    <3>1. net[c].at = "sent" /\ Moves(c, record)
      BY <1>1, <2>2 DEF Redirected
    <3>2. record \in Call
      <4>1. {} \in SUBSET Values /\ net[c].hop + 1 \in Nat
        BY <1>0 DEF Call
      <4> QED BY <1>0, <4>1 DEF Call
    <3>3. /\ record.at = "sent" /\ record.list = net[c].list /\ record.target = next
          /\ record.hop = net[c].hop + 1 /\ record.carries = {}
      BY <1>0, <3>1 DEF Call
    <3>4. record.hop <= Redirects
      BY <1>0, <2>2, <3>3, LimitAssumption DEF Call
    <3>5. IsSound(record, listed[c])
      BY <1>0, <2>2, <3>1, <3>3, <3>4 DEF IsSound, Active
    <3> QED BY <3>1, <3>2, <3>5, SoundMove
  <2> QED BY <2>1, <2>2
<1>2. ASSUME Answered(c) PROVE IInv'
  <2> DEFINE record == [net[c] EXCEPT !.at = "reading"]
  <2>1. record \in Call /\ IsSound(record, listed[c])
    BY <1>0, <1>2 DEF Call, IsSound, Active, Answered
  <2> QED BY <1>2, <2>1, SoundMove DEF Answered
<1>3. ASSUME ReadCapped(c) PROVE IInv'
  <2> DEFINE record == [net[c] EXCEPT !.got = @ + 1]
  <2>1. CASE net[c].got + 1 > MaxBytes
    BY <1>3, <2>1, EndMove DEF ReadCapped
  <2>2. CASE ~(net[c].got + 1 > MaxBytes)
    <3>1. record \in Call /\ IsSound(record, listed[c])
      BY <1>0 DEF Call, IsSound, Active
    <3> QED BY <1>3, <2>2, <3>1, SoundMove DEF ReadCapped
  <2> QED BY <2>1, <2>2
<1>4. ASSUME BodyEnds(c) PROVE IInv'
  BY <1>4, EndMove DEF BodyEnds
<1> QED BY <1>1, <1>2, <1>3, <1>4

LEMMA RuntimeSteps == ASSUME IInv, NEW c \in Fetches, Runtime(c) PROVE IInv'
<1>0. net[c] \in Call /\ IsSound(net[c], listed[c])
  BY DEF IInv, TypeOK, CallsAreSound
<1>1. ASSUME InjectSecret(c) PROVE IInv'
  <2>1. net[c].at = "secrets" /\ net[c].wants \subseteq SecretNames
    BY <1>0, <1>1 DEF InjectSecret, Call
  <2>2. PICK name \in net[c].wants :
          LET value == ResolveSecret(name, FALSE) IN
          IF value = {} THEN Ends(c, "failed")
          ELSE Moves(c, [net[c] EXCEPT !.wants = @ \ {name}, !.carries = @ \cup value])
    BY <1>1 DEF InjectSecret
  <2> DEFINE value == ResolveSecret(name, FALSE)
             record == [net[c] EXCEPT !.wants = @ \ {name}, !.carries = @ \cup value]
  <2>3. value \subseteq Values
    BY <2>1, ResolveSecretType
  <2>4. CASE value = {}
    BY <2>2, <2>4, EndMove
  <2>5. CASE value # {}
    <3>1. Moves(c, record)
      BY <2>2, <2>5
    <3> HIDE DEF value
    <3>2. record \in Call
      BY <1>0, <2>3 DEF Call
    <3>3. IsSound(record, listed[c])
      BY <1>0, <2>1 DEF Call, IsSound, Active
    <3> QED BY <3>1, <3>2, <3>3, SoundMove
  <2> QED BY <2>4, <2>5
<1>2. ASSUME FirstHop(c) PROVE IInv'
  <2> DEFINE record == [net[c] EXCEPT !.at = "sent"]
  <2>1. record \in Call /\ IsSound(record, listed[c])
    BY <1>0, <1>2 DEF Call, IsSound, Active, FirstHop
  <2> QED BY <1>2, <2>1, SoundMove DEF FirstHop
<1>3. ASSUME Timeout(c) PROVE IInv'
  BY <1>3, EndMove DEF Timeout
<1> QED BY <1>1, <1>2, <1>3 DEF Runtime

-----------------------------------------------------------------------------

LEMMA InitIInv == Init => IInv
<1> SUFFICES ASSUME Init PROVE IInv
  OBVIOUS
<1>1. TypeOK
  BY IdleIsSound DEF Init, TypeOK
<1>2. CallsAreSound
  BY IdleIsSound DEF Init, CallsAreSound
<1>3. ReadableIsRemembered
  BY DEF Init, ReadableIsRemembered
<1> QED BY <1>1, <1>2, <1>3 DEF IInv

LEMMA NextIInv == IInv /\ [Next]_vars => IInv'
<1> SUFFICES ASSUME IInv, [Next]_vars PROVE IInv'
  OBVIOUS
<1>1. CASE UNCHANGED vars
  BY <1>1 DEF vars, IInv, TypeOK, CallsAreSound, ReadableIsRemembered
<1>2. CASE Next
  BY <1>2, OwnerSteps, AppSteps, ServerSteps, RuntimeSteps DEF Next, Servers
<1> QED BY <1>1, <1>2

\* In every behaviour the variables have their types.
THEOREM TypeCorrect == Spec => []TypeOK
<1>1. IInv => TypeOK
  BY DEF IInv
<1> QED BY <1>1, InitIInv, NextIInv, PTL DEF Spec

\* Every request, redirected or not, goes to a host that was on the allowlist at some
\* time since its call began, and a call makes no more of them than the limit allows
\* (send, requireAllowed).
THEOREM RequestsAlwaysStayOnTheLists == Spec => []RequestsStayOnTheLists
<1>1. IInv => RequestsStayOnTheLists
  <2> SUFFICES ASSUME IInv, NEW c \in Fetches, net[c].at = "sent"
               PROVE  HostAllowed(net[c].target, listed[c]) /\ net[c].hop <= Redirects
    BY DEF RequestsStayOnTheLists
  <2>1. IsSound(net[c], listed[c]) /\ net[c].at \in Active
    BY DEF IInv, CallsAreSound, Active
  <2> QED BY <2>1, AllowedIsMonotone DEF IsSound
<1> QED BY <1>1, InitIInv, NextIInv, PTL DEF Spec

\* No secret is read that was never readable, and no secret follows a redirect
\* (resolveSecret, send).
THEOREM SecretsAreAlwaysUsedNotRead == Spec => []SecretsAreUsedNotRead
<1>1. IInv => SecretsAreUsedNotRead
  BY DEF IInv, ReadableIsRemembered, CallsAreSound, IsSound, SecretsAreUsedNotRead
<1> QED BY <1>1, InitIInv, NextIInv, PTL DEF Spec

-----------------------------------------------------------------------------
(* Email (AppEmail).                                                       *)

\* What the proof asks of the constants.
CapsAreNumbers == Days \in Nat /\ Caps \subseteq Nat

\* The types of the mails and their counts.
MailTypes ==
  /\ day \in 1 .. Days
  /\ cap \in Nat
  /\ sent \in [1 .. Days -> Nat]
  /\ highest \in [1 .. Days -> Nat]
  /\ mail = [c \in Mails |-> mail[c]]

\* A mail that has not been reserved is counted on no day.
NewMailsAreUncounted == \A c \in Mails : mail[c].at = "new" => mail[c].on = 0

\* The cap in force is one of today's, and nothing is counted ahead.
CapIsOfToday ==
  /\ cap <= highest[day]
  /\ \A d \in 1 .. Days : d > day => sent[d] = 0

\* Each day counts finitely many mails, each once, and no more than its highest cap.
DaysAreKept ==
  \A d \in 1 .. Days :
    /\ IsFiniteSet(M!ReservedOn(d))
    /\ sent[d] = Cardinality(M!ReservedOn(d))
    /\ sent[d] <= highest[d]

\* The inductive invariant.
MailIInv == CapsAreNumbers /\ MailTypes /\ NewMailsAreUncounted /\ CapIsOfToday /\ DaysAreKept

\* The greater of two numbers.
LEMMA MaxOfTwo ==
  ASSUME NEW a \in Nat, NEW b \in Nat
  PROVE  M!Max({a, b}) \in Nat /\ M!Max({a, b}) >= a /\ M!Max({a, b}) >= b
<1>1. \E x \in {a, b} : \A y \in {a, b} : x >= y
  <2>1. CASE a >= b
    BY <2>1
  <2>2. CASE b >= a
    BY <2>2
  <2> QED BY <2>1, <2>2
<1>2. M!Max({a, b}) \in {a, b} /\ \A y \in {a, b} : M!Max({a, b}) >= y
  BY <1>1 DEF M!Max
<1> QED BY <1>2

\* A step that changes no count, no cap and no mail but one that stays on its day.
LEMMA UncountedMailStep ==
  ASSUME MailIInv, UNCHANGED <<cap, day, sent, highest>>, mail' = [c \in Mails |-> mail'[c]],
         \A c \in Mails : mail'[c].on = mail[c].on,
         \A c \in Mails : mail'[c].at = "new" => mail[c].at = "new"
  PROVE  MailIInv'
<1>1. \A d \in 1 .. Days : M!ReservedOn(d)' = M!ReservedOn(d)
  BY DEF M!ReservedOn
<1>2. DaysAreKept'
  BY <1>1 DEF MailIInv, DaysAreKept
<1> QED BY <1>2 DEF MailIInv, CapsAreNumbers, MailTypes, NewMailsAreUncounted, CapIsOfToday

\* The owner sets the cap.
LEMMA SetCapStep == ASSUME MailIInv, NEW n \in Caps, M!SetCap(n) PROVE MailIInv'
<1>1. n \in Nat /\ day \in 1 .. Days /\ highest[day] \in Nat
  BY DEF MailIInv, CapsAreNumbers, MailTypes
<1>2. highest' = [highest EXCEPT ![day] = M!Max({highest[day], n})]
  BY DEF M!SetCap
<1>3. /\ M!Max({highest[day], n}) \in Nat /\ M!Max({highest[day], n}) >= n
      /\ M!Max({highest[day], n}) >= highest[day]
  BY <1>1, MaxOfTwo
<1>4. /\ highest' \in [1 .. Days -> Nat]
      /\ highest'[day] >= n
      /\ \A d \in 1 .. Days : highest'[d] >= highest[d]
  <2> DEFINE m == M!Max({highest[day], n})
  <2>1. m \in Nat /\ m >= n /\ m >= highest[day] /\ highest' = [highest EXCEPT ![day] = m]
    BY <1>2, <1>3
  <2> HIDE DEF m
  <2>2. /\ highest \in [1 .. Days -> Nat]
        /\ \A d \in 1 .. Days : highest'[d] = IF d = day THEN m ELSE highest[d]
    BY <2>1 DEF MailIInv, MailTypes
  <2> QED BY <1>1, <2>1, <2>2
<1>5. \A d \in 1 .. Days : M!ReservedOn(d)' = M!ReservedOn(d)
  BY DEF M!SetCap, M!ReservedOn
<1>6. MailTypes' /\ NewMailsAreUncounted' /\ CapIsOfToday' /\ CapsAreNumbers'
  BY <1>1, <1>4 DEF M!SetCap, MailIInv, MailTypes, NewMailsAreUncounted, CapIsOfToday, CapsAreNumbers
<1>7. DaysAreKept'
  <2> SUFFICES ASSUME NEW d \in 1 .. Days
               PROVE  /\ IsFiniteSet(M!ReservedOn(d))' /\ sent'[d] = Cardinality(M!ReservedOn(d))'
                      /\ sent'[d] <= highest'[d]
    BY DEF DaysAreKept
  <2>1. sent[d] <= highest[d] /\ highest[d] <= highest'[d]
    BY <1>4 DEF MailIInv, DaysAreKept
  <2>2. sent[d] \in Nat /\ highest[d] \in Nat /\ highest'[d] \in Nat
    BY <1>4 DEF MailIInv, MailTypes
  <2>3. sent'[d] <= highest'[d]
    BY <2>1, <2>2 DEF M!SetCap
  <2> QED BY <1>5, <2>3 DEF M!SetCap, MailIInv, DaysAreKept
<1> QED BY <1>6, <1>7 DEF MailIInv

\* The day ends.
LEMMA MidnightStep == ASSUME MailIInv, M!Midnight PROVE MailIInv'
<1>1. day \in 1 .. Days /\ day + 1 \in 1 .. Days
  BY DEF M!Midnight, MailIInv, MailTypes, CapsAreNumbers
<1>2. /\ highest' \in [1 .. Days -> Nat] /\ highest'[day + 1] = cap
      /\ \A d \in 1 .. Days : d # day + 1 => highest'[d] = highest[d]
  BY <1>1 DEF M!Midnight, MailIInv, MailTypes
<1>3. sent[day + 1] = 0
  BY <1>1 DEF MailIInv, CapIsOfToday
<1>4. \A d \in 1 .. Days : sent[d] <= highest'[d]
  BY <1>2, <1>3 DEF MailIInv, MailTypes, DaysAreKept
<1>5. \A d \in 1 .. Days : M!ReservedOn(d)' = M!ReservedOn(d)
  BY DEF M!Midnight, M!ReservedOn
<1>6. DaysAreKept'
  BY <1>4, <1>5 DEF M!Midnight, MailIInv, DaysAreKept
<1>7. CapIsOfToday'
  BY <1>1, <1>2 DEF M!Midnight, MailIInv, MailTypes, CapIsOfToday
<1>8. MailTypes' /\ NewMailsAreUncounted' /\ CapsAreNumbers'
  BY <1>1, <1>2 DEF M!Midnight, MailIInv, MailTypes, NewMailsAreUncounted, CapsAreNumbers
<1> QED BY <1>6, <1>7, <1>8 DEF MailIInv

\* A slot that is granted is counted today, once, and under the cap.
LEMMA GrantStep ==
  ASSUME MailIInv, NEW c \in Mails, NEW sender, mail[c].at = "new", M!UnderCap,
         sent' = [sent EXCEPT ![day] = @ + 1],
         mail' = [mail EXCEPT ![c] = [at |-> "reserved", on |-> day, from |-> sender]],
         UNCHANGED <<policy, cap, day, highest>>
  PROVE  MailIInv'
<1>1. /\ day \in 1 .. Days /\ sent[day] \in Nat /\ cap \in Nat /\ highest[day] \in Nat
      /\ mail[c].on = 0
  BY DEF MailIInv, MailTypes, NewMailsAreUncounted
<1>2. /\ \A d \in 1 .. Days : sent'[d] = IF d = day THEN sent[d] + 1 ELSE sent[d]
      /\ sent' \in [1 .. Days -> Nat]
  BY <1>1 DEF MailIInv, MailTypes
<1>3. \A b \in Mails : mail'[b] = IF b = c THEN [at |-> "reserved", on |-> day, from |-> sender]
                                  ELSE mail[b]
  BY DEF MailIInv, MailTypes
<1>4. M!ReservedOn(day)' = M!ReservedOn(day) \cup {c} /\ c \notin M!ReservedOn(day)
  BY <1>1, <1>3 DEF M!ReservedOn
<1>5. \A d \in 1 .. Days : d # day => M!ReservedOn(d)' = M!ReservedOn(d)
  BY <1>1, <1>3 DEF M!ReservedOn
<1>6. DaysAreKept'
  <2> SUFFICES ASSUME NEW d \in 1 .. Days
               PROVE  /\ IsFiniteSet(M!ReservedOn(d)') /\ sent'[d] = Cardinality(M!ReservedOn(d)')
                      /\ sent'[d] <= highest[d]
    BY DEF DaysAreKept
  <2>1. /\ IsFiniteSet(M!ReservedOn(d)) /\ sent[d] = Cardinality(M!ReservedOn(d))
        /\ sent[d] <= highest[d]
    BY DEF MailIInv, DaysAreKept
  <2>2. CASE d = day
    <3>1. /\ IsFiniteSet(M!ReservedOn(d)')
          /\ Cardinality(M!ReservedOn(d)') = Cardinality(M!ReservedOn(d)) + 1
      BY <1>4, <2>1, <2>2, FS_AddElement
    <3>2. sent[day] + 1 <= highest[day]
      BY <1>1 DEF M!UnderCap, MailIInv, CapIsOfToday
    <3> QED BY <1>2, <2>1, <2>2, <3>1, <3>2
  <2>3. CASE d # day
    BY <1>2, <1>5, <2>1, <2>3
  <2> QED BY <2>2, <2>3
<1>7. MailTypes' /\ CapsAreNumbers'
  BY <1>2 DEF MailIInv, MailTypes, CapsAreNumbers
<1>8. NewMailsAreUncounted'
  BY <1>3 DEF MailIInv, NewMailsAreUncounted
<1>9. CapIsOfToday'
  BY <1>1, <1>2 DEF MailIInv, CapIsOfToday
<1> QED BY <1>6, <1>7, <1>8, <1>9 DEF MailIInv

\* A call of send goes on.
LEMMA EachMailStep ==
  ASSUME MailIInv, NEW c \in Mails,
         \/ \E from \in Senders \cup {None}, to \in SUBSET Recipients : M!Reserve(c, from, to)
         \/ M!Accepted(c) \/ M!SendFailed(c)
  PROVE  MailIInv'
<1>1. ASSUME NEW from, NEW to, M!Reserve(c, from, to) PROVE MailIInv'
  <2>1. PICK sender \in M!Sender(from) :
          IF M!MaySend(sender, to) /\ M!UnderCap
          THEN /\ sent' = [sent EXCEPT ![day] = @ + 1]
               /\ mail' = [mail EXCEPT ![c] = [at |-> "reserved", on |-> day, from |-> sender]]
          ELSE /\ mail' = [mail EXCEPT ![c].at = "refused"]
               /\ UNCHANGED sent
    BY <1>1 DEF M!Reserve
  <2>2. CASE M!MaySend(sender, to) /\ M!UnderCap
    BY <1>1, <2>1, <2>2, GrantStep DEF M!Reserve
  <2>3. CASE ~(M!MaySend(sender, to) /\ M!UnderCap)
    <3>1. mail' = [mail EXCEPT ![c].at = "refused"] /\ UNCHANGED <<cap, day, sent, highest>>
      BY <1>1, <2>1, <2>3 DEF M!Reserve
    <3> QED BY <3>1, UncountedMailStep DEF MailIInv, MailTypes
  <2> QED BY <2>2, <2>3
<1>2. CASE M!Accepted(c)
  BY <1>2, UncountedMailStep DEF M!Accepted, MailIInv, MailTypes
<1>3. CASE M!SendFailed(c)
  BY <1>3, UncountedMailStep DEF M!SendFailed, MailIInv, MailTypes
<1> QED BY <1>1, <1>2, <1>3

\* The invariant holds initially and is kept.
LEMMA InitMailIInv == ASSUME CapsAreNumbers, Days >= 1, M!Init PROVE MailIInv
<1>1. MailTypes /\ NewMailsAreUncounted /\ CapIsOfToday
  BY DEF M!Init, CapsAreNumbers, MailTypes, NewMailsAreUncounted, CapIsOfToday
<1>2. DaysAreKept
  <2> SUFFICES ASSUME NEW d \in 1 .. Days
               PROVE  /\ IsFiniteSet(M!ReservedOn(d)) /\ sent[d] = Cardinality(M!ReservedOn(d))
                      /\ sent[d] <= highest[d]
    BY DEF DaysAreKept
  <2>1. M!ReservedOn(d) = {}
    BY DEF M!Init, M!ReservedOn
  <2>2. sent[d] = 0 /\ highest[d] \in Nat
    BY DEF M!Init, CapsAreNumbers
  <2> QED BY <2>1, <2>2, FS_EmptySet
<1> QED BY <1>1, <1>2 DEF MailIInv

LEMMA NextMailIInv == MailIInv /\ [M!Next]_(M!vars) => MailIInv'
<1> SUFFICES ASSUME MailIInv, [M!Next]_(M!vars) PROVE MailIInv'
  OBVIOUS
<1>1. CASE UNCHANGED M!vars
  BY <1>1, UncountedMailStep DEF M!vars, MailIInv, MailTypes
<1>2. ASSUME NEW from, NEW default, NEW to, M!SetEmailPolicy(from, default, to) PROVE MailIInv'
  BY <1>2, UncountedMailStep DEF M!SetEmailPolicy, MailIInv, MailTypes
<1> QED BY <1>1, <1>2, SetCapStep, MidnightStep, EachMailStep DEF M!Next

-----------------------------------------------------------------------------
(* Runs and their workers (Sandbox), of which what an app runs in is an    *)
(* instance.                                                               *)

\* Every live version and every run has code; a run that began has a room.
RunsHaveCode ==
  /\ live \in [Rooms -> X!Code]
  /\ run = [r \in Runs |-> run[r]]
  /\ \A r \in Runs : run[r].at # "idle" => run[r].room \in Rooms /\ run[r].code \in X!Code

\* What is stored under the hash of a file set is its build.
BuildsFitTheirHash ==
  /\ builds = [room \in Rooms |-> builds[room]]
  /\ \A room \in Rooms, code \in X!Code :
       X!Fingerprint(code) \in DOMAIN builds[room] => builds[room][X!Fingerprint(code)] = code

\* The worker with the id of a room and a file set runs that file set for that room.
WorkersFitTheirId ==
  \A room \in Rooms, code \in X!Code :
    X!WorkerId(room, code) \in DOMAIN worker => worker[X!WorkerId(room, code)] = X!Worker(room, code)

\* A run that executes has got the worker of its room and its files.
RunsGotTheirWorker ==
  \A r \in Runs : run[r].at = "running" => run[r].worker = X!Worker(run[r].room, run[r].code)

\* The inductive invariant.
RunsIInv == RunsHaveCode /\ BuildsFitTheirHash /\ WorkersFitTheirId /\ RunsGotTheirWorker

\* A file set is determined by its fingerprint.
LEMMA FingerprintIsInjective ==
  ASSUME NEW c \in X!Code, NEW d \in X!Code, X!Fingerprint(c) = X!Fingerprint(d)
  PROVE  c = d
<1>1. PICK ps \in SUBSET Paths : c \in [ps -> Contents]
  BY DEF X!Code
<1>2. PICK qs \in SUBSET Paths : d \in [qs -> Contents]
  BY DEF X!Code
<1>3. ASSUME NEW p \in ps PROVE p \in qs /\ c[p] = d[p]
  <2>1. <<p, c[p]>> \in X!Fingerprint(d)
    BY <1>1 DEF X!Fingerprint
  <2>2. PICK q \in qs : <<p, c[p]>> = <<q, d[q]>>
    BY <1>2, <2>1 DEF X!Fingerprint
  <2> QED BY <2>2
<1>4. ASSUME NEW q \in qs PROVE q \in ps
  <2>1. <<q, d[q]>> \in X!Fingerprint(c)
    BY <1>2 DEF X!Fingerprint
  <2>2. PICK p \in ps : <<q, d[q]>> = <<p, c[p]>>
    BY <1>1, <2>1 DEF X!Fingerprint
  <2> QED BY <2>2
<1>5. ps = qs
  BY <1>3, <1>4
<1> QED BY <1>1, <1>2, <1>3, <1>5

\* A worker id determines its room and its file set.
LEMMA WorkerIdIsInjective ==
  ASSUME NEW x, NEW y, NEW c \in X!Code, NEW d \in X!Code, X!WorkerId(x, c) = X!WorkerId(y, d)
  PROVE  x = y /\ c = d
BY FingerprintIsInjective DEF X!WorkerId

\* Dropping one entry of a table.
LEMMA DroppedEntry ==
  ASSUME NEW key, NEW table
  PROVE  /\ DOMAIN X!Restrict(table, DOMAIN table \ {key}) = DOMAIN table \ {key}
         /\ \A k \in DOMAIN table \ {key} : X!Restrict(table, DOMAIN table \ {key})[k] = table[k]
BY DEF X!Restrict

-----------------------------------------------------------------------------
(* AppHost beside the runs.                                                *)

LEMMA HostSteps ==
  ASSUME RunsIInv, NEW room \in Rooms, NEW code \in X!Code,
         X!Promote(room, code) \/ X!Rollback(room, code) \/ X!PruneBuilds(room)
  PROVE  RunsIInv'
<1>1. UNCHANGED <<worker, run>>
  BY DEF X!Promote, X!Rollback, X!PruneBuilds
<1>2. live' \in [Rooms -> X!Code]
  BY DEF X!Promote, X!Rollback, X!PruneBuilds, RunsIInv, RunsHaveCode
<1>3. BuildsFitTheirHash'
  <2>1. CASE X!Promote(room, code)
    <3> DEFINE stored == X!WithEntry(builds[room], X!Fingerprint(code), X!Bundle(code))
    <3>1. builds' = [builds EXCEPT ![room] = stored]
      BY <2>1 DEF X!Promote
    <3>2. ASSUME NEW c \in X!Code, X!Fingerprint(c) \in DOMAIN stored
          PROVE  stored[X!Fingerprint(c)] = c
      <4>1. stored[X!Fingerprint(c)] = IF X!Fingerprint(c) = X!Fingerprint(code)
                                     THEN X!Bundle(code) ELSE builds[room][X!Fingerprint(c)]
        BY <3>2 DEF X!WithEntry
      <4>2. X!Fingerprint(c) # X!Fingerprint(code) => X!Fingerprint(c) \in DOMAIN builds[room]
        BY <3>2 DEF X!WithEntry
      <4>3. CASE X!Fingerprint(c) = X!Fingerprint(code)
        BY <4>1, <4>3, FingerprintIsInjective DEF X!Bundle
      <4>4. CASE X!Fingerprint(c) # X!Fingerprint(code)
        BY <4>1, <4>2, <4>4 DEF RunsIInv, BuildsFitTheirHash
      <4> QED BY <4>3, <4>4
    <3> HIDE DEF stored
    <3> QED BY <3>1, <3>2 DEF RunsIInv, BuildsFitTheirHash
  <2>2. CASE X!Rollback(room, code)
    BY <2>2 DEF X!Rollback, RunsIInv, BuildsFitTheirHash
  <2>3. CASE X!PruneBuilds(room)
    <3>1. PICK hash \in DOMAIN builds[room] :
            builds' = [builds EXCEPT ![room] = X!Restrict(@, DOMAIN @ \ {hash})]
      BY <2>3 DEF X!PruneBuilds
    <3> DEFINE kept == X!Restrict(builds[room], DOMAIN builds[room] \ {hash})
    <3>2. ASSUME NEW c \in X!Code, X!Fingerprint(c) \in DOMAIN kept
          PROVE  kept[X!Fingerprint(c)] = c
      <4>1. /\ X!Fingerprint(c) \in DOMAIN builds[room]
            /\ kept[X!Fingerprint(c)] = builds[room][X!Fingerprint(c)]
        BY <3>2, DroppedEntry
      <4> QED BY <4>1 DEF RunsIInv, BuildsFitTheirHash
    <3>3. builds' = [builds EXCEPT ![room] = kept]
      BY <3>1
    <3> HIDE DEF kept
    <3> QED BY <3>2, <3>3 DEF RunsIInv, BuildsFitTheirHash
  <2> QED BY <2>1, <2>2, <2>3
<1>4. RunsHaveCode' /\ WorkersFitTheirId' /\ RunsGotTheirWorker'
  BY <1>1, <1>2 DEF RunsIInv, RunsHaveCode, WorkersFitTheirId, RunsGotTheirWorker
<1> QED BY <1>3, <1>4 DEF RunsIInv

-----------------------------------------------------------------------------
(* Runs and workers.                                                       *)

\* A step of one run keeps the invariant when its new record has room, code and the
\* right worker, and the workers that are kept fit their ids.
LEMMA RunStep ==
  ASSUME RunsIInv, NEW r \in Runs, NEW record, X!Steps(r, record),
         record.at # "idle", record.room \in Rooms, record.code \in X!Code,
         record.at = "running" => record.worker = X!Worker(record.room, record.code),
         WorkersFitTheirId'
  PROVE  RunsIInv'
<1>1. \A s \in Runs : run'[s] = IF s = r THEN record ELSE run[s]
  BY DEF X!Steps, RunsIInv, RunsHaveCode
<1>2. run' = [s \in Runs |-> run'[s]]
  BY DEF X!Steps, RunsIInv, RunsHaveCode
<1>3. RunsHaveCode'
  BY <1>1, <1>2 DEF X!Steps, RunsIInv, RunsHaveCode
<1>4. BuildsFitTheirHash'
  BY DEF X!Steps, RunsIInv, BuildsFitTheirHash
<1>5. RunsGotTheirWorker'
  BY <1>1 DEF RunsIInv, RunsGotTheirWorker
<1> QED BY <1>3, <1>4, <1>5 DEF RunsIInv

\* The build that is stored for the files of a run, or that is made of them, goes
\* into a worker of its own id.
LEMMA LoadStep == ASSUME RunsIInv, NEW r \in Runs, X!Load(r) PROVE RunsIInv'
<1> DEFINE room == run[r].room
           code == run[r].code
           hash == X!Fingerprint(code)
           built == IF hash \in DOMAIN builds[room] THEN builds[room][hash] ELSE X!Bundle(code)
           record == [run[r] EXCEPT !.at = "running", !.worker = X!Worker(room, built)]
<1>1. run[r].at = "load" /\ room \in Rooms /\ code \in X!Code
  BY DEF X!Load, RunsIInv, RunsHaveCode
<1>2. built = code
  BY <1>1 DEF RunsIInv, BuildsFitTheirHash, X!Bundle
<1>3. worker' = X!WithEntry(worker, X!WorkerId(room, code), X!Worker(room, code))
  BY <1>2 DEF X!Load
<1>4. WorkersFitTheirId'
  <2> SUFFICES ASSUME NEW x \in Rooms, NEW c \in X!Code, X!WorkerId(x, c) \in DOMAIN worker'
               PROVE  worker'[X!WorkerId(x, c)] = X!Worker(x, c)
    BY DEF WorkersFitTheirId
  <2>1. CASE X!WorkerId(x, c) = X!WorkerId(room, code)
    <3>1. x = room /\ c = code
      BY <1>1, <2>1, WorkerIdIsInjective
    <3>2. worker'[X!WorkerId(x, c)] = X!Worker(room, code)
      BY <1>3, <2>1 DEF X!WithEntry
    <3> QED BY <3>1, <3>2
  <2>2. CASE X!WorkerId(x, c) # X!WorkerId(room, code)
    <3>1. /\ X!WorkerId(x, c) \in DOMAIN worker
          /\ worker'[X!WorkerId(x, c)] = worker[X!WorkerId(x, c)]
      BY <1>3, <2>2 DEF X!WithEntry
    <3> QED BY <3>1 DEF RunsIInv, WorkersFitTheirId
  <2> QED BY <2>1, <2>2
<1>5. X!Steps(r, record)
  BY DEF X!Load
<1>6. /\ record.at = "running" /\ record.worker = X!Worker(room, code)
      /\ record.room = room /\ record.code = code
  BY <1>2
<1> HIDE DEF record
<1> QED BY <1>1, <1>4, <1>5, <1>6, RunStep

LEMMA RunSteps ==
  ASSUME RunsIInv, NEW r \in Runs, NEW room \in Rooms,
         X!Request(r, room) \/ X!GetWarm(r) \/ X!GetCold(r) \/ X!Load(r) \/ X!Ends(r)
  PROVE  RunsIInv'
<1>1. CASE X!Request(r, room)
  <2> DEFINE record == [at |-> "get", room |-> room, code |-> live[room], worker |-> None]
  <2>1. X!Steps(r, record) /\ live[room] \in X!Code /\ WorkersFitTheirId'
    BY <1>1 DEF X!Request, RunsIInv, RunsHaveCode, WorkersFitTheirId
  <2> QED BY <2>1, RunStep
<1>2. CASE X!GetWarm(r)
  <2> DEFINE id == X!WorkerId(run[r].room, run[r].code)
             record == [run[r] EXCEPT !.at = "running", !.worker = worker[id]]
  <2>1. X!Steps(r, record) /\ run[r].room \in Rooms /\ run[r].code \in X!Code
    BY <1>2 DEF X!GetWarm, RunsIInv, RunsHaveCode
  <2>2. WorkersFitTheirId' /\ worker[id] = X!Worker(run[r].room, run[r].code)
    BY <1>2, <2>1 DEF X!GetWarm, RunsIInv, WorkersFitTheirId
  <2>3. /\ record.at = "running" /\ record.worker = worker[id]
        /\ record.room = run[r].room /\ record.code = run[r].code
    OBVIOUS
  <2> HIDE DEF record, id
  <2> QED BY <2>1, <2>2, <2>3, RunStep
<1>3. CASE X!GetCold(r)
  <2> DEFINE record == [run[r] EXCEPT !.at = "load"]
  <2>1. X!Steps(r, record) /\ run[r].room \in Rooms /\ run[r].code \in X!Code /\ WorkersFitTheirId'
    BY <1>3 DEF X!GetCold, RunsIInv, RunsHaveCode, WorkersFitTheirId
  <2>2. record.at = "load" /\ record.room = run[r].room /\ record.code = run[r].code
    OBVIOUS
  <2> HIDE DEF record
  <2> QED BY <2>1, <2>2, RunStep
<1>4. CASE X!Load(r)
  BY <1>4, LoadStep
<1>5. CASE X!Ends(r)
  <2> DEFINE record == [run[r] EXCEPT !.at = "ended"]
  <2>1. X!Steps(r, record) /\ run[r].room \in Rooms /\ run[r].code \in X!Code /\ WorkersFitTheirId'
    BY <1>5 DEF X!Ends, RunsIInv, RunsHaveCode, WorkersFitTheirId
  <2>2. record.at = "ended" /\ record.room = run[r].room /\ record.code = run[r].code
    OBVIOUS
  <2> HIDE DEF record
  <2> QED BY <2>1, <2>2, RunStep
<1> QED BY <1>1, <1>2, <1>3, <1>4, <1>5

LEMMA EvictStep == ASSUME RunsIInv, NEW id, X!Evict(id) PROVE RunsIInv'
<1>1. UNCHANGED <<live, builds, run>> /\ worker' = X!Restrict(worker, DOMAIN worker \ {id})
  BY DEF X!Evict
<1>2. WorkersFitTheirId'
  BY <1>1, DroppedEntry DEF RunsIInv, WorkersFitTheirId
<1> QED BY <1>1, <1>2 DEF RunsIInv, RunsHaveCode, BuildsFitTheirHash, RunsGotTheirWorker

-----------------------------------------------------------------------------

LEMMA InitRunsIInv == X!Init => RunsIInv
BY DEF X!Init, RunsIInv, RunsHaveCode, BuildsFitTheirHash, WorkersFitTheirId, RunsGotTheirWorker

LEMMA NextRunsIInv == RunsIInv /\ [X!Next]_(X!vars) => RunsIInv'
<1> SUFFICES ASSUME RunsIInv, [X!Next]_(X!vars) PROVE RunsIInv'
  OBVIOUS
<1>1. CASE UNCHANGED X!vars
  BY <1>1 DEF X!vars, RunsIInv, RunsHaveCode, BuildsFitTheirHash, WorkersFitTheirId, RunsGotTheirWorker
<1>2. ASSUME NEW room \in Rooms, NEW code \in X!Code, X!Promote(room, code) \/ X!Rollback(room, code)
      PROVE  RunsIInv'
  BY <1>2, HostSteps
<1>3. ASSUME NEW room \in Rooms, X!PruneBuilds(room) PROVE RunsIInv'
  <2>1. live[room] \in X!Code
    BY DEF RunsIInv, RunsHaveCode
  <2> QED BY <1>3, <2>1, HostSteps
<1>4. ASSUME NEW r \in Runs, \E room \in Rooms : X!Request(r, room) PROVE RunsIInv'
  BY <1>4, RunSteps
<1>5. ASSUME NEW r \in Runs, X!GetWarm(r) \/ X!GetCold(r) \/ X!Load(r) \/ X!Ends(r) PROVE RunsIInv'
  <2>1. run[r].room \in Rooms
    BY <1>5 DEF X!GetWarm, X!GetCold, X!Load, X!Ends, RunsIInv, RunsHaveCode
  <2> QED BY <1>5, <2>1, RunSteps
<1>6. ASSUME NEW id \in DOMAIN worker, X!Evict(id) PROVE RunsIInv'
  BY <1>6, EvictStep
<1> QED BY <1>1, <1>2, <1>3, <1>4, <1>5, <1>6 DEF X!Next

\* A run executes the files it was given, in a worker whose broker is that of its own
\* room: ids tell rooms and file sets apart, and a stored build is the build of the
\* files it was stored for (getWorker, resolvePrebuilt).
THEOREM RunsAlwaysRunWhatTheyWereGiven == X!Spec => []X!RunsWhatItWasGiven
<1>1. RunsIInv => X!RunsWhatItWasGiven
  <2> SUFFICES ASSUME RunsIInv, NEW r \in Runs, run[r].at = "running"
               PROVE  run[r].worker.code = run[r].code /\ run[r].worker.room = run[r].room
    BY DEF X!RunsWhatItWasGiven
  <2>1. run[r].worker = [room |-> run[r].room, code |-> run[r].code]
    BY DEF RunsIInv, RunsGotTheirWorker, X!Worker
  <2> QED BY <2>1
<1> QED BY <1>1, InitRunsIInv, NextRunsIInv, PTL DEF X!Spec

-----------------------------------------------------------------------------
(* An app in the sandbox implements each of the parts.                     *)

LEMMA ImplementsEgress == SpecApp => Spec
<1>1. InitApp => Init
  BY DEF InitApp
<1>2. [NextApp]_appVars => [Next]_vars
  BY DEF NextApp, Storing, Fetching, Filing, appVars, netVars
<1> QED BY <1>1, <1>2, PTL DEF SpecApp, Spec

LEMMA ImplementsSandbox == SpecApp => X!Spec
<1>1. InitApp => X!Init
  BY DEF InitApp
<1>2. [NextApp]_appVars => [X!Next]_(X!vars)
  BY DEF NextApp, Storing, Fetching, Filing, appVars, runVars, X!vars
<1> QED BY <1>1, <1>2, PTL DEF SpecApp, X!Spec

-----------------------------------------------------------------------------
(* The counter of AppStore.                                                *)

Added == {c \in Clients : client[c].at = "added"}

\* What the proof asks of the constants.
CountsFromANumber == From \in Nat /\ Absent \notin Nat

\* The counter holds a number, and it has grown by one for each request that is told
\* it has.
CountIInv ==
  /\ client = [c \in Clients |-> client[c]]
  /\ store = [k \in S!Keys |-> store[k]]
  /\ store[S!Counter] \in Nat
  /\ IsFiniteSet(Added)
  /\ store[S!Counter] = From + Cardinality(Added)

\* Steps that leave the counter and the clients alone.
LEMMA UncountedStep ==
  ASSUME CountIInv, UNCHANGED client, store' = [k \in S!Keys |-> store'[k]],
         store'[S!Counter] = store[S!Counter]
  PROVE  CountIInv'
<1>1. Added' = Added
  BY DEF Added
<1> QED BY <1>1 DEF CountIInv

\* A client that moves, but is neither told now nor was told before that it counts.
LEMMA UntoldStep ==
  ASSUME CountIInv, NEW c \in Clients, NEW mine, client' = [client EXCEPT ![c] = mine],
         mine.at # "added", client[c].at # "added", UNCHANGED store
  PROVE  CountIInv'
<1>1. Added' = Added /\ client' = [d \in Clients |-> client'[d]]
  BY DEF Added, CountIInv
<1> QED BY <1>1 DEF CountIInv

\* A client that is told that it counts, when the counter grows by one.
LEMMA ToldStep ==
  ASSUME CountsFromANumber, CountIInv, NEW c \in Clients, client[c].at # "added",
         NEW mine, client' = [client EXCEPT ![c] = mine], mine.at = "added",
         store' = [store EXCEPT ![S!Counter] = store[S!Counter] + 1]
  PROVE  CountIInv'
<1>1. Added' = Added \cup {c} /\ c \notin Added
  BY DEF Added, CountIInv
<1>2. client' = [d \in Clients |-> client'[d]]
  BY DEF CountIInv
<1>3. store' = [k \in S!Keys |-> store'[k]] /\ store'[S!Counter] = store[S!Counter] + 1
  BY DEF CountIInv, S!Keys
<1>4. IsFiniteSet(Added') /\ Cardinality(Added') = Cardinality(Added) + 1
  BY <1>1, FS_AddElement DEF CountIInv
<1>5. Cardinality(Added) \in Nat
  BY FS_CardinalityType DEF CountIInv
<1> QED BY <1>2, <1>3, <1>4, <1>5 DEF CountIInv, CountsFromANumber

\* incr, and the rounds of get and cas: a cas writes only what follows on the value
\* that is there.
LEMMA AddStep ==
  ASSUME CountsFromANumber, CountIInv, NEW c \in Clients, S!Add(c)
  PROVE  CountIInv'
<1>1. CASE S!StoreIncr(c)
  <2> DEFINE mine == [client[c] EXCEPT !.at = "added"]
  <2>1. client[c].at = "start" /\ client' = [client EXCEPT ![c] = mine]
    BY <1>1 DEF S!StoreIncr
  <2>2. store' = [store EXCEPT ![S!Counter] = store[S!Counter] + 1]
    BY <1>1 DEF S!StoreIncr, S!Number, CountIInv, CountsFromANumber
  <2>3. mine.at = "added"
    OBVIOUS
  <2> HIDE DEF mine
  <2> QED BY <2>1, <2>2, <2>3, ToldStep
<1>2. CASE S!StoreGet(c)
  <2> DEFINE mine == [at |-> "read", seen |-> store[S!Counter]]
  <2>1. /\ client[c].at = "start" /\ client' = [client EXCEPT ![c] = mine]
        /\ UNCHANGED store
    BY <1>2 DEF S!StoreGet
  <2>2. mine.at # "added" /\ client[c].at # "added"
    BY <2>1
  <2> HIDE DEF mine
  <2> QED BY <2>1, <2>2, UntoldStep
<1>3. CASE S!StoreCas(c)
  <2> DEFINE next == S!Number(client[c].seen) + 1
             at(where) == [client[c] EXCEPT !.at = where]
  <2>0. client[c].at = "read" /\ \A where : at(where).at = where
    BY <1>3 DEF S!StoreCas
  <2>1. \/ client' = [client EXCEPT ![c] = at("start")] /\ UNCHANGED store
        \/ client' = [client EXCEPT ![c] = at("refused")] /\ UNCHANGED store
        \/ /\ S!Same(store[S!Counter], client[c].seen)
           /\ store' = [store EXCEPT ![S!Counter] = next]
           /\ client' = [client EXCEPT ![c] = at("added")]
    BY <1>3 DEF S!StoreCas
  <2> HIDE DEF at
  <2>2. S!Same(store[S!Counter], client[c].seen) => next = store[S!Counter] + 1
    BY DEF S!Same, S!Number, CountIInv, CountsFromANumber
  <2> HIDE DEF next
  <2>3. CASE \E where \in {"start", "refused"} :
               client' = [client EXCEPT ![c] = at(where)] /\ UNCHANGED store
    BY <2>0, <2>3, UntoldStep
  <2>4. CASE /\ S!Same(store[S!Counter], client[c].seen)
             /\ store' = [store EXCEPT ![S!Counter] = next]
             /\ client' = [client EXCEPT ![c] = at("added")]
    BY <2>0, <2>2, <2>4, ToldStep
  <2> QED BY <2>1, <2>3, <2>4
<1> QED BY <1>1, <1>2, <1>3 DEF S!Add

LEMMA StoreSteps ==
  ASSUME CountsFromANumber, CountIInv, S!NextStore \/ S!NextSql
  PROVE  CountIInv'
<1>1. CASE S!Limits \/ S!RestartData \/ S!RestartSql
  <2>1. UNCHANGED <<store, client>>
    BY <1>1 DEF S!Limits, S!Push, S!PushData, S!PushSql, S!PushFails, S!RestartHost,
                S!SetLimits, S!RestartData, S!RestartSql
  <2> QED BY <2>1, UncountedStep DEF CountIInv
<1>2. ASSUME NEW s, S!SqlExec(s) PROVE CountIInv'
  BY <1>2, UncountedStep DEF S!SqlExec, CountIInv
<1>3. ASSUME NEW t, S!StorePut(S!Note, t) \/ S!StoreDelete(S!Note) PROVE CountIInv'
  <2>1. PICK v : store' = [store EXCEPT ![S!Note] = v] /\ UNCHANGED client
    BY <1>3 DEF S!StorePut, S!StoreDelete
  <2>2. store' = [k \in S!Keys |-> store'[k]] /\ store'[S!Counter] = store[S!Counter]
    BY <2>1 DEF CountIInv, S!Keys, S!Counter, S!Note
  <2> QED BY <2>1, <2>2, UncountedStep
<1> QED BY <1>1, <1>2, <1>3, AddStep DEF S!NextStore, S!NextSql

LEMMA InitCountIInv == ASSUME CountsFromANumber, InitApp PROVE CountIInv
<1>1. Added = {} /\ client = [c \in Clients |-> client[c]]
  BY DEF InitApp, S!Init, Added
<1>2. store = [k \in S!Keys |-> store[k]] /\ store[S!Counter] = From
  BY DEF InitApp, S!Init, S!Keys
<1> QED BY <1>1, <1>2, FS_EmptySet DEF CountIInv, CountsFromANumber

LEMMA NextCountIInv ==
  ASSUME CountsFromANumber, CountIInv, [NextApp]_appVars
  PROVE  CountIInv'
<1>1. CASE UNCHANGED <<store, client>>
  BY <1>1, UncountedStep DEF CountIInv
<1>2. CASE S!NextStore \/ S!NextSql
  BY <1>2, StoreSteps
<1> QED BY <1>1, <1>2 DEF NextApp, Storing, Filing, Fetching, storeVars, appVars

-----------------------------------------------------------------------------
(* The caps of AppStore.                                                   *)

Limit == [S!Fields -> Int]
Push == [id : Nat, limits : Limit, to : {"data", "sql"}]

\* An object has the caps, and will have them when it has restarted.
Holds(object, capsOf, defaults) ==
  object.now = capsOf /\ S!Loaded(object.kept, defaults) = capsOf

DataHolds == Holds(caps, S!StoreCaps(limits), S!StoreCaps(DEFAULT_LIMITS))
SqlHolds == Holds(database, S!SqlCaps(limits), S!SqlCaps(DEFAULT_LIMITS))

CapTypes ==
  /\ limits \in Limit /\ called \in Nat
  /\ pushes \in SUBSET Push
  /\ DOMAIN store = S!Keys /\ DOMAIN client = Clients
  /\ caps = [kept |-> caps.kept, now |-> caps.now]
  /\ database = [kept |-> database.kept, now |-> database.now,
                 size |-> database.size, ran |-> database.ran]
  /\ database.size \in Int

\* A setLimits that is alone carries the limits that are stored; AppData has its
\* caps once they are pushed on, and AppSql when it has answered.
CapsInv ==
  ~overlap =>
    /\ \A p, q \in pushes : p = q
    /\ \A p \in pushes : p.limits = limits
    /\ (\A p \in pushes : p.to = "sql") => DataHolds
    /\ pushes = {} => SqlHolds

CapsIInv == CapTypes /\ CapsInv

LEMMA ClampIsNumber ==
  ASSUME NEW f \in S!Fields, NEW v \in Int \cup {Infinite}
  PROVE  S!Clamp(f, v) \in Int
<1>1. DEFAULT_LIMITS[f] \in Int /\ BOUNDS[f].min \in Int /\ BOUNDS[f].max \in Int
  BY StoreAssumption
<1>2. ASSUME NEW a \in Int, NEW b \in Int
      PROVE  S!Max({a, b}) \in Int /\ S!Min({a, b}) \in Int
  <2>1. \E x \in {a, b} : \A y \in {a, b} : x >= y
    OBVIOUS
  <2>2. \E x \in {a, b} : \A y \in {a, b} : x <= y
    OBVIOUS
  <2> QED BY <2>1, <2>2 DEF S!Max, S!Min
<1>3. CASE v = Infinite
  BY <1>1, <1>3 DEF S!Clamp
<1>4. CASE v # Infinite
  <2>1. S!Max({v, BOUNDS[f].min}) \in Int
    BY <1>1, <1>2, <1>4
  <2>2. S!Min({S!Max({v, BOUNDS[f].min}), BOUNDS[f].max}) \in Int
    BY <1>1, <1>2, <2>1
  <2> QED BY <1>4, <2>2 DEF S!Clamp
<1> QED BY <1>3, <1>4

LEMMA MergedLimits ==
  ASSUME NEW partial \in Overrides, NEW base \in Limit
  PROVE  S!MergeLimits(partial, base) \in Limit
<1>1. ASSUME NEW f \in S!Fields
      PROVE  S!Clamp(f, IF f \in DOMAIN partial THEN partial[f] ELSE base[f]) \in Int
  <2>1. (IF f \in DOMAIN partial THEN partial[f] ELSE base[f]) \in Int \cup {Infinite}
    BY StoreAssumption DEF Limit
  <2> QED BY <2>1, ClampIsNumber
<1> QED BY <1>1 DEF S!MergeLimits, Limit

\* Caps are no absent value, so that an object which has stored some loads them.
LEMMA CapsAreStored ==
  ASSUME NEW l \in Limit
  PROVE  S!StoreCaps(l) # Absent /\ S!SqlCaps(l) # Absent
<1>1. S!StoreCaps(l) \in [{"value", "total"} -> Int]
  BY DEF S!StoreCaps, S!Restrict, Limit, S!Fields
<1>2. S!SqlCaps(l) \in [{"rows", "db"} -> Int]
  BY DEF S!SqlCaps, S!Restrict, Limit, S!Fields
<1>3. {"value", "total"} \in SUBSET S!Fields /\ {"rows", "db"} \in SUBSET S!Fields
  BY DEF S!Fields
<1> QED BY <1>1, <1>2, <1>3, StoreAssumption

LEMMA InitCaps == ASSUME InitApp PROVE CapsIInv
<1>1. DEFAULT_LIMITS \in Limit
  BY StoreAssumption DEF Limit
<1>2. /\ limits = DEFAULT_LIMITS /\ pushes = {} /\ called = 0 /\ overlap = FALSE
      /\ DOMAIN store = S!Keys /\ DOMAIN client = Clients
      /\ caps = [kept |-> Absent, now |-> S!StoreCaps(DEFAULT_LIMITS)]
      /\ database = [kept |-> Absent, now |-> S!SqlCaps(DEFAULT_LIMITS),
                     size |-> 0, ran |-> Absent]
  BY DEF InitApp, S!Init
<1>3. CapTypes
  BY <1>1, <1>2 DEF CapTypes
<1>4. DataHolds /\ SqlHolds
  BY <1>2 DEF DataHolds, SqlHolds, Holds, S!Loaded
<1> QED BY <1>2, <1>3, <1>4 DEF CapsIInv, CapsInv

LEMMA LengthIsNumber == ASSUME NEW v PROVE S!Length(v) \in Nat
BY StoreAssumption DEF S!Length, S!Measured, S!Digits

\* A text has as many characters as units, or fewer.
LEMMA UnitsCoverLength ==
  ASSUME NEW v
  PROVE  S!Measured(v, Units) \in Nat /\ S!Length(v) <= S!Measured(v, Units)
<1>1. CASE v = Absent
  BY <1>1 DEF S!Length, S!Measured
<1>2. CASE v # Absent /\ v \in Texts
  BY <1>2, StoreAssumption DEF S!Length, S!Measured
<1>3. CASE v # Absent /\ v \notin Texts
  BY <1>3 DEF S!Length, S!Measured, S!Digits
<1> QED BY <1>1, <1>2, <1>3

\* The calls of AppHost and the restarts.
LEMMA LimitsCaps ==
  ASSUME CapsIInv, S!Limits \/ S!RestartData \/ S!RestartSql
  PROVE  CapsIInv' /\ UNCHANGED store /\ database'.size = database.size
<1>1. ASSUME NEW partial \in Overrides, S!SetLimits(partial)
      PROVE  CapsIInv' /\ UNCHANGED store /\ database'.size = database.size
  <2> DEFINE p == [id |-> called, limits |-> limits', to |-> "data"]
  <2>1. /\ limits' \in Limit /\ called' \in Nat /\ overlap' = (pushes # {})
        /\ pushes' = pushes \cup {p} /\ UNCHANGED <<store, client, caps, database>>
    BY <1>1, MergedLimits DEF S!SetLimits, CapsIInv, CapTypes
  <2>2. p \in Push /\ p.limits = limits' /\ p.to = "data"
    BY <2>1 DEF Push, CapsIInv, CapTypes
  <2> HIDE DEF p
  <2>3. CapTypes'
    BY <2>1, <2>2 DEF CapsIInv, CapTypes
  <2>4. CapsInv'
    BY <2>1, <2>2 DEF CapsInv
  <2> QED BY <2>1, <2>3, <2>4 DEF CapsIInv
<1>2. ASSUME NEW p \in pushes, S!PushData(p)
      PROVE  CapsIInv' /\ UNCHANGED store /\ database'.size = database.size
  <2> DEFINE q == [p EXCEPT !.to = "sql"]
  <2>1. p \in Push
    BY DEF CapsIInv, CapTypes
  <2>2. q \in Push /\ q.limits = p.limits /\ q.to = "sql" /\ p.to = "data"
    BY <1>2, <2>1 DEF Push, S!PushData
  <2>3. /\ pushes' = (pushes \ {p}) \cup {q} /\ UNCHANGED <<limits, called, overlap, store, client, database>>
        /\ caps' = [kept |-> S!StoreCaps(p.limits), now |-> S!StoreCaps(p.limits)]
    BY <1>2 DEF S!PushData, S!SetStorageLimits
  <2> HIDE DEF q
  <2>4. CapTypes'
    BY <2>2, <2>3 DEF CapsIInv, CapTypes
  <2>5. ASSUME ~overlap PROVE DataHolds' /\ limits' = limits /\ q.limits = limits /\ pushes' = {q}
    <3>1. p.limits = limits /\ pushes = {p}
      BY <2>5 DEF CapsIInv, CapsInv
    <3>2. S!StoreCaps(limits) # Absent
      BY CapsAreStored DEF CapsIInv, CapTypes
    <3> QED BY <2>2, <2>3, <3>1, <3>2 DEF DataHolds, Holds, S!Loaded
  <2>6. CapsInv'
    BY <2>2, <2>3, <2>5 DEF CapsInv
  <2> QED BY <2>3, <2>4, <2>6 DEF CapsIInv
<1>3. ASSUME NEW p \in pushes, S!PushSql(p)
      PROVE  CapsIInv' /\ UNCHANGED store /\ database'.size = database.size
  <2>1. p \in Push /\ p.to = "sql" /\ S!StoreCaps(p.limits) # Absent /\ S!SqlCaps(p.limits) # Absent
    BY <1>3, CapsAreStored DEF CapsIInv, CapTypes, S!PushSql, Push
  <2>2. /\ pushes' = pushes \ {p} /\ UNCHANGED <<limits, called, overlap, store, client, caps>>
        /\ database' = [kept |-> S!SqlCaps(p.limits), now |-> S!SqlCaps(p.limits),
                        size |-> database.size, ran |-> database.ran]
    <3>1. PICK r : r = database /\ r = [kept |-> r.kept, now |-> r.now, size |-> r.size, ran |-> r.ran]
      BY DEF CapsIInv, CapTypes
    <3> QED BY <1>3, <3>1 DEF S!PushSql, S!SetSqlLimits
  <2>3. CapTypes'
    BY <2>1, <2>2 DEF CapsIInv, CapTypes
  <2>4. ASSUME ~overlap PROVE DataHolds' /\ SqlHolds' /\ pushes' = {}
    BY <2>1, <2>2, <2>4 DEF CapsIInv, CapsInv, DataHolds, SqlHolds, Holds, S!Loaded
  <2>5. CapsInv'
    BY <2>2, <2>4 DEF CapsInv
  <2> QED BY <2>2, <2>3, <2>5 DEF CapsIInv
<1>4. ASSUME NEW p \in pushes, S!PushFails(p)
      PROVE  CapsIInv' /\ UNCHANGED store /\ database'.size = database.size
  <2>1. p \in Push
    BY DEF CapsIInv, CapTypes
  <2>2. [p EXCEPT !.to = "sql"] \in Push
    BY <2>1 DEF Push
  <2>3. CapTypes'
    BY <1>4, <2>2 DEF CapsIInv, CapTypes, S!PushFails
  <2> QED BY <1>4, <2>3 DEF CapsIInv, CapsInv, S!PushFails
<1>5. ASSUME S!RestartHost PROVE CapsIInv' /\ UNCHANGED store /\ database'.size = database.size
  BY <1>5 DEF S!RestartHost, CapsIInv, CapTypes, CapsInv
<1>6. ASSUME S!RestartData PROVE CapsIInv' /\ UNCHANGED store /\ database'.size = database.size
  <2>1. /\ caps' = [kept |-> caps.kept,
                    now |-> S!Loaded(caps.kept, S!StoreCaps(DEFAULT_LIMITS))]
        /\ UNCHANGED <<limits, pushes, called, overlap, store, client, database>>
    <3>1. PICK r : r = caps /\ r = [kept |-> r.kept, now |-> r.now]
      BY DEF CapsIInv, CapTypes
    <3> QED BY <1>6, <3>1 DEF S!RestartData, S!hostVars
  <2> QED BY <2>1 DEF CapsIInv, CapTypes, CapsInv, DataHolds, SqlHolds, Holds
<1>7. ASSUME S!RestartSql PROVE CapsIInv' /\ UNCHANGED store /\ database'.size = database.size
  <2>1. /\ database' = [kept |-> database.kept,
                        now |-> S!Loaded(database.kept, S!SqlCaps(DEFAULT_LIMITS)),
                        size |-> database.size, ran |-> database.ran]
        /\ UNCHANGED <<limits, pushes, called, overlap, store, client, caps>>
    <3>1. PICK r : r = database /\ r = [kept |-> r.kept, now |-> r.now, size |-> r.size, ran |-> r.ran]
      BY DEF CapsIInv, CapTypes
    <3> QED BY <1>7, <3>1 DEF S!RestartSql, S!hostVars
  <2> QED BY <2>1 DEF CapsIInv, CapTypes, CapsInv, DataHolds, SqlHolds, Holds
<1> QED BY <1>1, <1>2, <1>3, <1>4, <1>5, <1>6, <1>7 DEF S!Limits, S!Push

\* What the caps in force allow, at a step.
CapsObeyed ==
  S!Settled =>
    /\ S!Total(store') > S!Total(store) =>
         S!Total(store') <= limits.total \/ \E c \in Clients : S!Grows(c)
    /\ store'[S!Note] \notin {store[S!Note], Absent} => Bytes[store'[S!Note]] <= limits.value
    /\ database'.size > database.size =>
         database.size < limits.db \/ ~S!IsGrowthWrite(database'.ran)

\* Caps in force when all is settled.
LEMMA CapsInForce ==
  ASSUME CapsIInv, S!Settled
  PROVE  /\ caps.now.value = limits.value /\ caps.now.total = limits.total
         /\ database.now.db = limits.db /\ limits.total \in Int
<1>1. caps.now = S!StoreCaps(limits) /\ database.now = S!SqlCaps(limits)
  BY DEF CapsIInv, CapsInv, S!Settled, DataHolds, SqlHolds, Holds
<1>2. limits.total \in Int
  BY DEF CapsIInv, CapTypes, Limit, S!Fields
<1> QED BY <1>1, <1>2 DEF S!StoreCaps, S!SqlCaps, S!Restrict

\* A value that fits, in place of another.
LEMMA FittingValue ==
  ASSUME NEW key \in S!Keys, NEW v, S!Fits(key, v), DOMAIN store = S!Keys,
         store' = [store EXCEPT ![key] = v], caps.now.total \in Int
  PROVE  S!Total(store') <= caps.now.total /\ S!Size(v) <= caps.now.value
<1>1. /\ S!Length(store[S!Counter]) \in Nat /\ S!Length(store[S!Note]) \in Nat
      /\ S!Length(v) \in Nat
  BY LengthIsNumber
<1>2. store'[key] = v /\ \A k \in S!Keys \ {key} : store'[k] = store[k]
  OBVIOUS
<1>3. S!Total(store) - S!Length(store[key]) + S!Length(v) = S!Total(store')
  BY <1>1, <1>2 DEF S!Keys, S!Counter, S!Note, S!Total
<1>4. S!Measured(v, Units) \in Nat /\ S!Length(v) <= S!Measured(v, Units)
  BY UnitsCoverLength
<1>5. S!Total(store) - S!Length(store[key]) + S!Measured(v, Units) <= caps.now.total
      /\ S!Size(v) <= caps.now.value
  BY DEF S!Fits
<1>6. S!Total(store) \in Nat /\ S!Length(store[key]) \in Nat
  BY LengthIsNumber DEF S!Total
<1> QED BY <1>1, <1>3, <1>4, <1>5, <1>6

LEMMA TotalIsNumber == S!Total(store) \in Nat
BY LengthIsNumber DEF S!Total

\* The store and the database, in the hands of the app.
LEMMA AppObeys ==
  ASSUME CapsIInv, UNCHANGED <<limits, pushes, called, overlap, caps>>,
         \/ \E t \in Texts : S!StorePut(S!Note, t)
         \/ S!StoreDelete(S!Note)
         \/ \E c \in Clients : S!Add(c)
  PROVE  CapsIInv' /\ CapsObeyed
<1>1. UNCHANGED database /\ DOMAIN store = S!Keys /\ DOMAIN client = Clients /\ database.size \in Int
  BY DEF S!StorePut, S!StoreDelete, S!Add, S!StoreIncr, S!StoreGet, S!StoreCas, CapsIInv,
         CapTypes
<1>2. DOMAIN store' = S!Keys /\ DOMAIN client' = Clients
  BY <1>1 DEF S!StorePut, S!StoreDelete, S!Add, S!StoreIncr, S!StoreGet, S!StoreCas
<1>3. CapsIInv'
  BY <1>1, <1>2 DEF CapsIInv, CapTypes, CapsInv, DataHolds, SqlHolds
<1>4. ASSUME NEW t \in Texts, S!StorePut(S!Note, t) PROVE CapsObeyed
  <2>1. S!Fits(S!Note, t) /\ store' = [store EXCEPT ![S!Note] = t]
    BY <1>4 DEF S!StorePut
  <2>2. S!Settled => S!Total(store') <= caps.now.total /\ S!Size(t) <= caps.now.value
    BY <2>1, <1>1, FittingValue, CapsInForce DEF S!Keys
  <2>3. store'[S!Note] = t /\ S!Size(t) = Bytes[t]
    BY <2>1, <1>1, StoreAssumption DEF S!Keys, S!Size, S!Measured
  <2> QED BY <1>1, <2>2, <2>3, CapsInForce DEF CapsObeyed
<1>5. ASSUME S!StoreDelete(S!Note) PROVE CapsObeyed
  <2>1. store'[S!Note] = Absent /\ store'[S!Counter] = store[S!Counter]
    BY <1>1, <1>5 DEF S!StoreDelete, S!Keys, S!Counter, S!Note
  <2>2. S!Length(Absent) = 0 /\ S!Length(store[S!Note]) \in Nat /\ S!Length(store[S!Counter]) \in Nat
    BY LengthIsNumber DEF S!Length, S!Measured
  <2>3. ~(S!Total(store') > S!Total(store))
    BY <2>1, <2>2 DEF S!Total
  <2> QED BY <1>1, <2>1, <2>3 DEF CapsObeyed
<1>6. ASSUME NEW c \in Clients, S!Add(c) PROVE CapsObeyed
  <2>1. store'[S!Note] = store[S!Note]
    BY <1>1, <1>6 DEF S!Add, S!StoreIncr, S!StoreGet, S!StoreCas, S!Keys, S!Counter, S!Note
  <2>2. CASE UNCHANGED store
    BY <1>1, <2>1, <2>2, TotalIsNumber DEF CapsObeyed
  <2>3. CASE S!StoreCas(c) /\ store' # store
    <3>1. PICK next : S!Fits(S!Counter, next) /\ store' = [store EXCEPT ![S!Counter] = next]
      BY <2>3 DEF S!StoreCas
    <3>2. S!Settled => S!Total(store') <= caps.now.total
      BY <3>1, <1>1, FittingValue, CapsInForce DEF S!Keys
    <3> QED BY <1>1, <2>1, <3>2, CapsInForce DEF CapsObeyed
  <2>4. CASE S!StoreIncr(c)
    <3>1. S!Grows(c)
      BY <1>1, <2>4 DEF S!Grows, S!StoreIncr
    <3> QED BY <1>1, <2>1, <3>1 DEF CapsObeyed
  <2> QED BY <1>6, <2>2, <2>3, <2>4 DEF S!Add, S!StoreGet
<1> QED BY <1>3, <1>4, <1>5, <1>6

LEMMA StatementObeys ==
  ASSUME CapsIInv, NEW s \in Statements, S!SqlExec(s)
  PROVE  CapsIInv' /\ CapsObeyed
<1>1. s.adds \in Int /\ database.size \in Int
  BY StoreAssumption DEF CapsIInv, CapTypes
<1>2. S!Max({0, database.size + s.adds}) \in Int
  <2> DEFINE n == database.size + s.adds
  <2>1. n \in Int
    BY <1>1
  <2> HIDE DEF n
  <2>2. \E x \in {0, n} : \A y \in {0, n} : x >= y
    BY <2>1
  <2>3. S!Max({0, n}) \in Int
    BY <2>1, <2>2 DEF S!Max
  <2> QED BY <2>3 DEF n
<1>3. /\ database' = [kept |-> database.kept, now |-> database.now,
                      size |-> S!Max({0, database.size + s.adds}), ran |-> s.head]
      /\ UNCHANGED <<limits, pushes, called, overlap, store, client, caps>>
  <2>1. PICK r : r = database /\ r = [kept |-> r.kept, now |-> r.now, size |-> r.size, ran |-> r.ran]
    BY DEF CapsIInv, CapTypes
  <2> QED BY <2>1 DEF S!SqlExec, S!hostVars
<1>4. CapsIInv'
  BY <1>2, <1>3 DEF CapsIInv, CapTypes, CapsInv, DataHolds, SqlHolds, Holds
<1>5. S!IsGrowthWrite(s.head) => database.size < database.now.db
  BY DEF S!SqlExec
<1>6. CapsObeyed
  BY <1>3, <1>5, CapsInForce, TotalIsNumber DEF CapsObeyed
<1> QED BY <1>4, <1>6

LEMMA NextCaps ==
  ASSUME CapsIInv, [NextApp]_appVars
  PROVE  CapsIInv' /\ (UNCHANGED S!vars \/ CapsObeyed)
<1>1. CASE UNCHANGED S!vars
  BY <1>1 DEF S!vars, S!hostVars, CapsIInv, CapTypes, CapsInv, DataHolds, SqlHolds
<1>2. CASE S!Limits \/ S!RestartData \/ S!RestartSql
  <2>1. CapsIInv' /\ UNCHANGED store /\ database'.size = database.size
    BY <1>2, LimitsCaps
  <2>2. database.size \in Int
    BY DEF CapsIInv, CapTypes
  <2> QED BY <2>1, <2>2, TotalIsNumber DEF CapsObeyed
<1>3. CASE \/ \E t \in Texts : S!StorePut(S!Note, t)
           \/ S!StoreDelete(S!Note)
           \/ \E c \in Clients : S!Add(c)
  <2>1. UNCHANGED <<limits, pushes, called, overlap, caps>>
    BY <1>3 DEF S!StorePut, S!StoreDelete, S!Add, S!StoreIncr, S!StoreGet, S!StoreCas, S!hostVars
  <2> QED BY <1>3, <2>1, AppObeys
<1>4. CASE \E s \in Statements : S!SqlExec(s)
  BY <1>4, StatementObeys
<1>5. \/ UNCHANGED S!vars
      \/ S!NextStore \/ S!NextSql
  BY DEF NextApp, Storing, Filing, Fetching, storeVars, appVars, S!vars, S!hostVars
<1> QED BY <1>1, <1>2, <1>3, <1>4, <1>5 DEF S!NextStore, S!NextSql

-----------------------------------------------------------------------------
(* The files and blobs of AppFiles.                                        *)

\* What is cleaned of empty segments has the other segments of the input only.
LEMMA CleanedType ==
  ASSUME NEW T, NEW input \in Seq(T)
  PROVE  F!Cleaned(input) \in Seq(T \ {Nothing})
<1> DEFINE n == Len(input)
           D == 1 .. n
           V == Seq(T \ {Nothing})
           op == [p \in D \X V |-> IF input[p[1]] = Nothing THEN p[2] ELSE Append(p[2], input[p[1]])]
           c == [s \in SUBSET D |-> Greatest(s)]
<1>0. n \in Nat /\ D = DOMAIN input /\ IsFiniteSet(D) /\ << >> \in V
  BY FS_Interval
<1>1. \A s \in SUBSET D : s # {} => Greatest(s) \in s
  BY <1>0, GreatestIsIn
<1>2. \A i \in D, v \in V : /\ op[<<i, v>>] = IF input[i] = Nothing THEN v ELSE Append(v, input[i])
                            /\ op[<<i, v>>] \in V
  <2> SUFFICES ASSUME NEW i \in D, NEW v \in V
               PROVE  /\ op[<<i, v>>] = IF input[i] = Nothing THEN v ELSE Append(v, input[i])
                      /\ op[<<i, v>>] \in V
    OBVIOUS
  <2>1. op[<<i, v>>] = IF input[i] = Nothing THEN v ELSE Append(v, input[i])
    OBVIOUS
  <2>2. input[i] \in T
    OBVIOUS
  <2>3. CASE input[i] = Nothing
    BY <2>1, <2>3
  <2>4. CASE input[i] # Nothing
    BY <2>1, <2>2, <2>4
  <2> QED BY <2>1, <2>3, <2>4
<1>3. op \in [D \X V -> V]
  BY <1>2
<1>4. \A s \in SUBSET D : c[s] = Greatest(s)
  OBVIOUS
<1> HIDE DEF op, c, V, D
<1>5. PICK h \in [SUBSET D -> V] : Folds(h, D, << >>, op, c)
  <2>1. IsFiniteSet(D) /\ << >> \in V
    BY <1>0
  <2>2. \A s \in SUBSET D : s # {} => c[s] \in s
    BY <1>1, <1>4
  <2> QED BY <2>1, <2>2, <1>3, FoldExists
<1>6. ASSUME NEW s \in SUBSET D
      PROVE  h[s] = IF s = {} THEN << >>
                    ELSE IF input[Greatest(s)] = Nothing THEN h[s \ {Greatest(s)}]
                    ELSE Append(h[s \ {Greatest(s)}], input[Greatest(s)])
  <2>1. CASE s = {}
    BY <2>1, <1>5 DEF Folds
  <2>2. CASE s # {}
    <3>1. Greatest(s) \in D /\ h[s \ {Greatest(s)}] \in V
      BY <2>2, <1>1
    <3>2. h[s] = op[<<Greatest(s), h[s \ {Greatest(s)}]>>]
      BY <2>2, <1>4, <1>5 DEF Folds
    <3> QED BY <2>2, <3>1, <3>2, <1>2
  <2> QED BY <2>1, <2>2
<1> DEFINE Eq(g) == g = [s \in SUBSET D |-> IF s = {} THEN << >>
                           ELSE IF input[Greatest(s)] = Nothing THEN g[s \ {Greatest(s)}]
                           ELSE Append(g[s \ {Greatest(s)}], input[Greatest(s)])]
           iter == CHOOSE g : Eq(g)
<1>7. Eq(h)
  BY <1>6
<1>8. F!Cleaned(input) = iter[D]
  BY <1>0 DEF F!Cleaned, F!FoldLeft, F!MapThenFoldSet, F!Max, Greatest
<1>9. Eq(iter)
  BY <1>7
<1> HIDE DEF iter
<1>10. \A s \in SUBSET D : iter[s] = IF s = {} THEN << >>
                    ELSE IF input[Greatest(s)] = Nothing THEN iter[s \ {Greatest(s)}]
                    ELSE Append(iter[s \ {Greatest(s)}], input[Greatest(s)])
  BY <1>9
<1> HIDE DEF Eq
<1> DEFINE Q == {A \in SUBSET D : iter[A] = h[A]}
<1>11. ASSUME NEW A \in SUBSET D, \A x \in A : A \ {x} \in Q PROVE A \in Q
  <2>1. A # {} => iter[A \ {Greatest(A)}] = h[A \ {Greatest(A)}]
    BY <1>1, <1>11
  <2> QED BY <2>1, <1>6, <1>10
<1>12. D \in Q
  <2> HIDE DEF Q
  <2> QED BY <1>0, <1>11, SubsetInduction
<1> QED BY <1>8, <1>12 DEF V

\* A path without ".." is what it is.
LEMMA CanonicalIsPath ==
  ASSUME NEW T, NEW path \in Seq(T), Up \notin T
  PROVE  F!Canonical(path) = path
<1> DEFINE n == Len(path)
           D == 1 .. n
           V == Seq(T)
           op == [p \in D \X V |-> Append(p[2], path[p[1]])]
           c == [s \in SUBSET D |-> Greatest(s)]
<1>0. n \in Nat /\ D = DOMAIN path /\ IsFiniteSet(D) /\ << >> \in V /\ \A i \in D : path[i] \in T /\ path[i] # Up
  BY FS_Interval
<1>1. \A s \in SUBSET D : s # {} => Greatest(s) \in s
  BY <1>0, GreatestIsIn
<1>2. \A i \in D, v \in V : op[<<i, v>>] = Append(v, path[i]) /\ op[<<i, v>>] \in V
  BY <1>0
<1>3. op \in [D \X V -> V]
  BY <1>2
<1>4. \A s \in SUBSET D : c[s] = Greatest(s)
  OBVIOUS
<1> HIDE DEF op, c, V
<1>5. PICK h \in [SUBSET D -> V] : Folds(h, D, << >>, op, c)
  <2> HIDE DEF D
  <2>1. IsFiniteSet(D) /\ << >> \in V
    BY <1>0
  <2>2. \A s \in SUBSET D : s # {} => c[s] \in s
    BY <1>1, <1>4
  <2> QED BY <2>1, <2>2, <1>3, FoldExists
<1>6. ASSUME NEW s \in SUBSET D
      PROVE  h[s] = IF s = {} THEN << >>
                    ELSE IF path[Greatest(s)] # Up THEN Append(h[s \ {Greatest(s)}], path[Greatest(s)])
                    ELSE SubSeq(h[s \ {Greatest(s)}], 1, Len(h[s \ {Greatest(s)}]) - 1)
  <2> HIDE DEF D
  <2>1. CASE s = {}
    BY <2>1, <1>5 DEF Folds
  <2>2. CASE s # {}
    <3>1. Greatest(s) \in D /\ h[s \ {Greatest(s)}] \in V
      BY <2>2, <1>1
    <3>2. h[s] = op[<<Greatest(s), h[s \ {Greatest(s)}]>>]
      BY <2>2, <1>4, <1>5 DEF Folds
    <3> QED BY <2>2, <3>1, <3>2, <1>0, <1>2
  <2> QED BY <2>1, <2>2
<1> DEFINE Eq(g) == g = [s \in SUBSET D |-> IF s = {} THEN << >>
                    ELSE IF path[Greatest(s)] # Up THEN Append(g[s \ {Greatest(s)}], path[Greatest(s)])
                    ELSE SubSeq(g[s \ {Greatest(s)}], 1, Len(g[s \ {Greatest(s)}]) - 1)]
           iter == CHOOSE g : Eq(g)
<1>7. Eq(h)
  BY <1>6
<1>8. F!Canonical(path) = iter[D]
  BY <1>0 DEF F!Canonical, F!FoldLeft, F!MapThenFoldSet, F!Max, Greatest
<1>9. Eq(iter)
  BY <1>7
<1> HIDE DEF iter
<1>10. \A s \in SUBSET D : s # {} =>
         iter[s] = IF path[Greatest(s)] # Up THEN Append(iter[s \ {Greatest(s)}], path[Greatest(s)])
                    ELSE SubSeq(iter[s \ {Greatest(s)}], 1, Len(iter[s \ {Greatest(s)}]) - 1)
  BY <1>9
<1>11. iter[{}] = << >>
  BY <1>9
<1> HIDE DEF Eq
<1>12. ASSUME NEW k \in 1 .. n
       PROVE  iter[1 .. k] = Append(iter[1 .. k - 1], path[k])
  <2>1. Greatest(1 .. k) = k /\ (1 .. k) \ {k} = 1 .. k - 1
    BY <1>0, GreatestOfInterval
  <2>2. 1 .. k \in SUBSET D /\ 1 .. k # {} /\ path[k] # Up
    BY <1>0
  <2> QED BY <1>10, <2>1, <2>2
<1> DEFINE Wrong == {k \in 0 .. n : iter[1 .. k] # SubSeq(path, 1, k)}
<1>13. Wrong = {}
  <2> SUFFICES ASSUME Wrong # {} PROVE FALSE
    OBVIOUS
  <2>1. PICK k \in Wrong : \A j \in Wrong : k <= j
    <3>1. Wrong \in SUBSET Nat
      BY <1>0
    <3> HIDE DEF Wrong
    <3> QED BY <3>1, LeastNumber
  <2>2. k # 0
    <3>1. 1 .. 0 = {} /\ SubSeq(path, 1, 0) = << >>
      OBVIOUS
    <3> QED BY <1>11, <3>1
  <2>3. k \in 1 .. n /\ k - 1 \in 0 .. n /\ k - 1 \notin Wrong
    BY <1>0, <2>1, <2>2
  <2>4. iter[1 .. k - 1] = SubSeq(path, 1, k - 1)
    BY <2>3
  <2>5. Append(SubSeq(path, 1, k - 1), path[k]) = SubSeq(path, 1, k)
    BY <1>0, <2>3
  <2>6. iter[1 .. k] = SubSeq(path, 1, k)
    BY <1>12, <2>3, <2>4, <2>5
  <2> QED BY <2>1, <2>6
<1>14. n \in 0 .. n /\ SubSeq(path, 1, n) = path
  BY <1>0
<1> QED BY <1>8, <1>13, <1>14

\* What segments of nodes may be.
Segments == Names \cup Namespaces

\* A path of a node.
IsPath(path) == path \in Seq(Segments) /\ Len(path) >= 1 /\ path[1] \in Namespaces

\* The inductive invariant.
FilesIInv == F!FilesAreATree /\ \A path \in DOMAIN nodes : IsPath(path)

\* Parents of a path are paths, of the same namespace.
LEMMA ParentsArePaths ==
  ASSUME NEW path, IsPath(path), NEW q \in F!Parents(path)
  PROVE  /\ IsPath(q) /\ q[1] = path[1] /\ Len(q) < Len(path)
         /\ F!Parents(q) \subseteq F!Parents(path)
<1>1. PICK k \in 1 .. Len(path) - 1 : q = SubSeq(path, 1, k)
  BY DEF F!Parents
<1>2. path \in Seq(Segments) /\ k \in 1 .. Len(path) /\ Len(path) \in Nat
  BY <1>1 DEF IsPath
<1>3. q \in Seq(Segments) /\ Len(q) = k /\ q[1] = path[1]
  BY <1>1, <1>2, PrefixOfSeq
<1>4. ASSUME NEW j \in 1 .. k - 1 PROVE SubSeq(q, 1, j) \in F!Parents(path)
  <2>1. SubSeq(q, 1, j) = SubSeq(path, 1, j)
    BY <1>1, <1>2, PrefixOfPrefix
  <2>2. j \in 1 .. Len(path) - 1
    BY <1>1, <1>2
  <2> QED BY <2>1, <2>2 DEF F!Parents
<1>5. F!Parents(q) \subseteq F!Parents(path)
  BY <1>3, <1>4 DEF F!Parents
<1> QED BY <1>1, <1>2, <1>3, <1>5 DEF IsPath

\* The node p is what it was.
Unchanged(p) ==
  /\ p \in DOMAIN nodes' <=> p \in DOMAIN nodes
  /\ p \in DOMAIN nodes => nodes'[p] = nodes[p]

\* A step that leaves other namespaces than ns as they are, and a tree.
TreeStep(ns) ==
  /\ FilesIInv'
  /\ \A p : p[1] # ns => Unchanged(p)

\* A path and its parents are made directories.
LEMMA MkdirStep ==
  ASSUME FilesIInv, NEW path, IsPath(path), F!FsMkdir(path)
  PROVE  TreeStep(path[1])
<1> DEFINE new == F!Parents(path) \cup {path}
<1>1. /\ DOMAIN nodes' = DOMAIN nodes \cup new
      /\ \A p \in DOMAIN nodes' : nodes'[p] = IF p \in new THEN "dir" ELSE nodes[p]
  BY DEF F!FsMkdir, F!WithDirs, F!Put
<1>2. \A p \in new : IsPath(p) /\ p[1] = path[1] /\ F!Parents(p) \subseteq new
  BY ParentsArePaths
<1> HIDE DEF new
<1>3. \A p \in DOMAIN nodes : F!IsDir(p) => F!IsDir(p)'
  BY <1>1 DEF F!IsDir
<1>4. \A p \in new : F!IsDir(p)'
  BY <1>1 DEF F!IsDir
<1>5. \A p \in DOMAIN nodes' : IsPath(p) /\ p[1] \in Namespaces /\ \A q \in F!Parents(p) : F!IsDir(q)'
  BY <1>1, <1>2, <1>3, <1>4 DEF FilesIInv, F!FilesAreATree, F!IsDir, IsPath
<1>6. FilesIInv'
  BY <1>5 DEF FilesIInv, F!FilesAreATree
<1>7. \A p : p[1] # path[1] => Unchanged(p)
  BY <1>1, <1>2 DEF Unchanged
<1> QED BY <1>6, <1>7 DEF TreeStep

\* A path is made a file, and its parents directories.
LEMMA WriteStep ==
  ASSUME FilesIInv, NEW path, IsPath(path), F!FsWriteFile(path)
  PROVE  TreeStep(path[1])
<1> DEFINE dirs == F!Parents(path)
           parent == F!Front(path)
<1>0. Len(path) \in Nat /\ Len(path) >= 1 /\ path \in Seq(Segments)
  BY DEF IsPath
<1>1. /\ DOMAIN nodes' = DOMAIN nodes \cup dirs \cup {path}
      /\ \A p \in DOMAIN nodes' :
           nodes'[p] = IF p = path THEN "file" ELSE IF p \in dirs THEN "dir" ELSE nodes[p]
  <2>1. CASE Len(path) > 1
    <3>1. F!Parents(parent) \cup {parent} = dirs
      <4>1. parent = SubSeq(path, 1, Len(path) - 1) /\ Len(path) - 1 \in 1 .. Len(path)
        BY <1>0, <2>1 DEF F!Front
      <4>2. Len(parent) = Len(path) - 1
        BY <1>0, <4>1, PrefixOfSeq
      <4>3. \A k \in 1 .. Len(path) - 2 : SubSeq(parent, 1, k) = SubSeq(path, 1, k)
        <5> SUFFICES ASSUME NEW k \in 1 .. Len(path) - 2
                     PROVE  SubSeq(parent, 1, k) = SubSeq(path, 1, k)
          OBVIOUS
        <5>1. k \in 1 .. Len(path) - 1
          BY <1>0
        <5> QED BY <1>0, <4>1, <5>1, PrefixOfPrefix
      <4>4. F!Parents(parent) = {SubSeq(path, 1, k) : k \in 1 .. Len(path) - 2}
        <5>1. Len(parent) - 1 = Len(path) - 2
          BY <1>0, <4>2
        <5> QED BY <4>3, <5>1 DEF F!Parents
      <4>5. 1 .. Len(path) - 1 = (1 .. Len(path) - 2) \cup {Len(path) - 1}
        BY <1>0, <2>1
      <4> HIDE DEF parent
      <4> QED BY <4>1, <4>4, <4>5 DEF F!Parents
    <3>2. nodes' = F!Put(F!WithDirs(parent), {path}, "file")
      BY <2>1 DEF F!FsWriteFile
    <3> HIDE DEF parent, dirs
    <3>3. F!WithDirs(parent) = F!Put(nodes, dirs, "dir")
      BY <3>1 DEF F!WithDirs
    <3> QED BY <3>2, <3>3 DEF F!Put
  <2>2. CASE Len(path) = 1
    <3>1. dirs = {}
      BY <2>2 DEF F!Parents
    <3>2. nodes' = F!Put(nodes, {path}, "file")
      BY <2>2 DEF F!FsWriteFile
    <3> QED BY <3>1, <3>2 DEF F!Put
  <2>3. Len(path) > 1 \/ Len(path) = 1
    BY <1>0
  <2> QED BY <2>1, <2>2, <2>3
<1>2. \A p \in dirs : IsPath(p) /\ p[1] = path[1] /\ Len(p) < Len(path) /\ F!Parents(p) \subseteq dirs
  BY ParentsArePaths
<1>3. \A p \in dirs \cup {path} : path \notin F!Parents(p) /\ F!Parents(p) \subseteq dirs
  <2>1. \A p \in dirs \cup {path} : \A q \in F!Parents(p) : q \in dirs
    BY <1>2
  <2>2. path \notin dirs
    BY <1>0, <1>2
  <2> QED BY <2>1, <2>2
<1>4. \A p \in DOMAIN nodes : path \notin F!Parents(p)
  BY DEF F!FsWriteFile, FilesIInv, F!FilesAreATree
<1> HIDE DEF dirs
<1>5. \A p \in DOMAIN nodes' : IsPath(p) /\ p[1] \in Namespaces /\ \A q \in F!Parents(p) : F!IsDir(q)'
  <2> SUFFICES ASSUME NEW p \in DOMAIN nodes'
               PROVE  IsPath(p) /\ \A q \in F!Parents(p) : F!IsDir(q)'
    BY DEF IsPath
  <2>1. CASE p \in dirs \cup {path}
    BY <1>1, <1>2, <1>3, <2>1 DEF F!IsDir
  <2>2. CASE p \in DOMAIN nodes
    <3>1. IsPath(p) /\ \A q \in F!Parents(p) : F!IsDir(q) /\ q # path
      BY <1>4, <2>2 DEF FilesIInv, F!FilesAreATree
    <3> QED BY <1>1, <3>1 DEF F!IsDir
  <2> QED BY <1>1, <2>1, <2>2
<1>6. FilesIInv'
  BY <1>5 DEF FilesIInv, F!FilesAreATree
<1>7. \A p : p[1] # path[1] => Unchanged(p)
  BY <1>1, <1>2 DEF Unchanged
<1> QED BY <1>6, <1>7 DEF TreeStep

\* A path is removed, and what is below it.
LEMMA RmStep ==
  ASSUME FilesIInv, NEW path, IsPath(path), NEW recursive, F!FsRm(path, recursive)
  PROVE  TreeStep(path[1])
<1> DEFINE gone == {path} \cup F!Below(path)
<1>1. /\ DOMAIN nodes' = DOMAIN nodes \ gone
      /\ \A p \in DOMAIN nodes' : nodes'[p] = nodes[p]
  BY DEF F!FsRm
<1>2. \A p \in DOMAIN nodes : p \in F!Below(path) <=> path \in F!Parents(p)
  <2> SUFFICES ASSUME NEW p \in DOMAIN nodes
               PROVE  p \in F!Below(path) <=> path \in F!Parents(p)
    OBVIOUS
  <2>1. /\ p \in Seq(Segments) /\ Len(p) \in Nat /\ path \in Seq(Segments) /\ Len(path) \in Nat
        /\ Len(path) >= 1 /\ SubSeq(path, 1, Len(path)) = path
    BY DEF FilesIInv, IsPath
  <2>2. p \in F!Below(path) <=> Len(p) > Len(path) /\ path = SubSeq(p, 1, Len(path))
    BY <2>1 DEF F!Below, F!IsPrefix
  <2>3. \A k \in 1 .. Len(p) - 1 : path = SubSeq(p, 1, k) => k = Len(path)
    BY <2>1, PrefixOfSeq
  <2>4. path \in F!Parents(p) <=> Len(path) \in 1 .. Len(p) - 1 /\ path = SubSeq(p, 1, Len(path))
    BY <2>3 DEF F!Parents
  <2> QED BY <2>1, <2>2, <2>4
<1>3. \A p \in DOMAIN nodes : p \in gone => p[1] = path[1]
  BY <1>2, ParentsArePaths DEF FilesIInv
<1>4. \A p \in DOMAIN nodes' : \A q \in F!Parents(p) : q \notin gone
  <2> SUFFICES ASSUME NEW p \in DOMAIN nodes', NEW q \in F!Parents(p), q \in gone PROVE FALSE
    OBVIOUS
  <2>1. p \in DOMAIN nodes /\ p \notin gone /\ IsPath(p) /\ q \in DOMAIN nodes
    BY <1>1 DEF FilesIInv, F!FilesAreATree, F!IsDir
  <2>2. q = path \/ path \in F!Parents(q)
    BY <1>2, <2>1
  <2>3. path \in F!Parents(p)
    BY <2>1, <2>2, ParentsArePaths
  <2> QED BY <1>2, <2>1, <2>3
<1> HIDE DEF gone
<1>5. FilesIInv'
  BY <1>1, <1>4 DEF FilesIInv, F!FilesAreATree, F!IsDir
<1>6. \A p : p[1] # path[1] => Unchanged(p)
  BY <1>1, <1>3 DEF Unchanged
<1> QED BY <1>5, <1>6 DEF TreeStep

\* Whatever path a call is given, what it changes is a path of its namespace.
LEMMA FileCallStep ==
  ASSUME FilesIInv, NEW ns \in Namespaces, NEW input \in F!Inputs, F!FileCall(ns, input)
  PROVE  TreeStep(ns)
<1>1. PICK clean \in F!SafePath(input) :
        \E path \in {F!Canonical(F!FsPath(ns, clean))} :
           F!FsWriteFile(path) \/ F!FsMkdir(path) \/ \E recursive \in BOOLEAN : F!FsRm(path, recursive)
  BY DEF F!FileCall
<1>2. clean \in Seq(Names)
  <2>1. input \in Seq(Names \cup {Up, Nothing}) /\ Up \notin {input[i] : i \in DOMAIN input}
        /\ clean = F!Cleaned(input)
    BY <1>1 DEF F!SafePath, F!Inputs, F!BoundedSeq, F!SeqOf, F!ToSet
  <2>2. input \in Seq((Names \cup {Nothing}))
    BY <2>1
  <2>3. clean \in Seq((Names \cup {Nothing}) \ {Nothing})
    BY <2>1, <2>2, CleanedType
  <2> QED BY <2>3
<1>3. F!FsPath(ns, clean) \in Seq(Segments) /\ IsPath(F!FsPath(ns, clean)) /\ F!FsPath(ns, clean)[1] = ns
  BY <1>2 DEF F!FsPath, IsPath, Segments
<1>4. F!Canonical(F!FsPath(ns, clean)) = F!FsPath(ns, clean)
  BY <1>3, FilesAssumption, CanonicalIsPath DEF Segments
<1> QED BY <1>1, <1>3, <1>4, MkdirStep, WriteStep, RmStep

\* A key of a blob begins with the namespace of the call.
LEMMA BlobCallStep ==
  ASSUME NEW ns \in Namespaces, NEW key \in F!Inputs, F!BlobCall(ns, key),
         NEW other \in Namespaces \ {ns}
  PROVE  F!Bucket(blobs', other) = F!Bucket(blobs, other)
<1>1. key \in Seq(Names \cup {Up, Nothing})
  BY DEF F!Inputs, F!BoundedSeq, F!SeqOf
<1>2. F!SafeKey(key) \in Seq(Names \cup {Up, Nothing})
  <2> DEFINE rest == {n \in DOMAIN key : key[n] # Nothing}
  <2>1. CASE rest = {}
    BY <2>1 DEF F!SafeKey
  <2>2. CASE rest # {}
    <3>1. rest \in SUBSET Nat
      BY <1>1
    <3>2. PICK m \in rest : \A n \in rest : m <= n
      <4> HIDE DEF rest
      <4> QED BY <2>2, <3>1, LeastNumber
    <3>3. F!Min(rest) \in rest
      BY <3>2 DEF F!Min
    <3>4. F!SafeKey(key) = SubSeq(key, F!Min(rest), Len(key))
      BY <2>2 DEF F!SafeKey
    <3>5. PICK a : a = F!Min(rest)
      OBVIOUS
    <3>6. a \in 1 .. Len(key)
      BY <1>1, <3>3, <3>5
    <3>7. SubSeq(key, a, Len(key)) \in Seq(Names \cup {Up, Nothing})
      BY <1>1, <3>6
    <3> QED BY <3>4, <3>5, <3>7
  <2> QED BY <2>1, <2>2
<1>3. F!BlobKey(ns, key)[1] = ns
  BY <1>2 DEF F!BlobKey
<1> QED BY <1>3 DEF F!BlobCall, F!BlobPut, F!BlobDelete, F!Bucket

\* Every step.
LEMMA NextFilesIInv ==
  ASSUME FilesIInv, [NextApp]_appVars
  PROVE  /\ FilesIInv'
         /\ UNCHANGED <<nodes, blobs, caller>> \/
            (\A ns \in Namespaces \ {caller'} :
               F!Tree(nodes', ns) = F!Tree(nodes, ns) /\ F!Bucket(blobs', ns) = F!Bucket(blobs, ns))
<1>1. CASE UNCHANGED <<nodes, blobs, caller>>
  BY <1>1 DEF FilesIInv, F!FilesAreATree, F!IsDir
<1>2. ASSUME NEW ns \in Namespaces, NEW input \in F!Inputs, F!FileCall(ns, input), caller' = ns
      PROVE  /\ FilesIInv'
             /\ \A other \in Namespaces \ {caller'} :
               F!Tree(nodes', other) = F!Tree(nodes, other) /\ F!Bucket(blobs', other) = F!Bucket(blobs, other)
  <2>1. TreeStep(ns) /\ blobs' = blobs
    BY <1>2, FileCallStep DEF F!FileCall
  <2>2. \A other \in Namespaces \ {ns} : F!Tree(nodes', other) = F!Tree(nodes, other)
    BY <2>1 DEF TreeStep, Unchanged, F!Tree
  <2> QED BY <1>2, <2>1, <2>2 DEF TreeStep
<1>3. ASSUME NEW ns \in Namespaces, NEW key \in F!Inputs, F!BlobCall(ns, key), caller' = ns
      PROVE  /\ FilesIInv'
             /\ \A other \in Namespaces \ {caller'} :
               F!Tree(nodes', other) = F!Tree(nodes, other) /\ F!Bucket(blobs', other) = F!Bucket(blobs, other)
  <2>1. nodes' = nodes
    BY <1>3 DEF F!BlobCall
  <2>2. FilesIInv'
    BY <2>1 DEF FilesIInv, F!FilesAreATree, F!IsDir
  <2> QED BY <1>3, <2>1, <2>2, BlobCallStep
<1>4. UNCHANGED <<nodes, blobs, caller>> \/ F!NextFiles \/ F!NextBlobs
  BY DEF NextApp, Storing, Fetching, Filing, appVars, fileVars
<1> QED BY <1>1, <1>2, <1>3, <1>4 DEF F!NextFiles, F!NextBlobs

-----------------------------------------------------------------------------

\* Every request of an app, redirected or not, goes to a host that was on the room's
\* allowlist at some time since its call began, and a call makes no more of them than
\* the limit allows (send, requireAllowed).
THEOREM AppsStayOnTheLists == SpecApp => []RequestsStayOnTheLists
BY ImplementsEgress, RequestsAlwaysStayOnTheLists, PTL

\* An app reads no secret that was never readable, and no secret it injects follows a
\* redirect (resolveSecret, send).
THEOREM AppsUseSecretsWithoutReading == SpecApp => []SecretsAreUsedNotRead
BY ImplementsEgress, SecretsAreAlwaysUsedNotRead, PTL

\* However sends, failures, changes of the cap and midnight interleave, the mails let
\* through on a day are counted on that day, once, and are no more than the highest
\* cap it has had (reserveEmail).
THEOREM AppsKeepToTheMailCap ==
  ASSUME Days \in Nat, Caps \subseteq Nat, Days >= 1
  PROVE  SpecApp => []MailKeepsToTheCap
<1>1. InitApp => MailIInv
  BY InitMailIInv DEF InitApp, CapsAreNumbers
<1>2. MailIInv /\ [NextApp]_appVars => MailIInv'
  <2>1. [NextApp]_appVars => [M!Next]_(M!vars)
    BY DEF NextApp, Storing, Fetching, Filing, appVars, mailVars, M!vars
  <2> QED BY <2>1, NextMailIInv
<1>3. MailIInv => MailKeepsToTheCap
  <2>1. \A d : M!Cardinality(M!ReservedOn(d)) = Cardinality(M!ReservedOn(d))
    BY DEF M!Cardinality, Cardinality
  <2> QED BY <2>1 DEF MailIInv, DaysAreKept, MailKeepsToTheCap, M!MailKeepsToTheCap
<1> QED BY <1>1, <1>2, <1>3, PTL DEF SpecApp

\* A run executes the files it was given, in a worker whose broker is that of its own
\* room: ids tell rooms and file sets apart, and a stored build is the build of the
\* files it was stored for (getWorker, resolvePrebuilt).
THEOREM AppsRunWhatTheyWereGiven == SpecApp => []RunsWhatItWasGiven
<1>1. X!RunsWhatItWasGiven => RunsWhatItWasGiven
  BY DEF RunsWhatItWasGiven
<1> QED BY <1>1, RunsAlwaysRunWhatTheyWereGiven, ImplementsSandbox, PTL

\* However incr, get and cas of any number of requests interleave, the counter has grown
\* by one for each request that was told so, and by none that was refused (storeIncr,
\* storeCas).
THEOREM AppsCountEveryIncrementOnce ==
  ASSUME CountsFromANumber
  PROVE  SpecApp => []EveryIncrementCountsOnce
<1>1. InitApp => CountIInv
  BY InitCountIInv
<1>2. CountIInv /\ [NextApp]_appVars => CountIInv'
  BY NextCountIInv
<1>3. CountIInv => EveryIncrementCountsOnce
  <2>1. S!Cardinality(Added) = Cardinality(Added)
    BY DEF S!Cardinality, Cardinality
  <2> QED BY <2>1 DEF CountIInv, Added, EveryIncrementCountsOnce, S!EveryIncrementCountsOnce,
                      S!Number, CountsFromANumber
<1> QED BY <1>1, <1>2, <1>3, PTL DEF SpecApp

\* Once a setLimits that ran alone has answered, and whatever restarts and other
\* calls come, its caps are those that writes meet in the other objects, but for
\* increments and statements that begin with no known word (setLimits,
\* setStorageLimits, enforceValueSize, enforceTotalSize, sqlExec).
THEOREM AppsMeetTheHostsCaps == SpecApp => CapsInForceAreTheHosts
<1>1. InitApp => CapsIInv
  BY InitCaps
<1>2. CapsIInv /\ [NextApp]_appVars => CapsIInv' /\ [CapsObeyed]_(S!vars)
  BY NextCaps
<1> QED BY <1>1, <1>2, PTL DEF SpecApp, CapsInForceAreTheHosts, S!CapsInForceAreTheHosts, CapsObeyed

\* Whatever path or key it is given, a call on one namespace leaves the files and blobs
\* of all the others as they are, and the files stay a tree (safePath, #fsPath, #prefix).
THEOREM AppsKeepToTheirNamespace == SpecApp => NamespacesStayApart
<1>1. InitApp => FilesIInv
  BY DEF InitApp, F!Init, FilesIInv, F!FilesAreATree
<1>2. FilesIInv /\ [NextApp]_appVars => FilesIInv' /\
        [/\ F!FilesAreATree'
         /\ \A ns \in Namespaces \ {caller'} :
              F!Tree(nodes', ns) = F!Tree(nodes, ns) /\ F!Bucket(blobs', ns) = F!Bucket(blobs, ns)]_(F!vars)
  BY NextFilesIInv DEF F!vars, FilesIInv
<1> QED BY <1>1, <1>2, PTL DEF SpecApp, NamespacesStayApart, F!NamespacesStayApart
=============================================================================
