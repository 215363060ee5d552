-------------------------- MODULE CertificateWait ---------------------------
(***************************************************************************)
(* WaitForCertificateReady: the sync applies its Certificates and polls    *)
(* them one after the other, each until it is ready and its Secret holds a *)
(* certificate, or its deadline is over, while cert-manager's controllers  *)
(* trigger, issue and judge readiness independently of one another.        *)
(*                                                                         *)
(* A Certificate's spec is the wanted one or another; a Secret's data is   *)
(* incomplete or what was issued for a spec.  Time is counted in units of  *)
(* the two seconds between polls.                                          *)
(***************************************************************************)
EXTENDS Naturals, Sequences

CONSTANTS
    Names,         \* the Certificates in the order of the waits
    Timeout,       \* two minutes, in units
    CallTime,      \* the longest an API call takes, in units
    Absent,
    MaxChanges,    \* writes and deletions by other clients, renewals
    MaxFaults      \* failed calls

ASSUME CertificateAssumption ==
    /\ Names \in Seq({"webhook-cert", "metrics-certs", "visibility"}) /\ Names # <<>>
    /\ Timeout \in Nat /\ CallTime \in Nat /\ MaxChanges \in Nat /\ MaxFaults \in Nat

Certs == {Names[i] : i \in 1..Len(Names)}
Specs == {"wanted", "other"}

VARIABLES
    cert,      \* the Certificates: spec and conditions
    secret,    \* their Secrets' data
    pc,
    current,   \* the position in Names of the one waited for
    elapsed,   \* since the wait for it began
    changes, faults

certVars == <<cert, secret>>
vars == <<certVars, pc, current, elapsed, changes, faults>>

name == Names[current]

-----------------------------------------------------------------------------
(* The sync *)

BeginSync ==
    /\ pc = "idle"
    /\ pc' = "apply"
    /\ UNCHANGED <<certVars, current, elapsed, changes, faults>>

NewCertificate(spec) == [spec |-> spec, reported |-> FALSE, ready |-> FALSE, issuing |-> FALSE]

\* On to the next Certificate, or back to the first one for what comes then.
Advance(then) ==
    IF current = Len(Names) THEN pc' = then /\ current' = 1
    ELSE pc' = pc /\ current' = current + 1

\* Variant: a Certificate that exists is left alone.
manageCertificateCreateOnly ==
    /\ pc = "apply"
    /\ cert' = [cert EXCEPT ![name] = IF @ = Absent THEN NewCertificate("wanted") ELSE @]
    /\ Advance("poll")
    /\ UNCHANGED <<secret, elapsed, changes, faults>>

\* manageCertificateCR: created, or its spec replaced; the conditions are not
\* touched.
manageCertificate ==
    /\ pc = "apply"
    /\ cert' = [cert EXCEPT ![name] = IF @ = Absent THEN NewCertificate("wanted")
                                      ELSE [@ EXCEPT !.spec = "wanted"]]
    /\ Advance("poll")
    /\ UNCHANGED <<secret, elapsed, changes, faults>>

\* The sync returns, with an error or to go on with the webhooks.
Return == pc' = "idle" /\ current' = 1 /\ elapsed' = 0

TimedOut ==
    /\ pc = "poll"
    /\ elapsed > Timeout
    /\ Return
    /\ UNCHANGED <<certVars, changes, faults>>

\* The conditions as one poll reads them.
CertificateReady(c) ==
    /\ cert[c] # Absent
    /\ cert[c].reported
    /\ ~ cert[c].issuing
    /\ cert[c].ready

\* An API call lets time pass.
Call == \E t \in 0..CallTime : elapsed' = elapsed + t

GetCertificate ==
    /\ pc = "poll"
    /\ elapsed <= Timeout
    /\ pc' = IF CertificateReady(name) THEN "secret" ELSE "sleep"
    /\ Call
    /\ UNCHANGED <<certVars, current, changes, faults>>

SecretComplete(c) == secret[c] \in Specs

\* The next Certificate has a deadline of its own.
GetSecret ==
    /\ pc = "secret"
    /\ SecretComplete(name)
    /\ IF current = Len(Names) THEN pc' = "serve" /\ current' = 1
       ELSE pc' = "poll" /\ current' = current + 1
    /\ elapsed' = 0
    /\ UNCHANGED <<certVars, changes, faults>>

GetSecretIncomplete ==
    /\ pc = "secret"
    /\ ~ SecretComplete(name)
    /\ pc' = "sleep"
    /\ Call
    /\ UNCHANGED <<certVars, current, changes, faults>>

\* Variant: every retry has a new deadline.
SleepRenewed ==
    /\ pc = "sleep"
    /\ elapsed' = 0
    /\ pc' = "poll"
    /\ UNCHANGED <<certVars, current, changes, faults>>

\* Variant: a retry begins with the Secret, whatever made it necessary.
SleepThenSecret ==
    /\ pc = "sleep"
    /\ elapsed' = elapsed + 1
    /\ pc' = "secret"
    /\ UNCHANGED <<certVars, current, changes, faults>>

Sleep ==
    /\ pc = "sleep"
    /\ elapsed' = elapsed + 1
    /\ pc' = "poll"
    /\ UNCHANGED <<certVars, current, changes, faults>>

manageWebhooks ==
    /\ pc = "serve"
    /\ Return
    /\ UNCHANGED <<certVars, changes, faults>>

\* A call that fails, or whose context is cancelled, ends the sync.
SyncFails ==
    /\ pc \in {"apply", "poll", "secret", "serve"}
    /\ faults < MaxFaults
    /\ faults' = faults + 1
    /\ Return
    /\ UNCHANGED <<certVars, changes>>

Sync ==
    \/ BeginSync \/ manageCertificate
    \/ TimedOut \/ GetCertificate \/ GetSecret \/ GetSecretIncomplete \/ Sleep
    \/ manageWebhooks

-----------------------------------------------------------------------------
(* cert-manager's controllers *)

\* What was issued is what the spec asks for.
UpToDate(c) == secret[c] = cert[c].spec

Trigger(c) ==
    /\ cert[c] # Absent
    /\ ~ cert[c].issuing /\ ~ UpToDate(c)
    /\ cert' = [cert EXCEPT ![c].issuing = TRUE, ![c].reported = TRUE]
    /\ UNCHANGED <<secret, pc, current, elapsed, changes, faults>>

Issue(c) ==
    /\ cert[c] # Absent
    /\ cert[c].issuing
    /\ secret' = [secret EXCEPT ![c] = cert[c].spec]
    /\ cert' = [cert EXCEPT ![c].issuing = FALSE]
    /\ UNCHANGED <<pc, current, elapsed, changes, faults>>

Readiness(c) ==
    /\ cert[c] # Absent
    /\ ~ cert[c].reported \/ cert[c].ready # UpToDate(c)
    /\ cert' = [cert EXCEPT ![c].ready = UpToDate(c), ![c].reported = TRUE]
    /\ UNCHANGED <<secret, pc, current, elapsed, changes, faults>>

\* A renewal is triggered while the certificate is valid.
Renew(c) ==
    /\ changes < MaxChanges
    /\ changes' = changes + 1
    /\ cert[c] # Absent
    /\ ~ cert[c].issuing
    /\ cert' = [cert EXCEPT ![c].issuing = TRUE, ![c].reported = TRUE]
    /\ UNCHANGED <<secret, pc, current, elapsed, faults>>

-----------------------------------------------------------------------------
(* Other clients *)

Disturb(c) ==
    /\ changes < MaxChanges
    /\ changes' = changes + 1
    /\ \/ /\ cert[c] # Absent
          /\ \/ cert' = [cert EXCEPT ![c].spec = "other"]
             \/ cert' = [cert EXCEPT ![c] = Absent]
          /\ UNCHANGED secret
       \/ /\ \E data \in {Absent, "incomplete"} : secret' = [secret EXCEPT ![c] = data]
          /\ UNCHANGED cert
    /\ UNCHANGED <<pc, current, elapsed, faults>>

Init ==
    /\ cert = [c \in Certs |-> Absent]
    /\ secret \in [Certs -> {Absent, "wanted"}]   \* Secrets outlive their Certificates
    /\ pc = "idle" /\ current = 1 /\ elapsed = 0
    /\ changes = 0 /\ faults = 0

Next ==
    \/ Sync \/ SyncFails
    \/ \E c \in Certs : Trigger(c) \/ Issue(c) \/ Readiness(c) \/ Renew(c) \/ Disturb(c)

\* Nothing is assumed of cert-manager.
Spec == Init /\ [][Next]_vars /\ WF_vars(Sync)

CertManagerWorks ==
    \A c \in Certs : WF_vars(Trigger(c)) /\ WF_vars(Issue(c)) /\ WF_vars(Readiness(c))

-----------------------------------------------------------------------------
(* Properties *)

\* One wait holds the only worker for its timeout, one sleep and the calls of
\* one poll at the most, whatever it meets.
WaitBounded == elapsed <= Timeout + 1 + 2 * CallTime

\* Even if cert-manager never answers, the worker gets free for other events.
WorkerReleased == (pc # "idle") ~> (pc = "idle")

\* With a cert-manager that works the sync passes the waits, and it leaves
\* Certificates of the wanted spec with their own Secrets: none of the
\* answers of a poll makes it wait for what will not come.
Converges == CertManagerWorks =>
    /\ <>[](\A c \in Certs : cert[c] # Absent /\ cert[c].spec = "wanted" /\ secret[c] = "wanted")
    /\ []<>(pc = "serve")
=============================================================================
