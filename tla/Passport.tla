------------------------------ MODULE Passport ------------------------------
(***************************************************************************)
(* The skills-passport contract, contracts/passport: a registry of issuers   *)
(* kept by an administrator, and of credential commitments kept by issuers.  *)
(*                                                                         *)
(* One action per entry point; the error checks of an entry point are the    *)
(* guards of its action, because a call that returns an error is rolled back *)
(* with everything it did.  require_auth is modelled by who takes the step:  *)
(* the parameter it names is the account that signed the call.               *)
(*                                                                         *)
(* batch_issue_credentials is a loop that writes to storage as it goes, so it *)
(* is a sequence of steps here, on a staged copy of the storage that replaces *)
(* the ledger's when the call returns and is dropped when it fails.          *)
(*                                                                         *)
(* Abstractions.  Names, URIs and reasons are members of small sets.  Every   *)
(* entry is persistent and read through a bump of its lifetime; an archived  *)
(* entry is restored with its value, so lifetimes are left out.              *)
(***************************************************************************)
EXTENDS Integers, Sequences, FiniteSets, Functions

CONSTANTS
  Addresses,      \* Stellar accounts: administrators, institutions, learners
  CredentialIds,
  Hashes,         \* SHA-256 digests of credential documents
  Templates,      \* template symbols
  Names,          \* what an issuer's name and metadata may be
  Reasons,        \* texts of revocations and suspensions
  Expirations,    \* expiry times issuers choose, or None
  None,           \* Rust's Option::None
  MaxTime         \* bound on the ledger timestamp

ASSUME PassportAssumption ==
  /\ MaxTime \in Nat
  /\ Expirations \subseteq Nat \cup {None}
  /\ None \notin Nat \cup Addresses \cup Reasons

VARIABLES
  now,          \* the ledger timestamp
  admin,        \* DataKey::Admin
  issuers,      \* DataKey::Issuer(a); NoIssuer if not stored
  templates,    \* DataKey::Template(t): the registering issuer, or None
  credentials,  \* DataKey::Credential(id); NoCredential if not stored
  learners,     \* DataKey::LearnerCredentials(a)
  batch         \* the batch call in progress and its staged storage

vars == <<now, admin, issuers, templates, credentials, learners, batch>>

NoIssuer == [name |-> None, is_active |-> FALSE]

NoCredential ==
  [issuer |-> None, recipient |-> None, credential_hash |-> None, template_id |-> None,
   issued_at |-> None, expires_at |-> None, status |-> "Absent", revocation_reason |-> None]

NoBatch == [issuer |-> None, credentials |-> <<>>, learners |-> <<>>]

-----------------------------------------------------------------------------
(* Queries.                                                                *)

IsStored(id) == credentials[id].status # "Absent"

\* Mutant: a record is enough, active or not.
HasIssuerRecord(a) == issuers[a] # NoIssuer

IsIssuerAuthorized(a) == issuers[a] # NoIssuer /\ issuers[a].is_active

\* Mutant: the second at which a credential expires still counts.
ExpiredAfter(expires_at) == expires_at # None /\ now > expires_at

IsExpired(expires_at) == expires_at # None /\ now >= expires_at

\* verify_credential, for a stored credential.
Verify(id, claimed_hash) ==
  LET record == credentials[id] IN
  [issuer_authorized |-> IsIssuerAuthorized(record.issuer),
   hash_matches |-> record.credential_hash = claimed_hash,
   is_expired |-> IsExpired(record.expires_at),
   is_valid |-> /\ IsIssuerAuthorized(record.issuer)
                /\ record.credential_hash = claimed_hash
                /\ ~IsExpired(record.expires_at)
                /\ record.status = "Active"]

-----------------------------------------------------------------------------
(* The administrator and the issuer registry.                              *)

\* Calls do not overlap: no other call runs while a batch call does.
Quiet == batch = NoBatch

\* initialize: the first account that calls it becomes administrator.
Initialize(a) ==
  /\ Quiet
  /\ admin = None
  /\ admin' = a
  /\ UNCHANGED <<now, issuers, templates, credentials, learners, batch>>

\* set_admin, signed by the administrator.
SetAdmin(a) ==
  /\ Quiet
  /\ admin # None
  /\ admin' = a
  /\ UNCHANGED <<now, issuers, templates, credentials, learners, batch>>

\* register_issuer, signed by the administrator; a record is never replaced.
RegisterIssuer(a, name) ==
  /\ Quiet
  /\ admin # None
  /\ issuers[a] = NoIssuer
  /\ issuers' = [issuers EXCEPT ![a] = [name |-> name, is_active |-> TRUE]]
  /\ UNCHANGED <<now, admin, templates, credentials, learners, batch>>

\* update_issuer_metadata, signed by the issuer, who has to be active.
UpdateIssuerMetadata(a, name) ==
  /\ Quiet
  /\ IsIssuerAuthorized(a)
  /\ issuers' = [issuers EXCEPT ![a].name = name]
  /\ UNCHANGED <<now, admin, templates, credentials, learners, batch>>

\* deauthorize_issuer and reactivate_issuer, signed by the administrator.
SetIssuerActive(a, active) ==
  /\ Quiet
  /\ admin # None
  /\ issuers[a] # NoIssuer
  /\ issuers' = [issuers EXCEPT ![a].is_active = active]
  /\ UNCHANGED <<now, admin, templates, credentials, learners, batch>>

DeauthorizeIssuer(a) == SetIssuerActive(a, FALSE)
ReactivateIssuer(a) == SetIssuerActive(a, TRUE)

\* register_template, signed by an active issuer; the first one keeps the id.
RegisterTemplate(a, t) ==
  /\ Quiet
  /\ IsIssuerAuthorized(a)
  /\ templates[t] = None
  /\ templates' = [templates EXCEPT ![t] = a]
  /\ UNCHANGED <<now, admin, issuers, credentials, learners, batch>>

-----------------------------------------------------------------------------
(* Issuing.                                                                *)

\* Mutant: nobody looks whether the id is taken.
MayReissue(stored, id, expires_at) == expires_at # None => expires_at > now

\* The checks on one credential against the storage the call sees.
MayIssue(stored, id, expires_at) ==
  /\ stored[id].status = "Absent"
  /\ expires_at # None => expires_at > now

\* The record issue_credential and batch_issue_credentials store.
NewCredential(a, recipient, hash, t, expires_at) ==
  [issuer |-> a, recipient |-> recipient, credential_hash |-> hash, template_id |-> t,
   issued_at |-> now, expires_at |-> expires_at, status |-> "Active",
   revocation_reason |-> None]

\* issue_credential, signed by an active issuer.  The template need not exist.
IssueCredential(a, recipient, id, hash, t, expires_at) ==
  /\ Quiet
  /\ IsIssuerAuthorized(a)
  /\ MayIssue(credentials, id, expires_at)
  /\ credentials' = [credentials EXCEPT ![id] =
       NewCredential(a, recipient, hash, t, expires_at)]
  /\ learners' = [learners EXCEPT ![recipient] = Append(@, id)]
  /\ UNCHANGED <<now, admin, issuers, templates, batch>>

\* batch_issue_credentials starts: signed by an active issuer.
BeginBatch(a) ==
  /\ Quiet
  /\ IsIssuerAuthorized(a)
  /\ batch' = [issuer |-> a, credentials |-> credentials, learners |-> learners]
  /\ UNCHANGED <<now, admin, issuers, templates, credentials, learners>>

\* Mutant: the id is looked up in the ledger's storage, which does not hold the
\* items of this batch.
MayIssueUnstaged(id, expires_at) == MayIssue(credentials, id, expires_at)

\* The next item of a batch may be issued.
MayIssueStaged(id, expires_at) == MayIssue(batch.credentials, id, expires_at)

\* One item of the vector.
BatchItem(recipient, id, hash, t, expires_at) ==
  /\ ~Quiet
  /\ MayIssueStaged(id, expires_at)
  /\ batch' =
       [batch EXCEPT
          !.credentials[id] = NewCredential(batch.issuer, recipient, hash, t, expires_at),
          !.learners[recipient] = Append(@, id)]
  /\ UNCHANGED <<now, admin, issuers, templates, credentials, learners>>

\* An item that may not be issued fails the whole call.
FailBatch(id, expires_at) ==
  /\ ~Quiet
  /\ ~MayIssueStaged(id, expires_at)
  /\ batch' = NoBatch
  /\ UNCHANGED <<now, admin, issuers, templates, credentials, learners>>

\* The vector is exhausted.
CommitBatch ==
  /\ ~Quiet
  /\ credentials' = batch.credentials
  /\ learners' = batch.learners
  /\ batch' = NoBatch
  /\ UNCHANGED <<now, admin, issuers, templates>>

-----------------------------------------------------------------------------
(* The life of a credential.                                               *)

\* A stored credential's issuer, active or not, and the administrator.
MayChangeStatus(c, id) ==
  /\ IsStored(id)
  /\ admin # None
  /\ c = credentials[id].issuer \/ c = admin

\* Mutant: reactivating a credential keeps the reason of its suspension.
KeepReason(id, status, reason) ==
  /\ credentials' = [credentials EXCEPT ![id] =
       [@ EXCEPT !.status = status, !.revocation_reason = IF reason = None THEN @ ELSE reason]]
  /\ UNCHANGED <<now, admin, issuers, templates, learners, batch>>

\* The record is stored back with a new status and reason.
SetStatus(id, status, reason) ==
  /\ credentials' = [credentials EXCEPT ![id] =
       [@ EXCEPT !.status = status, !.revocation_reason = reason]]
  /\ UNCHANGED <<now, admin, issuers, templates, learners, batch>>

\* Mutant: a revoked credential can be revoked or suspended once more.
AnyStatus(id) == IsStored(id)

NotRevoked(id) == credentials[id].status # "Revoked"

\* revoke_credential
RevokeCredential(c, id, reason) ==
  /\ Quiet
  /\ MayChangeStatus(c, id)
  /\ NotRevoked(id)
  /\ SetStatus(id, "Revoked", reason)

\* suspend_credential; a suspended credential may be suspended again.
SuspendCredential(c, id, reason) ==
  /\ Quiet
  /\ MayChangeStatus(c, id)
  /\ NotRevoked(id)
  /\ SetStatus(id, "Suspended", reason)

\* reactivate_credential
ReactivateCredential(c, id) ==
  /\ Quiet
  /\ MayChangeStatus(c, id)
  /\ credentials[id].status = "Suspended"
  /\ SetStatus(id, "Active", None)

-----------------------------------------------------------------------------

Tick ==
  /\ Quiet
  /\ now < MaxTime
  /\ now' = now + 1
  /\ UNCHANGED <<admin, issuers, templates, credentials, learners, batch>>

Init ==
  /\ now = 0
  /\ admin = None
  /\ issuers = [a \in Addresses |-> NoIssuer]
  /\ templates = [t \in Templates |-> None]
  /\ credentials = [id \in CredentialIds |-> NoCredential]
  /\ learners = [a \in Addresses |-> <<>>]
  /\ batch = NoBatch

RegistryStep(a) ==
  \/ Initialize(a) \/ SetAdmin(a)
  \/ \E name \in Names : RegisterIssuer(a, name) \/ UpdateIssuerMetadata(a, name)
  \/ DeauthorizeIssuer(a) \/ ReactivateIssuer(a)
  \/ \E t \in Templates : RegisterTemplate(a, t)

IssueStep(a) ==
  \/ \E p \in Addresses, id \in CredentialIds, h \in Hashes, t \in Templates, e \in Expirations :
       IssueCredential(a, p, id, h, t, e)
  \/ BeginBatch(a)

BatchStep ==
  \/ \E p \in Addresses, id \in CredentialIds, h \in Hashes, t \in Templates, e \in Expirations :
       BatchItem(p, id, h, t, e)
  \/ \E id \in CredentialIds, e \in Expirations : FailBatch(id, e)
  \/ CommitBatch

StatusStep(c) ==
  \E id \in CredentialIds :
    \/ \E reason \in Reasons : RevokeCredential(c, id, reason) \/ SuspendCredential(c, id, reason)
    \/ ReactivateCredential(c, id)

Next ==
  \/ Tick
  \/ \E a \in Addresses : RegistryStep(a) \/ IssueStep(a) \/ StatusStep(a)
  \/ BatchStep

Spec == Init /\ [][Next]_vars

-----------------------------------------------------------------------------
(* Properties.                                                             *)

Statuses == {"Absent", "Active", "Revoked", "Suspended"}

IssuerRecords == [name : Names \cup {None}, is_active : BOOLEAN]

CredentialRecords ==
  [issuer : Addresses \cup {None}, recipient : Addresses \cup {None},
   credential_hash : Hashes \cup {None}, template_id : Templates \cup {None},
   issued_at : Nat \cup {None}, expires_at : Nat \cup {None}, status : Statuses,
   revocation_reason : Reasons \cup {None}]

\* Every variable has its type, a batch in progress carries a copy of the storage,
\* and a reason is on record exactly while a credential is revoked or suspended.
TypeOK ==
  /\ now \in Nat
  /\ admin \in Addresses \cup {None}
  /\ issuers \in [Addresses -> IssuerRecords]
  /\ templates \in [Templates -> Addresses \cup {None}]
  /\ credentials \in [CredentialIds -> CredentialRecords]
  /\ learners \in [Addresses -> Seq(CredentialIds)]
  /\ batch = NoBatch \/ batch \in [issuer : Addresses,
                                   credentials : [CredentialIds -> CredentialRecords],
                                   learners : [Addresses -> Seq(CredentialIds)]]
  /\ \A id \in CredentialIds :
       credentials[id].revocation_reason # None <=> credentials[id].status \in {"Revoked", "Suspended"}

\* A learner's list names each credential issued to that learner once, and nothing
\* else: issuing and batch issuing write the record and the list together, whatever
\* item of a batch fails (lib.rs:236-237, 288-289, storage.rs:106-112).
ListsAreExact ==
  \A a \in Addresses :
    /\ IsInjective(learners[a])
    /\ \A id \in CredentialIds :
         id \in Range(learners[a]) <=> IsStored(id) /\ credentials[id].recipient = a

\* What a commitment says is never changed, replaced or taken back, only its status
\* is (SECURITY_REVIEW_REQUIREMENTS.md:38, replay and id collision).
CommitmentsArePermanent ==
  [][\A id \in CredentialIds : IsStored(id) =>
       /\ credentials'[id].status # "Absent"
       /\ [credentials'[id] EXCEPT !.status = "Active", !.revocation_reason = None]
            = [credentials[id] EXCEPT !.status = "Active", !.revocation_reason = None]]_vars

\* A credential enters the ledger only under the name of an institution that is
\* authorized at that moment, in a batch too (SECURITY_REVIEW_REQUIREMENTS.md:32).
IssuedByAuthorized ==
  [][\A id \in CredentialIds :
       ~IsStored(id) /\ credentials'[id].status # "Absent"
         => issuers[credentials'[id].issuer].is_active]_vars

\* A credential that is revoked or has expired verifies under no hash, and never
\* will again, whoever is the administrator and whatever becomes of its issuer
\* (SECURITY_REVIEW_REQUIREMENTS.md:42, 44).
NeverValidAgain ==
  [][\A id \in CredentialIds, h \in Hashes :
       LET lapsed == credentials[id].expires_at # None /\ now >= credentials[id].expires_at
       IN  credentials[id].status = "Revoked" \/ lapsed
             => ~Verify(id, h).is_valid /\ ~Verify(id, h).is_valid']_vars

\* A revoked credential keeps the reason it was revoked for (VERIFIER_TRUST_MODEL.md:32,
\* "an immutable on-chain revocation reason").
ReasonIsImmutable ==
  [][\A id \in CredentialIds :
       credentials[id].status = "Revoked" => credentials'[id] = credentials[id]]_vars

\* "Only approved institution identities or administrators can register templates,
\* issue, revoke, or suspend credentials" (README.md:92): whoever can take a step
\* that changes a credential's status is an active issuer or the administrator.
StatusChangedByApproved ==
  [][\A c \in Addresses : StatusStep(c) => issuers[c].is_active \/ c = admin]_vars
=============================================================================
