--------------------------- MODULE PassportProofs ---------------------------
(***************************************************************************)
(* Proofs about the skills-passport contract, for any number of accounts,   *)
(* credentials and batch items.                                            *)
(*                                                                         *)
(* The inductive invariant IInv says of the ledger's storage, and of the     *)
(* staged copy of a batch in progress, that records and learner lists agree *)
(* (StoreOk), and of the copy that it holds what the ledger holds plus       *)
(* credentials of the batch's authorized issuer (StagedOk).  The second part *)
(* is why committing a batch is a legal step.                                *)
(***************************************************************************)
EXTENDS Passport, SequenceTheorems, TLAPS

\* Records and learner lists agree.
StoreOk(cs, ls) ==
  /\ cs \in [CredentialIds -> CredentialRecords]
  /\ ls \in [Addresses -> Seq(CredentialIds)]
  /\ \A id \in CredentialIds :
       /\ cs[id].status = "Absent" => cs[id] = NoCredential
       /\ cs[id].status # "Absent" => cs[id].issuer \in Addresses
       /\ cs[id].revocation_reason # None <=> cs[id].status \in {"Revoked", "Suspended"}
  /\ \A a \in Addresses :
       /\ IsInjective(ls[a])
       /\ \A id \in CredentialIds :
            id \in Range(ls[a]) <=> cs[id].status # "Absent" /\ cs[id].recipient = a

\* A batch in progress adds credentials of its issuer to what the ledger holds.
StagedOk ==
  /\ batch = [issuer |-> batch.issuer, credentials |-> batch.credentials,
              learners |-> batch.learners]
  /\ batch.issuer \in Addresses
  /\ issuers[batch.issuer].is_active
  /\ StoreOk(batch.credentials, batch.learners)
  /\ \A id \in CredentialIds :
       \/ batch.credentials[id] = credentials[id]
       \/ /\ credentials[id].status = "Absent"
          /\ batch.credentials[id].status = "Active"
          /\ batch.credentials[id].issuer = batch.issuer

IInv ==
  /\ now \in Nat
  /\ admin \in Addresses \cup {None}
  /\ issuers \in [Addresses -> IssuerRecords]
  /\ templates \in [Templates -> Addresses \cup {None}]
  /\ StoreOk(credentials, learners)
  /\ batch = NoBatch \/ StagedOk

-----------------------------------------------------------------------------
(* The storage.                                                            *)

\* Appending a new element to an injective sequence keeps it injective.
LEMMA PushFresh ==
  ASSUME NEW S, NEW q \in Seq(S), NEW x \in S, IsInjective(q), x \notin Range(q)
  PROVE  /\ Append(q, x) \in Seq(S)
         /\ IsInjective(Append(q, x))
         /\ Range(Append(q, x)) = Range(q) \cup {x}
<1>1. /\ Append(q, x) \in Seq(S)
      /\ Len(Append(q, x)) = Len(q) + 1
      /\ \A i \in 1 .. Len(q) : Append(q, x)[i] = q[i]
      /\ Append(q, x)[Len(q) + 1] = x
      /\ DOMAIN Append(q, x) = 1 .. Len(q) + 1
      /\ DOMAIN q = 1 .. Len(q)
      /\ Len(q) \in Nat
  BY AppendProperties
<1>2. IsInjective(Append(q, x))
  BY <1>1 DEF IsInjective, Range
<1>3. Range(Append(q, x)) = Range(q) \cup {x}
  BY <1>1 DEF Range
<1>. QED
  BY <1>1, <1>2, <1>3

\* Storing a credential under a free id and listing it for its recipient.
LEMMA InsertOk ==
  ASSUME NEW cs, NEW ls, StoreOk(cs, ls),
         NEW id \in CredentialIds, NEW p \in Addresses, NEW record \in CredentialRecords,
         cs[id].status = "Absent", record.status = "Active", record.recipient = p,
         record.issuer \in Addresses, record.revocation_reason = None
  PROVE  StoreOk([cs EXCEPT ![id] = record], [ls EXCEPT ![p] = Append(@, id)])
<1>. DEFINE cs2 == [cs EXCEPT ![id] = record]
            ls2 == [ls EXCEPT ![p] = Append(@, id)]
<1>1. /\ cs \in [CredentialIds -> CredentialRecords]
      /\ ls \in [Addresses -> Seq(CredentialIds)]
      /\ ls[p] \in Seq(CredentialIds) /\ IsInjective(ls[p]) /\ id \notin Range(ls[p])
  BY DEF StoreOk
<1>2. /\ Append(ls[p], id) \in Seq(CredentialIds)
      /\ IsInjective(Append(ls[p], id))
      /\ Range(Append(ls[p], id)) = Range(ls[p]) \cup {id}
  BY <1>1, PushFresh
<1>3. cs2 \in [CredentialIds -> CredentialRecords] /\ ls2 \in [Addresses -> Seq(CredentialIds)]
  BY <1>1, <1>2
<1>4. cs2[id] = record /\ \A k \in CredentialIds \ {id} : cs2[k] = cs[k]
  BY <1>1
<1>5. ls2[p] = Append(ls[p], id) /\ \A a \in Addresses \ {p} : ls2[a] = ls[a]
  BY <1>1
<1>6. ASSUME NEW k \in CredentialIds
      PROVE  /\ cs2[k].status = "Absent" => cs2[k] = NoCredential
             /\ cs2[k].status # "Absent" => cs2[k].issuer \in Addresses
             /\ cs2[k].revocation_reason # None <=> cs2[k].status \in {"Revoked", "Suspended"}
  BY <1>4 DEF StoreOk
<1>7. ASSUME NEW a \in Addresses
      PROVE  /\ IsInjective(ls2[a])
             /\ \A k \in CredentialIds :
                  k \in Range(ls2[a]) <=> cs2[k].status # "Absent" /\ cs2[k].recipient = a
  <2>1. CASE a = p
    BY <1>2, <1>4, <1>5, <2>1 DEF StoreOk
  <2>2. CASE a # p
    BY <1>4, <1>5, <2>2 DEF StoreOk
  <2>. QED
    BY <2>1, <2>2
<1>. QED
  BY <1>3, <1>6, <1>7 DEF StoreOk

\* Changing the status and reason of a stored credential.
LEMMA UpdateOk ==
  ASSUME NEW cs, NEW ls, StoreOk(cs, ls), NEW id \in CredentialIds,
         cs[id].status # "Absent",
         NEW status \in {"Active", "Revoked", "Suspended"}, NEW reason \in Reasons \cup {None},
         reason # None <=> status \in {"Revoked", "Suspended"}
  PROVE  StoreOk([cs EXCEPT ![id] =
                    [@ EXCEPT !.status = status, !.revocation_reason = reason]], ls)
<1>. DEFINE record == [cs[id] EXCEPT !.status = status, !.revocation_reason = reason]
            cs2 == [cs EXCEPT ![id] = record]
<1>1. cs \in [CredentialIds -> CredentialRecords] /\ cs[id] \in CredentialRecords
  BY DEF StoreOk
<1>2. /\ record \in CredentialRecords
      /\ record.status = status /\ record.revocation_reason = reason
      /\ record.issuer = cs[id].issuer /\ record.recipient = cs[id].recipient
  <2>1. ASSUME NEW c \in CredentialRecords
        PROVE  LET d == [c EXCEPT !.status = status, !.revocation_reason = reason]
               IN  /\ d \in CredentialRecords
                   /\ d.status = status /\ d.revocation_reason = reason
                   /\ d.issuer = c.issuer /\ d.recipient = c.recipient
    <3>1. status \in Statuses
      BY DEF Statuses
    <3>. QED
      BY <3>1 DEF CredentialRecords
  <2>. QED
    BY <1>1, <2>1
<1>3. cs2[id] = record /\ \A k \in CredentialIds \ {id} : cs2[k] = cs[k]
  BY <1>1
<1>4. cs2 \in [CredentialIds -> CredentialRecords]
  BY <1>1, <1>2
<1>. HIDE DEF record, cs2
<1>5. \A k \in CredentialIds :
        /\ cs2[k].status # "Absent" <=> cs[k].status # "Absent"
        /\ cs2[k].issuer = cs[k].issuer /\ cs2[k].recipient = cs[k].recipient
  BY <1>2, <1>3
<1>6. ASSUME NEW k \in CredentialIds
      PROVE  /\ cs2[k].status = "Absent" => cs2[k] = NoCredential
             /\ cs2[k].status # "Absent" => cs2[k].issuer \in Addresses
             /\ cs2[k].revocation_reason # None <=> cs2[k].status \in {"Revoked", "Suspended"}
  <2>1. CASE k = id
    BY <1>2, <1>3, <2>1 DEF StoreOk
  <2>2. CASE k # id
    BY <1>3, <2>2 DEF StoreOk
  <2>. QED
    BY <2>1, <2>2
<1>7. ASSUME NEW a \in Addresses
      PROVE  /\ IsInjective(ls[a])
             /\ \A k \in CredentialIds :
                  k \in Range(ls[a]) <=> cs2[k].status # "Absent" /\ cs2[k].recipient = a
  BY <1>5 DEF StoreOk
<1>8. StoreOk(cs2, ls)
  BY <1>4, <1>6, <1>7 DEF StoreOk
<1>. QED
  BY <1>8 DEF record, cs2

LEMMA NewCredentialType ==
  ASSUME now \in Nat, NEW a \in Addresses, NEW p \in Addresses, NEW h \in Hashes,
         NEW t \in Templates, NEW e \in Expirations
  PROVE  /\ NewCredential(a, p, h, t, e) \in CredentialRecords
         /\ NewCredential(a, p, h, t, e).status = "Active"
         /\ NewCredential(a, p, h, t, e).recipient = p
         /\ NewCredential(a, p, h, t, e).issuer = a
         /\ NewCredential(a, p, h, t, e).revocation_reason = None
BY PassportAssumption DEF NewCredential, CredentialRecords, Statuses

-----------------------------------------------------------------------------
(* The invariant.                                                          *)

LEMMA InitIInv == Init => IInv
<1>. SUFFICES ASSUME Init PROVE IInv
  OBVIOUS
<1>1. NoCredential \in CredentialRecords /\ NoCredential.status = "Absent"
      /\ NoCredential.revocation_reason = None
  BY DEF NoCredential, CredentialRecords, Statuses
<1>2. \A a \in Addresses : learners[a] = <<>> /\ learners[a] \in Seq(CredentialIds)
  BY DEF Init
<1>3. StoreOk(credentials, learners)
  <2>1. IsInjective(<<>>) /\ Range(<<>>) = {}
    BY DEF IsInjective, Range
  <2>. QED
    BY <1>1, <1>2, <2>1 DEF Init, StoreOk
<1>4. issuers \in [Addresses -> IssuerRecords]
  BY DEF Init, NoIssuer, IssuerRecords
<1>. QED
  BY <1>3, <1>4 DEF Init, IInv

LEMMA RegistryIInv ==
  ASSUME IInv, NEW a \in Addresses, RegistryStep(a)
  PROVE  IInv'
<1>1. CASE Initialize(a) \/ SetAdmin(a)
  BY <1>1 DEF Initialize, SetAdmin, Quiet, IInv
<1>2. ASSUME NEW name \in Names, RegisterIssuer(a, name)
      PROVE  IInv'
  BY <1>2 DEF RegisterIssuer, Quiet, IInv, IssuerRecords
<1>3. ASSUME NEW name \in Names, UpdateIssuerMetadata(a, name)
      PROVE  IInv'
  BY <1>3 DEF UpdateIssuerMetadata, Quiet, IInv, IssuerRecords
<1>4. ASSUME NEW active \in BOOLEAN, SetIssuerActive(a, active)
      PROVE  IInv'
  BY <1>4 DEF SetIssuerActive, Quiet, IInv, IssuerRecords
<1>5. ASSUME NEW t \in Templates, RegisterTemplate(a, t)
      PROVE  IInv'
  BY <1>5 DEF RegisterTemplate, Quiet, IInv
<1>. QED
  BY <1>1, <1>2, <1>3, <1>4, <1>5 DEF RegistryStep, DeauthorizeIssuer, ReactivateIssuer

LEMMA IssueIInv ==
  ASSUME IInv, NEW a \in Addresses, NEW p \in Addresses, NEW id \in CredentialIds,
         NEW h \in Hashes, NEW t \in Templates, NEW e \in Expirations,
         IssueCredential(a, p, id, h, t, e)
  PROVE  IInv'
<1>. DEFINE record == NewCredential(a, p, h, t, e)
<1>1. /\ record \in CredentialRecords /\ record.status = "Active" /\ record.recipient = p
      /\ record.issuer = a /\ record.revocation_reason = None
  BY NewCredentialType DEF IInv
<1>2. /\ credentials[id].status = "Absent"
      /\ credentials' = [credentials EXCEPT ![id] = record]
      /\ learners' = [learners EXCEPT ![p] = Append(@, id)]
  BY DEF IssueCredential, MayIssue
<1>. HIDE DEF record
<1>3. StoreOk([credentials EXCEPT ![id] = record], [learners EXCEPT ![p] = Append(@, id)])
  BY <1>1, <1>2, InsertOk DEF IInv
<1>4. StoreOk(credentials', learners')
  BY <1>2, <1>3
<1>. QED
  BY <1>4 DEF IssueCredential, Quiet, IInv

LEMMA BeginBatchIInv ==
  ASSUME IInv, NEW a \in Addresses, BeginBatch(a)
  PROVE  IInv'
<1>1. batch' = [issuer |-> a, credentials |-> credentials, learners |-> learners]
  BY DEF BeginBatch
<1>2. StagedOk'
  BY <1>1 DEF BeginBatch, IsIssuerAuthorized, IInv, StagedOk
<1>. QED
  BY <1>2 DEF BeginBatch, IInv

LEMMA BatchItemIInv ==
  ASSUME IInv, NEW p \in Addresses, NEW id \in CredentialIds, NEW h \in Hashes,
         NEW t \in Templates, NEW e \in Expirations, BatchItem(p, id, h, t, e)
  PROVE  IInv'
<1>. DEFINE record == NewCredential(batch.issuer, p, h, t, e)
<1>1. StagedOk
  BY DEF BatchItem, Quiet, IInv
<1>2. UNCHANGED <<now, admin, issuers, templates, credentials, learners>>
  BY DEF BatchItem
<1>3. batch' = [issuer |-> batch.issuer,
                credentials |-> [batch.credentials EXCEPT ![id] = record],
                learners |-> [batch.learners EXCEPT ![p] = Append(@, id)]]
  BY <1>1 DEF BatchItem, StagedOk
<1>4. record \in CredentialRecords /\ record.status = "Active" /\ record.recipient = p
      /\ record.issuer = batch.issuer /\ record.revocation_reason = None
  BY <1>1, NewCredentialType DEF IInv, StagedOk
<1>5. batch.credentials[id].status = "Absent"
  BY DEF BatchItem, MayIssueStaged, MayIssue
<1>6. StoreOk(batch.credentials', batch.learners')
  BY <1>1, <1>3, <1>4, <1>5, InsertOk DEF StagedOk
<1>7. ASSUME NEW k \in CredentialIds
      PROVE  \/ batch'.credentials[k] = credentials[k]
             \/ /\ credentials[k].status = "Absent"
                /\ batch'.credentials[k].status = "Active"
                /\ batch'.credentials[k].issuer = batch.issuer
  <2>1. batch.credentials \in [CredentialIds -> CredentialRecords]
    BY <1>1 DEF StagedOk, StoreOk
  <2>2. CASE k = id
    BY <1>1, <1>3, <1>4, <1>5, <2>1, <2>2 DEF StagedOk
  <2>3. CASE k # id
    BY <1>1, <1>3, <2>1, <2>3 DEF StagedOk
  <2>. QED
    BY <2>2, <2>3
<1>8. StagedOk'
  BY <1>1, <1>2, <1>3, <1>6, <1>7 DEF StagedOk
<1>. QED
  BY <1>2, <1>8 DEF IInv

LEMMA EndBatchIInv ==
  ASSUME IInv,
         CommitBatch \/ \E id \in CredentialIds, e \in Expirations : FailBatch(id, e)
  PROVE  IInv'
BY DEF CommitBatch, FailBatch, Quiet, IInv, StagedOk

LEMMA StatusIInv ==
  ASSUME IInv, NEW c \in Addresses, StatusStep(c)
  PROVE  IInv'
<1>1. PICK id \in CredentialIds :
        \/ \E reason \in Reasons : RevokeCredential(c, id, reason) \/ SuspendCredential(c, id, reason)
        \/ ReactivateCredential(c, id)
  BY DEF StatusStep
<1>2. PICK status \in {"Active", "Revoked", "Suspended"}, reason \in Reasons \cup {None} :
        /\ reason # None <=> status \in {"Revoked", "Suspended"}
        /\ Quiet /\ IsStored(id)
        /\ SetStatus(id, status, reason)
  BY <1>1, PassportAssumption
  DEF RevokeCredential, SuspendCredential, ReactivateCredential, MayChangeStatus
<1>3. StoreOk(credentials', learners')
  BY <1>2, UpdateOk DEF SetStatus, IsStored, IInv
<1>. QED
  BY <1>2, <1>3 DEF SetStatus, Quiet, IInv

LEMMA NextIInv == IInv /\ [Next]_vars => IInv'
<1>. SUFFICES ASSUME IInv, [Next]_vars PROVE IInv'
  OBVIOUS
<1>1. CASE Tick
  BY <1>1 DEF Tick, Quiet, IInv
<1>2. ASSUME NEW a \in Addresses, RegistryStep(a) \/ IssueStep(a) \/ StatusStep(a)
      PROVE  IInv'
  BY <1>2, RegistryIInv, IssueIInv, BeginBatchIInv, StatusIInv DEF IssueStep
<1>3. CASE BatchStep
  BY <1>3, BatchItemIInv, EndBatchIInv DEF BatchStep
<1>4. CASE UNCHANGED vars
  BY <1>4 DEF vars, IInv, StagedOk
<1>. QED
  BY <1>1, <1>2, <1>3, <1>4 DEF Next

LEMMA IInvAlways == Spec => []IInv
BY InitIInv, NextIInv, PTL DEF Spec
-----------------------------------------------------------------------------
(* The theorems.                                                            *)

\* Every reachable state has its type, and revoked and suspended credentials alone
\* carry a reason.
THEOREM TypeCorrect == Spec => []TypeOK
<1>1. IInv => TypeOK
  <2>. SUFFICES ASSUME IInv PROVE TypeOK
    OBVIOUS
  <2>1. batch = NoBatch \/ batch \in [issuer : Addresses,
                                     credentials : [CredentialIds -> CredentialRecords],
                                     learners : [Addresses -> Seq(CredentialIds)]]
    BY DEF IInv, StagedOk, StoreOk
  <2>. QED
    BY <2>1 DEF IInv, StoreOk, TypeOK
<1>. QED
  BY <1>1, IInvAlways, PTL

\* Every learner's list names exactly that learner's credentials, each once, whatever
\* single and batch calls succeed or fail.
THEOREM ListsCorrect == Spec => []ListsAreExact
<1>1. IInv => ListsAreExact
  BY DEF IInv, StoreOk, ListsAreExact, IsStored
<1>. QED
  BY <1>1, IInvAlways, PTL

\* What one step may do to one credential: nothing, change its status, or store it
\* for an authorized issuer.
LEMMA CredentialStep ==
  ASSUME IInv, [Next]_vars, NEW id \in CredentialIds
  PROVE  \/ credentials'[id] = credentials[id]
         \/ /\ credentials[id].status \in {"Active", "Suspended"}
            /\ \E status \in {"Active", "Revoked", "Suspended"}, reason \in Reasons \cup {None} :
                 credentials'[id] =
                   [credentials[id] EXCEPT !.status = status, !.revocation_reason = reason]
         \/ /\ credentials[id] = NoCredential
            /\ credentials'[id].status = "Active"
            /\ issuers[credentials'[id].issuer].is_active
<1>1. CASE UNCHANGED credentials
  BY <1>1
<1>2. ASSUME NEW a \in Addresses, IssueStep(a)
      PROVE  \/ credentials'[id] = credentials[id]
             \/ /\ credentials[id] = NoCredential
                /\ credentials'[id].status = "Active"
                /\ issuers[credentials'[id].issuer].is_active
  BY <1>2, NewCredentialType
  DEF IssueStep, IssueCredential, BeginBatch, MayIssue, IsIssuerAuthorized, IInv, StoreOk
<1>3. ASSUME CommitBatch
      PROVE  \/ credentials'[id] = credentials[id]
             \/ /\ credentials[id] = NoCredential
                /\ credentials'[id].status = "Active"
                /\ issuers[credentials'[id].issuer].is_active
  BY <1>3 DEF CommitBatch, Quiet, IInv, StagedOk, StoreOk
<1>4. ASSUME NEW c \in Addresses, StatusStep(c)
      PROVE  \/ credentials'[id] = credentials[id]
             \/ /\ credentials[id].status \in {"Active", "Suspended"}
                /\ \E status \in {"Active", "Revoked", "Suspended"}, reason \in Reasons \cup {None} :
                     credentials'[id] =
                       [credentials[id] EXCEPT !.status = status, !.revocation_reason = reason]
  <2>1. credentials[id] \in CredentialRecords /\ credentials \in [CredentialIds -> CredentialRecords]
    BY DEF IInv, StoreOk
  <2>2. PICK k \in CredentialIds, status \in {"Active", "Revoked", "Suspended"},
             reason \in Reasons \cup {None} :
          /\ credentials[k].status \notin {"Absent", "Revoked"}
          /\ SetStatus(k, status, reason)
    BY <1>4 DEF StatusStep, RevokeCredential, SuspendCredential, ReactivateCredential,
                MayChangeStatus, IsStored, NotRevoked
  <2>. QED
    BY <2>1, <2>2 DEF SetStatus, CredentialRecords, Statuses
<1>5. CASE Tick \/ UNCHANGED vars
  BY <1>1, <1>5 DEF Tick, vars
<1>6. CASE \E a \in Addresses : RegistryStep(a)
  BY <1>1, <1>6 DEF RegistryStep, Initialize, SetAdmin, RegisterIssuer, UpdateIssuerMetadata,
                    DeauthorizeIssuer, ReactivateIssuer, SetIssuerActive, RegisterTemplate
<1>7. CASE BatchStep
  BY <1>1, <1>3, <1>7 DEF BatchStep, BatchItem, FailBatch
<1>. QED
  BY <1>2, <1>4, <1>5, <1>6, <1>7 DEF Next

\* No commitment is ever changed, replaced or removed.
THEOREM CommitmentsStay == Spec => CommitmentsArePermanent
<1>1. ASSUME IInv, [Next]_vars, NEW id \in CredentialIds, IsStored(id)
      PROVE  /\ credentials'[id].status # "Absent"
             /\ [credentials'[id] EXCEPT !.status = "Active", !.revocation_reason = None]
                  = [credentials[id] EXCEPT !.status = "Active", !.revocation_reason = None]
  <2>1. credentials[id] \in CredentialRecords
    BY <1>1 DEF IInv, StoreOk
  <2>2. CASE credentials'[id] = credentials[id]
    BY <1>1, <2>2 DEF IsStored
  <2>3. ASSUME NEW status \in {"Active", "Revoked", "Suspended"}, NEW reason,
               credentials'[id] =
                 [credentials[id] EXCEPT !.status = status, !.revocation_reason = reason]
        PROVE  /\ credentials'[id].status # "Absent"
               /\ [credentials'[id] EXCEPT !.status = "Active", !.revocation_reason = None]
                    = [credentials[id] EXCEPT !.status = "Active", !.revocation_reason = None]
    BY <2>1, <2>3 DEF CredentialRecords
  <2>4. credentials[id] # NoCredential
    BY <1>1 DEF IsStored, NoCredential
  <2>. QED
    BY <1>1, <2>2, <2>3, <2>4, CredentialStep
<1>2. ASSUME IInv, [Next]_vars
      PROVE  \A id \in CredentialIds : IsStored(id) =>
               /\ credentials'[id].status # "Absent"
               /\ [credentials'[id] EXCEPT !.status = "Active", !.revocation_reason = None]
                    = [credentials[id] EXCEPT !.status = "Active", !.revocation_reason = None]
  BY <1>1, <1>2
<1>. QED
  BY <1>2, IInvAlways, PTL DEF Spec, CommitmentsArePermanent

\* Credentials enter the ledger under authorized issuers only.
THEOREM IssuersAreAuthorized == Spec => IssuedByAuthorized
<1>1. ASSUME IInv, [Next]_vars
      PROVE  \A id \in CredentialIds :
               ~IsStored(id) /\ credentials'[id].status # "Absent"
                 => issuers[credentials'[id].issuer].is_active
  BY <1>1, CredentialStep DEF IsStored
<1>. QED
  BY <1>1, IInvAlways, PTL DEF Spec, IssuedByAuthorized

\* A revoked credential stays as it is, its reason included.
THEOREM RevocationIsForever == Spec => ReasonIsImmutable
<1>1. ASSUME IInv, [Next]_vars, NEW id \in CredentialIds, credentials[id].status = "Revoked"
      PROVE  credentials'[id] = credentials[id]
  <2>1. credentials[id] # NoCredential
    BY <1>1 DEF NoCredential
  <2>. QED
    BY <1>1, <2>1, CredentialStep
<1>2. ASSUME IInv, [Next]_vars
      PROVE  \A id \in CredentialIds :
               credentials[id].status = "Revoked" => credentials'[id] = credentials[id]
  BY <1>1, <1>2
<1>. QED
  BY <1>2, IInvAlways, PTL DEF Spec, ReasonIsImmutable

LEMMA TimeMonotone ==
  ASSUME IInv, [Next]_vars
  PROVE  now' \in Nat /\ now' >= now
<1>1. CASE Tick
  BY <1>1 DEF Tick, IInv
<1>2. CASE UNCHANGED now
  BY <1>2 DEF IInv
<1>3. CASE \E a \in Addresses : RegistryStep(a) \/ IssueStep(a) \/ StatusStep(a)
  BY <1>2, <1>3
  DEF RegistryStep, Initialize, SetAdmin, RegisterIssuer, UpdateIssuerMetadata,
      DeauthorizeIssuer, ReactivateIssuer, SetIssuerActive, RegisterTemplate,
      IssueStep, IssueCredential, BeginBatch,
      StatusStep, RevokeCredential, SuspendCredential, ReactivateCredential, SetStatus
<1>4. CASE BatchStep
  BY <1>2, <1>4 DEF BatchStep, BatchItem, FailBatch, CommitBatch
<1>. QED
  BY <1>1, <1>2, <1>3, <1>4 DEF Next, vars

\* What is revoked or has expired never verifies again.
THEOREM InvalidForever == Spec => NeverValidAgain
<1>1. ASSUME IInv, [Next]_vars, NEW id \in CredentialIds, NEW h \in Hashes,
             \/ credentials[id].status = "Revoked"
             \/ credentials[id].expires_at # None /\ now >= credentials[id].expires_at
      PROVE  ~Verify(id, h).is_valid /\ ~Verify(id, h).is_valid'
  <2>1. ~Verify(id, h).is_valid
    BY <1>1 DEF Verify, IsExpired
  <2>2. credentials[id] # NoCredential /\ credentials[id] \in CredentialRecords
    BY <1>1 DEF NoCredential, IInv, StoreOk
  <2>3. CASE credentials[id].status = "Revoked"
    <3>1. credentials'[id].status = "Revoked"
      BY <1>1, <2>2, <2>3, CredentialStep
    <3>. QED
      BY <2>1, <3>1 DEF Verify
  <2>4. CASE credentials[id].expires_at # None /\ now >= credentials[id].expires_at
    <3>1. credentials'[id].expires_at = credentials[id].expires_at
      BY <1>1, <2>2, CredentialStep DEF CredentialRecords
    <3>2. now' >= credentials[id].expires_at
      BY <1>1, <2>2, <2>4, TimeMonotone DEF IInv, CredentialRecords
    <3>. QED
      BY <2>1, <2>4, <3>1, <3>2 DEF Verify, IsExpired
  <2>. QED
    BY <1>1, <2>3, <2>4
<1>2. ASSUME IInv, [Next]_vars
      PROVE  \A id \in CredentialIds, h \in Hashes :
               LET lapsed == credentials[id].expires_at # None /\ now >= credentials[id].expires_at
               IN  credentials[id].status = "Revoked" \/ lapsed
                     => ~Verify(id, h).is_valid /\ ~Verify(id, h).is_valid'
  BY <1>1, <1>2
<1>. QED
  BY <1>2, IInvAlways, PTL DEF Spec, NeverValidAgain
=============================================================================
