------------------------- MODULE CredentialsProofs -------------------------
(***************************************************************************)
(* Proofs about the credential passport of the web application, for any     *)
(* number of windows, credentials, issuers and shared documents.            *)
(*                                                                         *)
(* The inductive invariant has three parts besides the types.  OneOrigin:   *)
(* whatever copies of a credential storage, windows and documents hold,     *)
(* they were made by one issuer, with one expiry; only their status may     *)
(* differ, for windows overwrite one another.  KnownIsRevoked: a verifier   *)
(* holds as revoked what was revoked for good when it was opened.           *)
(* ShownIsGenuine: a verdict "valid" on display still follows from what the *)
(* verifier holds, for a verifier changes its copy only when opened again.  *)
(***************************************************************************)
EXTENDS Credentials, TLAPS

\* Somebody has the credential c as one by the issuer i that expires at e.
Holds(c, i, e) ==
  \/ stored[c] # NoRecord /\ stored[c].issuer = i /\ stored[c].expires = e
  \/ \E w \in Windows :
       creds[w][c] # NoRecord /\ creds[w][c].issuer = i /\ creds[w][c].expires = e
  \/ \E p \in shared :
       p.kind = "payload" /\ p.cred = c /\ p.issuer = i /\ p.expires = e

OneOrigin ==
  \A c \in Creds : \A i, j \in Issuers : \A e, f \in 0 .. MaxTime :
    Holds(c, i, e) /\ Holds(c, j, f) => i = j /\ e = f

DocumentsOk ==
  \A p \in shared : p.cred \in Creds /\ (p.kind = "payload" => p.issuer \in Issuers)

KnownIsRevoked ==
  \A w \in Windows : \A c \in known[w] :
    view[w] = "Verifier" /\ creds[w][c].status = "Revoked"

Genuine(w) ==
  LET p == shown[w].what IN
  /\ view[w] = "Verifier"
  /\ p.cred \in Creds /\ p.cred \notin known[w]
  /\ creds[w][p.cred].status = "Active" /\ issuers[w][creds[w][p.cred].issuer]
  /\ p.kind = "payload" => HashMatched(p) /\ p.issuer = creds[w][p.cred].issuer

ShownIsGenuine == \A w \in Windows : shown[w].verdict = "valid" => Genuine(w)

IInv == TypeOK /\ DocumentsOk /\ OneOrigin /\ KnownIsRevoked /\ ShownIsGenuine

-----------------------------------------------------------------------------
(* Records and presentations.                                              *)

\* A record is none, or has an issuer, an expiry and a status.
LEMMA RecordFields ==
  ASSUME NEW r \in Records
  PROVE  /\ r.expires \in 0 .. MaxTime
         /\ r # NoRecord => r.issuer \in Issuers
                            /\ r.status \in {"Active", "Suspended", "Revoked"}
         /\ r = NoRecord => r.status = "None"
BY CredentialsAssumption DEF Records, NoRecord, None

\* A change of status keeps a record a record, by the same issuer.
LEMMA StatusChange ==
  ASSUME NEW r \in Records, r # NoRecord, NEW s \in {"Active", "Suspended", "Revoked"}
  PROVE  /\ [r EXCEPT !.status = s] \in Records
         /\ [r EXCEPT !.status = s] # NoRecord
         /\ [r EXCEPT !.status = s].issuer = r.issuer
         /\ [r EXCEPT !.status = s].expires = r.expires
         /\ [r EXCEPT !.status = s].status = s
BY CredentialsAssumption DEF Records, NoRecord, None

\* The document of a record states the record's issuer and expiry.
LEMMA DocumentOf ==
  ASSUME NEW held \in [Creds -> Records], NEW c \in Creds, held[c] # NoRecord
  PROVE  /\ Document(held, c) \in Presentations
         /\ Edited(Document(held, c)) \in Presentations
         /\ Document(held, c).cred = c /\ Document(held, c).kind = "payload"
         /\ Document(held, c).issuer = held[c].issuer
         /\ Document(held, c).expires = held[c].expires
         /\ held[c].issuer \in Issuers
BY RecordFields DEF Document, Presentations, Edited

\* Whatever the dialog is set to, what is shared names the credential and, if it is a
\* document, states its issuer and expiry.
LEMMA PackageOf ==
  ASSUME NEW held \in [Creds -> Records], NEW c \in Creds, held[c] # NoRecord,
         NEW o \in Options
  PROVE  /\ SharePackage(held, c, o) \in Presentations
         /\ SharePackage(held, c, o).cred = c
         /\ SharePackage(held, c, o).kind = "payload" =>
              /\ SharePackage(held, c, o).issuer = held[c].issuer
              /\ SharePackage(held, c, o).expires = held[c].expires
<1>1. CASE o.mode = "anchor"
  BY <1>1, CredentialsAssumption DEF SharePackage, Anchor, Presentations
<1>2. CASE o.mode # "anchor"
  <2>1. o.redact \in BOOLEAN /\ o.selected \in SUBSET Skills
    BY CredentialsAssumption DEF Options
  <2>2. /\ held[c].issuer \in Issuers
        /\ held[c].expires \in 0 .. MaxTime
    BY RecordFields
  <2> QED
    BY <1>2, <2>1, <2>2 DEF SharePackage, Document, Presentations
<1> QED
  BY <1>1, <1>2

-----------------------------------------------------------------------------
(* The judgements.                                                         *)

\* "valid" is said only of an active record of an authorized issuer, and of a document
\* only if it is whole and its issuer is authorized.
LEMMA ValidMeans ==
  ASSUME TypeOK, NEW w \in Windows, NEW p \in Presentations, p.cred \in Creds
  PROVE  /\ Verdict(w, p) \in Verdicts
         /\ Verdict(w, p) = "valid" =>
              /\ creds[w][p.cred] # NoRecord /\ creds[w][p.cred].status = "Active"
              /\ p.kind = "payload" => HashMatched(p) /\ issuers[w][p.issuer]
              /\ p.kind = "anchor" => issuers[w][creds[w][p.cred].issuer]
<1> DEFINE record == creds[w][p.cred]
<1>1. record \in Records
  BY DEF TypeOK
<1>2. p.kind \in {"anchor", "payload"}
  BY DEF Presentations
<1>3. CardStatus(record) \in {"revoked", "suspended", "expired", "valid"}
  BY DEF CardStatus
<1>4. CardStatus(record) = "valid" /\ record # NoRecord => record.status = "Active"
  BY <1>1, RecordFields DEF CardStatus
<1>5. CASE p.kind = "anchor"
  <2>1. record.status # "Active" => CardStatus(record) # "valid" \/ record = NoRecord
    BY <1>4
  <2> QED
    BY <1>3, <1>5, <2>1 DEF Verdict, AnchorVerdict, Verdicts
<1>6. CASE p.kind = "payload"
  BY <1>3, <1>4, <1>6 DEF Verdict, PayloadVerdict, Verdicts
<1> QED
  BY <1>2, <1>5, <1>6

\* The judgements agree: in every well-typed state, an anchor and the document of a
\* credential get the same verdict but in the second of expiry, and it is the card's
\* (verify.ts:102, EmployerVerifier.tsx:98, LearnerHub.tsx:289).
LEMMA TypeImpliesAgreement == TypeOK => JudgementsAgree
<1> SUFFICES ASSUME TypeOK, NEW w \in Windows, NEW c \in Creds,
                    creds[w][c] # NoRecord, view[w] = "Verifier"
             PROVE  LET record == creds[w][c]
                        verdict == PayloadVerdict(w, Document(creds[w], c)) IN
                    /\ record.expires = 0 \/ now # record.expires =>
                         AnchorVerdict(w, Anchor(c)) = verdict
                    /\ issuers[w][record.issuer] => verdict = CardStatus(record)
  BY DEF JudgementsAgree
<1> DEFINE record == creds[w][c]
           d == Document(creds[w], c)
<1>1. /\ record.status \in {"Active", "Suspended", "Revoked"}
      /\ record.expires \in 0 .. MaxTime
      /\ record.issuer \in Issuers
  BY RecordFields DEF TypeOK
<1>2. /\ d.cred = c /\ d.issuer = record.issuer /\ d.expires = record.expires
      /\ HashMatched(d)
  BY DEF Document, HashMatched
<1>3. Anchor(c).cred = c
  BY DEF Anchor
<1>4. now \in Int /\ record.expires \in Int
  BY <1>1, CredentialsAssumption DEF TypeOK
<1>5. CASE record.status = "Active"
  BY <1>2, <1>3, <1>4, <1>5 DEF PayloadVerdict, AnchorVerdict, CardStatus
<1>6. CASE record.status # "Active"
  <2>1. CardStatus(record) \in {"revoked", "suspended"}
    BY <1>1, <1>6 DEF CardStatus
  <2> QED
    BY <1>2, <1>3, <1>6, <2>1 DEF PayloadVerdict, AnchorVerdict
<1> QED
  BY <1>5, <1>6

-----------------------------------------------------------------------------
(* The initial state.                                                      *)

\* The credentials of the first visit are records.
LEMMA SeedOk == Seed \in [Creds -> Records] /\ SeedIssuers \in [Issuers -> BOOLEAN]
<1>1. (CHOOSE i \in Accredited : TRUE) \in Issuers
  BY CredentialsAssumption
<1> QED
  BY <1>1, CredentialsAssumption DEF Seed, SeedIssuers, Records, NoRecord

LEMMA InitIInv == Init => IInv
<1> SUFFICES ASSUME Init PROVE IInv
  OBVIOUS
<1>1. Empty \in [Creds -> Records] /\ Nobody \in [Issuers -> BOOLEAN]
  BY DEF Empty, Nobody, Records
<1>2. NothingShown \in [what : Presentations, verdict : Verdicts]
  BY CredentialsAssumption DEF NothingShown, Anchor, Presentations, Verdicts
<1>3. TypeOK
  BY <1>1, <1>2, SeedOk, CredentialsAssumption DEF Init, TypeOK, Views
<1>4. DocumentsOk
  BY DEF Init, DocumentsOk
<1>5. \A c \in Creds, i \in Issuers, e \in 0 .. MaxTime :
        Holds(c, i, e) => stored[c].issuer = i /\ stored[c].expires = e
  BY DEF Init, Holds, Empty
<1>6. OneOrigin
  BY <1>5 DEF OneOrigin
<1>7. KnownIsRevoked /\ ShownIsGenuine
  BY DEF Init, KnownIsRevoked, ShownIsGenuine, NothingShown
<1> QED
  BY <1>3, <1>4, <1>6, <1>7 DEF IInv

-----------------------------------------------------------------------------
(* The steps.                                                              *)

\* A step after which nobody has a credential on other terms than somebody had before
\* keeps the origin of every credential one.
LEMMA OriginKept ==
  ASSUME OneOrigin,
         \A c \in Creds, i \in Issuers, e \in 0 .. MaxTime : Holds(c, i, e)' => Holds(c, i, e)
  PROVE  OneOrigin'
BY DEF OneOrigin

\* A view opened or left: its copy is what storage holds, its display is empty, and a
\* verifier finds revoked what is revoked for good.
LEMMA SwitchTabStep ==
  ASSUME IInv, NEW w \in Windows, NEW v \in Views, SwitchTab(w, v)
  PROVE  IInv'
<1> USE DEF IInv
<1>1. Empty \in [Creds -> Records] /\ Nobody \in [Issuers -> BOOLEAN]
  BY DEF Empty, Nobody, Records
<1>2. NothingShown \in [what : Presentations, verdict : Verdicts]
  BY CredentialsAssumption DEF NothingShown, Anchor, Presentations, Verdicts
<1>3. /\ view' = [view EXCEPT ![w] = v]
      /\ creds' = [creds EXCEPT ![w] = IF v = "Closed" THEN Empty ELSE stored]
      /\ \E r \in [Issuers -> BOOLEAN] : issuers' = [issuers EXCEPT ![w] = r]
      /\ shown' = [shown EXCEPT ![w] = NothingShown]
      /\ known' = [known EXCEPT ![w] =
           IF v = "Verifier" THEN {c \in Creds : RevokedForGood(c)} ELSE {}]
      /\ UNCHANGED <<now, stored, registry, shared>>
  BY <1>1 DEF SwitchTab, Mount, Close, storage, TypeOK
<1>4. TypeOK'
  BY <1>1, <1>2, <1>3 DEF TypeOK
<1>5. DocumentsOk'
  BY <1>3 DEF DocumentsOk
<1>6. OneOrigin'
  <2>1. ASSUME NEW c \in Creds, NEW i \in Issuers, NEW e \in 0 .. MaxTime, Holds(c, i, e)'
        PROVE  Holds(c, i, e)
    BY <1>3, <2>1 DEF Holds, TypeOK, Empty
  <2> QED
    BY <2>1, OriginKept
<1>7. KnownIsRevoked'
  BY <1>3 DEF KnownIsRevoked, TypeOK, RevokedForGood
<1>8. ShownIsGenuine'
  BY <1>3 DEF ShownIsGenuine, Genuine, TypeOK, NothingShown
<1> QED
  BY <1>4, <1>5, <1>6, <1>7, <1>8

\* The console saves a copy in which one credential is new to the world or has another
\* status: no terms change, and no verifier's copy does.
LEMMA SaveStep ==
  ASSUME IInv, NEW w \in Windows, view[w] = "Issuer", NEW c \in Creds, NEW r \in Records,
         r # NoRecord,
         \/ Fresh(c)
         \/ creds[w][c] # NoRecord /\ r.issuer = creds[w][c].issuer
                                  /\ r.expires = creds[w][c].expires,
         SaveCreds(w, [creds[w] EXCEPT ![c] = r])
  PROVE  IInv'
<1> USE DEF IInv
<1>1. /\ creds' = [creds EXCEPT ![w] = [creds[w] EXCEPT ![c] = r]]
      /\ stored' = [creds[w] EXCEPT ![c] = r]
      /\ UNCHANGED <<now, registry, view, issuers, shared, shown, known>>
  BY DEF SaveCreds
<1>2. creds[w] \in [Creds -> Records]
  BY DEF TypeOK
<1>3. TypeOK'
  BY <1>1, <1>2 DEF TypeOK
<1>4. DocumentsOk'
  BY <1>1 DEF DocumentsOk
<1>5. OneOrigin'
  <2>1. CASE Fresh(c)
    <3>1. ASSUME NEW d \in Creds, d # c, NEW i \in Issuers, NEW e \in 0 .. MaxTime,
                 Holds(d, i, e)'
          PROVE  Holds(d, i, e)
      BY <1>1, <1>2, <3>1 DEF Holds, TypeOK
    <3>2. ASSUME NEW i \in Issuers, NEW e \in 0 .. MaxTime, Holds(c, i, e)'
          PROVE  i = r.issuer /\ e = r.expires
      BY <1>1, <1>2, <2>1, <3>2 DEF Holds, TypeOK, Fresh
    <3> QED
      BY <3>1, <3>2 DEF OneOrigin
  <2>2. CASE creds[w][c] # NoRecord /\ r.issuer = creds[w][c].issuer
                                   /\ r.expires = creds[w][c].expires
    <3>1. ASSUME NEW d \in Creds, NEW i \in Issuers, NEW e \in 0 .. MaxTime,
                 Holds(d, i, e)'
          PROVE  Holds(d, i, e)
      BY <1>1, <1>2, <2>2, <3>1 DEF Holds, TypeOK
    <3> QED
      BY <3>1, OriginKept
  <2> QED
    BY <2>1, <2>2
<1>6. KnownIsRevoked'
  BY <1>1 DEF KnownIsRevoked, TypeOK
<1>7. ShownIsGenuine'
  BY <1>1 DEF ShownIsGenuine, Genuine, TypeOK, HashMatched
<1> QED
  BY <1>3, <1>4, <1>5, <1>6, <1>7

\* The verifier shows a presentation and its verdict; a whole document states the
\* issuer of the verifier's own record.
LEMMA ShowStep ==
  ASSUME IInv, NEW w \in Windows, NEW p \in Presentations, p.cred \in Creds,
         p.kind = "payload" /\ HashMatched(p) /\ creds[w][p.cred] # NoRecord =>
           p.issuer = creds[w][p.cred].issuer,
         Show(w, p)
  PROVE  IInv'
<1> USE DEF IInv
<1>1. /\ view[w] = "Verifier"
      /\ shown' = [shown EXCEPT ![w] = [what |-> p, verdict |-> Verdict(w, p)]]
      /\ UNCHANGED <<now, stored, registry, view, creds, issuers, shared, known>>
  BY DEF Show, storage
<1>2. /\ Verdict(w, p) \in Verdicts
      /\ Verdict(w, p) = "valid" =>
           /\ creds[w][p.cred] # NoRecord /\ creds[w][p.cred].status = "Active"
           /\ p.kind = "payload" => HashMatched(p) /\ issuers[w][p.issuer]
           /\ p.kind = "anchor" => issuers[w][creds[w][p.cred].issuer]
  BY ValidMeans
<1>3. TypeOK'
  BY <1>1, <1>2 DEF TypeOK
<1>4. DocumentsOk' /\ KnownIsRevoked'
  BY <1>1 DEF DocumentsOk, KnownIsRevoked
<1>5. OneOrigin'
  <2>1. ASSUME NEW c \in Creds, NEW i \in Issuers, NEW e \in 0 .. MaxTime, Holds(c, i, e)'
        PROVE  Holds(c, i, e)
    BY <1>1, <2>1 DEF Holds
  <2> QED
    BY <2>1, OriginKept
<1>6. Verdict(w, p) = "valid" =>
        /\ p.cred \notin known[w]
        /\ creds[w][p.cred].status = "Active" /\ issuers[w][creds[w][p.cred].issuer]
        /\ p.kind = "payload" => HashMatched(p) /\ p.issuer = creds[w][p.cred].issuer
  <2>1. p.kind \in {"anchor", "payload"}
    BY DEF Presentations
  <2> QED
    BY <1>2, <2>1 DEF KnownIsRevoked
<1>7. ShownIsGenuine'
  BY <1>1, <1>6 DEF ShownIsGenuine, Genuine, TypeOK, HashMatched
<1> QED
  BY <1>3, <1>4, <1>5, <1>7

\* The learner hands out what names a credential of the window's copy and, if it is a
\* document, states its terms.
LEMMA HandOutStep ==
  ASSUME IInv, NEW w \in Windows, NEW c \in Creds, creds[w][c] # NoRecord,
         NEW p \in Presentations, p.cred = c,
         p.kind = "payload" => p.issuer = creds[w][c].issuer /\ p.expires = creds[w][c].expires,
         shared' = shared \cup {p},
         UNCHANGED <<now, storage, view, creds, issuers, shown, known>>
  PROVE  IInv'
<1> USE DEF IInv, storage
<1>1. creds[w][c].issuer \in Issuers
  BY RecordFields DEF TypeOK
<1>2. TypeOK' /\ DocumentsOk'
  BY <1>1 DEF TypeOK, DocumentsOk
<1>3. OneOrigin'
  <2>1. ASSUME NEW d \in Creds, NEW i \in Issuers, NEW e \in 0 .. MaxTime, Holds(d, i, e)'
        PROVE  Holds(d, i, e)
    BY <2>1 DEF Holds
  <2> QED
    BY <2>1, OriginKept
<1>4. KnownIsRevoked' /\ ShownIsGenuine'
  BY DEF KnownIsRevoked, ShownIsGenuine, Genuine, HashMatched
<1> QED
  BY <1>2, <1>3, <1>4

\* Every step keeps the invariant.
LEMMA NextIInv == IInv /\ [Next]_vars => IInv'
<1> SUFFICES ASSUME IInv, [Next]_vars PROVE IInv'
  OBVIOUS
<1>1. ASSUME now' \in 0 .. MaxTime,
             UNCHANGED <<stored, view, creds, shared, shown, known>>,
             registry' \in [Issuers -> BOOLEAN], issuers' \in [Windows -> [Issuers -> BOOLEAN]],
             \A w \in Windows : view[w] = "Verifier" => issuers'[w] = issuers[w]
      PROVE  IInv'
  <2>1. TypeOK' /\ DocumentsOk' /\ KnownIsRevoked'
    BY <1>1 DEF IInv, TypeOK, DocumentsOk, KnownIsRevoked
  <2>2. OneOrigin'
    BY <1>1 DEF IInv, OneOrigin, Holds
  <2>3. ShownIsGenuine'
    BY <1>1 DEF IInv, ShownIsGenuine, Genuine, HashMatched
  <2> QED
    BY <2>1, <2>2, <2>3 DEF IInv
<1>2. CASE UNCHANGED vars
  BY <1>1, <1>2 DEF vars, storage, IInv, TypeOK
<1>3. CASE Tick
  <2>1. now' \in 0 .. MaxTime
    BY <1>3, CredentialsAssumption DEF Tick, IInv, TypeOK
  <2> QED
    BY <1>1, <1>3, <2>1 DEF Tick, storage, IInv, TypeOK
<1>4. ASSUME NEW w \in Windows, NEW v \in Views, SwitchTab(w, v) PROVE IInv'
  BY <1>4, SwitchTabStep
<1>5. ASSUME NEW w \in Windows, ConsoleStep(w) PROVE IInv'
  <2>1. ASSUME NEW i \in Issuers, NEW c \in Creds, NEW e \in Expiries,
               IssueCredential(w, i, c, e)
        PROVE  IInv'
    <3> DEFINE r == [issuer |-> i, expires |-> e, status |-> "Active"]
    <3>1. r \in Records /\ r # NoRecord
      BY CredentialsAssumption DEF Records, NoRecord, None
    <3>2. Fresh(c) /\ view[w] = "Issuer" /\ SaveCreds(w, [creds[w] EXCEPT ![c] = r])
      BY <2>1 DEF IssueCredential
    <3> HIDE DEF r
    <3> QED
      BY <3>1, <3>2, SaveStep
  <2>2. ASSUME NEW c \in Creds, NEW s \in {"Active", "Suspended", "Revoked"}, Manageable(w, c),
               SaveCreds(w, [creds[w] EXCEPT ![c] = [creds[w][c] EXCEPT !.status = s]])
        PROVE  IInv'
    <3> DEFINE r == [creds[w][c] EXCEPT !.status = s]
    <3>1. creds[w][c] \in Records
      BY DEF IInv, TypeOK
    <3>2. /\ r \in Records /\ r # NoRecord
          /\ r.issuer = creds[w][c].issuer /\ r.expires = creds[w][c].expires
      BY <2>2, <3>1, StatusChange DEF Manageable
    <3>3. SaveCreds(w, [creds[w] EXCEPT ![c] = r])
      BY <2>2
    <3> HIDE DEF r
    <3> QED
      BY <2>2, <3>2, <3>3, SaveStep DEF Manageable
  <2>3. ASSUME NEW c \in Creds, ConfirmRevoke(w, c) PROVE IInv'
    <3>1. [creds[w] EXCEPT ![c].status = "Revoked"] =
            [creds[w] EXCEPT ![c] = [creds[w][c] EXCEPT !.status = "Revoked"]]
      OBVIOUS
    <3> QED
      BY <2>2, <2>3, <3>1 DEF ConfirmRevoke
  <2>4. ASSUME NEW c \in Creds, ToggleSuspend(w, c) PROVE IInv'
    <3> DEFINE s == IF creds[w][c].status = "Suspended" THEN "Active" ELSE "Suspended"
    <3>1. SaveCreds(w, [creds[w] EXCEPT ![c] = [creds[w][c] EXCEPT !.status = s]])
      BY <2>4 DEF ToggleSuspend
    <3>2. s \in {"Active", "Suspended", "Revoked"}
      OBVIOUS
    <3> HIDE DEF s
    <3> QED
      BY <2>2, <2>4, <3>1, <3>2 DEF ToggleSuspend
  <2>5. ASSUME NEW i \in Issuers, ToggleIssuerAuthorization(w, i) PROVE IInv'
    <3>1. /\ issuers' \in [Windows -> [Issuers -> BOOLEAN]]
          /\ registry' \in [Issuers -> BOOLEAN]
      BY <2>5 DEF ToggleIssuerAuthorization, IInv, TypeOK
    <3>2. \A x \in Windows : view[x] = "Verifier" => issuers'[x] = issuers[x]
      BY <2>5 DEF ToggleIssuerAuthorization, IInv, TypeOK
    <3> QED
      BY <1>1, <2>5, <3>1, <3>2 DEF ToggleIssuerAuthorization, IInv, TypeOK
  <2> QED
    BY <1>5, <2>1, <2>3, <2>4, <2>5 DEF ConsoleStep
<1>6. ASSUME NEW w \in Windows, HubStep(w) PROVE IInv'
  <2>1. creds[w] \in [Creds -> Records]
    BY DEF IInv, TypeOK
  <2>2. ASSUME NEW c \in Creds, CopyShareLink(w, c) PROVE IInv'
    <3>1. PICK o \in Options : HandOut(SharePackage(creds[w], c, o))
      BY <2>2 DEF CopyShareLink
    <3>2. /\ creds[w][c] # NoRecord
          /\ UNCHANGED <<now, storage, view, creds, issuers, shown, known>>
          /\ shared' = shared \cup {SharePackage(creds[w], c, o)}
      BY <2>2, <3>1 DEF CopyShareLink, HandOut
    <3> QED
      BY <2>1, <3>2, PackageOf, HandOutStep
  <2>3. ASSUME NEW c \in Creds, DownloadJson(w, c) PROVE IInv'
    <3>1. /\ creds[w][c] # NoRecord
          /\ UNCHANGED <<now, storage, view, creds, issuers, shown, known>>
          /\ shared' = shared \cup {Document(creds[w], c)}
      BY <2>3 DEF DownloadJson, HandOut
    <3> QED
      BY <2>1, <3>1, DocumentOf, HandOutStep
  <2> QED
    BY <1>6, <2>2, <2>3 DEF HubStep
<1>7. ASSUME NEW w \in Windows, ProcessInput(w) PROVE IInv'
  <2>1. PICK p \in shared : Show(w, p) \/ Show(w, Edited(p))
    BY <1>7 DEF ProcessInput
  <2>2. /\ p \in Presentations /\ p.cred \in Creds
        /\ p.kind = "payload" => p.issuer \in Issuers
    BY DEF IInv, TypeOK, DocumentsOk
  <2>3. CASE Show(w, p)
    <3>1. ASSUME p.kind = "payload", creds[w][p.cred] # NoRecord
          PROVE  p.issuer = creds[w][p.cred].issuer
      <4>1. p.expires \in 0 .. MaxTime
        BY <2>2 DEF Presentations
      <4>2. /\ creds[w][p.cred].issuer \in Issuers
            /\ creds[w][p.cred].expires \in 0 .. MaxTime
        BY <2>2, <3>1, RecordFields DEF IInv, TypeOK
      <4>3. Holds(p.cred, p.issuer, p.expires)
        BY <3>1 DEF Holds
      <4>4. Holds(p.cred, creds[w][p.cred].issuer, creds[w][p.cred].expires)
        BY <3>1 DEF Holds
      <4> QED
        BY <2>2, <3>1, <4>1, <4>2, <4>3, <4>4 DEF IInv, OneOrigin
    <3> QED
      BY <2>2, <2>3, <3>1, ShowStep
  <2>4. CASE Show(w, Edited(p))
    <3>1. Edited(p) \in Presentations /\ Edited(p).cred = p.cred
      BY <2>2 DEF Edited, Presentations
    <3>2. Edited(p).kind = "payload" => ~HashMatched(Edited(p))
      BY <2>2 DEF Edited, HashMatched, Presentations
    <3> QED
      BY <2>2, <2>4, <3>1, <3>2, ShowStep
  <2> QED
    BY <2>1, <2>3, <2>4
<1>8. ASSUME NEW w \in Windows, LoadSample(w) PROVE IInv'
  <2>1. PICK c \in Creds :
          /\ creds[w][c] # NoRecord
          /\ Show(w, Document(creds[w], c)) \/ Show(w, Edited(Document(creds[w], c)))
    BY <1>8 DEF LoadSample
  <2> DEFINE d == Document(creds[w], c)
  <2>2. /\ d \in Presentations /\ Edited(d) \in Presentations
        /\ d.cred = c /\ d.issuer = creds[w][c].issuer
    BY <2>1, DocumentOf DEF IInv, TypeOK
  <2>3. Edited(d).cred = c /\ ~HashMatched(Edited(d))
    BY DEF Document, Edited, HashMatched
  <2> QED
    BY <2>1, <2>2, <2>3, ShowStep
<1> QED
  BY <1>2, <1>3, <1>4, <1>5, <1>6, <1>7, <1>8 DEF Next

-----------------------------------------------------------------------------
(* The theorems.                                                           *)

THEOREM Invariance == Spec => []IInv
BY InitIInv, NextIInv, PTL DEF Spec

\* Type correctness, for any number of windows, credentials and shared documents.
THEOREM CredentialsTypeCorrect == Spec => []TypeOK
<1>1. IInv => TypeOK
  BY DEF IInv
<1> QED
  BY <1>1, Invariance, PTL

\* What is shown as valid is what an accredited issuer made and stored.
THEOREM ValidIsWhatWasIssued == Spec => []ValidIsGenuine
<1>1. IInv => ValidIsGenuine
  BY DEF IInv, ShownIsGenuine, Genuine, ValidIsGenuine
<1> QED
  BY <1>1, Invariance, PTL

\* A verifier opened after a revocation that no open console missed calls nothing valid
\* that names the credential.
THEOREM RevocationIsSeen == Spec => []RevocationReachesVerifiers
<1>1. IInv => RevocationReachesVerifiers
  BY DEF IInv, ShownIsGenuine, Genuine, RevocationReachesVerifiers
<1> QED
  BY <1>1, Invariance, PTL

\* Link, document and card of a credential get one verdict, the second of expiry apart.
THEOREM VerdictsAgree == Spec => []JudgementsAgree
BY CredentialsTypeCorrect, TypeImpliesAgreement, PTL

\* Nothing any window does undoes a revocation that no open console has missed.
THEOREM RevocationStays == Spec => RevocationIsPermanent
<1>1. ASSUME IInv, [Next]_vars, NEW c \in Creds, RevokedForGood(c)
      PROVE  RevokedForGood(c)' /\ stored'[c] = stored[c]
  <2> USE <1>1
  <2>1. ASSUME UNCHANGED <<stored, view, creds>>
        PROVE  RevokedForGood(c)' /\ stored'[c] = stored[c]
    BY <2>1 DEF RevokedForGood
  <2>2. ASSUME NEW w \in Windows, NEW v \in Views, SwitchTab(w, v)
        PROVE  RevokedForGood(c)' /\ stored'[c] = stored[c]
    BY <2>2 DEF RevokedForGood, SwitchTab, Mount, Close, storage, IInv, TypeOK
  <2>3. ASSUME NEW w \in Windows, view[w] = "Issuer", NEW d \in Creds \ {c}, NEW r,
               SaveCreds(w, [creds[w] EXCEPT ![d] = r])
        PROVE  RevokedForGood(c)' /\ stored'[c] = stored[c]
    <3>1. /\ creds[w] \in [Creds -> Records] /\ stored[c] \in Records
          /\ creds[w][c].status = "Revoked" /\ stored[c].status = "Revoked"
      BY <2>3 DEF IInv, TypeOK, RevokedForGood
    <3>2. creds[w][c] # NoRecord /\ stored[c] # NoRecord
      BY <3>1, RecordFields
    <3>3. /\ creds[w][c].issuer = stored[c].issuer
          /\ creds[w][c].expires = stored[c].expires
      <4>1. /\ Holds(c, creds[w][c].issuer, creds[w][c].expires)
            /\ Holds(c, stored[c].issuer, stored[c].expires)
        BY <3>2 DEF Holds
      <4> QED
        BY <3>1, <3>2, <4>1, RecordFields DEF IInv, OneOrigin
    <3>4. creds[w][c] = stored[c]
      BY <3>1, <3>2, <3>3 DEF Records
    <3>5. stored' = [creds[w] EXCEPT ![d] = r] /\ creds' = [creds EXCEPT ![w] = stored']
          /\ view' = view
      BY <2>3 DEF SaveCreds
    <3>6. stored'[c] = stored[c]
      BY <3>1, <3>4, <3>5
    <3> QED
      BY <3>5, <3>6 DEF RevokedForGood, IInv, TypeOK
  <2>4. ASSUME NEW w \in Windows, ConsoleStep(w)
        PROVE  RevokedForGood(c)' /\ stored'[c] = stored[c]
    <3>1. ASSUME NEW i \in Issuers, NEW d \in Creds, NEW e \in Expiries,
                 IssueCredential(w, i, d, e)
          PROVE  RevokedForGood(c)' /\ stored'[c] = stored[c]
      <4>1. d # c
        BY <3>1 DEF IssueCredential, Fresh, RevokedForGood, NoRecord, None
      <4> QED
        BY <2>3, <3>1, <4>1 DEF IssueCredential
    <3>2. ASSUME NEW d \in Creds, NEW r, Manageable(w, d),
                 SaveCreds(w, [creds[w] EXCEPT ![d] = r])
          PROVE  RevokedForGood(c)' /\ stored'[c] = stored[c]
      BY <2>3, <3>2 DEF Manageable, RevokedForGood
    <3>3. ASSUME NEW d \in Creds, ConfirmRevoke(w, d) \/ ToggleSuspend(w, d)
          PROVE  RevokedForGood(c)' /\ stored'[c] = stored[c]
      BY <3>2, <3>3 DEF ConfirmRevoke, ToggleSuspend
    <3>4. ASSUME NEW i \in Issuers, ToggleIssuerAuthorization(w, i)
          PROVE  RevokedForGood(c)' /\ stored'[c] = stored[c]
      BY <2>1, <3>4 DEF ToggleIssuerAuthorization
    <3> QED
      BY <2>4, <3>1, <3>3, <3>4 DEF ConsoleStep
  <2>5. CASE Tick \/ UNCHANGED vars
    BY <2>1, <2>5 DEF Tick, vars, storage
  <2>6. ASSUME NEW w \in Windows, HubStep(w) \/ ProcessInput(w) \/ LoadSample(w)
        PROVE  RevokedForGood(c)' /\ stored'[c] = stored[c]
    BY <2>1, <2>6 DEF HubStep, CopyShareLink, DownloadJson, ProcessInput, LoadSample, Show, storage
  <2> QED
    BY <2>2, <2>4, <2>5, <2>6 DEF Next
<1>2. IInv /\ [Next]_vars =>
        [\A c \in Creds : RevokedForGood(c) =>
           RevokedForGood(c)' /\ stored'[c] = stored[c]]_vars
  BY <1>1
<1> QED
  BY <1>2, Invariance, PTL DEF Spec, RevocationIsPermanent
=============================================================================
