---------------------------- MODULE Credentials ----------------------------
(***************************************************************************)
(* The credential passport of the web application: browser windows that    *)
(* show the learner hub, the issuer console or the employer verifier and   *)
(* share one local storage, with the sharing and the verification code of  *)
(* the SDK under them.                                                     *)
(*                                                                         *)
(* A view reads the storage once, when it is mounted, and works on its own *)
(* copy from then on; the console saves the whole copy back with every     *)
(* change.  Everything a user does in one window is one event handler and  *)
(* one step; steps of different windows interleave.                        *)
(*                                                                         *)
(* Abstractions.  A credential is its identifier; the document the issuer  *)
(* made of it is genuine, and any other document with its identifier and   *)
(* its proof has another hash.  Texts, names and layout are left out, and  *)
(* so is the recipient: the hub lists what is addressed to its learner.    *)
(***************************************************************************)
EXTENDS Integers, FiniteSets

CONSTANTS
  Windows,
  Creds,              \* identifiers of credentials, the ones still to be issued included
  Issuers, Accredited,    \* DEMO_ISSUERS, and those of them authorized at first
  Skills,             \* the skills every credential names
  Selections,         \* the sets of them ticked in the sharing dialog
  SeedActive, SeedRevoked, SeedExpired,  \* the credentials of the first visit
  Expiries,           \* the expiry dates entered in the form, 0 for none
  MaxTime,            \* bound on the clock
  MaxShared           \* bound on the links and files in circulation

None == "None"
NoRecord == [issuer |-> None, expires |-> 0, status |-> None]
Records ==
  {NoRecord} \cup
  [issuer : Issuers, expires : 0 .. MaxTime, status : {"Active", "Suspended", "Revoked"}]

ASSUME CredentialsAssumption ==
  /\ {MaxTime, MaxShared} \subseteq Nat
  /\ Expiries \subseteq 0 .. MaxTime /\ 1 <= MaxTime
  /\ Selections \subseteq SUBSET Skills
  /\ SeedActive \cup SeedRevoked \cup SeedExpired \subseteq Creds
  /\ Accredited \subseteq Issuers /\ Accredited # {} /\ None \notin Issuers \cup Creds

VARIABLES
  now,
  stored,      \* the credentials in local storage
  registry,    \* the issuers in local storage: who is authorized
  view,        \* what each window shows
  creds,       \* each window's own copy of the credentials
  issuers,     \* each window's own copy of the issuers
  shared,      \* links and files the learners have handed out
  shown,       \* what the verifier shows, and its verdict
  known        \* history: what was revoked for good when the window's verifier was opened

storage == <<stored, registry>>
vars == <<now, stored, registry, view, creds, issuers, shared, shown, known>>

Views == {"Closed", "Learner", "Issuer", "Verifier"}
Empty == [c \in Creds |-> NoRecord]
Nobody == [i \in Issuers |-> FALSE]

\* What the sharing dialog can be set to when the link is copied.
Options == [mode : {"anchor", "payload"}, redact : BOOLEAN, selected : Selections]

-----------------------------------------------------------------------------
(* Local storage.  Storage never written to reads as the data of the first *)
(* visit, and is filled with it.                                           *)

\* The credentials of a first visit: one of them is revoked, one has expired.
Seed ==
  [c \in Creds |->
     IF c \notin SeedActive \cup SeedRevoked \cup SeedExpired THEN NoRecord
     ELSE [issuer  |-> CHOOSE i \in Accredited : TRUE,
           expires |-> IF c \in SeedExpired THEN 1 ELSE 0,
           status  |-> IF c \in SeedRevoked THEN "Revoked" ELSE "Active"]]

SeedIssuers == [i \in Issuers |-> i \in Accredited]

\* A revocation that no open console has missed.
RevokedForGood(c) ==
  /\ stored[c].status = "Revoked"
  /\ \A w \in Windows : view[w] = "Issuer" => creds[w][c].status = "Revoked"

-----------------------------------------------------------------------------
(* What is handed from hand to hand: an anchor names a credential; a       *)
(* document is the credential itself, maybe redacted or edited, with the   *)
(* issuer and the expiry it states.                                        *)

Anchor(c) ==
  [kind |-> "anchor", cred |-> c, issuer |-> None, expires |-> 0, skills |-> {}, edited |-> FALSE]

\* The document the issuer made, as the owner of the copy `held` has it.
Document(held, c) ==
  [kind |-> "payload", cred |-> c, issuer |-> held[c].issuer, expires |-> held[c].expires,
   skills |-> Skills, edited |-> FALSE]

\* The hash of a document equals the one in its proof.
HashMatched(p) == ~p.edited /\ p.skills = Skills

\* createCredentialSharePackage.  No skill selected is the same as no selection.
SharePackage(held, c, o) ==
  IF o.mode = "anchor" THEN Anchor(c)
  ELSE [Document(held, c) EXCEPT
          !.skills = IF o.selected = {} THEN @ ELSE @ \cap o.selected,
          !.edited = o.redact]

-----------------------------------------------------------------------------
(* The judgements.                                                         *)

\* Mutant: the status is passed on as it is stored.
RawStatus(record) ==
  IF record.expires # 0 /\ now >= record.expires THEN "expired" ELSE record.status

\* The status a record alone gives, and what the cards of the hub and the table of
\* the console call it.
CardStatus(record) ==
  IF record.status = "Revoked" THEN "revoked"
  ELSE IF record.status = "Suspended" THEN "suspended"
  ELSE IF record.expires # 0 /\ now >= record.expires THEN "expired" ELSE "valid"

\* Mutant: the hash of the ledger's record is not compared.
TrustsTheRecord(w, p) ==
  IF creds[w][p.cred] = NoRecord THEN "unverifiable"
  ELSE IF CardStatus(creds[w][p.cred]) = "valid" /\ ~issuers[w][p.issuer] THEN "untrusted"
  ELSE CardStatus(creds[w][p.cred])

\* verifyEducationCredential on a document, with the record and the issuer looked
\* up in the window's copies.
PayloadVerdict(w, p) ==
  LET record == creds[w][p.cred]
      status == IF record.status = "Active" /\ p.expires # 0 /\ p.expires <= now
                THEN "expired" ELSE CardStatus(record) IN
  IF ~HashMatched(p) THEN "tampered"
  ELSE IF record = NoRecord THEN "unverifiable"
  ELSE IF status = "valid" /\ ~issuers[w][p.issuer] THEN "untrusted" ELSE status

\* Mutant: a link is judged without the registry of issuers.
AnyIssuer(w, p) ==
  IF creds[w][p.cred] = NoRecord THEN "unverifiable" ELSE CardStatus(creds[w][p.cred])

\* runAnchorVerification: the expiry second itself still counts as valid.
AnchorVerdict(w, p) ==
  LET record == creds[w][p.cred] IN
  IF record = NoRecord THEN "unverifiable"
  ELSE IF record.status # "Active" THEN CardStatus(record)
  ELSE IF record.expires # 0 /\ record.expires < now THEN "expired"
  ELSE IF ~issuers[w][record.issuer] THEN "untrusted" ELSE "valid"

Verdict(w, p) == IF p.kind = "anchor" THEN AnchorVerdict(w, p) ELSE PayloadVerdict(w, p)

NothingShown == [what |-> Anchor(None), verdict |-> "none"]
Verdicts ==
  {"none", "valid", "tampered", "unverifiable", "revoked", "suspended", "expired", "untrusted"}

-----------------------------------------------------------------------------
(* Windows.                                                                *)

\* Mutant: a view mounted again keeps the copy it had.
MountOverOldCopy(w, v) ==
  /\ view' = [view EXCEPT ![w] = v]
  /\ creds' = [creds EXCEPT ![w] = IF @ = Empty THEN stored ELSE @]
  /\ issuers' = [issuers EXCEPT ![w] = IF @ = Nobody THEN registry ELSE @]
  /\ UNCHANGED storage

\* A view reads the storage; the hub has no use for the issuers.
Mount(w, v) ==
  /\ view' = [view EXCEPT ![w] = v]
  /\ creds' = [creds EXCEPT ![w] = stored]
  /\ issuers' = [issuers EXCEPT ![w] = IF v = "Learner" THEN Nobody ELSE registry]
  /\ UNCHANGED storage

Close(w) ==
  /\ view' = [view EXCEPT ![w] = "Closed"]
  /\ creds' = [creds EXCEPT ![w] = Empty] /\ issuers' = [issuers EXCEPT ![w] = Nobody]
  /\ UNCHANGED storage

\* A tab of the passport page, or the page itself opened or left: the view shown
\* before is gone with all it held.
SwitchTab(w, v) ==
  /\ view[w] # v
  /\ IF v = "Closed" THEN Close(w) ELSE Mount(w, v)
  /\ shown' = [shown EXCEPT ![w] = NothingShown]
  /\ known' = [known EXCEPT ![w] =
       IF v = "Verifier" THEN {c \in Creds : RevokedForGood(c)} ELSE {}]
  /\ UNCHANGED <<now, shared>>

Tick ==
  /\ now < MaxTime
  /\ now' = now + 1
  /\ UNCHANGED <<storage, view, creds, issuers, shared, shown, known>>

-----------------------------------------------------------------------------
(* The issuer console.                                                     *)

\* Every handler of the console ends by keeping the changed copy and saving it.
SaveCreds(w, changed) ==
  /\ creds' = [creds EXCEPT ![w] = changed]
  /\ stored' = changed
  /\ UNCHANGED <<now, registry, view, issuers, shared, shown, known>>

\* An identifier is drawn at random: nobody has a credential of that name, nor a
\* document of one that an overwritten storage has lost.
Fresh(c) ==
  /\ stored[c] = NoRecord
  /\ \A w \in Windows : creds[w][c] = NoRecord
  /\ \A p \in shared : p.cred # c

IssueCredential(w, i, c, expires) ==
  /\ view[w] = "Issuer"
  /\ issuers[w][i]
  /\ Fresh(c)
  /\ SaveCreds(w, [creds[w] EXCEPT ![c] =
       [issuer |-> i, expires |-> expires, status |-> "Active"]])

\* Mutant: the buttons are offered for revoked credentials too.
ManageableAlways(w, c) == view[w] = "Issuer" /\ creds[w][c] # NoRecord

\* The buttons of the console's table.
Manageable(w, c) ==
  view[w] = "Issuer" /\ creds[w][c] # NoRecord /\ creds[w][c].status # "Revoked"

\* The dialog's confirmation; while the dialog is open nothing else can be done in
\* the window, and leaving it changes nothing.
ConfirmRevoke(w, c) ==
  /\ Manageable(w, c)
  /\ SaveCreds(w, [creds[w] EXCEPT ![c].status = "Revoked"])

ToggleSuspend(w, c) ==
  /\ Manageable(w, c)
  /\ SaveCreds(w, [creds[w] EXCEPT ![c].status =
       IF @ = "Suspended" THEN "Active" ELSE "Suspended"])

ToggleIssuerAuthorization(w, i) ==
  /\ view[w] = "Issuer"
  /\ issuers' = [issuers EXCEPT ![w][i] = ~@]
  /\ registry' = issuers'[w]
  /\ UNCHANGED <<now, stored, view, creds, shared, shown, known>>

-----------------------------------------------------------------------------
(* The learner hub.                                                        *)

HandOut(p) == Cardinality(shared \cup {p}) <= MaxShared /\ shared' = shared \cup {p}

CopyShareLink(w, c) ==
  /\ view[w] = "Learner" /\ creds[w][c] # NoRecord
  /\ \E o \in Options : HandOut(SharePackage(creds[w], c, o))
  /\ UNCHANGED <<now, storage, view, creds, issuers, shown, known>>

DownloadJson(w, c) ==
  /\ view[w] = "Learner" /\ creds[w][c] # NoRecord
  /\ HandOut(Document(creds[w], c))
  /\ UNCHANGED <<now, storage, view, creds, issuers, shown, known>>

-----------------------------------------------------------------------------
(* The employer verifier.                                                  *)

Show(w, p) ==
  /\ view[w] = "Verifier"
  /\ shown' = [shown EXCEPT ![w] = [what |-> p, verdict |-> Verdict(w, p)]]
  /\ UNCHANGED <<now, storage, view, creds, issuers, shared, known>>

Edited(p) == IF p.kind = "payload" THEN [p EXCEPT !.edited = TRUE] ELSE p

\* A link or file that was handed out, or a document somebody has edited since, in
\* the input field, the text area or as a file.
ProcessInput(w) == \E p \in shared : Show(w, p) \/ Show(w, Edited(p))

\* The samples are made of the window's own copy, as they are or edited.
LoadSample(w) ==
  \E c \in Creds :
    /\ creds[w][c] # NoRecord
    /\ Show(w, Document(creds[w], c)) \/ Show(w, Edited(Document(creds[w], c)))

-----------------------------------------------------------------------------
Init ==
  /\ now = 0
  /\ stored = Seed /\ registry = SeedIssuers
  /\ view = [w \in Windows |-> "Closed"]
  /\ creds = [w \in Windows |-> Empty] /\ issuers = [w \in Windows |-> Nobody]
  /\ shared = {}
  /\ shown = [w \in Windows |-> NothingShown]
  /\ known = [w \in Windows |-> {}]

ConsoleStep(w) ==
  \/ \E i \in Issuers, c \in Creds, expires \in Expiries : IssueCredential(w, i, c, expires)
  \/ \E c \in Creds : ConfirmRevoke(w, c) \/ ToggleSuspend(w, c)
  \/ \E i \in Issuers : ToggleIssuerAuthorization(w, i)

HubStep(w) == \E c \in Creds : CopyShareLink(w, c) \/ DownloadJson(w, c)

Next ==
  \/ Tick
  \/ \E w \in Windows :
       \/ \E v \in Views : SwitchTab(w, v)
       \/ ConsoleStep(w) \/ HubStep(w) \/ ProcessInput(w) \/ LoadSample(w)

Spec == Init /\ [][Next]_vars

-----------------------------------------------------------------------------
(* Properties.                                                             *)

Presentations ==
  [kind : {"anchor", "payload"}, cred : Creds \cup {None}, issuer : Issuers \cup {None},
   expires : 0 .. MaxTime, skills : SUBSET Skills, edited : BOOLEAN]

TypeOK ==
  /\ now \in 0 .. MaxTime
  /\ stored \in [Creds -> Records] /\ registry \in [Issuers -> BOOLEAN]
  /\ view \in [Windows -> Views]
  /\ creds \in [Windows -> [Creds -> Records]]
  /\ issuers \in [Windows -> [Issuers -> BOOLEAN]]
  /\ shared \subseteq Presentations
  /\ shown \in [Windows -> [what : Presentations, verdict : Verdicts]]
  /\ known \in [Windows -> SUBSET Creds]

\* "Revoking a credential permanently changes its status" (IssuerConsole.tsx:522):
\* nothing any window does undoes a revocation that no open console has missed, be
\* it suspending, lifting a suspension, issuing, or saving a copy.  (A console that
\* was open before and has missed it does: whatever it saves next is its old copy.)
RevocationIsPermanent ==
  [][\A c \in Creds : RevokedForGood(c) => RevokedForGood(c)' /\ stored'[c] = stored[c]]_vars

\* "Verifiers worldwide will immediately detect this status change"
\* (IssuerConsole.tsx:522): a verifier opened after such a revocation calls nothing
\* valid that names the credential, be it a link made before, a file, an edited
\* document or a sample.
RevocationReachesVerifiers ==
  \A w \in Windows :
    shown[w].verdict = "valid" => shown[w].what.cred \notin known[w]

\* What is shown as valid is what an accredited issuer made and stored: an edited or
\* redacted document, one whose credential was never stored and one of an issuer
\* that lost its authorization are not (EmployerVerifier.tsx:436).
ValidIsGenuine ==
  \A w \in Windows :
    LET p == shown[w].what IN
    shown[w].verdict = "valid" =>
      /\ creds[w][p.cred].status = "Active" /\ issuers[w][creds[w][p.cred].issuer]
      /\ p.kind = "payload" => HashMatched(p) /\ p.issuer = creds[w][p.cred].issuer

\* An anchor and the whole document of a credential get the same verdict from the
\* same window, and it is what the learner's card says where the issuer is
\* authorized; only in the second of expiry do the two part (verify.ts:102,
\* EmployerVerifier.tsx:98, LearnerHub.tsx:289).
JudgementsAgree ==
  \A w \in Windows, c \in Creds :
    LET record == creds[w][c]
        verdict == PayloadVerdict(w, Document(creds[w], c)) IN
    record # NoRecord /\ view[w] = "Verifier" =>
      /\ record.expires = 0 \/ now # record.expires => AnchorVerdict(w, Anchor(c)) = verdict
      /\ issuers[w][record.issuer] => verdict = CardStatus(record)
=============================================================================
