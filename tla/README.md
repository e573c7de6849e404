# A verification development for the Skills Passport

This directory models this repository's two Soroban contracts and the programs around
them in TLA+, checks the models with TLC on small instances, and proves their main
properties with TLAPS for every value of the parameters. Paths below are relative to the
repository's root; `contracts/round` is `src/contracts/round` in `PROJECT.json`, and so on.

## 1. The system

| part | state it keeps | operations | interacts with |
|---|---|---|---|
| round contract, `contracts/round` | rounds, bids, seals, its token balance | `create_round`, `commit`, `open_reveal`, `reveal`, `clear`, `settle`, `void`, `get_seal` | the USDC token (transfers), Drand (signature of round R), ledger time |
| passport contract, `contracts/passport` | administrator, issuers, templates, credentials, learner lists | `initialize`, `set_admin`, issuer and template registration, issuing (single, batch), revoke, suspend, reactivate, `verify_credential` | ledger time |
| keeper, `services/keeper` | queue (a JSON file), settlement guard (in memory) | drives every watched round: open, decrypt and reveal, clear, settle, void if stale; status API; `queue add/remove` | round contract through the SDK; queue command line through the file |
| SDK, `packages/sdk` | none | submission, receipts and their verification, sharing and verification of credentials | both contracts |
| web application, `apps/web` | local storage (credentials, issuers, receipts), session of the live round | hub, console and verifier of the passport; live round from wallet to settlement | SDK, Freighter |
| bidding agent, `services/agent`; appraisal API | a signed mandate; requests and payments | pays for an appraisal, sizes a bid, commits it | round contract, payment facilitator |
| tlock, `packages/tlock`; Drand tools, examples | none | sealing and opening of bids, beacon checks | Drand |

**How they work together.** An operator creates a round for a future Drand round R. A
bidder commits to a value by hash, timelocks the preimage to R (the seal), and
locks an escrow in the contract. When Drand publishes R, anyone (in practice the
keeper, or the live-round page) proves it to the contract, decrypts the seals and reveals
the bids; after the reveal deadline anyone clears and settles. If R never comes, anyone
voids the round after a grace period. An agent with a mandate may do the bidding; a
receipt exported from the contract can be verified without it. An institution that the
administrator has approved records credential commitments on the passport contract; a
verifier compares a document with the commitment, its status and expiry and its issuer's
standing. The web application plays the same with records in local storage.

**What is hard.** A contract call is atomic, so the difficulty in the contracts is in
the *order of calls by many parties*: every entry point of a round after `commit` is
open to anyone at any time; deadlines, Drand's schedule and storage lifetimes have to
line up; money of all rounds and bidders lies in one balance and is paid out by loops
that fail as a whole. Off chain it is everything between two awaits: a pass of the keeper,
an export of a receipt or a click on a page reads the contract in many calls and acts on
what it read while others go on; calls are included although their answer was lost;
processes die between a payment or a record and what it was for; two processes write one
file, two windows one local storage. `PROJECT.json` lists each hazard at its line with
the property that would catch it.

**What makes each part correct.**

* Round contract: nobody learns or changes a bid too early or too late (secrecy before
  R, no commit once R is known, binding reveals); the right winner; every token accounted for;
  every round ends and stays ended; seals readable while needed.
* Passport contract: commitments permanent; issued only by authorized institutions;
  revocation and expiry irreversible; learner lists exact, batches all-or-nothing.
* Keeper: no round is forgotten or called over that is not, whatever crashes; a pass
  reveals every seal that opens; every round ends.
* Receipts: what is exported of a finished round is final; an honest receipt verifies, an
  altered one does not show another outcome.
* Passport page: what is shown as valid is genuine, a revocation stays and is seen.
* Live-round page and agent: the page lags behind the contract and never runs ahead of it,
  what it reports as done is done; the agent pays for what it gets, once, and bids within
  its mandate.

## 2. Modules

| module | what it is |
|---|---|
| `RoundLife` | the life of a round as others see it: phases, deadlines, what has become of each bid; no values, escrow or tokens |
| `Round` | the round contract: one action per entry point, plus ledger time, the beacon and the token's refusals; refines `RoundLife` |
| `ClearLoop` | `Round` with `clear` taken apart into the steps of its loop; refines `Round` |
| `Passport` | the passport contract, with the batch loop as a sequence of steps |
| `Keeper` | the watching keeper with its guard, queue file, queue command line and status API, composed with `RoundLife` |
| `Receipts` | export of a receipt composed with `Round`, and its verification |
| `Credentials` | the passport page: several windows over one local storage, with the SDK's sharing and verification |
| `Session` | the live-round page: handlers that overlap, over `RoundLife` |
| `Agent` | the bidding agent and the appraisal service, over `RoundLife` |
| `Clients` | one of `Session` and `Agent`, with a contract others use too |
| `FoldProofs` | facts about the folds and sums of the community modules, with induction in a form the provers can use |
| `RoundProofs`, `ClearLoopProofs`, `PassportProofs`, `KeeperProofs`, `ReceiptsProofs`, `CredentialsProofs`, `ClientsProofs` | inductive invariants and theorems |
| `MC...` | instances for TLC |

```
RoundLife <-- implements -- Round <-- implements -- ClearLoop        Passport
    |                         |
    +-- Keeper                +-- Receipts                           Credentials
    +-- Session, Agent -- Clients
```

The off-chain programs that only look at phases are composed with `RoundLife`, not with
`Round`: since the contract implements it (theorem `RoundImplementsLife`), what is shown
over every life of a round holds over the contract, at a fraction of its states.
`Receipts` needs values, winners and payments and is composed with `Round` itself.

### Round

| variable | code |
|---|---|
| `rounds[r]` | `DataKey::Round(r)` (types.rs:80-99); status `"Absent"` if not stored; the counter of `next_round_id` is the number of stored rounds |
| `bids[r][b]` | `DataKey::State(r, b)` (types.rs:103-117); `NoBid` if not stored |
| `seals[r][b]` | `DataKey::Seal(r, b)` in temporary storage, with the ledger until which it lives |
| `balance[a]`, `vault[r][b]` | the token's balances; the contract has *one* balance, the sum of `vault`, and the guards of transfers look at that sum only. `vault` splits it by the bid a payment belongs to, which is what the solvency property is about |
| `frozen` | accounts whose trustline is missing or deauthorized: a transfer from or to them panics and the call is rolled back |
| `now`, `beacon` | ledger timestamp; the latest round Drand has produced |

A call that fails changes nothing, so the checks of an entry point (early returns,
panics, failing transfers) are the guards of its action, and everything it writes is in
the action: `OpenReveal` extends the lifetime of every seal, `Clear` of a round without
valid bids also refunds it, `Commit` refunds the previous escrow before it pulls the
new one. `reveal`, `open_reveal`, `clear`, `settle` and `void` take no authorization in
the code and are enabled for anyone here.

*Two times of R.* Drand publishes R at `DrandTime(R)`, genesis + period * (R - 1): round 1
comes out at genesis, as `services/drand-tools/src/quicknet.ts:35-38` has it (`packages/tlock`
asks the Drand client's own `roundAt`). The contract's `time_of_round` (drand.rs:60-64) is genesis + period * R,
a period later, and so are the keeper's `waitForRound`, the page's countdown and the
`timeOfRound` of the Drand tools. `ProduceRound` releases R at the first, `create_round`
computes with the second (`TimeOfRound`), and each client with its own (`WaitTime`,
`TargetTime`). In the instances R = 1 is out at 1 and expected at 2. Finding 4 is what
follows from the gap.

Abstracted: a preimage is a pair (value, nonce), its SHA-256 is injective, a Drand
signature of R verifies exactly when R is produced, one ledger closes per unit of time.
`item_ref`, the auditor's key and blobs, payload limits and events decide nothing and
are left out. Lifetimes of persistent entries are left out: an archived entry comes
back with its value. `as u32` in the seal lifetime is a remainder by `U32_RANGE`, and
`time_of_round` saturates at `MAX_U64`; the release profile checks overflow
(`Cargo.toml:20`), so the sum in `void` is a guard.

`RoundLife` keeps of this `now`, `beacon`, each round's `phase` and `terms` (schedule), and
of each bid whether it is `"None"`, `"Sealed"` or `"Revealed"`. `Round!ImplementsLife` maps
`rounds[r].status`, the three deadline fields and `BidPhase(r, b)` to them; token movements,
freezing and `get_seal` stutter, `Clear` without valid bids is the step to `"Voided"`.

### ClearLoop

`Round` chooses the winner by a condition on the whole index (`FirstBest`). `ClearLoop`
has the loop's locals in one more variable, `loop`, and examines one bidder per step, as
lib.rs:304-333 does; no other call runs meanwhile. `ImplementsRound` is `Round`'s `Spec`
under the identity mapping: loop steps stutter, the last one is a `Clear` step.

### Passport

Each entry of the contract's storage is a function; `verify_credential` is the operator
`Verify`. `batch_issue_credentials` becomes `BeginBatch`, `BatchItem` (one per element),
`FailBatch` or `CommitBatch`, working on a staged copy of the storage as the host does:
items of a batch see the items before them, nothing is visible outside until the call
returns, a failing item drops everything. No call overlaps another (`Quiet`).
A call signed by an account (`require_auth`) is a step of that account; calls by the
administrator need only `admin # None`, since the action does not otherwise depend
on who signs. The existence of a template is not checked by the code and not here.

### Keeper

| variable | code |
|---|---|
| `pc`, `cur`, `todo`, `left`, `who`, `did` | where the process is: the remote call under way, the round of the tick, rounds and bidders still to come in its loops, what the tick has done |
| `guard[r]` | the settlement guard (settlement-guard.ts), `"none"` if it has no entry; lost with the process |
| `mem`, `file` | the queue in the process and on disk (store.ts); an entry keeps its deployment and `lastStatus` |
| `edit` | the queue a `queue add/remove` command has read and not yet written |
| `report` | a status answer being put together |
| `gone` | the seals that have expired (`getSeal` answers nothing, keeper.ts:183-187); they are temporary entries (storage.rs:16-30) |
| `spent` | how much of the bounds on faults, crashes and commands is used up |

One step is one remote call coming back and all code up to the next await (`VoidRead`,
`KeepRead`, `SendOpen`, `BidRead`, `SendReveal`, `ClearRead`, `SendSettle`, ...); a tick is
voidIfStale, keepRound, closeRound in that order (keeper.ts, watch-loop.ts). Between the
steps others create, commit, open, reveal, clear, settle and void. Faults: a call fails
whether or not it was included (what lands later is a step of others); the process ends at
any point and starts again from the file, which is empty to it if it ended within a
save; the queue command reads and writes in two steps; the keeper's clock runs ahead by up
to `MaxSkew`; a status request reads guard and contract at different times. A contract
error reaches the caller as `Thrown` makes of it: one text for all (client.ts:206-231),
which is why `ErrorMatches` never holds. The token may refuse a payee, so that `void`,
`clear` or `settle` fails although the phase fits (`PayoutRefused`).

Discovery walks from `WATCH_FROM` to the first missing id and at most `WATCH_MAX_ROUNDS`
(64) rounds, unless `WATCH_ROUND_IDS` lists them (`Discovered`, keeper.ts:433,
watch-loop.ts:57-60); `Watched` is what the keeper may ever come to, and nothing is
promised of other rounds. A bid whose seal has expired is skipped (`ToReveal`). A seal
outlives the reveal window by what `Round` says (`SealsOutliveReveal`, for schedules within
the cap of finding 1), so `SealExpires` waits for its end.

### Receipts

`draft` is an export in progress (`ReadRound`, `ReadPage` per page of `PAGE_SIZE` bidders,
`ReadBid` per bid: exportReceipt, client.ts:548), `receipt` the one written last.
`VerifyReceipt` is verify.ts with its own search for the winner, and `Edits(R)` every
receipt that differs from R in one field: winner, rule, bidder list, or a bid with one
field changed or left out, or its evidence. The evidence of a bid is `"hex"`, null once the seal has
expired, or `"empty"` when the ciphertext or the auditor's blob is (verify.ts:239-251);
`ContractAccounts` are the bidders that are contracts, whose address does not start with G
(verify.ts:105-107). `commit` takes both (lib.rs:138, 157). Artifact checksums and output
formats are left out.

### Credentials

| variable | code |
|---|---|
| `stored`, `registry` | the credentials and issuers in local storage (storage.ts) |
| `view[w]`, `creds[w]`, `issuers[w]` | the tab a window shows, and the copies it read when the tab was mounted |
| `shared` | share links (anchors) and downloaded files (payloads) in circulation |
| `shown[w]` | what the verifier of window w shows, with its verdict |
| `known[w]` | the credentials that were revoked when w was mounted and no console had missed it; an auxiliary variable for the property |

One step is one event handler, as the browser runs it. The console saves its *whole* copy
with every change (IssuerConsole.tsx:135-195). Links may be altered, files edited or
redacted (`skills`); a document whose content is not the issuer's has another hash.

### Session, Agent, Clients

`Session` has the state of `useRoundSession` (`connected`, `working`, `session`) and for
each handler at work, `task[t]`, the await it is in and its locals. Clicks are offered as the
guide of `DemoPage.tsx` computes its next action (`Cta`) from the round as last read and
held back only while `working`, which ends before the refresh that follows; Connect and
Refresh are never held back. A snapshot is read in many calls (phase, bidders, each bid), so
it is a mix of moments; `LiveLags` says what holds of it all the same. A failing read or call ends the handler (`Fail`, `Throw`).

`Agent` has `mandate`, the run at work (`agent`), and per run how far its paid `request` has
come at the service and how often it was `charged`; `flight` are signed commits that may
still be included, with the account's `sequence` number; `held` is the bid the contract
holds. `Verified` is mandate.ts, `PaidFetch`/`VerifyPayment`/`Appraise`/`Settle` the order in
server.ts:200-240, `BidFromAppraisal` the sizing in bidder.ts. A first answer that is not 402 is taken without
payment (client.ts:47-50; `asked` = 0), and a settlement reported as failed may have
charged the payer (`Settle`: the facilitator's answer lost). A run may die anywhere
(`EndRun`) and be started again while its request and its transaction go on.

`Clients` puts one of them next to everybody else's use of the contract.

## 3. Runs

| run | instance | shows |
|---|---|---|
| `round_one` | 1 round, 3 bidders, one of them also operating and at times frozen, values and escrows 1 and 2, both rules, `clear` as a loop | the safety properties of `Round`, the loop's invariant, and both refinements: the loop implements `Round`, `Round` implements `RoundLife` |
| `two_rounds` | 2 rounds, 2 bidders for one place in each, schedules on both sides of deadline checks and with the commit deadline before and at R, seals that may be garbage, a beacon that may stall, an account that may freeze; fairness | no money crosses rounds; nothing is bid once Drand is past R; every round ends |
| `passport` | 2 accounts in any role, 2 credentials, 2 hashes, expiry none or 1 | all properties of `Passport` |
| `keeper` | 1 round, 1 honest bidder and 1 whose seal does not open, seals that expire, payouts refused, skew 1, one lost call, one crash, one queue command; fairness | safety of guard, queue, pass and status answers; watched rounds end |
| `receipts` | 2 bidders, one of them a contract, values below, at and above the escrow, one with an empty seal, both rules, pages of one bidder | finished receipts agree, honest ones verify but for two reasons, edited ones do not mislead |
| `credentials` | 2 windows, 2 credentials (one to be issued), 1 issuer, 2 skills, 1 document in circulation | revocation, genuineness and agreement of verdicts |
| `clients` | 1 round, the program's account and another, 2 handlers at once or 2 runs with one of three mandates, prices 0, 1 and 3 against an agreed 1 | page and agent |
| `seal_cap` (violated) | reveal deadline beyond `PERSISTENT_BUMP` | finding 1 |
| `frozen_refund` (violated) | a frozen account; fairness | finding 2 |
| `status_authority` (violated) | a deauthorized issuer | finding 3 |
| `commit_after_r` (violated) | a commit deadline at the time of R | finding 4 |
| `session_cap` (violated) | 3 runs with one mandate, price 1 as agreed, cap 2 | finding 5 |

**Bounds.** `MaxTime` lets the clock pass the commit deadline (1), the time the contract
expects R at (2), the reveal deadline (3) and the grace period (1, or 0 where it only
costs states), and lets calls follow; later ticks enable nothing new. `MaxBeacon` covers
R, and the round after it where `CommitsPrecedeNext` needs that. One place for two bidders
in `two_rounds` makes the cap of the index bite. Escrows and values below, at and above
each other give valid, invalid, equal and missing reveals. Two rounds are enough for one
to be paid from the other, and three bidders for a tie behind a loser. In `Passport` two
accounts take every pair of roles, and two credentials in one batch give the duplicate and
the failing second item. A keeper's crash, lost call and command may each fall at every
one of its awaits; more of them repeat what one does, since a restart forgets everything
but the file. Two windows are the least in which one misses the other's save, two handlers
the least that overlap, two runs the least of which one finds the other's leftovers; two
bidders give ties to the verifier of receipts and an index that grows during an export.
Windows, handlers, bidders and ids are interchangeable and declared symmetric where the
run has no liveness property. Where `CHECK_DEADLOCK FALSE` is set, time is bounded and
every round may be over: the system really stops.

**Fairness.** `Round!FairSpec` (`two_rounds`, `frozen_refund`): ledgers close (`Tick`), and
someone calls `open_reveal`, `clear`, `settle` and `void` when the contract accepts them:
they need no authorization and the keeper exists to call them. Nothing is assumed of
bidders, of Drand or of a frozen account; `EveryRoundEnds` therefore speaks of behaviours
in which accounts are not frozen for ever, and `frozen_refund` shows what happens
otherwise. That someone calls is an assumption about the world: a keeper is
run for it, but a keeper alone does not give it for every round. `Keeper!FairSpec` says of
the world that ledgers close, that a seal whose window is over expires some time (temporary
entries do unless somebody keeps paying for them), and that the keeper's process runs (Node
resumes an await whose call came back, a process that ended is started again); nobody else
has to do anything. `KeptRoundEnds` says that this takes every round the keeper *watches* to
its end, provided the token refuses its payouts only so often. A round outside the window of
discovery, or with a payee refused for ever (finding 2), is not covered, and someone else
has to call. The seals' expiry matters: see the first observation on the keeper.

Every property of a passing run is also broken by at least one mutant, a definition
next to the one it replaces, marked `Mutant:`, for instance a refund that forgets to mark
the bid settled, a batch that looks ids up in the ledger instead of its own storage, a
guard that calls a settlement terminal before it is, a page that reveals the bidders it
last showed instead of those it reads.

## 4. Findings

1. *Seal lifetime* (`seal_cap`). `docs/TECH_DESIGN.md:71` says lifetimes computed from
   the deadline keep ciphertexts alive until R however long the commit window is;
   `storage.rs:21` caps them at 60 days. `get_seal` as a transaction or an overwriting
   commit prolongs a seal, but nothing makes either happen. Theorem `SealsStay` shows that
   this is the only way to lose one.
2. *One refund blocks all* (`frozen_refund`). `docs/THREAT_MODEL.md:47` says `void`
   after the grace period refunds all escrow; `refund_all` and `settle` fail as a whole
   if one transfer fails.
3. *Status authority* (`status_authority`). `README.md:92` reserves revocation and
   suspension to approved institutions and administrators; the code compares the caller
   with the credential's issuer and never asks the registry, so a deauthorized
   institution keeps this power and can also lift a suspension.
4. *Commits after R* (`commit_after_r`). `lib.rs:93-94` says that commit must close
   strictly before R is published, "otherwise a bidder could decrypt others' sealed bids
   before committing", and compares the deadline with `time_of_round`, which is a period
   later than Drand publishes R (`drand.rs:60`, against `quicknet.ts:35-38`). A deadline in
   that period passes, and the run commits a bid with R out. What the check does give is
   proved: `CommitsPrecedeRounds`.
5. *The cap on the session* (`session_cap`). `mandate.ts:36` and `services/agent/README.md:34`
   call `maxSpend` the total for the session; every run checks its payment against a spend
   of 0 so far (`bidder.ts:91-92`), so runs with one mandate pay more together. The same
   line checks the mandate's own price and never the server's, against `mandate.ts:38` and
   `services/agent/README.md:35`: whatever the service asks is paid.

**Also seen while modelling**, without a run of its own:

* *Keeper.* `keeper.ts:12-14` takes "already done" and the like as skips, but
  `client.ts:206-231` throws one error for every failure of a direct submission, so
  `errorMatches` (keeper.ts:71-79) finds nothing. Where another keeper was faster the tick
  fails and the next poll goes on. A reveal that is too late, or of a seal that opens to
  something else than what was committed, fails every tick before `closeRound` until the
  seal expires and the bid is skipped; the round is then cleared, late but not never
  (`KeptRoundEnds`). Meanwhile such a seal keeps this keeper from the bidders listed
  after it. A round 64 ids or more after `WATCH_FROM` is not watched.
* *Keeper's files and API.* The queue command and the keeper overwrite each other's changes
  (`services/keeper/README.md:187`); no run of either loses a round for it, since discovery
  finds it again unless `WATCH_ROUND_IDS` is set. A queue file kept from another deployment
  keeps its `lastStatus` under the new label (store.ts:77), and a round whose number was
  settled there is dropped here: the instance `SettledElsewhere` of `MCKeeper`, in the place
  of `NothingLeft`, violates `DroppedIsFinal`. `/healthz` cannot answer 200
  (status-server.ts:125-127 against status.ts:284-288). `revealReady` looks at the
  clock only (status.ts:160).
* *Credentials.* A console that was open before another console's revocation saves its old
  copy over it with its next change (IssuerConsole.tsx:135-139; the text at :522 says
  "permanently"): `RevocationIsPermanent` is about revocations no open console missed. A
  file without proof leaves the previous verdict on the screen (EmployerVerifier.tsx:139-142).
  An empty selection of skills discloses all (sharing.ts:13,115 against LearnerHub.tsx:504).
  Redacted and selective documents are always called tampered. `#/verify` links lead to the
  receipt verifier (routing.ts:27-29). The learner's card ignores the issuer's standing.
* *Credentials at the boundary.* In the second of expiry the check of an anchor still takes a
  credential as valid (EmployerVerifier.tsx:98), that of a document and the learner's card
  do not; `JudgementsAgree` is about all other times.
* *Receipts.* An honest export fails verification if a bidder is a contract
  (verify.ts:105-107 against lib.rs:138) or a ciphertext or auditor's blob is empty
  (verify.ts:239-251 against lib.rs:157); `HonestReceiptsVerify` says that nothing else does
  it. A winner left out, or not declared, is a warning only; the winning *value* is
  never compared; an unrevealed bid can be shown with a value if its nonce is missing;
  `hashValid` is always null. `docs/RECEIPTS.md` calls invalid evidence hex a warning, the
  code an error. Redacting a receipt that was read from a file pairs placeholders with the
  wrong bids (redact.ts:96-111: bids in the order of their keys, bidders in index order), and
  a redacted receipt never verifies.
* *Live-round page.* The snapshot mixes moments: an open round with a revealed bid may be
  shown, or a bid sealed beside one that was revealed after it. Of two overlapping refreshes
  the older may finish last, so the page may go back to an older state. `LiveLags` says that
  it never shows more than has happened and shows exactly what happened once the round is
  over. The countdown runs to a period after R. "Cleared deterministically"
  (DemoPage.tsx:212) is shown after the first revealed bid although the page clears nothing. A
  competitor's reveal between read and send aborts the pass without a refresh.
* *Agent.* Besides finding 5: an appraisal that came without payment is bid on
  (client.ts:47-50), a payment whose settlement was reported as failed may have been charged
  and the next run pays again, so the total is not bounded by what was reported.
  Expiry is looked at when a run starts; its commit may come later.

## 5. Proofs

All theorems are about the specifications TLC runs, under the modules' assumptions on their
constants only (`RoundAssumption`, `LifeAssumption`, `PassportAssumption`, ...), unless said
otherwise: the sets of bidders, operators, accounts, values, schedules, windows, handlers
and mandates are arbitrary, and so are the number of rounds and every bound. `Round` assumes
that `Bidders` is finite, since the contract's balance is a sum over all of them: addresses
are 32-byte strings.

**FoldProofs.** The model's sums (`EscrowTotal`, `ContractBalance`) and the verifier's search
are folds, which are defined by recursion over the subsets of a finite set. The provers
cannot instantiate an induction theorem that takes a predicate, so the module proves
induction for *sets*: a family of subsets of a finite set S that has T whenever it has every
T without one element has S (`SetInduction`, from the minimal member of a set of subsets),
likewise for numbers (`NatSetInduction`). With it the fold has the value its recursion
promises (`FoldExists`), does not depend on the order for sums (`FoldUnique`, `SumByChoice`),
and sums can be taken apart, updated, compared and bounded (`SumTakeOut`, `SumUpdate`,
`SumMonotone`, `SumRow`).

**Round.** The inductive invariant `IInv` in `RoundProofs` is a conjunction of named
parts. The stated properties are not inductive on their own: *exact index* needs the
facts that rounds not yet created have no bids; *solvency* needs that bids of an unfinished
round are unsettled, non-negative and listed; *binding* and *winner* need that bids do not
change once a round is past `Open`; `CommitsPrecedeNext` needs that every stored schedule
closes commits before `TimeOfRound(R)`, which is the time of round R + 1, and that the
beacon is never ahead of the clock.
Each action has a lemma per group of conjuncts; the theorems follow from
`Init => IInv`, `IInv /\ [Next]_vars => IInv'` and one implication each:
`TypeCorrect`, `IndexCorrect`, `Solvency`, `SettlementCannotFail`, `Secrecy`, `Binding`,
`WinnerCorrect`, `EndsProperly` (no valid bid is voided, final rounds are paid); and, from
the same invariant, `CommitsPrecedeRounds` and `FinalityHolds`. `SealsStay` has two hypotheses:
lifetimes fit into 32 bits (`LifetimesFit`, true of the code's constants), and no open
round's reveal deadline is further ahead than `PERSISTENT_BUMP` (`DeadlinesNear`), which
`create_round` does not check.

*Money.* Each vault holds exactly the escrow of its bid until the bid is settled
(`EscrowBacked`), so the contract's one balance is at least what any round owes
(`OwedIsHeld`, by `SumRow`). `SettlementFunded` states this beside the winner's escrow, and
`SettlementCannotFail` proves it; `TransfersCovered` says the same of every guard on the
contract's balance in `commit`, `clear`, `settle` and `void`: none of them ever refuses a
call, so only a frozen account or the caller's own balance can. `EveryBalanceExplained` proves
`BalancesExplained`: the two sides of every transfer are followed through `NetOf`, what the
rounds have brought an account, for refunds to many bidders at once too.

*Nothing is locked in.* `EveryRoundEnds` needs fairness and stays with TLC; its safety core is
proved. `NothingIsLockedIn`: once the grace period is over, in every reachable state and
whatever Drand did, `void`, `clear` or `settle` would succeed on a round that has not ended,
unless the token refuses one of the round's *own* accounts; other rounds and other accounts
cannot stand in its way. It takes `OwedIsHeld` and that clear's choice exists whenever there
is a valid bid (`SomeoneIsBest`, `FirstBestExists`: induction over the index). `OnlyForward`:
a status only moves on, one round at a time, so four calls at most separate a round from its
end.

*Refinement.* `RoundImplementsLife`: initial states map to initial states and every step to a
step of `RoundLife` or a stutter, by one lemma per entry point, using `IInv` for what the
life's guards ask (a bid of an open round is listed and unrevealed).

**ClearLoop.** `LoopKeepsTheBest` proves the loop invariant; at the end of the walk it says
exactly that `winner` is at a `FirstBest` position, whence `LoopImplementsRound`: the
contract with the loop implements the contract with the atomic choice, so every theorem
about `Round` holds of it.

**Passport.** The invariant relates the storage a batch has staged to the ledger's (it
only adds credentials, all by the batch's issuer, who is authorized since no call
overlaps), keeps the lists exact in both, and `now` past every issue time. From it:
`TypeCorrect`, `ListsCorrect`, `CommitmentsStay`, `IssuersAreAuthorized`,
`RevocationIsForever`, `InvalidForever`.

**Keeper.** `KInv` says of each place in the tick what the keeper may rely on although the
contract moves on: phases only advance, so a round seen final stays so (`DidFinal`,
`QueueSound`, `ReportSound`), and the bidders still to be visited cover every sealed bid
whose seal has not expired while no call has failed (`PassCovers`). From it `KeeperTypeCorrect`, `GuardNeverGivesUp`,
`QueueDropsOnlyFinal`, `PassIsComplete`, `StatusAnswersAgree`, all for a queue that does not
start with rounds called over (`FreshQueue`; see the observation on relabelled queues).
Without that assumption, from a smaller invariant (`Placed`): `PollsComeToAnEnd`, the safety
core of `KeptRoundEnds`. Between two polls each step of the keeper goes on to a later await of
the tick, takes a bidder off the list of the reveal loop, or leaves the round for another
one of the poll (`Onward`), whatever the contract, its errors and a clock ahead of time do;
so a poll is a finite number of calls, and only a restart takes the keeper back to discovery. And `KeeperLeavesLifeAsItIs`: with keeper, restarts,
queue command and status requests the rounds still live as `RoundLife` says.

**Receipts.** `RInv` adds to `Round`'s `IInv` what a draft has read so far: what was read of
a round that was over when the export began stays so but for payment marks (`StillSo`,
`EntrySo`), and the bidders read are a prefix of the index. From it `FinishedReceiptsAreAlike`.
For the verifier the index and the bids may have moved on during the export, so a second
invariant, `WInv`, says what a draft and a receipt are in themselves: every entry is one the
contract could have stored (`FineEntry`: revealed values bind, invalid ones exceed the
escrow), indexes read at different times are prefixes of each other (`IndexGrows`), and a
decided receipt's winner is the first of its best valid bids (`ReceiptWell`). The
verifier's walk keeps the best entry so far; by induction over its steps it ends with the
first best of the receipt (`WalkResult`), and there is only one (`BestIsOne`). From these
`ReceiptsVerify` (the only codes an honest receipt can get are `invalid_bidder` and
`invalid_evidence_hex`, for the two reasons above) and, with a case for each kind of edit, `OutcomeIsProtected`.

**Credentials.** A record has one origin in all copies (`OneOrigin`), what a window knows as
revoked is revoked in its copy (`KnownIsRevoked`), documents in circulation name existing
identifiers (`DocumentsOk`), what is shown as valid passed the checks (`ShownIsGenuine`).
From them `CredentialsTypeCorrect`, `ValidIsWhatWasIssued`, `RevocationIsSeen`,
`VerdictsAgree`, `RevocationStays`.

**Clients.** For the page, `PageInv`: a pass has visited or still holds every listed
bidder, and each snapshot, also a half-read one, is dominated by the contract's state.
For the agent, `AgentInv`: a well-formed request is charged at most once and always where it
was served for a price, a commit in flight is one a run made within the mandate on what it
was served. From them `RevealLeavesNothingSealed`, `WhatIsShownLags`,
`AgentKeepsItsMandate` (bids and each run's payment; the total over runs has no bound, see
finding 5), and `ClientsLeaveLifeAsItIs`: beside the page or the
agent the rounds live as `RoundLife` says. As the contract implements `RoundLife` and the
keeper, the page and the agent leave it as it is, everything shown over it speaks of one system.

**Only model-checked:** the liveness properties `EveryRoundEnds` and `KeptRoundEnds`
(fairness and `ENABLED` are outside the prover), and the five violated runs, where there is
nothing to prove. Every invariant and every action property of a passing run has a theorem.

## 6. Plan

Done: everything in the table of section 2. Left, in order:

1. A ledger counter besides the clock, so that seal lifetimes and deadlines are counted in
   their own units (a hazard no property covers yet).
2. The remaining paths of the SDK client: preflight, the relayed submission, the one-shot
   run of the keeper.
3. The receipt page (fingerprint computed after the receipt is shown, history in local
   storage) and redaction with its placeholders.
4. The live-round page over two rounds, where a late refresh of the old round meets the
   session of the new one.
5. Proofs: an abstract auction with escrows and payments (what a bidder is promised, without
   index, seals and storage) refined by `Round`; issuing a batch in one step, refined by
   `Passport`'s loop.

## 7. Not modelled

Cryptography (BLS pairing, timelock encryption, hashing, encrypted blobs, signatures) is taken
as ideal at the interface described above. Most of the repository's remaining TypeScript
keeps no state a property could be about: documentation pages, dashboards and layout of the
web application, generated contract bindings, validation of configuration and readiness
reports, HTTP routing and health pages, command-line conversions of beacon values, style
checks and examples. It is input and output over the SDK, and a model of it would say
nothing; that is why the models translate a smaller part of the TypeScript than of the
contracts. Read-only contract views change nothing but storage lifetimes, except `get_seal`,
which is modelled since it prolongs a seal. Events are not part of any state.
