# A TLA+ model of mubEZ

mubEZ is an identity and proof broker: people sign in with their ATProto
identity, enroll with an identity document, hold credentials in a wallet, grant
apps verified claims, vote, and administer communities together. It is an
AdonisJS API (TypeScript) over SQLite. This directory models the parts of it
where requests interleave, checks them with TLC on small instances, and proves
what matters most with TLAPS for instances of any size.

Paths below are relative to the repository: `src/services/...`,
`app/controllers/...`.

## How the program runs, and what that means for the models

* One Node process, one thread. The database binding (better-sqlite3) is
  synchronous. A handler therefore runs without interruption up to its next
  `await`, and every other handler may run while it waits. **An action of a
  module is what a handler does between two awaits.** A handler that never
  awaits is one action; one that awaits is a request record with a `pc` that
  names the await it is in, and its local variables are the record's fields.
  Where the code reads a row before an await and uses it after, so does the
  model.
* `db.transaction` is atomic. Statements outside a transaction are separate: the
  process may die between them. Each module has a `Crash` action (all requests
  are lost, the database stays), and one action more for each place where a
  crash between two statements of one turn leaves a state that no other step
  does (`CrashWhileCreating`, `CrashBeforeChange`, `CrashSigningIn`,
  `CrashBeforeApproval`, `CrashInRevocation`, `CrashInLinkPost`,
  `CrashInUnlink`, `CrashInCreate`, `RaiseOrDie`). Handlers that store nothing
  in parts need none: a crash of theirs loses an answer, and the client's next
  request, which is always possible, is what follows.
* Time enters as expiry only. Where only the order of expiry and requests
  matters, a row with `expires_at` has a field `overdue` (or is no longer in
  `live`) that a step of its own sets. Where the code counts what has not
  expired yet - challenges, signature requests, windows of the limiter - rows
  hold the ticks they have `left`, and an action `Tick` is the clock.
* Random ids, nonces and hashes are members of a set of fresh values, each used
  once: that two of them never coincide is assumed of the cryptography, as is
  that signatures and hashes cannot be forged.
* Client input is enumerated: any client may send any request at any time,
  repeat it, or never read its answer.

## Inventory

| Component | State | Operations | Hard behaviour | What makes it correct |
|---|---|---|---|---|
| Community governance (`community/voteService`, `actionService`, `actionExecutor`, `communityAdminService`, `communityService`) | `communities`, `community_admins`, `community_actions`, `community_action_votes` | create, bootstrap, propose, vote, execute | the vote awaits a DID document, the execution a remote repository; the status is read before the first; crash after the deciding vote | at least three administrators once active; votes final; status agrees with the votes; administrators change only by a vote |
| Sign-in (`sessions_controller`, `oauthLoginAttempts`, `oauthExchangeCodes`, `tokenService`, `sessionService`, `atprotoAuth`) | `oauth_login_attempts`, `oauth_state`, `sessions`, `oauth_exchange_codes`, `refresh_tokens` | start, callback, exchange, refresh | repeated and late callbacks, racing first sign-ins, replayed codes, overlapping refreshes | one bundle per sign-in, one session per person, rotated tokens dead |
| Credential issuance (`ine_controller`, `ineCredentialService`, `issuanceChallenge`, `walletRelayService`) | the session's challenge, `wallet_binding_requests`, `proof_artifacts` of enrollments | bind, decline, issue, deposit, collect, revoke | three awaits between the use of the challenge and the deposit, while the wallet may decline and rows expire | challenge single-use, one active enrollment per commitment, credentials reach the holder of their key, once |
| Grants (`grantService`, `claims_controller`, `revocation_controller`, `paraTrustEnforcer`, `claimVerification`) | `grants`, `proof_artifacts` | request, approve, verify directly, revoke | one await per claim, no transaction, revocation in between | artifacts usable only under approved grants; revocation final |
| Assurance replay store, identity registration, action proofs | challenges, receipts, registered keys | issue, consume, register | nonce and one-time id spent together or not at all; a cap on what is pending | a proof is accepted once; a key at its cap can ask again |
| Rate limiter, abuse monitor | counters and a buffer in memory | admit, refuse, alert, rotate the salt | refusals against the end of the window; restarts | never more than the limit per window; a refused client is admitted again |
| Civic votes and delegation | `person_roots`, `civic_vote_nullifiers`, `civic_delegation_grants` | prepare a proof, verify, delegate | several sessions and enrollments of one person | one ballot per person and subject, whatever enrollments come and go |
| Matrix sign relay, identity presentation | `matrix_sign_requests`, `identity_requests`, the issuer's keys | ask, answer, decline, read | expiry, repetition, pruning, rotation of keys | answered once, read once |
| Community memberships | `community_memberships` | ask, approve, reject, leave | records' URIs stored after an await, over whatever has become of the row | nobody is a member unasked |
| Anonymous identities, profiles, follows | identities, linked posts, private contacts, follows | create, burn, link, unlink, follow | crash between the statements of a burn; archived identities taken up again | a burner speaks once; a contact was asked for; voices one follows are others' |
| Nullifiers of ZK proofs | `nullifiers` | check and record | looked up before an await, inserted after | accepted once per community |
| Karma | rows of deeds, revelations | earn, reveal | repeated reports of one deed; profiles that come and go | each deed earned once, and done |
| Pajareo | entries, supports, reports, responses | post, support, report, respond | counters beside rows, no transaction | counters agree with the rows |
| Claim providers, DID resolution, repositories, PDS posts | caches, remote servers | calls | failure | outcome is a free choice in the models |
| Issuer keys, attestations, INE simulation, CURP hashing | keys in the environment | sign, hash | none that interleaves | cryptography, assumed |
| Devices, key backups, ledger, features, scopes | independent rows | one statement each | none | - |

How they meet: a *session* (sign-in) owns grants, challenges and bindings; an
*enrollment* (issuance) is a proof artifact under an approved grant, which the
revocation endpoint revokes as it does any artifact; person roots (civic votes)
are found through enrollments; governance reads the session for the DID only.
All share the database, none calls another's handlers, and each row is written
by one component - but proof artifacts, which grants, issuance and revocation
write; `RevokeEnrollment` is that endpoint in the issuance module. A module per
component, with the others' part in it as actions, therefore loses no
interleaving.

## Modules

| Module | Is |
|---|---|
| `CommunityGovernance` | one community |
| `SignIn` | the sign-ins of a set of people |
| `OneTimeMailbox` | abstract: what a relay promises about a slot |
| `CredentialIssuance` | the issuances of one session; instantiates `OneTimeMailbox` |
| `GrantBroker` | the grants of one session |
| `OnePersonOneVote` | abstract: what the civic vote promises those who count |
| `CivicVote` | enrollments, person roots, proofs, delegations and the count; implements `OnePersonOneVote` |
| `Memberships` | the members of one community |
| `ZkNullifiers` | zero-knowledge participation |
| `Karma` | the karma of anonymous profiles |
| `AnonymousIdentities` | identities, burning, linked posts, private contacts |
| `AnonymousFollows` | profiles and who follows them |
| `Pajareo` | entries and their counters |
| `ProofOfPossession` | challenges, one-time ids, registration of keys |
| `MatrixSignRelay` | signature requests between PARA and the wallet |
| `Presentation` | identity requests and issuer keys; a second implementation of `OneTimeMailbox` |
| `RateLimiter` | the limiter and the abuse monitor |
| `MC...` | instances for TLC: they extend a module and add symmetry, or hold several components |
| `..._proofs` | theorems, for all values of the constants |

### CommunityGovernance

`community`, `admins`, `actions`, `votes` are the tables. `BeginVote` is
`voteOnAction` up to `verifyCommunityVoteSignature`, `RefuseVote` every error
after it. `RecordVote`, `ApproveAndExecute` and `ApproveAndFail` are its
transaction *and* the local change of `executeApprovedAction`, which follows in
the same turn; `FinishExecution` is what comes after the repository sync. The
number of approvals an action needs is frozen in its row when it is proposed;
the number of administrators a rejection is measured against is not. Fields and
texts of an update are abstracted to "some" or "none".

`ActiveHasQuorum` is the property to read first: two removals proposed while
there are four administrators are each valid when proposed, each may be
approved, and only the recount in `removeAdmin` keeps the third administrator
in place. `OutcomeMatchesVotes` and `ExecutionsBounded` say what late votes
(below) can and cannot do.

### SignIn

`savedState` is the state the OAuth client library keeps for an attempt. That
library is not part of the repository. The model assumes that it reads and
deletes a saved state in one turn before it goes to the network, which is how it
uses the store that `atprotoAuth.ts` gives it; `OneBundlePerAttempt` rests on it.
`granted` in a request says that the library held the state, so that the
callback may succeed. A callback that finds no session of the DID resolves the
identity (`resolving`) and looks again (`OpenSession`).
`rotateRefreshToken` reads the token, awaits the signature of the access token
(`rotating`) and then writes. No code ends a session, so sessions have no other
status than active.

### CredentialIssuance and OneTimeMailbox

`challenge` numbers the random nonces of the session in the order they are made.
An issuance uses up the challenge, then waits for age proofs (`proving`), for
digests (`hashing`) and for signatures (`signing`). Every relay operation but
the deposit first prunes overdue rows, as `getRow` and its callers do; a refused
operation is therefore `Poll`. History variables: `reads` counts how often a
mailbox was read, `answered` remembers which bindings the caller was told about.

`RelayIsMailbox` is a refinement: each binding is a slot of `OneTimeMailbox`,
*open* while it is pending or bound, *full* when issued, *taken* when collected,
*closed* when declined or pruned.

### GrantBroker

`StoreClaim` is one turn of `approveGrant`'s loop (the verification has come
back, the artifact is stored, the next verification starts); `FinishApproval` is
the last turn with the UPDATE of the grant, which does not ask for its status.
Whether a claim was verified is not modelled: the code stores an artifact with
whatever outcome. `RevokeArtifact` may ask for any status, since the endpoint
does not validate it beyond the contract's transitions. `interrupted` remembers
which grants a crash cut short, `refused` that a foreign key turned an insert
away.

### CivicVote and OnePersonOneVote

`enrollments` is the list of proof artifacts each session's enrollments left;
`Credential` is the latest usable one, and its key leads to a root
(`ResolveRoot`), made at its first use. The key is derived from the CURP, so a
person who enrolls again, under another session and another commitment, comes to
the same root: `PersonKey` has the session as an argument only to let a mutant
use it. `counted` is what one who counts has accepted: nullifiers, with the
person behind each as history. The refinement maps the set of nullifiers of a
subject to the number of ballots, so that two nullifiers of one person, or one
nullifier of two people, are no step of `OnePersonOneVote`.

What the module keeps of the code, and no property calls wrong: the status of a
person root is read but never written, so that proofs and delegations that were
issued stay good after every enrollment of their person is revoked;
`NothingNewOnceRevoked` is about new ones.

### Memberships, ZkNullifiers, Karma

`Memberships`: asking and approving await the writing of records and then store
both URIs in whatever row there is (`StoreUris`); a late store may erase the URI
another handler stored in between, but touches no status. `asked` remembers who
asked since they last left or were rejected.

`ZkNullifiers`: the handler awaits the verification of the proof, looks up the
commitment's status and the nullifier, awaits an import, and inserts; only the
constraint of the table (`Unique`) keeps two handlers from accepting one
nullifier. The code accepts the commitment of an expired artifact, and so does
`Usable`. Since the salt of a commitment is the client's choice, a person who
enrolls again has other nullifiers: the property is one use of each commitment,
not of each person.

`Karma`: a deed is what another component's table says a session did. Sums of
points are counted point by point (`Total`, `Worth`), as a set of pairs of a row
and a number up to its points: what a sum is needs no recursion. The unique
index leaves the community out (`Awarded`), and foreign keys delete rows with
their profile (`Cascade`). Two sessions of one person may each earn karma for
the person's vote: the index is by profile, and the property by session.

### AnonymousIdentities, AnonymousFollows, Pajareo

`AnonymousIdentities`: `identities` is in order of creation, since the default
identity is the oldest. A card exists only once somebody asks for it
(`unfolded`), but counts from its profile's creation on. `LinkPost` stores the
post, archives a burner and makes its successor: three statements, and
`CrashInLinkPost` dies after the first or the second. `UnlinkGerm` revokes the
contact and then closes the posts. `spoken`, `escaped` and `consented` are
history: the posts made by identities that were to burn for them, those among
them whose request died before the archiving, and those whose owner asked for
replies. A crash that spares a burner is a divergence of its own (`burner_crash`,
below); `BurnersSpeakOnce` says that nothing else lets a burner speak twice. A crash
between the two statements of an unlink is excepted from `ContactWasAskedFor`: the request
has not succeeded, and linking again opens the posts again. A disabled profile's
card stays, as a burner.

`AnonymousFollows`: a target is named by a profile's id or by its card's
(`Resolve`), and both name the same voice.

`Pajareo`: a support is a row and then a counter. A repetition is ignored, so
that a counter that a crash left behind lags for ever; `missed` counts how far.
The author of a firma is counted without a row, and may support the entry too.

### ProofOfPossession, MatrixSignRelay, Presentation, RateLimiter

`ProofOfPossession`: `Act` is the consumption of a challenge and of a one-time
id, in one transaction, with the handler's decision; a proof that the handler
then refuses for another reason has consumed both in the code as well, which the
model leaves to its later attempts. `cleanupExpired` has no caller and is not an
action: the cap must not count what has expired, and does not (`Waits`).

`MatrixSignRelay`: every operation begins by deleting what has expired
(`Pruned`), and refused ones do only that (`Prune`). Fulfilling accepts any
identity key that signs. Its UPDATE has no guard of its own; it is safe because
the handler never awaits.

`Presentation`: `Redeploy` changes the configured keys at any time; a current
key that is revoked refuses to start, all else is possible. Ids of keys rotate
with the configuration unless they are configured too. A request may be declined
after it expired. `BoxOf` maps requests to the slots of `OneTimeMailbox`:
*closed* when declined or when expired before an answer, *full* from the
verification to the reading. A verifier asks for `elements`, of which some are
`required`: a presentation discloses these and none that were not asked for
(`ClaimsFit`).

`RateLimiter`: a window is of an address and a category of requests (`Client`)
and opens with its first request (`Open`); refusals are counted by the monitor
over a sliding window of their own, by address alone (`Record`), under a hash
whose salt changes (`RotateSalt`, after which nothing is found under the old one;
the code keeps the old counters in memory). A refusal is the limiter's (`Refuse`)
or that of a handler with a cap of its own, such as that on binding requests,
which the monitor's middleware sees as status 429 (`RefuseInHandler`); the limiter
comes before that middleware, so that no refusal is recorded twice. Entries of
the sliding window are pushed as time passes, so that those the code's filter
keeps are a suffix: `Recent` is the sequence from `FirstRecent` on. The code puts
no bound on how many entries an address has within a window; `Newest` keeps the
last `AlertAt` of them, which is all that an alert can tell apart, since entries
leave the window oldest first.

### Components in one instance

`MCParticipation` (six components) and `MCRelays` (four) hold components that
share no row with one another. Interleaving them would multiply the states and
show nothing - the theorems `SafeTogether` prove the safety properties of the
interleaved components as well - so the variable `component` chooses at the start which of them a
behaviour is of; the others keep their initial state. The constant `Components`
of `MCParticipation` says which of them an instance looks at:
`MCParticipation.cfg` (run `participation`) has all six, `BurnerCrash.cfg` (run
`burner_crash`) the identities alone. `Karma` and
`AnonymousIdentities` have `Speaker` for their sessions and share the posts,
`AnonymousFollows` and `Pajareo` have sessions of their own. Where a component reads
what another one writes (karma reads memberships and votes), its module has the
change as an action of its own that may happen at any time.

## Runs

Fairness is assumed in one run, of one action: `relays` has `WF_vars(Tick)`, that
time goes on. The code cannot influence that, and everything else a client or
the server might do may fail to happen for ever. What follows from it is
`CanAskAgain`: a key with as many challenges as it may have pending, a session
with as many signature requests, and a client at its limit, are each let in
again, however often they try meanwhile, and though nobody calls the cleanup.
All other properties are safety, and hold also if the process stops for ever.

| Run | Instance | Shows |
|---|---|---|
| `governance` | 4 people, 2 actions that add or remove an administrator or are of low impact, 2 requests (about 508 000 states) | `TypeOK`, `ActiveHasQuorum`, `OutcomeMatchesVotes`, `ExecutionsBounded`, `ApprovedHasExecutor`, `VotesFinal`, `AdminChangesNeedGovernance` |
| `late_vote` | 3 people, 1 action, 2 requests | violates `VotesOnlyWhilePending` |
| `sign_in` | 1 person, 2 attempts, sessions, codes and requests, 3 tokens (about 890 000 states) | `TypeOK`, `OneBundlePerAttempt`, `OneSessionPerDid`, `ReplacedIsRevoked`, `AttemptsSettleOnce`, `RetirementIsFinal` |
| `refresh_race` | 1 person, 1 attempt, 3 tokens, 2 requests | violates `RotatedOnce` |
| `issuance` | 2 bindings, keys, enrollments and requests, 3 challenges, 1 commitment (about 93 000 states) | `TypeOK`, `ChallengeUsedOnce`, `MailboxHoldsOwnKey`, `OneActivePerCommitment`, `RelayIsMailbox` |
| `lost_delivery` | 1 of each, 2 challenges | violates `DeliveredCredentialsWait` |
| `grants` | 1 grant of up to 2 claims of 3 kinds, 4 artifacts, 2 requests (about 76 000 states) | `TypeOK`, `OnlyApprovedGrantsAreProven`, `ApprovedGrantsListTheirProofs`, `RevocationIsFinal` |
| `direct_verify` | 1 of each | violates `DirectVerifyIsStored` |
| `civic` | 2 people, 2 sessions, 3 enrollments, 3 roots, 2 subjects, 1 delegation (about 219 000 states) | `TypeOK`, `CountedWasAuthorised`, `OnePersonOneVote`, `NothingNewOnceRevoked` |
| `participation` | 2 people and 2 handlers of memberships; 2 commitments, 2 communities, 2 handlers of proofs; 1 speaker with up to 3 profiles in turn, 4 deeds, 2 posts, 3 identities; 2 sessions that follow, 3 profiles, 1 burner; 1 entry, 2 supporters, 2 responses (about 854 000 states) | `TypeOK`, `MembersAsked`, `AcceptedOnce`, `KarmaIsEarned`, `BurnersSpeakOnce`, `ContactWasAskedFor`, `FollowersAreOthers`, `CountersTellRows` |
| `burner_crash` | 1 speaker, 2 posts, 2 identities | violates `ArchivedOnceSpoken` |
| `relays` | 2 keys, 3 challenges, 1 registration challenge, 2 one-time ids; 3 signature requests of 2 sessions; 1 identity request of 2 elements, 1 credential, 2 issuer keys; 1 address, 2 categories, limit 2 (about 134 000 states) | `TypeOK`, `ProofSpentOnce`, `OneAnswer`, `PresentationIsMailbox`, `CanAskAgain` |

Why the bounds are enough to meet the hazards: a race needs two requests on one
row, and all runs have two; a removal that would break the quorum needs four
people and two actions; a chain of rotations that forks needs a token and two
successors; a challenge that is used twice needs two issuances and a third
challenge for the session to go on with; two approvals of a grant of two claims
need four artifacts; a person votes twice if at all after a second enrollment,
in another session, and a session changes hands with a third; a nullifier is
accepted twice if two handlers look it up before either inserts; a burner that
spoke twice has two posts, and a third identity succeeds it; a cap of two is
reached with two challenges or requests, and a third one asked for afterwards;
a refusal that counted for the next window shows with a window longer than the
limit; an address that asks for two categories has two windows in the limiter
and one in the monitor; identity requests share nothing but the configured keys, so that one of them meets every
repetition, decline, expiry and rotation. Ids are interchangeable, so the runs
use symmetry (`participation` in posts only), but for `relays`, which checks
liveness, for which it would be unsound. The pools of ids are the bounds: when
they run out nothing happens any more, which is why deadlock is not checked.
The limit of three open bindings per session is in the model but not reached
with two bindings.

### What the code does otherwise than its documentation says

* `late_vote`: `src/openapi/openapi.json:4680` refuses a vote on an action that
  is not pending. `voteOnAction` checks that before it verifies the signature
  and not after: a vote being verified while the action is decided is counted,
  writes the status again, and executes the action again if it approves. The
  theorems say how far that goes: never below the threshold, and at most once
  per vote at or past it.
* `refresh_race`: a comment in `oauthExchangeCodes.ts:52` speaks of the
  "rotation guarantee" that makes a replay lose. Two overlapping refreshes of
  one token both get a successor: the row is read before the await, and the
  result of the guarded UPDATE is not looked at. What holds is that the old
  token is dead afterwards (`ReplacedIsRevoked`).
* `lost_delivery`: `walletRelayService.ts:18` says credentials wait until they
  are collected. If the wallet declines or the row expires while an issuance is
  awaiting, the deposit changes no row and the caller is told that the wallet
  has them.
* `direct_verify`: every call of the direct verification endpoint fails, since it
  stores an artifact under the grant `direct-verify`, which no code creates and
  the foreign key of `proof_artifacts` demands.
* `burner_crash`: a comment in `anonymousIdentityService.ts:291` says that an
  identity that burns is archived once it has spoken. Its post, its archiving
  and its successor are three statements outside a transaction: a process that
  dies after the first leaves the burner active, and the same request, repeated,
  returns early because the post is linked. What holds is `BurnersSpeakOnce`, and
  the theorem `OnlyCrashesSpareBurners`.

## Proofs

Theorems are proved for every finite set of people and every set of actions,
bindings, keys, grants, sessions, votes and requests; the only assumptions are
the named `ConstantsAssumption` of each module (null values are not members,
`Did` is finite, and so on), which TLC evaluates in the runs. A component that is
instantiated by an `MC` module states what it needs as an operator
(`PresentationAssumption`, `KarmaAssumption`, ...), which that module's
`ConstantsAssumption` asserts.

* `CommunityGovernance_proofs`: `TypeCorrect`, `OutcomeCorrect`,
  `ExecutionsCorrect`, `VotesAreFinal`, `QuorumKept`, `AdminChangesGoverned`,
  `ApprovedAreExecuted`. The
  invariant that carries them is `RowsInv`, with the types of the rows (`ShapeOK`): an
  action without a row has no votes, a request in flight is about an action that
  exists, a request that is executing has its approvals, and actions exist only
  in an active community. `TypeOK` states these relations between the rows but
  the third, and `TypeCorrect` is it.
  `CountVoteEffect` and `ActionStep` say what any step does to one action, so
  that each theorem needs only those cases; `OneMoreVote`, `OneAdminMore` and
  `OneAdminLess` are the counting. `QuorumKept` needs that the number of
  administrators moves by one and not below three: exactly `ChangeAllowed`.
  `ApprovedAreExecuted` asks of every step what becomes of the request that
  executes (`ExecutorsStay`).
* `OneTimeMailbox_proofs`: `ReadOnce`, that a slot is read at most once.
* `CredentialIssuance_proofs`: `TypeCorrect`, `ChallengesAreSingleUse`,
  `MailboxIsOwn`, `CommitmentsAreUnique`, `DeliveredOrWithdrawn`,
  `RelayImplementsMailbox`, `CollectedOnce`. `IInv` is the conjunction of `ShapeInv` (a bound row has a key,
  an issued one the content of an enrollment that exists), `ChallengeInv` (a
  request in flight, an enrollment and the session never share a challenge),
  `WalletInv` (a request that delivers to a binding carries that binding's key
  and challenge) and the uniqueness itself. None of the properties is inductive
  without it: that a mailbox holds its own key depends on what the request that
  will fill it has carried since before its awaits. `DeliveredOrWithdrawn` is what
  remains true of the claim that `lost_delivery` refutes: credentials a caller is
  told were delivered are in the mailbox or were collected, unless the wallet
  declined or the row's time passed. It needs `BindingsInv`: a binding in use is
  in use by one request, since the challenge it was made for is used up once, so
  that no other issuance fills it first. `RelayImplementsMailbox`
  maps every step to a mailbox step or a stutter, and `CollectedOnce` follows
  from it and `ReadOnce`.
* `GrantBroker_proofs`: `TypeCorrect`, `ListingCorrect`, `RevocationsAreFinal`,
  `OnlyApprovedProven`. The inductive invariant `BrokerInv` says that an approval
  in flight has stored, under its own grant, an artifact of the right kind for
  each claim before the one it verifies, and that only a requested grant has
  artifacts. `ArtifactStep` and `GrantStep` say what any step leaves of a stored
  artifact and of a requested grant, and `ApprovingStep` that an approval ends
  only by approving or in a crash; the theorems follow without looking at the
  actions one by one again. `TypeCorrect` needs the invariant too: that the claim
  an approval reads exists.

* `SignIn_proofs`: `TypeCorrect`, `OneBundle`, `OneSession`, `ReplacedRevoked`,
  `AttemptsSettle`, `RetirementFinal`, `ForksAreBounded`. The invariant `SignInInv` adds to the
  properties that a request in flight holds what its pc says (`RequestsInv`) and
  `OneGrant`: what the sign-in of an attempt can still be made of, or was made
  of, is one thing only - the saved state, a request that holds it, an unused
  code, or a first token. `OneBundlePerAttempt` is not inductive without it,
  because the bundle moves through all four before it is handed out.
  `ForksAreBounded` is what remains true of the claim that `refresh_race` refutes:
  a token is replaced at most once for each request the server handles at a time
  (`ForksBounded` counts its heirs and the refreshes of it under way, since one
  becomes the other), and its heirs stand for the sign-in it stood for
  (`Lineage`). The bound survives a new refresh because that starts from a live
  token, and a token with an heir is revoked.
* `CivicVote_proofs`: `TypeCorrect`, `RootsArePeople`, `BallotsAuthorised`,
  `ImplementsOnePersonOneVote`, `RevokedPeopleGetNothing`, `TallyIsOfVoters`. `CivicInv` says that an
  enrollment's key is its person's (`KeysInv`), that no key has two roots
  (`RootsInv`), that rows which name a root and a person name that person's root
  (`NamesInv`), and that these people were verified (`VerifiedInv`). With it, a
  step that counts adds a nullifier if and only if it adds a person, which is
  the refinement. `TallyIsOfVoters` says it in numbers: the ballots counted on a
  subject are as many as the people who voted on it.
* `Participation_proofs`: `TypeCorrect`, `MembersHaveAsked`,
  `NullifiersAcceptedOnce`, `KarmaIsOfDeeds`, `KarmaWasEarned`,
  `BurnersSpokeOnce`, `OnlyCrashesSpareBurners`, `ContactsWereAskedFor`,
  `FollowersOfOthers`, `CountersAreRows`, `SafeTogether`. The six components of `MCParticipation` each
  keep an invariant of their own, as a step of one leaves the others alone, and
  `ParticipationInv` is their conjunction. `SafeTogether` states the properties
  again of the components interleaved (`Together`), which the runs do not explore.
  * `KarmaInv`: a profile has one row for each deed its owner did, worth what
    that deed is worth (`KarmaIsOfDeeds`). `KarmaWasEarned` compares the sums: a
    pair of a row and one of its points is mapped to the pair of its deed and
    that point; the map is injective since no two rows are of one deed, and
    `Worth` counts a finite set.
  * `IdentitiesInv`: a post in `spoken` whose request did not die is of an
    identity that is archived still, and an archived identity does not post;
    taking one up again takes its posts out of `spoken` in the same step. That is
    `OnlyCrashesSpareBurners`, and `BurnersSpokeOnce` follows with it: of two
    posts of one identity, the earlier is of a request that died. A post that is open to replies is one whose
    owner asked for them, whatever has become of the identity since.
  * `FollowsInv`: an id belongs to no second profile (`former`), so that a follow
    that was of another session's voice when it was stored still is.
  * `PajareoInv`: for each counter, what it says and what a crash left out of it
    together are the number of rows it stands for (`Counted`, `Told`). A row and
    its counter are separate statements, and `CountedOnce` is the counting.
* `Relays_proofs`: `TypeCorrect`, `ProofsSpentOnce`, `OneAnswerEach`,
  `PresentationImplementsMailbox`, `ResultsReadOnce`, `WaitsRunOut`,
  `SafeTogether`. `AcceptedInv` ties every
  proof in the history to the challenge and the one-time id it used up;
  `AnswerInv` says that what PARA was shown is the answer in the row, for as long
  as there is a row; `PresentingMoves` says how a step moves each request as a
  slot. `ResultsReadOnce` follows from the refinement and from `ReadOnce`, as
  `CollectedOnce` does for the other implementation of the mailbox. The types of
  the limiter need `LimiterInv`, that a sliding window is in order of age
  (`Ordered`), for what is left of it grows older by a tick without passing the
  window (`RecentAges`, `FirstRecentIsFirst`).

Only model-checked is `CanAskAgain`: liveness under fairness is out of the
prover's reach, as are ENABLED and facts by induction over recursive
definitions. Its safety half is a theorem, `WaitsRunOut`: no step prolongs what
one who is refused waits for (`NothingProlongs`) or puts another wait behind it
(`NothingJoins`), each tick shortens it (`ClockShortens`), and when it has run
out the person is let in (`RunOutLetsIn`). What TLC adds is that, as the clock
goes on, this ends.
Every other property of a run that passes is stated by a theorem. What the runs
that expect a violation state is false, and refuted there.

## Not modelled, and why

The components with status `not_modelled` in `PROJECT.json`, and the parts that
the notes of the others name. Left out for good: cryptography (signatures,
hashes, ZK circuits, credential formats), which the models take as ideal; remote
servers (PDS, PLC directory, PARA, providers of claims), whose calls end with any
outcome; the ledger, device and backup tables, written by single statements and
read by nobody else; the development-only endpoints (token bootstrap, simulated
enrollment, the demonstration wallet); configuration.

`community/did_controller` and `repoSyncService` write to remote servers after
the rows they tell about; nothing reads back whether they succeeded. The
resolver of DIDs is a cache in front of such calls.

## Plan

Every module of the list above is written, every run passes, and every safety
property is proved. What is left would widen the models:

1. A second session in `GrantBroker` and `CredentialIssuance`, for people who
   enroll one document in two sessions at a time; the constants become sets of
   sessions, and `OneActivePerCommitment` becomes a property across them.
2. The composition of issuance, grants and civic votes on one table of proof
   artifacts. Each of the three has the others' writes as actions of its own; a
   module with the shared table would show that those actions are all there are.
3. An abstract specification of governance (a decision by the approvals counted
   when an action was proposed), which `CommunityGovernance` implements but for
   the late votes that `late_vote` shows.
