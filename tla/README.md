# pysui-flask: a verification project

pysui-flask is a Flask service between accounts that hold Sui keys and the Sui
chain. An administrator provisions accounts and multisigs, an account submits a
transaction, every account that has to sign it is asked, and when all of them
signed, the service sends the transaction to the chain. This directory models
the service in TLA+, checks the models with TLC and proves the main results with
TLAPS.

## 1. Inventory

| Component | State | Operations | Source |
|---|---|---|---|
| Signer resolution | accounts, multisigs and their members (tables) | validate the entries of a payload, list who signs, gather the signatures | `common.py`, `payload.py`, `account.py:51-107`, `signing.py:39-58` |
| Signing life cycle | `SignatureTrack`, `SignatureRequest` | submit, `/account/sign`, call to the chain, result | `account.py:295-344`, `signing.py` |
| Accounts and sessions | `User`, the Flask sessions | register, lock, unlock, log in and off, change the password | `admin.py`, `account.py:142-208` |
| Templates | `Template`, `TemplateOverride` | create, execute with overrides | `account.py:110-128, 347-366`, `tmplu.py` |
| Multisig provisioning | `MultiSignature`, `MultiSigMember` | create | `admin.py:142-214` |
| Queries | none of their own; what a request has read so far | filtered listings, reports on transactions, paging | `account.py:369-467`, `admin.py:315-375` |
| Data routes, builders, schemas, bootstrap | none | pass-through, conversions | `data.py`, `tmplu.py`, `payload.py`, `app.py` |

How they interact: submission (directly or through a template) reads accounts
and multisigs and writes one track with its requests in one commit. From then on
the signing routes work on the track and its requests alone, plus the keys of
members when signatures are gathered. Nothing calls back and nothing runs in the
background: each step of a transaction is driven by some account's request, so
what one handler leaves undone stays undone until another answer comes in.

What is hard in this code:

- **Overlapping answers.** `/account/sign` reads and commits in several
  statements, on threads that share the tables, with no lock and no version
  column. `signing.py:155-195` decides from rows that another handler may change
  before line 194 commits.
- **Dying half way.** Three commits and a remote call in one request: after the
  answer, after the tally, after the result.
- **Legal repetition.** A request may be answered again in any state of its
  track (`signing.py:227`), so approve/deny/approve sequences, before and after
  execution, all happen.
- **Two roles, many signers.** The signatures that reach the chain are collected
  from the requests long after weights and members were checked.
- **Answers made of several reads.** A report on transactions reads requests, then
  track by track the track and its requests, while handlers commit; a page of
  accounts and their number are two statements; a multisig is looked up member by
  member while accounts are registered.
- **Shared sessions.** Administrator and account logins use the same session and
  one common key; the session's copy of the account's status ages. A request works
  on its copy of the session and writes it back when it answers, so overlapping
  requests of one session undo each other's changes.

What makes each component correct: *signer resolution*, that what is accepted
can be signed by those who are asked; *life cycle*, that nothing reaches the
chain without everybody's consent, that what everybody approved does, and that
the track tells what happened; *accounts*, that a name goes on meaning the
account that had it first, that the limit on attempts locks out, and that a lock
stands until somebody unlocks; *templates*, that what is executed is what the owner
declared; *multisigs*, that their rows make the address they were registered
with; *queries*, that what is shown as decided comes with what it was decided by,
and that a walk through the pages misses nothing.

## 2. Modules

| Module | Models |
|---|---|
| `Signers` | payload entries, their validation, the slots that are asked, the gathering of multisig signatures: constant operators over users, multisigs, members and weights |
| `Signing` | the life of a transaction; extends `Signers` |
| `Consent` | what `Signing` promises: ask once, collect consent, send when complete |
| `Reports` | the queries of accounts, interleaved with the handlers; extends `Signing` |
| `Accounts` | the user table and the sessions |
| `Provisioning` | multisigs and the administrator's walk through the accounts; extends `Accounts`, and gives its tables to `Signers` as constants |
| `Templates` | templates and their execution, up to the payload that is submitted |
| `NamesProofs`, `SigningProofs`, `OutcomeProofs`, `SequentialProofs`, `ReportsProofs`, `AccountsProofs`, `ProvisioningProofs`, `TemplatesProofs` | theorems |
| `MCSigners`, `MCSigning`, `MCReports`, `MCAccounts`, `MCProvisioning`, `MCTemplates` | instances for TLC |

Operators and actions keep the names of the code where there is one;
`PROJECT.json` maps each definition to its lines.

### Signing

`track[t]` is a `SignatureTrack` row and `request[t][s]` the `SignatureRequest`
row of slot `s`, a role together with an account. `handler[h]` is a thread inside
`/account/sign`. One thread takes the steps

    Lookup -> Respond -> Reload -> LoadTrack -> Tally -> Settle -> Refresh
           -> Gather -> Execute -> Record        (signed)
           -> Close                              (denied)

which are the statements of `signature_update`, `_update_signatures`,
`_update_tracker` and `_process_tracker`. A step is a `SELECT`, a commit or the
call to the chain: that is where other threads can run. A track that is closed
already skips from `LoadTrack` to `Gather` or `Close`. `Fail` ends a thread
anywhere: the process is killed, the database stays locked, or the call raises.

The database session is modelled from how the code relies on it (Flask-SQLAlchemy
with its defaults on SQLite; the definitions are marked external):

- one session per request, removed at its end: a handler that dies leaves nothing
  uncommitted behind;
- an object loaded once is not overwritten by a later `SELECT` of the same
  session (`own`, `row`), and a commit expires all of them (`Refresh` loads anew);
- an `UPDATE` carries the columns whose value differs from the loaded one
  (`Written`): setting a status to what it was writes nothing;
- reads take no lock that outlives them, and commits are atomic.

The chain (`chain[t]`) counts submissions, and remembers whether it accepted one.
It may refuse anything; it refuses what is not signed by the accounts it needs.
Keys, signing bytes and addresses are abstracted: a signature is the name of the
account whose session posted it. Accounts have distinct addresses and are members
of a multisig at most once (`PrincipalAssumption`, `MembersAssumption`): the code
does not enforce either, it relies on the administrator.

### Reports

`reader[r]` is a thread that answers `/account/signing-requests` or
`/account/transaction`. `Query` is the filtered SELECT, after which the first
route is done (`SendReport`); the second goes on with `ReadTrack` and
`ReadSigners` for each track it found. All steps of `Signing` may come between.
The database session keeps the rows it has loaded: the requests that were listed
stay in the report as they were (`SignersRead`), so they may be older than the
track, and the property is about the others (`ReadAfter`). A query is answered
without an error whatever happens meanwhile, since tracks are never deleted.

### Accounts

`user` is the table in order of ids, `session[i]` what a session holds. Two kinds of
requests take several steps, each in a thread `handler[h]`:

- registration: `CheckNames`, which looks the names up, and `InsertUsers`;
- a change of password: `ReadAccount`, then `ChangePassword` or `RefusePassword`,
  each up to its commit, then `ReadStatus` (only after a commit that locks: the row
  has expired, and what `account.py:199` puts into the session is a new SELECT), and
  `SaveSession`.

A request has its own copy of the session, and of the account's row as it was
loaded. The copy of the session is written back as a whole with the answer (this is
Flask-Session, marked external), whatever other requests of the same session made of
it meanwhile; the UPDATE of the row carries the columns that changed
(`PasswordStored`). The other handlers read and write the same row at once; two of
them on one account commute with every property checked, and are one step.
`pardoned` is a history variable: the accounts that were locked and then unlocked.
No action reads it.

`Like` is SQL's `LIKE` on names. Enum members survive in a session unchanged, as
they do with a session store that pickles. The administrator's password check has
no state and is left out: `AdminLogin` is a successful login.

### Provisioning

`msig` is the table of multisigs with their members, `maker[k]` a thread inside
`/admin/multisig`: `CheckMsigName`, one `LookupMember` per member, `StoreMsig`. What
is added to the database session before the commit is visible to nobody, and gone
when a lookup raises; the message that is to be raised (`admin.py:200`) reads an
attribute the payload does not have, so it is another error, with the same effect.
The names of multisigs are not unique: two threads that both check before either
commits register one name twice. No code looks a multisig up by name afterwards. An
address stands for the keys, weights and threshold it is computed from. `pager` is a client that follows `next_page` with one page size: `ReadPage`
is the SELECT with LIMIT and OFFSET, `CountRows` the count Flask-SQLAlchemy adds.
Registration is `CheckNames` and `InsertUsers` of `Accounts`; logins of accounts and
passwords do not touch what this module is about. Here two accounts may have one
key or one name. `Tables` instantiates `Signers` with the tables as they are, so that
`NamedSignersSuffice` speaks of multisigs the service can really have.

### Templates

A template's inputs all hold `Stored` when it is created, so an execution shows
which of them were replaced. Overrides name an index at most once: what a second
replacement of one index does is up to pysui. Type errors of values are not
modelled, an index beyond the inputs is.

## 3. Runs

| Run | Asks | Instance |
|---|---|---|
| `sequential` | is the track true to what happened, for one handler at a time? do the signatures that are sent carry the thresholds? is a fully approved transaction submitted and recorded, and never left lying on the way? does an open one wait for somebody? is a denial heeded? is what a report shows as decided backed by what it shows with it? | one transaction, all single-multisig payloads, a sponsored one and one account in both roles, answers both ways and repeated, two deaths, submissions counted to three, one reader with four filters |
| `concurrent` | what holds however handlers interleave? is a signed transaction dropped, or does it stay signed for ever? | two handlers, one death, payloads with one signer, with a multisig, and with a multisig as sponsor |
| `accounts` | does the limit on attempts lock out, and does a lock stand? | one account, one session, two threads whose requests overlap, a limit of two attempts and counts up to three |
| `templates` | is what is executed what was declared? | two templates, eight declarations, three indexes of which two are inputs |
| `provisioning` | do multisigs stay what they were registered as? can the named signers sign? does a walk miss an account? does a name keep its account? | up to four accounts, some with one key or one name, a list that repeats a name, names that differ in case, four setups (a threshold met exactly, one to attest, one with a member twice), two threads that register accounts and one multisigs, three page sizes |
| `signers_omitted` | *violated*: "If None, all members must sign" | four users, two multisigs |
| `lost_update` | *violated*: "Once all required signatures are returned approved, the transaction is submitted" | two handlers, both approve |
| `mixed_multisig` | *violated*: the same, for a multisig that sponsors | one handler |
| `denied_runs` | *violated*: "If any one has denied, the entire transaction won't run" | one handler, one death |
| `any_denial` | *violated*: the same sentence, taken for what `denied` means: a transaction that somebody denied is denied | one handler, no death |
| `logoff_ends` | *violated*: "/account/logoff - Post. Ends session." | one account, one session |
| `attempts_limit` | *violated*: "Number of failures allowd for password change attempts (locks access out)" | one account, two sessions, one thread |

Bounds and why they are enough. Transactions share no state, not even a session,
so one transaction shows what several do. The interleavings that
matter are between the handler that counts an answer and one that overtakes it:
two handlers have them. With two signers one can be late, with one the branch
of `signing.py:170` is taken. `MaxFail` bounds deaths, `MaxSubmits` the
submissions that are told apart: `sequential` has one more submission than the
two deaths explain, so that `ResubmittedOnlyAfterFailure` could fail.
`MaxUsers` and `MaxAttempts` bound the table and the count in a session: one
attempt beyond the limit, so that it can be passed. `MaxTemplates` bounds the
templates, `MaxMsigs` the multisigs. In `accounts` the overlap that matters is of
two requests of one session; a second session makes more than five million states,
and `LimitLocksOutHolds` and `LockStandsHolds` cover any number. The two threads of
`provisioning` are alike (`HandlersAlike`), no property names one. `templates` is
checked without deadlock detection: with the bound reached and only templates that
require an index they do not have, nothing can be executed.

The runs visit 624,601 states (`sequential`), 636,531 (`concurrent`), 646,310
(`accounts`) and 200,112 (`provisioning`); the others are smaller. A second handler
in `sequential` makes millions of states; what it would show of reports is proved
for any number of handlers (`ReportIsBackedHolds`).

**Fairness.** `FairSpec` says that a thread which is inside `/account/sign` goes on
(`WF(Advance(h))`): the server's threads are not suspended for ever and the call
to the chain returns. Nobody has to submit or to answer, and nothing is assumed of
`Fail`; the liveness properties are excused by a death, because no other process
takes a transaction up again.

### What the runs show

- However handlers interleave and wherever they die, a transaction is sent only
  after each account asked signed in its own session (`ConsentedSubmission`,
  `ImplementsConsent`), and a track that is `signed` is in the hands of a thread that
  goes on to the chain, until one dies (`SignedIsCarried`): `signed` is transient as
  long as threads run (`SignedIsTransient`).
- The weights of a multisig are added up once, of the names in the payload. That the
  signatures which go to the chain carry the threshold, each posted by the member
  itself (`SubmissionMeetsThreshold`), follows from the row of every named member
  being asked and nothing being sent before all of them signed.
- For answers handled one at a time, tracks are true: a result recorded as passed
  was accepted, a closed track is not decided again, a second submission needs a
  death between call and commit. (Overlapping answers can submit twice without one,
  and `ClosedIsFinal` fails for two handlers.) From the last approval to the recorded result a
  thread is at work (`NothingIsDropped`), and nothing is sent while a denial stands
  (`DenialIsHeeded`). Both need that no thread died, and no multisig together with a
  signer of the other role (`Unmixed`): that pair raises on the way
  (`mixed_multisig`).
- With answers handled at the same time, the tally is a lost update
  (`lost_update`): after the interleaving both accounts signed, the track says
  partially completed, and no one will submit it unless an account answers again.
  The same race lets late denials overwrite an executed track.
- A transaction nobody has decided, with no handler at work and no death, waits for
  a pending request (`OpenWaitsForSomebody`) unless some signed and some denied:
  that mixture keeps the status `partially_completed` and waits for nobody. It is
  what `any_denial` is about.
- Reports never show a decision without what it rests on: the track is read before
  its requests (`ReportIsBacked`). The other order, or a track read again, would not
  have this property. Requests that were listed by the filter may be out of date.
- Multisigs stay what they were registered as (`MsigIntact`): the rows are stored in
  the order of the payload and read in the order of their ids. The column `position`
  is written and never read.
- A walk with pages of one size sees every account (`WalkSeesAll`), since accounts
  are appended and never deleted. With a size that changes on the way accounts are
  skipped: after page 1 with two entries, page 2 with four begins at the fifth. The
  repository's integration tests do this.
- `denied` is set when *all* deny (`signing.py:186`), not when any one does as
  `db_tables.py:37` has it (`any_denial`). The account that denied may approve two
  answers later, and the transaction runs after all. `denied_runs` shows the harder
  case: it runs although a denial stands.
- Names: nothing makes them unique, unlike `db_tables.py:96` wants it. Two
  registrations at once, or a list with a name twice (`admin.py:286` looks in the
  table only), register the name twice. A name goes on finding the account that had
  it first (`NameKeepsAccount`), so nobody takes a login over; the account that came
  second can never log in.
- The limit on attempts can be passed (`attempts_limit`): the attempt that meets it
  commits the lock and then reads the status of the account again. When an
  administrator unlocks the account between the two statements, the session goes on
  as active with its count at the limit, and the comparison is for equality. That is
  the only way (`LimitLocksOut`): for an account that was never unlocked, a count
  does not pass the limit, and a session whose count is there shows the lock and the
  account is locked, although overlapping requests lose counts and write stale
  copies back.
- A lock stands until an administrator takes it away (`LockStands`): a change of
  password that read the account before it was locked writes the password alone.

## 4. Proofs

Everything below holds for every value of the constants: any numbers of users,
multisigs, transactions, handlers, readers, sessions and payloads, and any bound.

| Module | Theorems | Inductive invariant |
|---|---|---|
| `NamesProofs` | none of its own: the lemma `NamesMatch` about sequences and sets | none |
| `SigningProofs` | `TypeCorrect`, `ConsentedSubmissionHolds`, `ServiceImplementsConsent` (`Spec => ImplementsConsent`) | `IInv` |
| `OutcomeProofs` | `PassedWasAccepted`, `SubmissionMeetsThresholdHolds` | `OInv`, `WInv`, on top of `IInv` |
| `ReportsProofs` | `ReaderTypeCorrect`, `ReportIsBackedHolds` | `RInv`, on top of `OInv` |
| `SequentialProofs` | `AcceptedNamesMembers`; `SignedIsCarriedHolds`; and while the answers of one transaction do not overlap: `ResultMatchesChainHolds`, `ResubmittedOnlyAfterFailureHolds`, `ClosedIsFinalHolds`, `OpenWaitsForSomebodyHolds`, `NothingIsDroppedHolds`, `DenialIsHeededHolds` | `CarriedInv`; `SInv`, on top of it and of `OInv` |
| `AccountsProofs` | `AccountsTyped`, `LimitLocksOutHolds`, `LockStandsHolds`, `NameKeepsAccountHolds` | `AInv`; `LInv` for the limit, on top of it |
| `ProvisioningProofs` | `ProvisionTypeCorrect`, `MsigIntactHolds`, `WalkSeesAllHolds`, `NamedSignersSufficeHolds` | `PInv` |
| `TemplatesProofs` | `TemplatesTyped`, `ExecutedAsDeclaredHolds` | `TInv` |

`ConsentedSubmission` is not inductive: a step to the chain is taken on the word of
a track that may have been loaded long before, and a tally is committed over
whatever the track says by then. The inductive invariant `IInv` adds

- per transaction (`TableInv`): the signature of a request is missing or its own
  account's, and is there when the request's status is `signed`; a track that is
  `signed` or executed, or was submitted, has every slot's consent; a transaction
  that does not exist has no requests and no submissions;
- per handler (`HandlerInv`): what it holds is backed by the tables: it answers a
  request of an existing track in the name of the slot's account, a signature in
  its copies of that request is in the table too, a verdict that says signed means
  that all slots have consented, and from `gather` on they have.

The lemma that carries the argument is `KeptStep`: no step removes a slot of a
track or takes back a consent. So evidence held by one handler stays true while
others run, and each action needs only be looked at for what it writes.

`ServiceImplementsConsent`, `Spec => ImplementsConsent`, follows from `IInv` step by
step. `SubmitTransaction` is an `Ask`, `Respond` a `Give` or a stutter, `Execute` a
`Send`, all other steps stutter.

**Outcomes.** Verdicts are computed from copies and committed later, so `OInv` says
what a handler knows that holds one: with the verdict of a denial, that each request
was answered, and when it is to record a passed result, that it comes from a call
the chain accepted. Answers change, but never back to pending: that is what makes a
late verdict harmless, and it is the same kind of argument as `KeptStep`. `OInv` gives
`PassedWasAccepted`, and `ReportsProofs` rests on it. `WInv` ties the requests of a
transaction to the member rows that were weighed when it was submitted. With
`ConsentedSubmission` each of those requests carries its own account's signature, so
the rows that signed include the rows that were weighed, and this is
`SubmissionMeetsThresholdHolds`.

**On the way to the chain.** A transaction that is counted as `signed` must not be
left lying: nobody looks for such rows. `SignedIsCarriedHolds` shows, for any number
of handlers that overtake each other, that some handler then is between its tally
and the record of the result. The witness is the handler whose tally made the row
`signed` (`SignedBySettle`). It came from a commit, so it reads the requests anew and
gathers the signatures of the table (`Carries`); what it gathers cannot raise, because
of what was posted (`Gatherable`, from `AcceptedNamesMembers`); and it goes on until
the row says executed (`CarrierGoesOn`). If a late tally overwrites `signed` meanwhile,
the row waits again, and whoever makes it `signed` the next time is the new witness.

**One answer at a time.** The other properties of the life cycle fail for overlapping
answers (`lost_update`). The theorems say how much order they need:
`Spec /\ []OneAtATime`, where `OneAtATime` says that no two handlers are inside
`/account/sign` for the same transaction. That is what a lock on the track's row
would establish, and what a service with one thread has (the case `sequential`
checks); handlers of other transactions interleave freely, and each
may die anywhere. `SInv` says what the order is good for: the copies a handler
holds are the rows (`CurrentInv`), so its verdict is the verdict of the table; the
track's status, the submissions and the deaths add up (`CountInv`: every submission
that the track does not know of was left behind by a death, but for the one a
handler is about to record); and an open track has a handler that counts, or somebody
to wait for (`WaitInv`). Each of the six theorems follows from one or two of these
parts. `NothingIsDropped` is the safety core of `FullyApprovedIsSubmitted` and
`SubmittedIsRecorded`: it names the handler whose fairness makes them true.

**Reports.** `RInv` is the property with the moments before it: the row a reader
has loaded is backed by the tables (evidence of `OInv`, which no later step takes
back), so the requests read after it are as decided as the row says.

**Entries.** `NamesMatch`: the code compares the number of rows it found with the
number of names it was given. Each row found takes a name that no other row takes;
equal numbers leave no name over, so none is repeated and none is an outsider's
(pigeonhole). `AcceptedNamesMembers` applies it to `Signers`, where each account is a
member once by assumption (`MembersAssumption`), and `NamedSignersSufficeHolds` to the
tables that registration makes, where it is not assumed: of a multisig with as many
different members as rows, which is what `NamedSignersSuffice` speaks of. The lemma
`NamedSuffice` has it for lists of any length; the property TLC evaluates has lists
of up to three names. The weights are added by a fold of the library, which no
prover here can unfold: the proof shows that the rows which are added up are those
of the accounts asked, not what their sum is.

**Accounts.** The theorems have no hypotheses: any number of sessions and threads,
requests of one session that overlap, registrations that overlap, lists that repeat
names. `AInv` is typing, and that the accounts of logins and of the copies in
handlers exist.

What carries the rest is `RowsStand`, the counterpart of `KeptStep`: no step removes
an account or changes its name, none shrinks `pardoned`, and an account that is locked
stays so or becomes pardoned. `LockStandsHolds` is a part of it. So is
`NameKeepsAccountHolds`: rows are only appended, and the first row of a name
(`EarliestIsFirst`) stays the first.

`LimitLocksOut` is not inductive: a session is overwritten by copies that were taken
long before. `LInv` says of every copy, in a session (`Within`) or in a handler
(`ChangeInv`), what stays true of it while others run: its count is within the limit,
and below it when the handler came to count an attempt; at the limit it shows the lock
and the account is locked, or was pardoned. The handler that has just met the limit
has written the lock or found it in the row it read, and by `RowsStand` it is there
when the status is read again, or the account is pardoned.

**Provisioning.** `PInv` says that the ids a maker has found, and those in the rows
of members, are accounts that exist, that the rows make the stored address, and
that a walk has seen what was registered up to the end of its last page and nothing
behind it. It survives registration because rows are only appended.

**Templates.** `TInv` adds that what was executed last is a row that exists: rows are
only appended and never changed, so what was true of it stays true.

The proofs use the assumptions on constants that the modules name, and one
hypothesis, `[]OneAtATime`, which stands in the six theorems that need it. It is false
for a server with several threads, and the paragraph above that introduces it says
what goes wrong then. The proofs say nothing of several processes of the server beyond what the model has: a
process is a set of handlers.

Only model-checked: liveness (`SignedIsTransient`, `FullyApprovedIsSubmitted`,
`SubmittedIsRecorded`), which is out of the prover's reach; its safety cores
(`SignedIsCarried`, `NothingIsDropped`) are proved. And what the fold of the weights
computes: the thresholds in `SubmissionMeetsThreshold` and `NamedSignersSuffice` are
proved of the sum the code compares, whatever its value. What the
runs show violated has no theorem.

## 5. Not modelled

- `/account/multisig-requests` and `/admin/account/<address>`: one SELECT that is
  sent as it is. `/data/accounts` lists users, multisigs and members by statements
  of their own; a member may be an account the listing does not have yet, and
  nothing says that they belong together.
- Data routes, inspection and verification of builders: pass-through to pysui and
  the chain, without state.
- Payload schemas, key conversion, JSON, configuration: conversions of one message.
  Some oddities met on the way: `SigningResponse` with both outcomes prints a line
  and counts as approval (`payload.py:349`); public keys given as a string are taken
  with 44 characters only, a longer one ends in an unbound variable
  (`payload.py:74-79`); `/admin/multisig` takes a dict past the schema
  (`payload.py:250`); the answer of an account that was not asked ends in a response
  that cannot be serialised (`signing.py:244`).
- Overrides given as "all": `README.rst:340` has it as the opposite of "none", but no
  row is written for either and every override is refused (`tmplu.py:126`).
  `Templates` has it as the code does.
- Attestation of multisigs: `MultiSigStatus` and `MsMemberStatus` have values for
  it, no route changes them; a multisig that asks for it is never confirmed.
- Two accounts with one address in the signing life cycle: the code permits them,
  and no lookup by address survives (`.one()`, `common.py:48` and `107`). Multisigs
  with the same members, weights and threshold share an address too. `SetStatus` of
  `Accounts` and the lookups of `Provisioning` model shared keys; `Signing` takes
  accounts for their addresses.
- Members that are in a multisig twice: `Provisioning` has them, `Signers` assumes
  they do not occur.

## 6. Plan

Done: `Signers`, `Signing`, `Consent`, `Accounts`, `Templates`, `Reports` and
`Provisioning`, with a theorem for every safety property that a passing run checks.
What could follow, in this order:

1. Two reports of one reader, one after the other: that the later never takes back
   what the earlier showed as decided.
2. `Signing` with `Accounts`: submissions and answers by sessions, locked accounts
   among them; templates as a source of payloads.
3. Multisigs with repeated members and accounts with one key in `Signers`, and what
   they do to `Gather`.
4. A refinement of `Consent` that has the outcome as well, for answers that do not
   overlap.
