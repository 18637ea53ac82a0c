# structs-tsa: specification and proofs

structs-tsa signs queued transactions with keys of a local keyring and sends
each of them **once**. Three records follow every send: a row in PostgreSQL, a
journal file on the key volume, and what the worker process remembers. Any of
them can lag behind, and one (the database) can be destroyed. This directory
models that protocol in TLA+, and beside it how a transaction is prepared, how
the supervisor hands out rows, how the maintenance loop comes round, how keys
come to be and how more of them are asked for. It checks the models with TLC and
proves with TLAPS the safety of the send protocol, of preparation, of the supervisor, of
the maintenance loop, of key requests and of key provisioning, and that three of them
implement an abstract specification of what they promise, for every number of keys, rows,
workers, blocks, managers, processes and losses.

## 1. The system

| part | source | state it keeps | operations |
| --- | --- | --- | --- |
| transaction worker | `tsa/worker.py` | the claim and signed bytes of one row, for one call | `process`, `observe` |
| send journal | `tsa/durable.py` | files `outbox/pending/<hash>`, `outbox/completed/<hash>`, a cursor | `begin`, `finish`, `unresolved`, `observe` |
| key inventory | `tsa/inventory.py` | the held set of one run | `run` |
| signer database | `tsa/store.py` and SQL functions of another repository | rows, submissions, accounts, local keys | `claim`, `save`, `begin`, `unknown`, `result`, `abort`, `sync_keys`, `reconcile_key`, `invalidate_key`, account, role and pool calls |
| chain node client | `tsa/rpc.py` | none | `height`, `broadcast`, `committed` |
| signer | `tsa/signer.py` | none | `context`, `simulate`, `prepare`, `preflight` |
| supervisor | `tsa/runtime.py`, `tsa/__main__.py` | futures, recovery cursor, inventory time | `run`, `maintain`, `process`, health |
| key provisioning | `tsa/accounts.py` | recovery phrases and keys on the volume | `ensure`, `proof`, `process` |
| role onboarding | `tsa/roles.py` | `role-keys/<digest>` | `key_for`, `process` |
| key pools | `tsa/pools.py` | `pool-requests/<role>`, a cursor | `submit`, `run` |
| operator commands | `tsa/operator.py` | `operator-requests/<uuid>` | `request`, `import_key`; `reconcile` of `runtime.py` |
| configuration | `tsa/config.py` | none | environment checks |
| legacy shell agents | `scripts/` | - | not part of this release |

How they interact. The supervisor thread claims rows and hands each to a pool
thread; the thread opens its own database session, takes an advisory lock on
the row and runs `Worker.process`. A maintenance thread runs the inventory in a
loop, then account, role and pool work. An operator may run
`python -m tsa reconcile` beside them. Threads and processes share nothing but
the database, the key volume (under `flock`) and the chain.

What is hard:

* the order *journal marker, SQL permit, send, SQL result, journal completion*
  with a crash, a lost acknowledgement or a lost session between any two;
* a session that dies while the thread goes on: a second worker takes the row;
* an answer that never comes while the bytes travel on, and arrive late;
* the database destroyed with sends outstanding: rows come back with new
  identities, the orphaned bytes may still reach a block;
* the inventory, which computes what it holds first and tells SQL about each
  key later, alone or beside a second run;
* a journal longer than the page one pass looks at;
* a chain that moves on between two reads of one preparation;
* rows that stay undecided, and take slots and keys from new ones;
* a kill between making a key, saving its phrase and naming it in SQL, and a
  rebuilt database that asks again under other ids;
* a request for a key that is on the volume, in SQL, or in both, and must be made
  once, for the work it was simulated for, also against another database;
* passes that fail in the middle, with some cursors that outlive them and some
  that do not.

What makes the parts correct: bytes are sent at most once; the journal and SQL
never record what did not happen; a key has one attempt that may still reach a
block; a key the database hands out is quiet; evidence of a block eventually
settles rows, markers and keys. Bytes are checked in one state of the chain; no row
waits for ever; a stopped process is quiet; an identity has one key, which can be
made again from its saved phrase. A request for a key is made under one UUID until it
is answered, and only for work that needs it; whatever waits for the maintenance
loop has its turn.

## 2. Modules

| module | models | how state and actions correspond |
| --- | --- | --- |
| `Chain` | signing CLI, node client, node | bytes are their hash; `signer`, `number` are the key and account sequence inside the bytes, `fate` how far they came, `sends` how often they were put on the wire, `sequence` the chain's account sequences. `Sign` and `Current` are `Signer.prepare`/`preflight` as the send path sees them, `Transmit` and `Included` are `Node.broadcast`/`committed`; `Admit`, `Refuse`, `Include` are the external node |
| `SignerSql` | `store.py` and the SQL contract | `row`, `account`, `submission`, `state`, `key` are the columns the worker depends on; `row = "active"` stands for `claimed` and `broadcast` |
| `Outbox` | class `Journal` | `pending`, `completed` are the two directories; `JournalHalfFinish` is `finish` cut off between the write and the unlink |
| `Worker` | class `Worker` | `pc` is the next call that leaves the process; `live` whether its session still exists |
| `Inventory` | `Inventory.run` with `Journal.observe` | `stage`, `batch`, `held`, `unchecked` are the two loops of a run |
| `SendProtocol` | the composition, and its properties | `Next` interleaves the queue, the workers, the inventory runs, the node and the loss of the database |
| `InventoryProofs` | the proof of `BusyKeyIsNotHeld` for runs that begin with one page | `HeldInv` beside `IInv` |
| `OneAttempt` | what the send path promises | grants, sends and decisions of attempts, without workers, journal or database |
| `SendInvariant` | the inductive invariant | what SQL, journal and workers know of each other |
| `SendProofs` | the proofs | one lemma per part of the invariant |
| `SendRefinement` | the proof that `SendProtocol` implements `OneAttempt` | one lemma per action that is not a stutter |
| `MCSendProtocol` | instances for TLC | symmetry |
| `Preparation` | `Signer.prepare`, `simulate`, `preflight` within `Worker.process` | `pc` is the next LCD or RPC call; `height` the height the context is pinned to, `judged` the one the simulation happened to run at; `blocks` the state after each block |
| `PreparationProofs` | the proofs | one invariant, `PathInv` |
| `MCPreparation` | instance for TLC | the simulated gas of each height, the prices |
| `Supervisor` | `Runtime.run`, and `maintain` as far as `run` depends on it | `rows` are the live rows by ascending id with the future the supervisor keeps for each; `pc` is the part of a pass |
| `SupervisorProofs` | the proofs | one invariant, `SInv`; lists of rows, pages and what is left of them |
| `Requests` | `Pools.run` and `submit`, `operator.request` | `intent` and `argfile` are the files of the volume, `asked` and `manual` the requests SQL has, `pending` the queued row of a role that waits for a key; `mgr` is a manager with the roles it has still to do |
| `OneRequest` | what the makers of requests promise | the question a role waits with, what SQL was asked, what an operator's id stands for, without runs, files or commands |
| `RequestsProofs` | the proofs, and that `Requests` implements `OneRequest` | one invariant, `RInv` |
| `Maintenance` | `Runtime.maintain` around one of its four lists | `stage` is the part of a pass, `cursor` the one of the list, `live` whether the pass has a session; a page is a set of items |
| `MaintenanceProofs` | the proofs | the distance of the cursor from an item |
| `Provisioning` | `Keys.ensure`, `Accounts.process`, `Roles.process` and `key_for`, `import_key` | `backup`, `keyring`, `imported`, `record` are the key volume, `role`, `account` what SQL has, `proc` what a process has read and where it stands |
| `IdentityKeys` | what provisioning promises | phrases, keys, the key chosen for an identity and given out, without processes, locks or database |
| `ProvisioningProofs` | the proofs, and that `Provisioning` implements `IdentityKeys` | one invariant, `PVInv` |
| `MCProvisioning` | instance for TLC | symmetry of processes, phrases and onboarding ids |

The send protocol takes prepared bytes from `Preparation` as `Sign` and
`Current`, its rows from `Supervisor` as `Open` of any row, and keys from
`Provisioning` as the set of keys of the inventory; `Requests` takes from
`Preparation` that a simulation passed or did not, `Provisioning` from `Requests`
that there is a request, and `Maintenance` calls them all. The modules are not composed:
what one needs of the other is in these actions, and the state they share is no
more than that.

Abstractions of the send protocol, and why they are safe for its properties:

* *Bytes are hashes.* Every signature is a new hash. Two different requests
  cannot produce the same bytes, since bytes contain the message, the sequence
  and the timeout height; the case of two equal requests of one key at one
  height is not covered.
* *Lease, claim and submission are read in one step* (`Open`): while the lease
  lasts nobody else moves the row, and a lost lease is `Disconnect` in the next
  step.
* *A call's failure* is `Stop`: every early return and every exception ends
  `process` and closes the session. `Stop` is possible at every step, so a crash
  is possible between any two calls.
* *The page of `observe`* is any set of `PageLimit` records instead of the one
  the cursor points at: more behaviours, so safety carries over; for liveness
  the pages are assumed fair, which the cursor's walk gives.
* *SQL functions* commit before they return and check the state they start
  from. A committed call whose acknowledgement is lost is the call followed by
  `Stop`.
* *The sequence of a key* moves only with bytes of this worker. A key used
  elsewhere as well would make the preflight fail more often and nothing else.
* *Restoring the database from a backup* is not modelled: it would bring back a
  permit that was already used. Loss and rebuild from migrations is.

Abstractions of the other modules:

* *`Preparation`.* Queries of one context carry one height, so they are one
  step. A state of the chain is the key's sequence and what the message meets in
  it (`Verdicts`); a lost answer, a throttle, a node at another height and a
  crash are all `Stop`, after which the row is tried again from what SQL has.
  What a message is, the CLI decides the same way each time, so it is a kind: a
  paid one, one outside the signing contract, one that fails the independent
  verification. Gas and fee arithmetic is exact, with prices in tenths of a unit.
* *`Supervisor`.* Only the order of ids matters, so a row is its place in the list
  and the cursor the number of live rows it has passed; closed rows leave the list
  when no future waits for them. SQL hands out any pending row while a key is
  free. One row is `watched`, which makes "this row" a state predicate.
* *`Requests`.* The rows the managers are about and the UUIDs they draw are numbers
  in the order of their appearance, so a rebuilt database has other rows. `simulated`,
  `settled` and `meant` are history: what the properties compare the state with.
  `REQUEST_POOL_ACCOUNT_V022` is outside this repository; the model takes from its
  caller that it knows a UUID again, compares the source context with the row it
  finds, and answers nothing for any other reason, which is a choice `Submit`
  always has. A page of candidates may leave any role out. `pool-manager` is a file
  lock, held from `Start` to the return; the arguments of an operator are compared
  and saved under theirs, which is one step.
* *`Maintenance`* follows one list at a time, since the lists share nothing but
  the passes. An item is its id, or the place of its hash among the records. The
  stages before and after the list may fail like the list itself; each failure
  ends the session, and what was built with the session begins anew.
* *`Provisioning`.* A key imported by the operator has a name of its own: a name the
  daemon would use contains the UUID of a request. A phrase stands for the key and the address derived from it.
  File locks and row leases are derived from where the processes stand: a lock
  lasts as long as the function that takes it, a lease as long as the session. A
  failed lookup of a name is taken for a missing key, as in the code. `Legacy` are
  keys of the keyring that no request made, `Foreign` keys of players that are
  somewhere else. Stale temporary files of `write_json` are not modelled: the
  write is atomic.

## 3. Runs

| run | instance | shows |
| --- | --- | --- |
| `workers` | 2 workers, 2 rows, 1 key, 2 byte strings | `TypeOK`, `AtMostOneSend`, `JournalTruth`, `SqlTruth` under every interleaving, crash and lost session; `ImplementsOneAttempt` |
| `rebuild` | 3 byte strings, 2 rows, 2 losses | `KeyExclusive`, `NoSequenceReuse`: orphans of earlier databases keep the key from racing itself; `VerdictIsFinal`: an outcome on the volume is never replaced, and its bytes are never sent again |
| `sessions` | 2 inventory runs, 2 rows, 1 loss | `FreeKeyIsQuiet`, `BusyKeyIsNotHeld` |
| `liveness` | 1 of each, 1 loss | `IncludedIsSettled`, `IncludedIsCommitted`, `HeldKeyComesBack` |
| `held_page` | 2 keys, page of 1 | violates `BusyKeyIsNotHeld`, see section 5 |
| `preparation` | 4 blocks, bytes expire after 2 | `CancelledForCause`, `SentIsCurrent`, `GasIsEnough`: a row is cancelled or sent for what one state said; `FeeIsEnough` at a price of 0.7 and without one; `PreparedSettles`: prepared bytes do not reserve their key for ever |
| `supervisor` | 2 workers, 3 keys, 3 live rows of 4, 1 fault | `SlotsSuffice`, `StoppedIsQuiet`; `RecoverySkipsNobody`: each pass brings the recovery cursor closer to every claimed row ahead of it; with a queue that ends `ActiveIsVisited`, `PendingIsClaimed` and `StopEnds` |
| `starvation` | 2 workers, endless new rows | violates `ActiveIsVisited`, see section 5 |
| `keys` | 2 processes, 1 identity, 2 request ids, 1 account, 1 loss, 1 stop | `OneKeyPerIdentity`, `KeyHasBackup`, `BoundIsRecoverable`, `NoSecondRegistration`; `ImplementsIdentityKeys` |
| `provision` | 1 process, 1 identity, 1 account, 1 loss, 1 stop | `RoleIsBound`, `AccountIsQueued` |
| `requests` | 2 roles, 2 managers, commands under 1 UUID, 2 rows, 2 pool requests, 1 loss, 1 stop | `AskedIsRetained`: no request that SQL has is forgotten or replaced before its answer; `GrowthWasSimulated`, also after a loss; `UuidMeansOne`; `ImplementsOneRequest`: nor is one made after its answer; `IntentIsResolved` |
| `maintenance` | lists of up to 3 items, page of 2, 1 restart | `PagesComeCloser`; `RequestsAreVisited` although any pass may fail; `RowsAreVisited` once they succeed |

Bounds. `MaxLosses` bounds the losses of the database; `PageLimit` is the page
of `observe` (32 in the code, 1 or 2 here, so that records beyond the page
exist). Two rows of one key are the smallest instance in which a second
attempt can meet the first; two workers the smallest in which a lease is lost
to somebody; three byte strings with two losses give two generations of
orphans and a new attempt. `MaxHeight` bounds the chain: four blocks with a
timeout of two leave room to prepare at one height, sign at a second and expire at
a later one, and gas rises from 0 over the budget so that rounding and the limit
both bite; `Estimate` waits when the timeout would lie beyond the bound. In
`Supervisor`, `MaxRows` bounds the live rows: one more than the workers and as
many as the keys, so that pages, slots and keys each run short; `MaxArrivals` the new rows
(not counted when `Endless`); `MaxFaults` kills, outages and overdue inventories.
In `Provisioning` two processes are the daemon and the one it replaces, two ids
are the request before and after the loss; `MaxStops` counts crashes and lost
sessions, `MaxRenewals` repeated registrations. In `Requests`, `MaxWorks` and `MaxRequests` bound the rows and the
drawn UUIDs of all databases: two of each are a row of the lost database and one of
the next, or two roles that grow in one pass; a second manager exists because a
daemon may still be draining when the next one starts. Commands come one after the
other and may be interrupted: a command compares and saves in one step, since it has the
lock (`operator.py:27`), and what it still has to ask then is what a later one would. Two
commands at the same time are in no run; the theorems are about any number at once. In `Maintenance`, `MaxItems`
is one more than `PageLimit`, so that a page is never the whole list, and items may
come and go between any two passes. The proofs do not depend on these bounds.
`CHECK_DEADLOCK FALSE`: a finite set of bytes is used up at some point, and the
system then really has nothing left to do.

Fairness (`LiveSpec` only). *Send protocol.* A worker that started goes on (every call has a
timeout: 30 s for the CLI, 10 s for HTTP, 15 s per statement); a recoverable row
is opened again and again and an included transaction is at some point answered
for (`runtime.py:133-171` repeats the recovery query every two seconds); the
inventory is repeated for ever (`runtime.py:67-116`) and each record and key is
looked at again and again. Nothing is assumed of new rows, signatures, sends,
admission or inclusion: all liveness properties start from a block.
*Preparation.* Blocks come, the attempt is repeated (`runtime.py:146-153`), every
call ends, and among ever repeated attempts one reads the context and one aborts
(`SF` on `Check` and `Abort`); nothing is assumed of the simulation, which may be
unavailable for ever. *Supervisor.* Weak fairness of the passes, of each row's
worker and of the maintenance thread, which looks at the stop event between any two
requests (`SF` on its end, since it may also finish an inventory each time).
Workers may leave a row active at every visit. *Provisioning.* A process that
started goes on; the maintenance loop takes every request again (`runtime.py:83-103`),
and a lookup of an existing key succeeds at some point. The waiting answers of
`roles.py:75-81` (permissions not yet indexed, role not yet confirmed) are `Stop`, which
is bounded: `RoleIsBound` takes these waits to end. *Requests.* The
maintenance loop runs a manager again and again (`runtime.py:67, 109`), and a manager
that started goes on: of all managers the one with the lock, which is weak fairness of
their steps together. In these three the faults are bounded, so liveness is about what
happens once they cease. *Maintenance.* Faults never cease here. The thread goes on (`WF` of a
pass); among ever repeated passes each stage succeeds at some point, and so does the query
of the page and the visit of a page that has a given item on it (`SF`). Nothing says
that a whole pass ever succeeds: `RequestsAreVisited` holds without it, `RowsAreVisited`
assumes it (`<>[]live`), and section 5 says why it must.

## 4. Proofs

`SendProofs` proves `Spec => []IInv` (`Invariance`), and from it type
correctness, `AtMostOneSend`, `JournalTruth`, `SqlTruth`, `KeyExclusive`,
`NoSequenceReuse`, `FreeKeyIsQuiet` and `VerdictIsFinal`, for all values of the constants. The
assumptions are those of the modules: `None` is neither a hash nor a key
(`IdentityAssumption`), `MaxLosses` is a number (`LossAssumption`), the page is
not empty (`PageAssumption`).

None of the properties is inductive alone. The argument runs:

1. *A permit is unique.* While a worker has its lease its row is in the state
   its `pc` expects (`LeaseInv`), so `BeginSubmission` turns exactly one worker's
   row from prepared to sending (`PermitInv`). From a permit to the send the
   bytes are unsent: `AtMostOneSend`.
2. *The marker is there first.* `PermitInv` also says that before the permit the
   marker exists, and completions are only written from a verdict that SQL
   already has (`VerdictInv`, `AgreeInv`) or from a block: `JournalTruth`,
   `SqlTruth`.
3. *Outstanding bytes keep their key.* If SQL knows them, their row reserves the
   account (`OutstandingIsUndecided`). If SQL lost them, the marker is pending
   (`OutstandingIsUnresolved`), so every inventory run that started since holds
   them, their key is not ready and no row can be claimed for it (`OrphanInv`).
   Either way a second row cannot get a permit for the key
   (`ReservedExcludes`): `KeyExclusive`, `FreeKeyIsQuiet`.
4. *Hence the sequence.* It moves only by the one outstanding attempt, so
   outstanding and prepared bytes carry the next one (`SequenceInv`), and bytes
   sent with a sequence that was sent before find the earlier ones refused:
   `NoSequenceReuse`.
5. *A verdict is final.* A completed record says what became of its bytes (`JournalTruth`:
   never sent, refused, or in a block), and these exclude each other for good, so whoever
   finishes the marker later writes the same outcome (`CompletionStays`). A permit is
   only held for bytes without one (`JournalTruth`, `PermitInv`): `VerdictIsFinal`.

`SendRefinement` proves `Spec => ImplementsOneAttempt` (`Refinement`) under the mapping of
`SendProtocol`. A signature is a `Sign` of the abstract protocol, `BeginSubmission` a
`Grant` (nobody else has one of that key, by `ReservedExcludes`), the broadcast a `Send`, a
worker that ends between its permit and the send a `Forfeit`, a refusal or a block a
`Decide`. Every other step, among them all of the journal, the inventory, the claims and
the losses of the database, leaves what the abstract protocol sees alone.

`PreparationProofs` proves `PreparationInvariance`, and from it `TypeOK`,
`CancelledForCause`, `SentIsCurrent`, `GasIsEnough` and `FeeIsEnough`, for every chain,
timeout, budget, gas function and price (`HeightAssumption`, `GasAssumption`,
`PriceAssumption`, `NoneAssumption`). The
invariant adds what each position of the worker knows (`PathInv`): from the
context on, `height` is the height of a block that exists and whose state gave the
sequence; after the simulation `judged` lies between `height` and the last block,
so that `After`, which finds the chain still at `height`, makes the two equal. For
the fee it needs that a paid message only gets beyond its estimate with a price.

`SupervisorProofs` proves `Spec => []SInv` (`SupervisorInvariance`), and from it `TypeOK`,
`SlotsSuffice` and `StoppedIsQuiet`, for any numbers of threads, keys, rows and faults and
with an endless queue too (`CapacityAssumption`, `BoundAssumption`). `SlotsSuffice` is a
matter of counting: forgetting futures maps the waiting rows that are left one to one into
those before (`CompactGives`); a page has at most as many rows as its limit, since the
number of active rows before each tells them apart (`PageBound`); the share of a pass that has
free slots is no more than they are (`ShareFits`). `StoppedIsQuiet` needs that nothing runs
from the join on (`Quiet`), which `Drain` waits for and no later step undoes.
`RecoverySkipsNobody` (`NobodyIsSkipped`) follows from the invariant in one step: a page is a
first part of the active rows after the cursor, so it has the row or ends before it
(`PageComesFirst`), and forgetting closed rows keeps the order and never
lengthens the way from the cursor to a row (`CompactKeepsAhead`). It also holds with an
endless queue, where rows *behind* the cursor may starve (section 5).

`MaintenanceProofs` proves `TypeOK` and, for lists and pages of any length,
`PagesComeCloser` (`EveryPageComesCloser`). The measure is `Distance`, how far a cursor has to
go to pass an item, round the end when it is behind: a page that leaves the item out ends
before it, or is empty and sends the cursor back. It is positive and at most `2 * MaxItems +
1` (`DistanceIsBounded`), so an item of a list paged by id has its turn within as many pages
of one cursor, whatever enters and leaves. That pages come again and again is fairness and stays with TLC.

`RequestsProofs` proves `Spec => []RInv` (`RequestsInvariance`), and from it `TypeOK`,
`AskedIsRetained`, `GrowthWasSimulated` and `UuidMeansOne`, for any roles, managers,
commands, rows, losses and crashes (`BoundAssumption`, `NoneAssumption`). None of the
three is inductive alone:

1. *One manager* (`OneManager`) follows from the lock, and gives that nobody else
   writes an intent while a manager holds it.
2. *What a run knows* (`Run`): the intent in its hands is unresolved; every other
   unresolved intent is still in its list while it repeats, and none is once it
   grows. So the file it overwrites has no unresolved intent, and an intent makes
   room only when its answer is on the volume: `AskedIsRetained`.
3. *What an intent says* (`IntentInv`): its work passed the simulation. SQL takes a
   row only if it is the one of the intent's context: `GrowthWasSimulated`, in every
   database.
4. *A command* carries the arguments of the file under its UUID (`CommandInv`), which
   never changes once it is there: `UuidMeansOne`.
5. *Refinement* (`RequestsImplement`). Under `OneRequest` a role has a question in hand while
   its intent is unresolved, and an operator's id stands for the arguments of its file. By
   `Run`, a run that grows finds no role with a question, and what it puts to SQL or
   acknowledges is in hand. So what was answered, with a refusal too, is never asked
   again, in whatever database, and an id is never drawn twice.

`ProvisioningProofs` proves `Spec => []PVInv` (`ProvisioningInvariance`), and from it
`TypeOK`, `KeyHasBackup`, `BoundIsRecoverable`, `OneKeyPerIdentity` and
`NoSecondRegistration`, for any processes, identities, requests, phrases, crashes and
losses (`IdAssumption`, `KeyAssumption`, `NoneAssumption`, `FaultAssumption`):

1. *The locks* (`KeyringInv`, `RoleInv`, `LeaseInv`) admit one process each, since each
   is entered only when nobody has it. So the phrase a process found, or did not find,
   is still there, or not there, when it acts on it (`KeyInv`): a phrase and a key are
   written once (`VolumeGrows`), the phrase first.
2. *An account* changes under its lease only (`AccountInv`): a process that renews
   found the transaction failed, and it still is when the renewal is queued.
3. *A record leads to one key* (`OneKey`, `KeyOf`). Before there is a record no key was
   made or given out for the identity; the first record names the request of the
   key to be made, or the key SQL has, which is then the player's; every later one
   keeps the request and adds the key made from it. A known key is never replaced
   (`KeyOfGrows`), although the requests of an identity come from many databases.
4. *Refinement* (`ProvisioningImplements`). `KeyOf` is the chosen key of `IdentityKeys`: a saved
   phrase is a `Save`, for an identity when its record names the request; an import is a
   `MakeKey`, a record with the key that SQL has an `Adopt`, a bound role a `Give`, a guild
   approval a `Join`, a decided registration an `Enrol`. All else is a stutter, among it the
   whole of the locks, leases, crashes and losses.

`InventoryProofs` proves `BusyKeyIsNotHeld` for the case in which it is true
(`OnePageReleasesReserved`). Take any moment at which no run is under way, the start
or a later one. If from then on every run that begins finds at most `PageLimit`
unresolved records in the journal (`RunsBeginWithOnePage`), no run reports a key as
held for an identity that SQL reserves. The condition is about the pending journal
when a run begins: between runs it may grow past a page, a daemon may sign and complete
any number of transactions, and once a backlog is gone the theorem applies again.
What a run has looked at and still holds is unknown to SQL, since an orphan
has no submission at all (`OrphanIsForgotten`); it stays unknown, since the bytes were
signed and a row only gets fresh ones (`HeldInv`). For a run that begins with more than
one page the property is false, see section 5.

Only model-checked: the liveness properties (liveness under fairness and `ENABLED` are out of
the prover's reach). For the supervisor and the maintenance loop the proved action
properties are the part of them that is safety: each pass or page is progress. The type
invariants of `Provisioning`, `Requests`, `Supervisor` and `Maintenance` are theorems and
no run lists them. Leaves near the limit of the solver name a longer time (`SMTT(20)`).

## 5. Findings

`held_page`: `Journal.observe` removes identities that SQL reserves from the
held set only for the records of its page (`durable.py:141`). Beyond 32
unresolved records the address of a perfectly normal busy key is reported as
held, its key is reconciled as held, and pool planning, which wants a ready
source key (`store.py:155`), leaves it out until the cursor has come round; the
comment at `durable.py:157-159` says a reload must not do that. It is the safe
direction: nothing is sent twice because of it.

`starvation`: the recovery cursor goes back to the start only when a page is empty
(`runtime.py:150`). With two or more workers and new work that does not cease,
every pass claims at least one row with a higher id, which the next page finds
while it is still active; the page is never empty and the rows below the cursor
are not visited. Their keys stay reserved as long as the load lasts. The comment at
`runtime.py:147` promises capacity for both. With one worker the last slot is the
recovery's, so it cannot happen, and with a queue that ends at some point
(`supervisor`) it always ends. The cursors of `maintain` (`runtime.py:83-98`) wrap in
the same way, over requests that come one by one.

Not counted as findings, since nothing in the repository says otherwise. The cursors of
the journal and of the pool manager are fields of objects that are made anew
with each session (`runtime.py:73-76`). While every pass fails at some stage, of the
journal only the first 32 records are looked at and of the queue only the first 32
rows; the accounts and roles, whose cursors are locals of the loop, keep coming round. A retained pool
request that makes SQL raise each time would do just that, since it comes before
every other role (`pools.py:38`).

Not counted either, since the code says so: after a loss of the database a key
request repeated with its id, whose key the chain has registered meanwhile, is bound
and then stays `generating`; the error at `accounts.py:131-132` leaves it to the
operator. `AccountIsQueued` names this case as its exception.

## 6. Not modelled, and the plan

Not modelled: the SQL functions themselves, parsing and validation of answers
and byte strings (`rpc.py`, `worker.submission`, the JSON checks of
`durable.py`), configuration, health reports, the legacy shell agents.

Not modelled, because no property is about it: the checks of the signing CLI's output
one by one (`signer.py:93-146`; a row passes them or does not), the phrase an operator
types in, the health file (it repeats the times the supervisor already has).

Done: the send protocol, preparation, the supervisor, the maintenance loop, requests for
keys, key provisioning and role onboarding, each with its proofs; the refinements of
`OneAttempt`, `OneRequest` and `IdentityKeys`. Every safety invariant, action property and
refinement that a run checks is a theorem; `BusyKeyIsNotHeld`, which is false beyond one
page, is one where it is true. Left to prove: the part of the other liveness properties
that is safety, that is for each a measure no step but a fault increases, as there is for
the maintenance loop and the supervisor. Not to be modelled is the list above: it is either
code of another repository or about the form of data, which no property here depends on.
