---------------------------- MODULE Provisioning ------------------------------
(***************************************************************************)
(* How a key comes to be: Keys.ensure makes one for a request id,          *)
(* Roles.key_for remembers which one belongs to an onboarding identity,    *)
(* Accounts.process registers one that was requested for a role.  The      *)
(* volume survives everything; the database may be lost, and onboarding    *)
(* requests come back with other ids.                                      *)
(***************************************************************************)
EXTENDS Integers, FiniteSets

CONSTANTS
    Processes,     \* maintenance threads: the daemon's, and those it replaces
    Identities,    \* (guild, username) of onboarding requests
    RoleIds,       \* ids the database gives to onboarding requests
    AccountIds,    \* ids of key requests, retained by those who ask
    Phrases,       \* recovery phrases; a phrase stands for its key and address
    Legacy,        \* keys of the keyring that no request made
    Foreign,       \* keys of players that are in another keyring at first
    MaxRenewals,   \* bound: registrations queued again
    MaxLosses,     \* bound: losses of the database
    MaxStops,      \* bound: crashes, errors and lost sessions
    None

Ids == RoleIds \cup AccountIds
Keys == Phrases \cup Legacy \cup Foreign

ASSUME IdAssumption ==
    RoleIds \cap AccountIds = {} /\ Identities \cap AccountIds = {} /\ None \notin Ids
ASSUME KeyAssumption ==
    Phrases \cap (Legacy \cup Foreign) = {} /\ Legacy \cap Foreign = {} /\ None \notin Keys
ASSUME FaultAssumption == MaxLosses \in Nat /\ MaxStops \in Nat /\ MaxRenewals \in Nat

VARIABLES
    backup,        \* request_<id>.mnemonic on the volume
    keyring,       \* the key named tsa_request_<id>
    imported,      \* keys an operator has added under names of their own
    record,        \* role-keys/<digest>.json
    role,          \* SQL: the onboarding request of an identity
    account,       \* SQL: a requested account
    registered,    \* chain: key of an identity's player
    joined,        \* chain: keys registered for requested accounts
    proc,          \* a process: next call, task, what it has read, its session
    issued,        \* history: identity an onboarding id was given to
    bound,         \* history: keys given out for an identity
    losses, stops

volume == <<backup, keyring, imported, record>>
sql == <<role, account>>
chain == <<registered, joined>>
history == <<issued, bound>>
faults == <<losses, stops>>
vars == <<volume, sql, chain, proc, history, faults>>

Tasks == Identities \cup AccountIds
RoleRequests == [id : RoleIds, address : Keys \cup {None}, activated : BOOLEAN]
AccountRequests ==
    [address : Phrases \cup {None}, status : {"generating", "pending", "available"},
     tx : {"none", "queued", "failed", "committed"}, renewals : 0..MaxRenewals]
Records == [request : RoleIds \cup {None}, address : Keys \cup {None}]

ProcessStates ==
    [pc : {"idle", "key_for", "decide", "ensure", "show", "generate", "import",
           "save_role", "bind_role", "bind", "register", "renew"},
     task : Tasks \cup {None}, live : BOOLEAN, id : Ids \cup {None},
     request : RoleRequests \cup AccountRequests \cup {None},
     seen : Records \cup {None}, address : Keys \cup {None}]

ASSUME NoneAssumption == None \notin Tasks \cup RoleRequests \cup AccountRequests \cup Records

Idle == [pc |-> "idle", task |-> None, request |-> None, id |-> None, seen |-> None,
         address |-> None, live |-> FALSE]

\* The type invariant.  A record always leads to a key: it has an address or the
\* id that makes one (roles.py:37-42).
TypeOK ==
    /\ backup \in [Ids -> Phrases \cup {None}] /\ keyring \in [Ids -> Phrases \cup {None}]
    /\ imported \subseteq Foreign
    /\ record \in [Identities -> Records \cup {None}]
    /\ \A i \in Identities : record[i] # None => record[i] # [request |-> None, address |-> None]
    /\ role \in [Identities -> RoleRequests \cup {None}]
    /\ account \in [AccountIds -> AccountRequests \cup {None}]
    /\ registered \in [Identities -> Keys \cup {None}] /\ joined \subseteq Phrases
    /\ proc \in [Processes -> ProcessStates]
    /\ issued \in [RoleIds -> Identities \cup {None}] /\ bound \in [Identities -> SUBSET Keys]
    /\ losses \in 0..MaxLosses /\ stops \in 0..MaxStops

Init ==
    /\ backup = [r \in Ids |-> None] /\ keyring = [r \in Ids |-> None]
    /\ imported = {} /\ record = [i \in Identities |-> None]
    /\ role = [i \in Identities |-> None] /\ account = [a \in AccountIds |-> None]
    /\ registered \in [Identities -> Legacy \cup Foreign \cup {None}] /\ joined = {}
    /\ proc = [p \in Processes |-> Idle]
    /\ issued = [r \in RoleIds |-> None] /\ bound = [i \in Identities |-> {}]
    /\ losses = 0 /\ stops = 0

-----------------------------------------------------------------------------
(* The application, the database and the chain *)

\* A database that knows the player's registered key says so.
AskRole(i) ==
    /\ role[i] = None
    /\ \E r \in RoleIds :
         /\ issued[r] = None /\ issued' = [issued EXCEPT ![r] = i]
         /\ role' = [role EXCEPT ![i] = [id |-> r, address |-> registered[i], activated |-> FALSE]]
    /\ UNCHANGED <<volume, account, chain, proc, bound, faults>>

\* Whoever asks for an account repeats the same id after a loss.
AskAccount(a) ==
    /\ account[a] = None
    /\ account' = [account EXCEPT ![a] = [address |-> None, status |-> "generating",
                                          tx |-> "none", renewals |-> 0]]
    /\ UNCHANGED <<volume, role, chain, proc, history, faults>>

LoseDatabase ==
    /\ losses < MaxLosses /\ losses' = losses + 1
    /\ role' = [i \in Identities |-> None] /\ account' = [a \in AccountIds |-> None]
    /\ proc' = [p \in Processes |-> [proc[p] EXCEPT !.live = FALSE]]
    /\ UNCHANGED <<volume, chain, history, stops>>

\* A guild accepts the proof of a key; a registration is decided.
Join(i) ==
    /\ registered[i] = None
    /\ \E k \in bound[i] : registered' = [registered EXCEPT ![i] = k]
    /\ UNCHANGED <<volume, sql, joined, proc, history, faults>>

Decide(a) ==
    /\ account[a] # None /\ account[a].tx = "queued"
    /\ \E tx \in {"committed", "failed"} :
         /\ account' = [account EXCEPT ![a].tx = tx]
         /\ joined' = IF tx = "committed" THEN joined \cup {account[a].address} ELSE joined
    /\ UNCHANGED <<volume, role, registered, proc, history, faults>>

-----------------------------------------------------------------------------
(* A process.  Its row lease lasts as long as its session, its file locks  *)
(* as long as it is inside the functions that take them.                   *)

At(p, pc) == proc[p].pc = pc
Goto(p, next) == proc' = [proc EXCEPT ![p].pc = next]
Finish(p) == proc' = [proc EXCEPT ![p] = Idle]
OnlyProc == UNCHANGED <<volume, sql, chain, history, faults>>

Leased(t) == \E p \in Processes : proc[p].task = t /\ proc[p].live
KeyringLocked == \E p \in Processes : proc[p].pc \in {"show", "generate", "import"}
RoleLocked ==
    \E p \in Processes : proc[p].task \in Identities
        /\ proc[p].pc \in {"decide", "ensure", "show", "generate", "import", "save_role"}
Local == Legacy \cup imported \cup ({keyring[r] : r \in Ids} \ {None})

Begin(p, t, request, id, next) ==
    /\ At(p, "idle") /\ ~Leased(t)
    /\ proc' = [proc EXCEPT ![p] = [Idle EXCEPT !.pc = next, !.task = t, !.request = request,
                                                !.id = id, !.live = TRUE]]
    /\ OnlyProc

\* An early return, an error, a lost acknowledgement or a killed process.
Stop(p) ==
    /\ ~At(p, "idle") /\ stops < MaxStops /\ stops' = stops + 1
    /\ Finish(p)
    /\ UNCHANGED <<volume, sql, chain, history, losses>>

Disconnect(p) ==
    /\ proc[p].live /\ stops < MaxStops /\ stops' = stops + 1
    /\ proc' = [proc EXCEPT ![p].live = FALSE]
    /\ UNCHANGED <<volume, sql, chain, history, losses>>

\* A process whose session is gone finds out at its next call of the database.
Refused(p) ==
    /\ ~proc[p].live /\ proc[p].pc \in {"bind_role", "bind", "register", "renew"}
    /\ Finish(p) /\ OnlyProc

-----------------------------------------------------------------------------
(* Keys.ensure, under the keyring lock *)

EnsureUnlocked(p) == At(p, "ensure") /\ Goto(p, "show") /\ OnlyProc

Ensure(p) == At(p, "ensure") /\ ~KeyringLocked /\ Goto(p, "show") /\ OnlyProc

Ensured(p, key) ==
    proc' = [proc EXCEPT ![p].address = key,
                         ![p].pc = IF proc[p].task \in Identities THEN "save_role" ELSE "bind"]

ShowKey(p) ==
    /\ At(p, "show") /\ keyring[proc[p].id] # None /\ backup[proc[p].id] # None
    /\ Ensured(p, keyring[proc[p].id]) /\ OnlyProc

\* The lookup of the name may also fail although there is such a key.
ShowNothing(p) ==
    /\ At(p, "show")
    /\ Goto(p, IF backup[proc[p].id] = None THEN "generate" ELSE "import")
    /\ OnlyProc

Fresh == {k \in Phrases : \A r \in Ids : backup[r] # k /\ keyring[r] # k}

GenerateUnsaved(p) ==
    /\ At(p, "generate") /\ keyring[proc[p].id] = None
    /\ \E k \in Fresh : keyring' = [keyring EXCEPT ![proc[p].id] = k] /\ Ensured(p, k)
    /\ UNCHANGED <<backup, imported, record, sql, chain, history, faults>>

\* A fresh phrase is on the disk before it becomes a key.
Generate(p) ==
    /\ At(p, "generate")
    /\ \E k \in Fresh : backup' = [backup EXCEPT ![proc[p].id] = k]
    /\ Goto(p, "import")
    /\ UNCHANGED <<keyring, imported, record, sql, chain, history, faults>>

Import(p) ==
    /\ At(p, "import") /\ keyring[proc[p].id] = None
    /\ keyring' = [keyring EXCEPT ![proc[p].id] = backup[proc[p].id]]
    /\ Ensured(p, backup[proc[p].id])
    /\ UNCHANGED <<backup, imported, record, sql, chain, history, faults>>

\* The CLI refuses a name that exists.
ImportRefused(p) ==
    /\ At(p, "import") /\ keyring[proc[p].id] # None
    /\ Finish(p) /\ OnlyProc

\* operator.import_key: the lock is taken for the one command that adds the key.
ImportKey(key) ==
    /\ key \in Foreign \ imported /\ ~KeyringLocked
    /\ imported' = imported \cup {key}
    /\ UNCHANGED <<backup, keyring, record, sql, chain, proc, history, faults>>

-----------------------------------------------------------------------------
(* Roles.process, and Roles.key_for under the role lock *)

StartRole(p, i) ==
    /\ role[i] # None /\ ~role[i].activated
    /\ Begin(p, i, role[i], None, "key_for")

OpenRecordUnlocked(p) ==
    /\ At(p, "key_for")
    /\ proc' = [proc EXCEPT ![p].seen = record[proc[p].task], ![p].pc = "decide"]
    /\ OnlyProc

OpenRecord(p) ==
    /\ At(p, "key_for") /\ ~RoleLocked
    /\ proc' = [proc EXCEPT ![p].seen = record[proc[p].task], ![p].pc = "decide"]
    /\ OnlyProc

SaveRecord(p, id, key) ==
    record' = [record EXCEPT ![proc[p].task] = [request |-> id, address |-> key]]

\* The key SQL has, or else the one of the record.
Known(p) ==
    LET asked == proc[p].request.address IN
    IF asked # None \/ proc[p].seen = None THEN asked ELSE proc[p].seen.address

Agrees(p) ==
    proc[p].seen # None => proc[p].seen.address \in {None, Known(p)}

\* A known key is the answer if it is local; a first record of it is kept.
AnswerKnown(p) ==
    /\ At(p, "decide") /\ Known(p) \in Local /\ Agrees(p)
    /\ IF proc[p].seen = None THEN SaveRecord(p, None, Known(p)) ELSE UNCHANGED record
    /\ proc' = [proc EXCEPT ![p].address = Known(p), ![p].pc = "bind_role"]
    /\ UNCHANGED <<backup, keyring, imported, sql, chain, history, faults>>

KeyForFails(p) ==
    /\ At(p, "decide") /\ Known(p) # None
    /\ Known(p) \notin Local \/ ~Agrees(p)
    /\ Finish(p) /\ OnlyProc

Making(p, id) ==
    /\ At(p, "decide") /\ Known(p) = None
    /\ proc' = [proc EXCEPT ![p].id = id, ![p].pc = "ensure"]
    /\ UNCHANGED <<backup, keyring, imported, sql, chain, history, faults>>

MakeUnsaved(p) == Making(p, proc[p].request.id) /\ UNCHANGED record

MakeOnce(p) ==
    /\ proc[p].seen = None
    /\ Making(p, proc[p].request.id) /\ SaveRecord(p, proc[p].request.id, None)

\* The first request of an identity gives it the id its key is made from, and
\* later requests use that id again.
Make(p) ==
    IF proc[p].seen = None
    THEN Making(p, proc[p].request.id) /\ SaveRecord(p, proc[p].request.id, None)
    ELSE Making(p, proc[p].seen.request) /\ UNCHANGED record

SaveRole(p) ==
    /\ At(p, "save_role")
    /\ SaveRecord(p, proc[p].id, proc[p].address)
    /\ Goto(p, "bind_role")
    /\ UNCHANGED <<backup, keyring, imported, sql, chain, history, faults>>

\* The guild wants a proof of the key, made with the key itself under its lock.
GuildProof(key) == key \in Local

\* A key with a player is activated, any other gets its proof into SQL, which
\* takes it for the same request and the same key only.
BindRole(p) ==
    /\ At(p, "bind_role") /\ proc[p].live
    /\ registered[proc[p].task] = proc[p].address \/ ~KeyringLocked
    /\ LET i == proc[p].task key == proc[p].address IN
       IF role[i] # None /\ role[i].id = proc[p].request.id /\ role[i].address \in {None, key}
            /\ (registered[i] = key \/ GuildProof(key))
       THEN /\ role' = IF registered[i] = key THEN [role EXCEPT ![i].activated = TRUE]
                       ELSE [role EXCEPT ![i].address = key]
            /\ bound' = [bound EXCEPT ![i] = @ \cup {key}]
       ELSE UNCHANGED <<role, bound>>
    /\ Finish(p)
    /\ UNCHANGED <<volume, account, chain, issued, faults>>

-----------------------------------------------------------------------------
(* Accounts.process *)

Renewing(p, a) ==
    /\ account[a].status = "pending" /\ account[a].renewals < MaxRenewals
    /\ Begin(p, a, account[a], a, "renew")

StartAnyAccount(p, a) ==
    /\ account[a] # None
    /\ \/ account[a].status = "generating" /\ Begin(p, a, account[a], a, "ensure")
       \/ Renewing(p, a)

\* A registration is renewed once SQL says that it failed.
StartAccount(p, a) ==
    /\ account[a] # None
    /\ \/ account[a].status = "generating" /\ Begin(p, a, account[a], a, "ensure")
       \/ account[a].tx = "failed" /\ Renewing(p, a)

\* The confirmed registration makes the account available.
Activate(p, a) ==
    /\ At(p, "idle") /\ ~Leased(a) /\ account[a] # None
    /\ account[a].status = "pending" /\ account[a].tx = "committed"
    /\ account' = [account EXCEPT ![a].status = "available"]
    /\ UNCHANGED <<volume, role, chain, proc, history, faults>>

BindIf(p, allowed) ==
    /\ At(p, "bind") /\ proc[p].live
    /\ LET a == proc[p].task IN
       IF account[a] # None /\ account[a].status = "generating" /\ allowed
       THEN account' = [account EXCEPT ![a].address = proc[p].address] /\ Goto(p, "register")
       ELSE Finish(p) /\ UNCHANGED account
    /\ UNCHANGED <<volume, role, chain, history, faults>>

BindOnce(p) == BindIf(p, proc[p].request.address = None)

\* A request that is already bound must be bound to the same key.
Bind(p) == BindIf(p, proc[p].request.address \in {None, proc[p].address})

SavedPhrase(a) == backup[a]

\* The proof is made from the saved phrase, for a key without a player.
Proof(key, a) == key \notin joined /\ SavedPhrase(a) = key

Register(p) ==
    /\ At(p, "register") /\ proc[p].live
    /\ LET a == proc[p].task IN
       account' = IF account[a] # None /\ account[a].status = "generating"
                       /\ Proof(proc[p].address, a)
                  THEN [account EXCEPT ![a].status = "pending", ![a].tx = "queued"]
                  ELSE account
    /\ Finish(p)
    /\ UNCHANGED <<volume, role, chain, history, faults>>

Renew(p) ==
    /\ At(p, "renew") /\ proc[p].live
    /\ LET a == proc[p].task IN
       account' = IF account[a] # None /\ account[a].status = "pending"
                       /\ Proof(proc[p].request.address, a)
                  THEN [account EXCEPT ![a].tx = "queued", ![a].renewals = @ + 1]
                  ELSE account
    /\ Finish(p)
    /\ UNCHANGED <<volume, role, chain, history, faults>>

-----------------------------------------------------------------------------
Start(p, t) == IF t \in Identities THEN StartRole(p, t) ELSE StartAccount(p, t)

Advance(p) ==
    \/ Ensure(p) \/ ShowKey(p) \/ ShowNothing(p) \/ Generate(p) \/ Import(p) \/ ImportRefused(p)
    \/ OpenRecord(p) \/ AnswerKnown(p) \/ KeyForFails(p) \/ Make(p) \/ SaveRole(p) \/ BindRole(p)
    \/ Bind(p) \/ Register(p) \/ Renew(p) \/ Refused(p)

Next ==
    \/ LoseDatabase
    \/ \E key \in Foreign : ImportKey(key)
    \/ \E i \in Identities : AskRole(i) \/ Join(i)
    \/ \E a \in AccountIds : AskAccount(a) \/ Decide(a)
    \/ \E p \in Processes :
         \/ Advance(p) \/ Stop(p) \/ Disconnect(p)
         \/ \E t \in Tasks : Start(p, t)
         \/ \E a \in AccountIds : Activate(p, a)

Spec == Init /\ [][Next]_vars

-----------------------------------------------------------------------------
(* Safety *)

\* Every key of a request can be made again from its phrase, whenever the process
\* was killed (accounts.py:72-73).
KeyHasBackup == \A r \in Ids : keyring[r] # None => backup[r] = keyring[r]

\* An identity has one key, which neither a crash nor a second process nor a
\* database with new request ids replaces (roles.py:20-22;
\* tests/database_integration.py:147: SQL reconstruction must not replace a
\* surviving role key).
OneKeyPerIdentity ==
    \A i \in Identities :
        LET made == {backup[r] : r \in {id \in RoleIds : issued[id] = i}} \ {None}
        IN Cardinality(bound[i] \cup made) <= 1

\* The key that SQL has for a requested account is the one whose phrase was
\* saved for that request, so its registration can always be proved again
\* (accounts.py:134-136, 150-154).
BoundIsRecoverable ==
    \A a \in AccountIds :
        account[a] # None /\ account[a].address # None =>
            account[a].address = backup[a] /\ account[a].address = keyring[a]

\* A registration is queued again only after the one before it failed
\* (accounts.py:162-165).
NoSecondRegistration ==
    [][\A a \in AccountIds :
          account[a] # None /\ account'[a] # None /\ account'[a].renewals > account[a].renewals
            => account[a].tx = "failed"]_vars

-----------------------------------------------------------------------------
(* Refinement: files, rows and processes, as IdentityKeys sees them.       *)

\* The key of an identity is the one its record leads to.
KeyOf(i) ==
    IF record[i] = None THEN None
    ELSE IF record[i].request # None THEN backup[record[i].request] ELSE record[i].address

Promise == INSTANCE IdentityKeys
    WITH Others <- Legacy \cup Foreign, phrase <- backup, key <- keyring,
         chosen <- [i \in Identities |-> KeyOf(i)], given <- bound,
         player <- registered, enrolled <- joined

\* Every step of provisioning is a step of IdentityKeys or leaves it alone: phrases
\* are saved first and never replaced, and an identity keeps the one key that was
\* chosen for it, through crashes, overlapping processes and lost databases
\* (accounts.py:63-84, roles.py:20-50).
ImplementsIdentityKeys == Promise!Spec

-----------------------------------------------------------------------------
(* Liveness.  The maintenance loop takes every request again and again, a  *)
(* lookup in the keyring succeeds at some point, and the faults cease.     *)

Fairness ==
    /\ \A p \in Processes : WF_vars(Advance(p))
    /\ \A p \in Processes, r \in Ids : SF_vars(proc[p].id = r /\ ShowKey(p))
    /\ \A t \in Tasks : SF_vars(\E p \in Processes : Start(p, t))

LiveSpec == Spec /\ Fairness

\* An onboarding request gets its key into SQL (roles.py:68, 88).
RoleIsBound ==
    \A i \in Identities :
        role[i] # None ~> (role[i] = None \/ role[i].address # None \/ role[i].activated)

\* A requested account gets as far as its registration, unless the chain knows
\* its key already from a request of a lost database (accounts.py:131-132,
\* 149-157).
AccountIsQueued ==
    \A a \in AccountIds :
        account[a] # None ~>
            \/ account[a] = None \/ account[a].status # "generating"
            \/ account[a].address \in joined
==============================================================================
