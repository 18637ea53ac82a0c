-------------------------- MODULE ProvisioningProofs --------------------------
(***************************************************************************)
(* Proofs about Provisioning, for every number of processes, identities,   *)
(* requests, keys, losses and crashes.                                     *)
(***************************************************************************)
EXTENDS Provisioning, FiniteSetTheorems, TLAPS

Inside == {"show", "generate", "import"}
Ensuring == {"ensure", "show", "generate", "import"}
InRole == {"decide", "ensure", "show", "generate", "import", "save_role"}

\* What a process works on tells what it may do.
Working(p) ==
    /\ At(p, "idle") => proc[p] = Idle
    /\ ~At(p, "idle") => proc[p].task \in Tasks
    /\ proc[p].task \in Identities =>
         /\ proc[p].request \in RoleRequests
         /\ proc[p].pc \in InRole \cup {"key_for", "bind_role"}
    /\ proc[p].task \in AccountIds =>
         /\ proc[p].request \in AccountRequests /\ proc[p].id = proc[p].task
         /\ proc[p].pc \in Ensuring \cup {"bind", "register", "renew"}

WorkInv == \A p \in Processes : Working(p)

\* The two file locks and the leases.
KeyringInv == \A p, q \in Processes :
    proc[p].pc \in Inside /\ proc[q].pc \in Inside => p = q
RoleInv == \A p, q \in Processes :
    /\ proc[p].task \in Identities /\ proc[p].pc \in InRole
    /\ proc[q].task \in Identities /\ proc[q].pc \in InRole
    => p = q
LeaseInv == \A p, q \in Processes :
    proc[p].live /\ proc[q].live /\ proc[p].task = proc[q].task => p = q

\* What a process knows about the phrase and the key of its id.
KeyKnown(p) ==
    /\ At(p, "generate") => backup[proc[p].id] = None
    /\ At(p, "import") => backup[proc[p].id] # None
    /\ proc[p].pc \in {"save_role", "bind", "register"} =>
         /\ proc[p].address # None
         /\ proc[p].address = backup[proc[p].id] /\ proc[p].address = keyring[proc[p].id]
    /\ proc[p].pc \in Ensuring \cup {"save_role"} => proc[p].id # None

KeyInv == \A p \in Processes : KeyKnown(p)

\* What a lease keeps true of the account.
AccountKnown(p) ==
    LET a == proc[p].task IN
    /\ proc[p].live /\ proc[p].pc \in {"register", "renew"} =>
         account[a] # None /\ account[a].address # None
    /\ proc[p].live /\ At(p, "renew") =>
         account[a].tx = "failed" /\ account[a].renewals < MaxRenewals

AccountInv ==
    /\ \A p \in Processes : AccountKnown(p)
    /\ \A a \in AccountIds :
         account[a] # None /\ account[a].tx # "none" => account[a].address # None

\* An address that was read from SQL is the identity's, and only an identity
\* without a key of its own has none.
Asked(i, address) ==
    /\ address # None => address = registered[i] \/ address \in bound[i]
    /\ address = None => registered[i] = None \/ registered[i] \in bound[i]

OneKey(i) ==
    /\ bound[i] \subseteq {KeyOf(i)} \ {None}
    /\ \A r \in RoleIds : issued[r] = i /\ backup[r] # None =>
         record[i] # None /\ record[i].request = r
    /\ record[i] # None =>
         /\ record[i].address # None => record[i].address = KeyOf(i)
         /\ registered[i] # None => registered[i] = KeyOf(i)
         /\ record[i].request # None => issued[record[i].request] = i
    /\ role[i] # None => issued[role[i].id] = i /\ Asked(i, role[i].address)

IdentityKnown(p) ==
    LET i == proc[p].task IN
    i \in Identities =>
        /\ issued[proc[p].request.id] = i /\ Asked(i, proc[p].request.address)
        /\ At(p, "decide") => proc[p].seen = record[i]
        /\ proc[p].pc \in Ensuring \cup {"save_role"} =>
             record[i] # None /\ record[i].request = proc[p].id
        /\ At(p, "bind_role") =>
             record[i] # None /\ proc[p].address # None /\ proc[p].address = KeyOf(i)

IdentityInv ==
    /\ \A i \in Identities : OneKey(i)
    /\ \A p \in Processes : IdentityKnown(p)
    /\ \A r \in RoleIds : issued[r] = None => backup[r] = None

PVInv ==
    /\ TypeOK /\ WorkInv /\ KeyringInv /\ RoleInv /\ LeaseInv
    /\ KeyInv /\ AccountInv /\ IdentityInv /\ KeyHasBackup /\ BoundIsRecoverable

-----------------------------------------------------------------------------
(* The disjuncts of Next, and which of them a process takes.               *)

ProcessStep(p) ==
    \/ Advance(p) \/ Stop(p) \/ Disconnect(p)
    \/ \E t \in Tasks : Start(p, t)

LEMMA IdleType == Idle \in ProcessStates
BY DEF Idle, ProcessStates

\* A step of a process changes no other one.
LEMMA OthersStay ==
    ASSUME TypeOK, NEW p \in Processes, ProcessStep(p)
    PROVE  \A q \in Processes \ {p} : proc'[q] = proc[q]
BY DEF TypeOK, ProcessStep, Advance, Stop, Disconnect, Start, StartRole, StartAccount, Renewing, Begin,
   Ensure, ShowKey, ShowNothing, Generate, Import, ImportRefused, OpenRecord, AnswerKnown, KeyForFails,
   Make, Making, SaveRole, BindRole, Bind, BindIf, Register, Renew, Refused, Ensured, Goto, Finish

LEMMA RoleType ==
    ASSUME NEW request \in RoleRequests, NEW key \in Keys
    PROVE  /\ [request EXCEPT !.activated = TRUE] \in RoleRequests
           /\ [request EXCEPT !.address = key] \in RoleRequests
BY DEF RoleRequests

LEMMA AnswerType ==
    ASSUME NEW state \in ProcessStates, NEW key \in Keys
    PROVE  [state EXCEPT !.address = key, !.pc = "bind_role"] \in ProcessStates
BY DEF ProcessStates

LEMMA QueueType ==
    ASSUME NEW request \in AccountRequests
    PROVE  [request EXCEPT !.status = "pending", !.tx = "queued"] \in AccountRequests
BY DEF AccountRequests

LEMMA GotoType ==
    ASSUME TypeOK, NEW p \in Processes, NEW next, Goto(p, next),
           next \in {"show", "generate", "import", "save_role", "bind_role", "register"}
    PROVE  proc' \in [Processes -> ProcessStates]
<1>1. [proc[p] EXCEPT !.pc = next] \in ProcessStates
  BY DEF TypeOK, ProcessStates
<1> QED  BY <1>1 DEF TypeOK, Goto

LEMMA TypeStep ==
    ASSUME PVInv, NEW p \in Processes, ProcessStep(p)
    PROVE  TypeOK'
<1> USE IdleType, IdAssumption, KeyAssumption, NoneAssumption, FaultAssumption
    DEF PVInv, TypeOK, OnlyProc, volume, sql, chain, history, faults, Goto, Finish, At
<1>1. CASE Ensure(p)
  BY <1>1, GotoType DEF Ensure
<1>2. CASE ShowKey(p)
  BY <1>2 DEF ShowKey, Ensured, ProcessStates, WorkInv, Working, Tasks, KeyInv, KeyKnown, Ensuring, Ids, Keys
<1>3. CASE ShowNothing(p)
  BY <1>3, GotoType DEF ShowNothing
<1>4. CASE Generate(p)
  <2>1. proc' \in [Processes -> ProcessStates]
    BY <1>4, GotoType DEF Generate
  <2>2. backup' \in [Ids -> Phrases \cup {None}]
    BY <1>4 DEF Generate, Fresh
  <2> QED  BY <1>4, <2>1, <2>2 DEF Generate
<1>5. CASE Import(p)
  BY <1>5 DEF Import, Ensured, ProcessStates, KeyInv, KeyKnown, Ensuring, Ids, Keys
<1>6. CASE ImportRefused(p)
  BY <1>6 DEF ImportRefused, ProcessStates
<1>7. CASE OpenRecord(p)
  BY <1>7 DEF OpenRecord, ProcessStates, WorkInv, Working, Ensuring, Tasks, InRole
<1>8. CASE AnswerKnown(p)
  <2> DEFINE i == proc[p].task  new == [request |-> None, address |-> Known(p)]
  <2>1. i \in Identities
    BY <1>8 DEF AnswerKnown, WorkInv, Working, Ensuring, Tasks
  <2>2. Known(p) \in Keys
    BY <1>8 DEF AnswerKnown, Local, Keys
  <2>3. new \in Records /\ new # [request |-> None, address |-> None]
    BY <2>2 DEF Records, Keys
  <2>4. /\ record' \in [Identities -> Records \cup {None}]
        /\ \A j \in Identities : record'[j] # None => record'[j] # [request |-> None, address |-> None]
    BY <1>8, <2>1, <2>3 DEF AnswerKnown, SaveRecord
  <2>5. [proc[p] EXCEPT !.address = Known(p), !.pc = "bind_role"] \in ProcessStates
    BY <2>2, AnswerType
  <2> QED  BY <1>8, <2>4, <2>5 DEF AnswerKnown
<1>9. CASE KeyForFails(p)
  BY <1>9 DEF KeyForFails
<1>10. CASE Make(p)
  BY <1>10, SMTT(20) DEF Make, Making, SaveRecord, ProcessStates, WorkInv, Working, Ensuring, Tasks, Known, Records, RoleRequests, Ids
<1>11. CASE SaveRole(p)
  <2> DEFINE i == proc[p].task  new == [request |-> proc[p].id, address |-> proc[p].address]
  <2>1. i \in Identities /\ At(p, "save_role") /\ proc[p].address # None
    BY <1>11 DEF SaveRole, WorkInv, Working, Tasks, Ensuring, KeyInv, KeyKnown
  <2>2. record[i] \in Records /\ record[i].request = proc[p].id
    BY <2>1 DEF IdentityInv, IdentityKnown
  <2>3. new \in Records /\ new # [request |-> None, address |-> None]
    BY <2>1, <2>2 DEF Records, ProcessStates
  <2>4. record' = [record EXCEPT ![i] = new]
    BY <1>11 DEF SaveRole, SaveRecord
  <2>5. /\ record' \in [Identities -> Records \cup {None}]
        /\ \A j \in Identities : record'[j] # None => record'[j] # [request |-> None, address |-> None]
    BY <2>1, <2>3, <2>4
  <2>6. proc' \in [Processes -> ProcessStates]
    BY <1>11, GotoType DEF SaveRole
  <2> QED  BY <1>11, <2>5, <2>6 DEF SaveRole
<1>12. CASE BindRole(p)
  <2> DEFINE i == proc[p].task  key == proc[p].address
  <2>1. i \in Identities /\ key \in Keys
    BY <1>12 DEF BindRole, ProcessStates, WorkInv, Working, Ensuring, Tasks, InRole, IdentityInv, IdentityKnown
  <2>2. role[i] # None => /\ [role[i] EXCEPT !.activated = TRUE] \in RoleRequests
                          /\ [role[i] EXCEPT !.address = key] \in RoleRequests
    BY <2>1, RoleType
  <2>3. role' \in [Identities -> RoleRequests \cup {None}]
    BY <1>12, <2>1, <2>2 DEF BindRole
  <2>4. bound' \in [Identities -> SUBSET Keys]
    BY <1>12, <2>1 DEF BindRole
  <2> QED  BY <1>12, <2>3, <2>4 DEF BindRole
<1>13. CASE Bind(p)
  <2> DEFINE a == proc[p].task
  <2>1. proc' \in [Processes -> ProcessStates]
    BY <1>13, GotoType DEF Bind, BindIf
  <2>2. a \in AccountIds /\ proc[p].address \in Phrases
    BY <1>13 DEF Bind, BindIf, WorkInv, Working, Tasks, KeyInv, KeyKnown, InRole, Ensuring, Ids
  <2>3. account' \in [AccountIds -> AccountRequests \cup {None}]
    BY <1>13, <2>2 DEF Bind, BindIf, AccountRequests
  <2> QED  BY <1>13, <2>1, <2>3 DEF Bind, BindIf
<1>14. CASE Register(p)
  <2> DEFINE a == proc[p].task
  <2>1. a \in AccountIds
    BY <1>14 DEF Register, WorkInv, Working, Tasks, InRole
  <2>2. account[a] # None => [account[a] EXCEPT !.status = "pending", !.tx = "queued"] \in AccountRequests
    BY <2>1, QueueType
  <2>3. account' \in [AccountIds -> AccountRequests \cup {None}]
    BY <1>14, <2>1, <2>2 DEF Register
  <2> QED  BY <1>14, <2>3 DEF Register
<1>15. CASE Renew(p)
  <2> DEFINE a == proc[p].task
  <2>1. a \in AccountIds /\ (account[a] # None => account[a].renewals < MaxRenewals)
    BY <1>15 DEF Renew, WorkInv, Working, Tasks, InRole, AccountInv, AccountKnown
  <2>2. account[a] # None =>
          /\ account[a] \in AccountRequests /\ account[a].renewals + 1 \in 0..MaxRenewals
    BY <2>1 DEF AccountRequests
  <2>3. account[a] # None => [account[a] EXCEPT !.tx = "queued", !.renewals = @ + 1] \in AccountRequests
    BY <2>2 DEF AccountRequests
  <2>4. account' \in [AccountIds -> AccountRequests \cup {None}]
    BY <1>15, <2>1, <2>3 DEF Renew
  <2> QED  BY <1>15, <2>4 DEF Renew
<1>16. CASE Refused(p)
  BY <1>16 DEF Refused
<1>17. CASE Stop(p)
  BY <1>17 DEF Stop
<1>18. CASE Disconnect(p)
  <2>1. [proc[p] EXCEPT !.live = FALSE] \in ProcessStates
    <3>1. proc[p] \in ProcessStates
      OBVIOUS
    <3> HIDE DEF TypeOK
    <3> QED  BY <3>1 DEF ProcessStates
  <2> QED  BY <1>18, <2>1 DEF Disconnect
<1>19. CASE \E t \in Tasks : Start(p, t)
  <2>1. PICK t \in Tasks, request \in RoleRequests \cup AccountRequests,
             id \in Ids \cup {None}, next \in {"key_for", "ensure", "renew"} :
             Begin(p, t, request, id, next)
    BY <1>19 DEF Start, StartRole, StartAccount, Renewing, Tasks, Ids
  <2>2. [Idle EXCEPT !.pc = next, !.task = t, !.request = request, !.id = id, !.live = TRUE]
          \in ProcessStates
    BY <2>1 DEF Idle, ProcessStates
  <2> QED  BY <2>1, <2>2 DEF Begin
<1> QED  BY <1>1, <1>2, <1>3, <1>4, <1>5, <1>6, <1>7, <1>8, <1>9, <1>10, <1>11, <1>12, <1>13, <1>14,
            <1>15, <1>16, <1>17, <1>18, <1>19 DEF ProcessStep, Advance

-----------------------------------------------------------------------------
(* What a process works on, and who holds which lock *)

\* The ways of a process, without what it does to the files and to SQL.
Way(p, from, to) ==
    /\ proc[p].pc = from /\ proc'[p].pc = to
    /\ proc'[p].task = proc[p].task /\ proc'[p].request = proc[p].request
    /\ proc'[p].live = proc[p].live
    /\ from # "decide" => proc'[p].id = proc[p].id

Ways(p) ==
    \/ Way(p, "ensure", "show") /\ ~KeyringLocked
    \/ Way(p, "show", "generate") \/ Way(p, "show", "import") \/ Way(p, "generate", "import")
    \/ /\ Way(p, "show", "save_role") \/ Way(p, "import", "save_role")
       /\ proc[p].task \in Identities
    \/ /\ Way(p, "show", "bind") \/ Way(p, "import", "bind")
       /\ proc[p].task \notin Identities
    \/ Way(p, "key_for", "decide") /\ ~RoleLocked
    \/ Way(p, "decide", "bind_role") \/ Way(p, "decide", "ensure")
    \/ Way(p, "save_role", "bind_role") \/ Way(p, "bind", "register")

Begins(p) ==
    \/ \E i \in Identities : Begin(p, i, role[i], None, "key_for") /\ role[i] # None
    \/ \E a \in AccountIds, next \in {"ensure", "renew"} :
         /\ Begin(p, a, account[a], a, next) /\ account[a] # None
         /\ next = "renew" => account[a].tx = "failed" /\ account[a].renewals < MaxRenewals

LEMMA Moves ==
    ASSUME TypeOK, NEW p \in Processes, ProcessStep(p)
    PROVE  \/ proc'[p] = Idle
           \/ proc'[p] = [proc[p] EXCEPT !.live = FALSE] /\ proc[p].live
           \/ Ways(p) \/ Begins(p)
<1>0. Bind(p) => At(p, "bind") /\ (Goto(p, "register") \/ Finish(p))
  BY DEF Bind, BindIf
<1> USE DEF TypeOK, At, Goto, Finish, Ensured, Ways, Way, ProcessStates
<1>1. CASE Ensure(p)
  BY <1>1 DEF Ensure
<1>2. CASE ShowKey(p)
  BY <1>2 DEF ShowKey
<1>3. CASE Import(p)
  BY <1>3 DEF Import
<1>4. CASE ShowNothing(p)
  BY <1>4 DEF ShowNothing
<1>5. CASE Generate(p)
  BY <1>5 DEF Generate
<1>6. CASE ImportRefused(p) \/ KeyForFails(p) \/ Refused(p) \/ Stop(p) \/ BindRole(p)
             \/ Register(p) \/ Renew(p)
  BY <1>6 DEF ImportRefused, KeyForFails, Refused, Stop, BindRole, Register, Renew
<1>7. CASE OpenRecord(p)
  BY <1>7 DEF OpenRecord
<1>8. CASE AnswerKnown(p)
  BY <1>8 DEF AnswerKnown
<1>9. CASE Make(p)
  BY <1>9 DEF Make, Making
<1>10. CASE SaveRole(p)
  BY <1>10 DEF SaveRole
<1>11. CASE Bind(p)
  BY <1>0, <1>11
<1>12. CASE Disconnect(p)
  BY <1>12 DEF Disconnect
<1>13. CASE \E t \in Tasks : Start(p, t)
  <2>1. CASE \E i \in Identities : StartRole(p, i)
    BY <2>1 DEF StartRole, Begins
  <2>2. CASE \E a \in AccountIds : StartAccount(p, a)
    BY <2>2 DEF StartAccount, Renewing, Begins
  <2> QED  BY <1>13, <2>1, <2>2 DEF Start, Tasks
<1> QED  BY <1>1, <1>2, <1>3, <1>4, <1>5, <1>6, <1>7, <1>8, <1>9, <1>10, <1>11, <1>12, <1>13
         DEF ProcessStep, Advance

LEMMA BeginType ==
    ASSUME TypeOK, NEW p \in Processes, Begins(p)
    PROVE  /\ proc[p].pc = "idle" /\ proc'[p].live /\ ~Leased(proc'[p].task)
           /\ \/ /\ proc'[p].pc = "key_for" /\ proc'[p].task \in Identities
                 /\ proc'[p].request = role[proc'[p].task] /\ proc'[p].request \in RoleRequests
              \/ /\ proc'[p].pc \in {"ensure", "renew"} /\ proc'[p].task \in AccountIds
                 /\ proc'[p].request = account[proc'[p].task]
                 /\ proc'[p].request \in AccountRequests
                 /\ proc'[p].id = proc'[p].task
                 /\ proc'[p].pc = "renew" =>
                      proc'[p].request.tx = "failed" /\ proc'[p].request.renewals < MaxRenewals
           /\ account' = account
<1>1. ASSUME NEW t \in Tasks, NEW request, NEW id, NEW next, Begin(p, t, request, id, next)
      PROVE  /\ proc[p].pc = "idle" /\ ~Leased(t)
             /\ proc'[p].live /\ proc'[p].task = t /\ proc'[p].request = request
             /\ proc'[p].id = id /\ proc'[p].pc = next /\ account' = account
  BY <1>1 DEF Begin, TypeOK, At, Idle, OnlyProc, sql
<1>2. CASE \E i \in Identities : Begin(p, i, role[i], None, "key_for") /\ role[i] # None
  BY <1>1, <1>2 DEF Tasks, TypeOK
<1>3. CASE \E a \in AccountIds, next \in {"ensure", "renew"} :
             /\ Begin(p, a, account[a], a, next) /\ account[a] # None
             /\ next = "renew" => account[a].tx = "failed" /\ account[a].renewals < MaxRenewals
  BY <1>1, <1>3 DEF Tasks, TypeOK
<1> QED  BY <1>2, <1>3 DEF Begins

LEMMA WorkStep ==
    ASSUME PVInv, NEW p \in Processes, ProcessStep(p)
    PROVE  WorkInv'
<1> SUFFICES Working(p)'
  BY OthersStay DEF PVInv, WorkInv, Working, At
<1> USE IdAssumption, NoneAssumption DEF PVInv, WorkInv, Working, At, Tasks, Ensuring, InRole
<1>1. CASE proc'[p] = Idle
  BY <1>1 DEF Idle
<1>2. CASE proc'[p] = [proc[p] EXCEPT !.live = FALSE] /\ proc[p].live
  BY <1>2 DEF TypeOK, ProcessStates, Idle
<1>3. CASE Ways(p)
  BY <1>3 DEF Ways, Way
<1>4. CASE Begins(p)
  BY <1>4, BeginType
<1> QED  BY <1>1, <1>2, <1>3, <1>4, Moves

\* A process enters a lock or a lease only when nobody has it.
LEMMA LockStep ==
    ASSUME PVInv, NEW p \in Processes, ProcessStep(p)
    PROVE  KeyringInv' /\ RoleInv' /\ LeaseInv'
<1>1. /\ proc'[p].pc \in Inside => proc[p].pc \in Inside \/ ~KeyringLocked
      /\ proc'[p].task \in Identities /\ proc'[p].pc \in InRole =>
           (proc[p].task \in Identities /\ proc[p].pc \in InRole) \/ ~RoleLocked
      /\ proc'[p].live =>
           (proc[p].live /\ proc'[p].task = proc[p].task) \/ ~Leased(proc'[p].task)
  <2>1. CASE proc'[p] = Idle
    BY <2>1 DEF Idle, Inside, InRole
  <2>2. CASE proc'[p] = [proc[p] EXCEPT !.live = FALSE] /\ proc[p].live
    BY <2>2 DEF PVInv, TypeOK, ProcessStates
  <2>3. CASE Ways(p)
    BY <2>3 DEF Ways, Way, Inside, InRole
  <2>4. CASE Begins(p)
    BY <2>4, BeginType, IdAssumption DEF PVInv, Inside, InRole
  <2> QED  BY <2>1, <2>2, <2>3, <2>4, Moves DEF PVInv
<1>4. KeyringInv'
  BY <1>1, OthersStay DEF PVInv, KeyringInv, KeyringLocked, Inside
<1>5. RoleInv'
  BY <1>1, OthersStay DEF PVInv, RoleInv, RoleLocked, InRole
<1>6. LeaseInv'
  BY <1>1, OthersStay DEF PVInv, LeaseInv, Leased
<1> QED  BY <1>4, <1>5, <1>6

-----------------------------------------------------------------------------
(* Phrases and keys *)

\* The steps that write a phrase or a key; all others leave the two alone.
LEMMA VolumeStep ==
    ASSUME TypeOK, NEW p \in Processes, ProcessStep(p)
    PROVE  \/ Generate(p) \/ Import(p) \/ UNCHANGED <<backup, keyring>>
BY DEF ProcessStep, Advance, Stop, Disconnect, Start, StartRole, StartAccount, Renewing, Begin, Ensure,
   ShowKey, ShowNothing, ImportRefused, OpenRecord, AnswerKnown, KeyForFails, Make, Making, SaveRole,
   BindRole, Bind, BindIf, Register, Renew, Refused, OnlyProc, volume

\* A phrase is written once, and so is a key, inside the keyring lock.
LEMMA VolumeGrows ==
    ASSUME PVInv, NEW p \in Processes, ProcessStep(p)
    PROVE  /\ \A r \in Ids : backup[r] # None => backup'[r] = backup[r]
           /\ \A r \in Ids : keyring[r] # None => keyring'[r] = keyring[r]
           /\ proc[p].pc \notin Inside => UNCHANGED <<backup, keyring>>
           /\ KeyHasBackup'
<1> USE DEF PVInv, TypeOK, KeyInv, KeyKnown, At, KeyHasBackup, Ensuring, Inside
<1>1. proc[p].pc \in {"generate", "import"} => proc[p].id \in Ids
  BY DEF ProcessStates
<1>2. CASE Generate(p)
  BY <1>1, <1>2 DEF Generate
<1>3. CASE Import(p)
  BY <1>1, <1>3 DEF Import
<1>4. CASE UNCHANGED <<backup, keyring>>
  BY <1>4
<1> QED  BY <1>2, <1>3, <1>4, VolumeStep

\* The id a key is made from: the request's, if there is no record yet.
LEMMA MakeGives ==
    ASSUME PVInv, NEW p \in Processes, Make(p)
    PROVE  /\ proc'[p].pc = "ensure" /\ proc'[p].id # None /\ proc'[p].id \in RoleIds
           /\ proc[p].task \in Identities /\ proc[p].request \in RoleRequests
           /\ proc[p].request.address = None
           /\ proc'[p].task = proc[p].task /\ proc'[p].request = proc[p].request
           /\ \/ /\ proc[p].seen = None /\ proc'[p].id = proc[p].request.id
                 /\ record' = [record EXCEPT ![proc[p].task] =
                                  [request |-> proc[p].request.id, address |-> None]]
              \/ /\ proc[p].seen \in Records /\ proc'[p].id = proc[p].seen.request
                 /\ proc[p].seen.address = None /\ record' = record
<1>1. /\ At(p, "decide") /\ proc[p].task \in Identities /\ proc[p].request \in RoleRequests
      /\ proc[p].seen = record[proc[p].task]
  BY DEF Make, Making, At, PVInv, WorkInv, Working, Tasks, InRole, Ensuring, IdentityInv, IdentityKnown
<1>2. proc[p].request.id \in RoleIds /\ proc[p].request.address \in Keys \cup {None}
  BY <1>1 DEF RoleRequests
<1>3. proc[p].request.address = None
  BY <1>2 DEF Make, Making, Known
<1>4. CASE proc[p].seen = None
  BY <1>1, <1>2, <1>3, <1>4, IdAssumption DEF Make, Making, SaveRecord, PVInv, TypeOK, ProcessStates, Ids
<1>5. CASE proc[p].seen # None
  <2>1. proc[p].seen \in Records /\ proc[p].seen.address = None
    BY <1>1, <1>3, <1>5 DEF Make, Making, Known, PVInv, TypeOK
  <2>2. proc[p].seen = [request |-> proc[p].seen.request, address |-> None]
    BY <2>1 DEF Records
  <2>3. proc[p].seen.request \in RoleIds
    BY <1>1, <1>5, <2>1, <2>2 DEF Records, PVInv, TypeOK
  <2> QED  BY <1>1, <1>2, <1>3, <1>5, <2>1, <2>3, IdAssumption
           DEF Make, Making, PVInv, TypeOK, ProcessStates, Ids
<1> QED  BY <1>4, <1>5

LEMMA RecordGives ==
    ASSUME TypeOK, NEW p \in Processes
    PROVE  /\ OpenRecord(p) => proc'[p].pc = "decide"
           /\ AnswerKnown(p) \/ SaveRole(p) => proc'[p].pc = "bind_role"
BY DEF TypeOK, ProcessStates, OpenRecord, AnswerKnown, SaveRole, Goto

LEMMA KeyStep ==
    ASSUME PVInv, NEW p \in Processes, ProcessStep(p)
    PROVE  KeyInv'
<1> USE DEF PVInv, KeyInv, KeyKnown, At
<1>1. ASSUME NEW q \in Processes \ {p} PROVE KeyKnown(q)'
  <2>1. proc'[q] = proc[q] /\ proc[q].id \in Ids \cup {None}
    BY OthersStay DEF TypeOK, ProcessStates
  <2>2. At(q, "generate") => UNCHANGED backup
    BY VolumeGrows DEF KeyringInv, Inside
  <2>3. proc[q].pc \in {"import", "save_role", "bind", "register"} /\ proc[q].id = None =>
          proc[q].pc \in {"bind", "register"}
    BY DEF Ensuring
  <2>4. proc[q].pc \in {"bind", "register"} => proc[q].id \in Ids
    BY IdAssumption DEF WorkInv, Working, Ids, Tasks, InRole, Idle
  <2> QED  BY <2>1, <2>2, <2>3, <2>4, VolumeGrows DEF Ensuring
<1>2. proc[p].pc \in Ensuring \cup {"save_role", "bind", "register"} => proc[p].id \in Ids
  BY IdAssumption DEF WorkInv, Working, Ids, Tasks, InRole, TypeOK, ProcessStates, Ensuring, Idle
<1>3. KeyKnown(p)'
  <2>1. CASE proc'[p] = Idle
    BY <2>1 DEF Idle, Ensuring
  <2>2. CASE Disconnect(p)
    BY <2>2, <1>2 DEF Disconnect, volume, TypeOK
  <2>3. CASE ShowKey(p)
    BY <2>3, <1>2 DEF ShowKey, Ensured, OnlyProc, volume, TypeOK, Ensuring, KeyHasBackup
  <2>4. CASE ShowNothing(p)
    BY <2>4, <1>2 DEF ShowNothing, Goto, OnlyProc, volume, TypeOK, Ensuring
  <2>5. CASE Generate(p)
    <3>1. backup'[proc[p].id] # None /\ proc'[p] = [proc[p] EXCEPT !.pc = "import"]
      BY <2>5, <1>2, KeyAssumption DEF Generate, Goto, TypeOK, Ensuring, Fresh, Keys
    <3> QED  BY <2>5, <1>2, <3>1 DEF Generate, TypeOK, ProcessStates, Ensuring
  <2>6. CASE Import(p)
    BY <2>6, <1>2 DEF Import, Ensured, TypeOK, Ensuring
  <2>7. CASE Ensure(p)
    BY <2>7, <1>2 DEF Ensure, Goto, OnlyProc, volume, TypeOK, Ensuring
  <2>8. CASE OpenRecord(p) \/ AnswerKnown(p) \/ SaveRole(p)
    <3>1. proc'[p].pc \in {"decide", "bind_role"}
      BY <2>8, RecordGives
    <3> QED  BY <3>1 DEF Ensuring
  <2>9. CASE Make(p)
    <3>1. proc'[p].pc = "ensure" /\ proc'[p].id # None
      BY <2>9, MakeGives
    <3> QED  BY <3>1 DEF Ensuring
  <2>10. CASE Bind(p) /\ Goto(p, "register")
    BY <2>10, <1>2 DEF Bind, BindIf, Goto, volume, TypeOK, Ensuring
  <2>11. CASE Begins(p)
    BY <2>11, BeginType, IdAssumption DEF Ensuring, Ids
  <2>12. Bind(p) => Goto(p, "register") \/ Finish(p)
    BY DEF Bind, BindIf
  <2>13. Finish(p) => proc'[p] = Idle
    BY DEF Finish, TypeOK
  <2>14. ImportRefused(p) \/ KeyForFails(p) \/ Refused(p) \/ Stop(p) \/ BindRole(p)
           \/ Register(p) \/ Renew(p) => Finish(p)
    BY DEF ImportRefused, KeyForFails, Refused, Stop, BindRole, Register, Renew
  <2>15. (\E t \in Tasks : Start(p, t)) => Begins(p)
    BY DEF Start, StartRole, StartAccount, Renewing, Begins, Tasks
  <2> QED  BY <2>1, <2>2, <2>3, <2>4, <2>5, <2>6, <2>7, <2>8, <2>9, <2>10, <2>11, <2>12, <2>13,
              <2>14, <2>15 DEF ProcessStep, Advance
<1> QED  BY <1>1, <1>3
-----------------------------------------------------------------------------
(* Accounts.  The lease keeps everybody else from the account of a process. *)

\* What a step makes of the account of its process.
Binds(p, new) ==
    /\ new.address = backup[proc[p].task] /\ new.address = keyring[proc[p].task]
    /\ new.address # None
    /\ new.tx = account[proc[p].task].tx /\ new.renewals = account[proc[p].task].renewals
Queues(p, new) ==
    /\ new.address = account[proc[p].task].address /\ new.address # None
    /\ \/ new.renewals = account[proc[p].task].renewals
       \/ account[proc[p].task].tx = "failed"
    /\ proc'[p] = Idle

Updates(p) ==
    /\ proc[p].live /\ proc[p].task \in AccountIds /\ account[proc[p].task] # None
    /\ \E new \in AccountRequests :
         /\ account' = [account EXCEPT ![proc[p].task] = new]
         /\ Binds(p, new) \/ Queues(p, new)

LEMMA AccountGives ==
    ASSUME PVInv, NEW p \in Processes, ProcessStep(p)
    PROVE  /\ UNCHANGED account \/ Updates(p)
           /\ Bind(p) /\ proc'[p].pc = "register" =>
                Updates(p) /\ account'[proc[p].task] # None /\ account'[proc[p].task].address # None
<1> DEFINE a == proc[p].task
<1>1. proc[p].pc \in {"bind", "register", "renew"} =>
        a \in AccountIds /\ proc[p].id = a /\ a \in Ids
  BY DEF PVInv, WorkInv, Working, At, Tasks, InRole, Idle, Ids
<1>2. account[a] # None /\ a \in AccountIds => account[a] \in AccountRequests
  BY DEF PVInv, TypeOK
<1>3. CASE Bind(p)
  <2>1. proc[p].address # None /\ proc[p].address = backup[a] /\ proc[p].address = keyring[a]
        /\ proc[p].address \in Phrases /\ a \in AccountIds /\ proc[p].live
    BY <1>1, <1>3 DEF Bind, BindIf, At, PVInv, TypeOK, KeyInv, KeyKnown
  <2>2. \/ UNCHANGED account /\ Finish(p)
        \/ /\ account[a] # None /\ Goto(p, "register")
           /\ account' = [account EXCEPT ![a].address = proc[p].address]
    BY <1>3 DEF Bind, BindIf
  <2>3. CASE UNCHANGED account /\ Finish(p)
    BY <2>3 DEF Finish, Idle, PVInv, TypeOK
  <2>4. CASE /\ account[a] # None /\ Goto(p, "register")
             /\ account' = [account EXCEPT ![a].address = proc[p].address]
    <3> DEFINE new == [account[a] EXCEPT !.address = proc[p].address]
    <3>1. new \in AccountRequests /\ Binds(p, new)
      BY <1>2, <2>1, <2>4 DEF AccountRequests, Binds
    <3>2. account' = [account EXCEPT ![a] = new]
      BY <2>4
    <3>3. account'[a] = new
      BY <2>1, <3>2 DEF PVInv, TypeOK
    <3> QED  BY <2>1, <2>4, <3>1, <3>2, <3>3, NoneAssumption DEF Updates, Binds
  <2> QED  BY <2>2, <2>3, <2>4
<1>4. CASE Register(p)
  <2>1. a \in AccountIds /\ proc[p].live /\ proc'[p] = Idle /\ proc'[p].pc # "register"
    BY <1>1, <1>4 DEF Register, At, Finish, Idle, PVInv, TypeOK
  <2>2. CASE UNCHANGED account
    BY <2>1, <2>2
  <2>3. CASE /\ account[a] # None
             /\ account' = [account EXCEPT ![a].status = "pending", ![a].tx = "queued"]
    <3> DEFINE new == [account[a] EXCEPT !.status = "pending", !.tx = "queued"]
    <3>1. account[a].address # None
      BY <1>4, <2>1 DEF Register, At, PVInv, AccountInv, AccountKnown
    <3>2. new \in AccountRequests /\ Queues(p, new)
      BY <1>2, <2>1, <2>3, <3>1 DEF AccountRequests, Queues
    <3>3. account' = [account EXCEPT ![a] = new]
      BY <2>1, <2>3 DEF PVInv, TypeOK
    <3> HIDE DEF new
    <3>4. Updates(p)
      BY <2>1, <2>3, <3>2, <3>3 DEF Updates
    <3> QED  BY <2>1, <3>4
  <2> QED  BY <1>4, <2>2, <2>3 DEF Register
<1>5. CASE Renew(p)
  <2>1. a \in AccountIds /\ proc[p].live /\ proc'[p] = Idle /\ proc'[p].pc # "register"
    BY <1>1, <1>5 DEF Renew, At, Finish, Idle, PVInv, TypeOK
  <2>2. CASE UNCHANGED account
    BY <2>1, <2>2
  <2>3. CASE /\ account[a] # None
             /\ account' = [account EXCEPT ![a].tx = "queued", ![a].renewals = @ + 1]
    <3> DEFINE new == [account[a] EXCEPT !.tx = "queued", !.renewals = @ + 1]
    <3>1. account[a].address # None /\ account[a].tx = "failed" /\ account[a].renewals < MaxRenewals
      BY <1>5, <2>1 DEF Renew, At, PVInv, AccountInv, AccountKnown
    <3>5. account[a] \in AccountRequests /\ account[a].renewals + 1 \in 0..MaxRenewals
      BY <1>2, <2>1, <2>3, <3>1, FaultAssumption DEF AccountRequests
    <3>6. new \in AccountRequests
      BY <3>5 DEF AccountRequests
    <3>2. new \in AccountRequests /\ Queues(p, new)
      BY <2>1, <3>1, <3>5, <3>6 DEF AccountRequests, Queues
    <3>3. account' = [account EXCEPT ![a] = new]
      BY <2>1, <2>3 DEF PVInv, TypeOK
    <3> HIDE DEF new
    <3>4. Updates(p)
      BY <2>1, <2>3, <3>2, <3>3 DEF Updates
    <3> QED  BY <2>1, <3>4
  <2> QED  BY <1>5, <2>2, <2>3 DEF Renew
<1>6. CASE UNCHANGED account /\ ~Bind(p)
  BY <1>6
<1>7. Bind(p) \/ Register(p) \/ Renew(p) \/ UNCHANGED account
  BY DEF ProcessStep, Advance, Stop, Disconnect, Start, StartRole, StartAccount, Renewing, Begin,
     Ensure, ShowKey, ShowNothing, Generate, Import, ImportRefused, OpenRecord, AnswerKnown,
     KeyForFails, Make, Making, SaveRole, BindRole, Refused, OnlyProc, sql
<1> QED  BY <1>3, <1>4, <1>5, <1>6, <1>7

\* Only Bind leaves "bind" for "register".
LEMMA BindOrLeave ==
    ASSUME TypeOK, NEW p \in Processes, ProcessStep(p),
           proc[p].pc = "bind", proc'[p].pc = "register"
    PROVE  Bind(p)
BY DEF ProcessStep, Advance, Stop, Disconnect, Start, StartRole, StartAccount, Renewing, Begin, Idle, Finish,
   At, Ensure, ShowKey, ShowNothing, Generate, Import, ImportRefused, OpenRecord, AnswerKnown, KeyForFails,
   Make, Making, SaveRole, BindRole, Register, Renew, Refused, TypeOK, ProcessStates

LEMMA AccountStep ==
    ASSUME PVInv, NEW p \in Processes, ProcessStep(p)
    PROVE  AccountInv' /\ BoundIsRecoverable'
<1>0. proc[p].pc = "bind" /\ proc'[p].pc = "register" => Bind(p)
  BY BindOrLeave DEF PVInv
<1> USE NoneAssumption DEF PVInv, TypeOK
<1>1. ASSUME NEW q \in Processes \ {p} PROVE AccountKnown(q)'
  <2>1. proc'[q] = proc[q]
    BY OthersStay
  <2>2. Updates(p) /\ proc[q].live => account'[proc[q].task] = account[proc[q].task]
    BY DEF Updates, LeaseInv
  <2> QED  BY <2>1, <2>2, AccountGives DEF AccountKnown, AccountInv, At
<1>2. AccountKnown(p)'
  <2>1. CASE proc'[p] = Idle
    BY <2>1 DEF Idle, AccountKnown, At
  <2>2. CASE proc'[p] = [proc[p] EXCEPT !.live = FALSE] /\ proc[p].live
    BY <2>2 DEF ProcessStates, AccountKnown, At
  <2>3. CASE Ways(p)
    <3>1. proc'[p].pc = "renew" \/ (proc'[p].pc = "register" /\ proc[p].pc # "bind") => FALSE
      BY <2>3 DEF Ways, Way
    <3>2. ASSUME proc'[p].pc = "register" PROVE Bind(p) /\ proc'[p].task = proc[p].task
      <4>1. proc[p].pc = "bind" /\ proc'[p].task = proc[p].task
        BY <2>3, <3>2 DEF Ways, Way
      <4> QED  BY <4>1, <3>2, <1>0
    <3> QED  BY <3>1, <3>2, AccountGives DEF AccountKnown, At
  <2>4. CASE Begins(p)
    <3> DEFINE a == proc'[p].task
    <3>1. CASE proc'[p].pc = "renew"
      <4>1. /\ a \in AccountIds /\ account' = account /\ account[a] # None
            /\ account[a].tx = "failed" /\ account[a].renewals < MaxRenewals
        BY <2>4, <3>1, BeginType
      <4> QED  BY <3>1, <4>1 DEF AccountInv, AccountKnown, At
    <3>2. CASE proc'[p].pc # "renew"
      <4>1. proc'[p].pc # "register"
        BY <2>4, BeginType
      <4> QED  BY <3>2, <4>1 DEF AccountKnown, At
    <3> QED  BY <3>1, <3>2
  <2> QED  BY <2>1, <2>2, <2>3, <2>4, Moves
<1>3. CASE UNCHANGED account
  BY <1>1, <1>2, <1>3, VolumeGrows DEF AccountInv, BoundIsRecoverable, Ids
<1>4. CASE Updates(p)
  <2> DEFINE b == proc[p].task
  <2>1. PICK new \in AccountRequests :
          /\ account' = [account EXCEPT ![b] = new]
          /\ Binds(p, new) \/ Queues(p, new)
    BY <1>4 DEF Updates
  <2>2. b \in AccountIds /\ account[b] # None /\ account'[b] = new /\ new.address # None
    BY <1>4, <2>1 DEF Updates, Binds, Queues
  <2>3. \A a \in AccountIds \ {b} : account'[a] = account[a]
    BY <2>1
  <2>4. new.address = backup[b] /\ new.address = keyring[b]
    BY <2>1, <2>2 DEF Binds, Queues, BoundIsRecoverable
  <2>5. BoundIsRecoverable'
    <3> SUFFICES ASSUME NEW a \in AccountIds, account'[a] # None, account'[a].address # None
                 PROVE  account'[a].address = backup'[a] /\ account'[a].address = keyring'[a]
      BY DEF BoundIsRecoverable
    <3>1. account'[a].address = backup[a] /\ account'[a].address = keyring[a] /\ a \in Ids
      BY <2>2, <2>3, <2>4 DEF BoundIsRecoverable, Ids
    <3> QED  BY <3>1, VolumeGrows
  <2> QED  BY <1>1, <1>2, <2>2, <2>3, <2>5 DEF AccountInv
<1> QED  BY <1>3, <1>4, AccountGives
-----------------------------------------------------------------------------
(* Identities.  The role lock keeps everybody else from the record.        *)

\* What a process makes of the record of its identity: a first one for a key that
\* is known, a first one with the id of a key to make, or the key that was made.
Writes(p, new) ==
    LET i == proc[p].task IN
    /\ i \in Identities /\ proc[p].pc \in InRole
    /\ record' = [record EXCEPT ![i] = new] /\ backup' = backup
    /\ \/ /\ record[i] = None /\ new.request = None /\ new.address # None
          /\ registered[i] # None => registered[i] = new.address
       \/ /\ record[i] = None /\ new.request \in RoleIds /\ issued[new.request] = i
          /\ new.address = None /\ registered[i] = None
       \/ /\ record[i] # None /\ new.request = record[i].request /\ new.request # None
          /\ new.address = backup[new.request] /\ new.address # None

LEMMA IdentityFrame ==
    ASSUME TypeOK, NEW p \in Processes, ProcessStep(p)
    PROVE  /\ issued' = issued /\ registered' = registered
           /\ record' = record \/ AnswerKnown(p) \/ Make(p) \/ SaveRole(p)
           /\ UNCHANGED <<role, bound>> \/ BindRole(p)
BY DEF ProcessStep, Advance, Stop, Disconnect, Start, StartRole, StartAccount, Renewing, Begin, Ensure,
   ShowKey, ShowNothing, Generate, Import, ImportRefused, OpenRecord, AnswerKnown, KeyForFails, Make,
   Making, SaveRole, BindRole, Bind, BindIf, Register, Renew, Refused, OnlyProc, volume, sql, chain, history

\* The key a process knows is the identity's.
LEMMA KnownIsKey ==
    ASSUME PVInv, NEW p \in Processes, AnswerKnown(p)
    PROVE  LET i == proc[p].task IN
           /\ i \in Identities /\ proc[p].seen = record[i] /\ Known(p) # None
           /\ record[i] = None => Known(p) = registered[i]
           /\ record[i] # None => Known(p) = KeyOf(i)
<1> DEFINE i == proc[p].task  asked == proc[p].request.address
<1>1. i \in Identities /\ proc[p].seen = record[i] /\ Asked(i, asked) /\ OneKey(i)
  BY DEF AnswerKnown, At, PVInv, WorkInv, Working, Tasks, InRole, Ensuring, IdentityInv, IdentityKnown
<1>2. Known(p) # None
  BY KeyAssumption DEF AnswerKnown, Local, Keys, PVInv, TypeOK
<1>3. CASE record[i] = None
  BY <1>1, <1>2, <1>3 DEF Known, Asked, OneKey, KeyOf
<1>4. CASE record[i] # None /\ asked # None
  BY <1>1, <1>2, <1>4 DEF Known, Asked, OneKey
<1>5. CASE record[i] # None /\ asked = None
  BY <1>1, <1>2, <1>5 DEF Known, OneKey
<1> QED  BY <1>1, <1>2, <1>3, <1>4, <1>5

LEMMA RecordStep ==
    ASSUME PVInv, NEW p \in Processes, ProcessStep(p)
    PROVE  record' = record \/ \E new \in Records : Writes(p, new)
<1> DEFINE i == proc[p].task
<1>1. CASE AnswerKnown(p)
  <2> DEFINE new == [request |-> None, address |-> Known(p)]
  <2>1. i \in Identities /\ At(p, "decide") /\ Known(p) # None /\ proc[p].seen = record[i]
        /\ (record[i] = None => Known(p) = registered[i])
    BY <1>1, KnownIsKey DEF AnswerKnown
  <2>2. CASE proc[p].seen = None
    <3>1. record' = [record EXCEPT ![i] = new] /\ backup' = backup
      BY <1>1, <2>2 DEF AnswerKnown, SaveRecord
    <3>2. new \in Records
      BY <2>1, <2>2 DEF Records, PVInv, TypeOK
    <3>3. Writes(p, new)
      BY <2>1, <2>2, <3>1 DEF Writes, At, InRole
    <3> QED  BY <3>2, <3>3
  <2> QED  BY <1>1, <2>2 DEF AnswerKnown
<1>2. CASE Make(p)
  <2> DEFINE new == [request |-> proc[p].request.id, address |-> None]
  <2>1. i \in Identities /\ proc[p].request \in RoleRequests /\ proc[p].request.address = None
    BY <1>2, MakeGives
  <2>2. At(p, "decide") /\ backup' = backup /\ proc[p].seen = record[i]
        /\ issued[proc[p].request.id] = i /\ Asked(i, None) /\ OneKey(i)
    BY <1>2, <2>1 DEF Make, Making, PVInv, IdentityInv, IdentityKnown
  <2>3. CASE record' = [record EXCEPT ![i] = new] /\ record[i] = None
    <3>1. proc[p].request.id \in RoleIds
      BY <2>1 DEF RoleRequests
    <3>2. registered[i] = None
      BY <2>2, <2>3 DEF Asked, OneKey, KeyOf
    <3>3. new \in Records
      BY <3>1 DEF Records
    <3>4. Writes(p, new)
      BY <2>1, <2>2, <2>3, <3>1, <3>2 DEF Writes, At, InRole
    <3> QED  BY <3>3, <3>4
  <2> QED  BY <1>2, <2>2, <2>3, MakeGives
<1>3. CASE SaveRole(p)
  <2> DEFINE new == [request |-> proc[p].id, address |-> proc[p].address]
  <2>1. i \in Identities /\ At(p, "save_role") /\ proc[p].id # None
        /\ proc[p].address # None /\ proc[p].address = backup[proc[p].id]
    BY <1>3 DEF SaveRole, At, PVInv, WorkInv, Working, Tasks, InRole, Ensuring, KeyInv, KeyKnown
  <2>2. record[i] # None /\ record[i].request = proc[p].id
    BY <2>1 DEF PVInv, IdentityInv, IdentityKnown, At
  <2>3. record' = [record EXCEPT ![i] = new] /\ backup' = backup
    BY <1>3 DEF SaveRole, SaveRecord
  <2>4. new \in Records
    BY <2>1, <2>2 DEF Records, PVInv, TypeOK, ProcessStates
  <2>5. Writes(p, new)
    BY <2>1, <2>2, <2>3 DEF Writes, At, InRole
  <2> QED  BY <2>4, <2>5
<1> QED  BY <1>1, <1>2, <1>3, IdentityFrame DEF PVInv

\* A key of an identity stays its key.
LEMMA KeyOfGrows ==
    ASSUME PVInv, NEW p \in Processes, ProcessStep(p), NEW i \in Identities
    PROVE  /\ KeyOf(i) # None => KeyOf(i)' = KeyOf(i)
           /\ record[i] # None => record'[i] # None
<1>1. CASE record' = record
  <2>1. record[i] # None /\ record[i].request # None => record[i].request \in Ids
    BY DEF PVInv, TypeOK, Records, Ids
  <2> QED  BY <1>1, <2>1, VolumeGrows DEF KeyOf
<1>2. ASSUME NEW new \in Records, Writes(p, new) PROVE KeyOf(i) # None => KeyOf(i)' = KeyOf(i)
  BY <1>2, NoneAssumption DEF Writes, KeyOf, PVInv, TypeOK
<1>3. ASSUME NEW new \in Records, Writes(p, new) PROVE record[i] # None => record'[i] # None
  BY <1>3, NoneAssumption DEF Writes, PVInv, TypeOK
<1> QED  BY <1>1, <1>2, <1>3, RecordStep

\* Who makes a phrase for an onboarding request makes it for the record's.
LEMMA MadeForRecord ==
    ASSUME PVInv, NEW p \in Processes, ProcessStep(p), NEW r \in RoleIds,
           backup[r] = None, backup'[r] # None
    PROVE  /\ proc[p].task \in Identities /\ record[proc[p].task] # None /\ record' = record
           /\ record[proc[p].task].request = r /\ issued[r] = proc[p].task
<1>1. Generate(p) \/ Import(p) \/ backup' = backup
  BY VolumeStep DEF PVInv
<1>2. Generate(p) /\ r = proc[p].id
  BY <1>1 DEF Generate, Import, PVInv, TypeOK, Ids
<1>3. proc[p].task \in Identities /\ At(p, "generate")
  BY <1>2, IdAssumption DEF Generate, PVInv, WorkInv, Working, Tasks, At, Idle
<1>4. record[proc[p].task] # None /\ record[proc[p].task].request = r
  BY <1>2, <1>3 DEF PVInv, IdentityInv, IdentityKnown, At, Ensuring
<1>5. issued[r] = proc[p].task
  BY <1>3, <1>4, IdAssumption DEF PVInv, IdentityInv, OneKey, Ids
<1> QED  BY <1>2, <1>3, <1>4, <1>5 DEF Generate

\* What BindRole makes of SQL.
LEMMA BindRoleGives ==
    ASSUME PVInv, NEW p \in Processes, BindRole(p)
    PROVE  LET i == proc[p].task  key == proc[p].address IN
           /\ i \in Identities /\ key # None /\ key = KeyOf(i)
           /\ \/ UNCHANGED <<role, bound>>
              \/ /\ role[i] # None /\ bound' = [bound EXCEPT ![i] = @ \cup {key}]
                 /\ \E new \in RoleRequests :
                      /\ role' = [role EXCEPT ![i] = new] /\ new.id = role[i].id
                      /\ new.address \in {role[i].address, key}
<1> DEFINE i == proc[p].task  key == proc[p].address
<1>1. i \in Identities /\ key # None /\ key = KeyOf(i)
  BY DEF BindRole, PVInv, WorkInv, Working, Tasks, Ensuring, At, IdentityInv, IdentityKnown
<1>2. CASE UNCHANGED <<role, bound>>
  BY <1>1, <1>2
<1>3. CASE ~UNCHANGED <<role, bound>>
  <2>1. /\ role[i] # None /\ bound' = [bound EXCEPT ![i] = @ \cup {key}]
        /\ role' = [role EXCEPT ![i].activated = TRUE] \/ role' = [role EXCEPT ![i].address = key]
    BY <1>3 DEF BindRole
  <2>2. role[i] \in RoleRequests
    BY <1>1, <2>1 DEF PVInv, TypeOK
  <2>4. key \in Keys
    BY <1>1 DEF PVInv, TypeOK, ProcessStates
  <2>3. /\ [role[i] EXCEPT !.activated = TRUE] \in RoleRequests
        /\ [role[i] EXCEPT !.activated = TRUE].id = role[i].id
        /\ [role[i] EXCEPT !.activated = TRUE].address = role[i].address
        /\ [role[i] EXCEPT !.address = key] \in RoleRequests
        /\ [role[i] EXCEPT !.address = key].id = role[i].id
        /\ [role[i] EXCEPT !.address = key].address = key
    BY <2>2, <2>4, RoleType DEF RoleRequests
  <2> QED  BY <1>1, <2>1, <2>3
<1> QED  BY <1>2, <1>3

LEMMA OneKeyStep ==
    ASSUME PVInv, NEW p \in Processes, ProcessStep(p), NEW i \in Identities
    PROVE  OneKey(i)'
<1>0. OneKey(i) /\ issued' = issued /\ registered' = registered /\ i # None
  BY IdentityFrame, NoneAssumption DEF PVInv, IdentityInv, Tasks
<1>1. bound'[i] \subseteq {KeyOf(i)'} \ {None}
  <2>1. bound[i] \subseteq {KeyOf(i)'} \ {None}
    BY <1>0, KeyOfGrows DEF OneKey
  <2>2. CASE BindRole(p)
    BY <2>1, <2>2, BindRoleGives, KeyOfGrows DEF PVInv, TypeOK
  <2> QED  BY <2>1, <2>2, IdentityFrame DEF PVInv
<1>2. ASSUME NEW r \in RoleIds, issued[r] = i, backup'[r] # None
      PROVE  record'[i] # None /\ record'[i].request = r
  <2>1. CASE backup[r] = None
    BY <1>2, <2>1, MadeForRecord
  <2>2. CASE backup[r] # None
    <3>1. record[i] # None /\ record[i].request = r
      BY <1>0, <1>2, <2>2 DEF OneKey
    <3>2. ASSUME NEW new \in Records, Writes(p, new) PROVE record'[i].request = r
      BY <3>1, <3>2 DEF Writes, PVInv, TypeOK
    <3> QED  BY <3>1, <3>2, RecordStep, KeyOfGrows
  <2> QED  BY <2>1, <2>2
<1>3. ASSUME record'[i] # None
      PROVE  /\ record'[i].address # None => record'[i].address = KeyOf(i)'
             /\ registered[i] # None => registered[i] = KeyOf(i)'
             /\ record'[i].request # None => issued[record'[i].request] = i
  <2>1. CASE record'[i] = record[i]
    BY <1>0, <1>3, <2>1, KeyOfGrows DEF OneKey
  <2>2. ASSUME NEW new \in Records, Writes(p, new), i = proc[p].task
        PROVE  record'[i] = new
    BY <2>2 DEF Writes, PVInv, TypeOK
  <2>3. ASSUME NEW new \in Records, Writes(p, new), i = proc[p].task
        PROVE  /\ record'[i].address # None => record'[i].address = KeyOf(i)'
               /\ registered[i] # None => registered[i] = KeyOf(i)'
               /\ record'[i].request # None => issued[record'[i].request] = i
    <3> record'[i] = new
      BY <2>2, <2>3
    <3>1. CASE record[i] = None
      BY <1>3, <2>3, <3>1 DEF Writes, KeyOf
    <3>2. CASE record[i] # None
      <4>1. KeyOf(i)' = backup[new.request] /\ KeyOf(i) = backup[new.request]
        BY <1>3, <2>3, <3>2 DEF Writes, KeyOf
      <4> QED  BY <1>0, <2>3, <3>2, <4>1 DEF Writes, OneKey
    <3> QED  BY <3>1, <3>2
  <2>4. ASSUME NEW new \in Records, Writes(p, new), i # proc[p].task
        PROVE  record'[i] = record[i]
    BY <2>4 DEF Writes, PVInv, TypeOK
  <2> QED  BY <2>1, <2>3, <2>4, RecordStep
<1>4. role'[i] # None => issued[role'[i].id] = i /\ Asked(i, role[i].address)'
  <2>1. CASE UNCHANGED <<role, bound>>
    BY <1>0, <2>1 DEF OneKey, Asked
  <2>2. CASE BindRole(p) /\ ~UNCHANGED <<role, bound>>
    <3> DEFINE t == proc[p].task  key == proc[p].address
    <3>1. PICK new \in RoleRequests :
            /\ role' = [role EXCEPT ![t] = new] /\ new.id = role[t].id
            /\ new.address \in {role[t].address, key}
      BY <2>2, BindRoleGives
    <3>2. /\ t \in Identities /\ role[t] # None /\ key # None
          /\ bound' = [bound EXCEPT ![t] = @ \cup {key}]
      BY <2>2, BindRoleGives
    <3>3. CASE i = t
      <4>1. role'[i] = new /\ bound'[i] = bound[i] \cup {key}
        BY <3>1, <3>2, <3>3 DEF PVInv, TypeOK
      <4> QED  BY <1>0, <3>1, <3>2, <3>3, <4>1 DEF OneKey, Asked
    <3>4. CASE i # t
      <4>1. role'[i] = role[i] /\ bound'[i] = bound[i]
        BY <3>1, <3>2, <3>4 DEF PVInv, TypeOK
      <4> QED  BY <1>0, <4>1 DEF OneKey, Asked
    <3> QED  BY <3>3, <3>4
  <2> QED  BY <2>1, <2>2, IdentityFrame DEF PVInv
<1> QED  BY <1>0, <1>1, <1>2, <1>3, <1>4 DEF OneKey

\* What others know of their identities is not disturbed.
LEMMA OthersKnow ==
    ASSUME PVInv, NEW p \in Processes, ProcessStep(p), NEW q \in Processes \ {p}
    PROVE  IdentityKnown(q)'
<1> DEFINE i == proc[q].task
<1> SUFFICES ASSUME i \in Identities PROVE IdentityKnown(q)'
  BY OthersStay DEF PVInv, IdentityKnown
<1>1. proc'[q] = proc[q] /\ IdentityKnown(q) /\ issued' = issued /\ registered' = registered
  BY OthersStay, IdentityFrame DEF PVInv, IdentityInv
<1>2. proc[q].pc \in InRole => record' = record
  <2>1. ASSUME NEW new \in Records, Writes(p, new) PROVE proc[q].pc \notin InRole
    BY <2>1 DEF Writes, PVInv, RoleInv
  <2> QED  BY <2>1, RecordStep
<1>3. bound[i] \subseteq bound'[i]
  BY IdentityFrame, BindRoleGives DEF PVInv, TypeOK
<1>4. Asked(i, proc[q].request.address)'
  BY <1>1, <1>3 DEF IdentityKnown, Asked
<1>5. At(q, "bind_role") => record'[i] # None /\ proc[q].address = KeyOf(i)'
  BY <1>1, KeyOfGrows DEF IdentityKnown
<1> QED  BY <1>1, <1>2, <1>4, <1>5 DEF IdentityKnown, At, Ensuring, InRole

LEMMA SelfKnows ==
    ASSUME PVInv, NEW p \in Processes, ProcessStep(p)
    PROVE  IdentityKnown(p)'
<1> SUFFICES ASSUME NEW i \in Identities, proc'[p].task = i
             PROVE  IdentityKnown(p)'
  BY DEF IdentityKnown
<1>1. issued' = issued /\ registered' = registered /\ i # None /\ OneKey(i)
      /\ bound[i] \subseteq bound'[i] /\ bound[i] \subseteq Keys
  BY IdentityFrame, BindRoleGives, NoneAssumption DEF PVInv, TypeOK, IdentityInv, Tasks
<1>2. ASSUME proc[p].task = i, proc'[p].request = proc[p].request
      PROVE  issued'[proc'[p].request.id] = i /\ Asked(i, proc[p].request.address)'
  <2>1. issued[proc[p].request.id] = i /\ Asked(i, proc[p].request.address)
    BY <1>2 DEF IdentityKnown, PVInv, IdentityInv
  <2> QED  BY <1>1, <1>2, <2>1 DEF Asked
<1>3. CASE proc'[p] = Idle
  BY <1>1, <1>3 DEF Idle
<1>4. CASE Disconnect(p)
  <2>1. record' = record /\ backup' = backup
        /\ proc'[p] = [proc[p] EXCEPT !.live = FALSE]
    BY <1>4 DEF Disconnect, volume, PVInv, TypeOK
  <2>2. /\ proc'[p].task = proc[p].task /\ proc'[p].request = proc[p].request
        /\ proc'[p].pc = proc[p].pc /\ proc'[p].id = proc[p].id
        /\ proc'[p].seen = proc[p].seen /\ proc'[p].address = proc[p].address
    BY <2>1 DEF PVInv, TypeOK, ProcessStates
  <2>3. IdentityKnown(p)
    BY DEF PVInv, IdentityInv
  <2> QED  BY <1>1, <1>2, <2>1, <2>2, <2>3 DEF IdentityKnown, At, KeyOf
<1>5. CASE Begins(p)
  <2>1. proc'[p].pc = "key_for" /\ proc'[p].request = role[i] /\ role[i] \in RoleRequests
    BY <1>5, BeginType, IdAssumption DEF PVInv
  <2>2. bound' = bound
    BY <1>5 DEF Begins, Begin, OnlyProc, history
  <2>3. issued[role[i].id] = i /\ Asked(i, role[i].address)
    BY <1>1, <2>1, NoneAssumption DEF OneKey
  <2>4. Asked(i, proc[p].request.address)'
    BY <1>1, <2>1, <2>2, <2>3 DEF Asked
  <2> QED  BY <1>1, <2>1, <2>3, <2>4 DEF IdentityKnown, At, Ensuring
<1>6. CASE OpenRecord(p)
  <2>1. /\ proc'[p].task = proc[p].task /\ proc'[p].request = proc[p].request
        /\ proc'[p].pc = "decide" /\ proc'[p].seen = record[proc[p].task] /\ record' = record
    BY <1>6 DEF OpenRecord, OnlyProc, volume, PVInv, TypeOK, ProcessStates
  <2> QED  BY <1>1, <1>2, <2>1 DEF IdentityKnown, At, Ensuring
<1>7. CASE AnswerKnown(p)
  <2>1. /\ proc'[p].task = proc[p].task /\ proc'[p].request = proc[p].request
        /\ proc'[p].pc = "bind_role" /\ proc'[p].address = Known(p)
    BY <1>7 DEF AnswerKnown, PVInv, TypeOK, ProcessStates
  <2>2. /\ proc[p].seen = record[i] /\ Known(p) # None
        /\ record[i] # None => Known(p) = KeyOf(i)
    BY <1>7, <2>1, KnownIsKey
  <2>3. KeyOf(i)' = Known(p) /\ record'[i] # None
    <3>1. CASE record[i] # None
      BY <2>2, <3>1, KeyOfGrows
    <3>2. CASE record[i] = None
      <4>1. record'[i] = [request |-> None, address |-> Known(p)]
        BY <1>7, <2>1, <2>2, <3>2 DEF AnswerKnown, SaveRecord, PVInv, TypeOK
      <4>2. record'[i] # None
        <5>1. Known(p) = registered[i]
          BY <1>7, <2>1, <3>2, KnownIsKey
        <5>2. record'[i] \in Records
          BY <4>1, <5>1 DEF Records, PVInv, TypeOK
        <5> QED  BY <5>2, NoneAssumption
      <4> QED  BY <4>1, <4>2 DEF KeyOf
    <3> QED  BY <3>1, <3>2
  <2> QED  BY <1>1, <1>2, <2>1, <2>2, <2>3 DEF IdentityKnown, At, Ensuring
<1>8. CASE Make(p)
  <2>1. /\ proc'[p].task = proc[p].task /\ proc'[p].request = proc[p].request
        /\ proc'[p].pc = "ensure" /\ proc[p].request \in RoleRequests
        /\ \/ /\ proc'[p].id = proc[p].request.id
              /\ record' = [record EXCEPT ![i] = [request |-> proc[p].request.id, address |-> None]]
           \/ /\ proc[p].seen \in Records /\ proc'[p].id = proc[p].seen.request /\ record' = record
    BY <1>8, MakeGives
  <2>2. proc[p].seen = record[i]
    BY <1>8, <2>1 DEF PVInv, IdentityInv, IdentityKnown, Make, Making
  <2>3. record'[i] # None /\ record'[i].request = proc'[p].id
    <3>1. CASE proc[p].seen \in Records /\ proc'[p].id = proc[p].seen.request /\ record' = record
      BY <2>2, <3>1, NoneAssumption
    <3>2. CASE /\ proc'[p].id = proc[p].request.id
               /\ record' = [record EXCEPT ![i] = [request |-> proc[p].request.id, address |-> None]]
      <4>1. record'[i] = [request |-> proc[p].request.id, address |-> None]
        BY <3>2 DEF PVInv, TypeOK
      <4>2. record'[i] \in Records
        BY <2>1, <4>1 DEF Records, RoleRequests
      <4> QED  BY <3>2, <4>1, <4>2, NoneAssumption
    <3> QED  BY <2>1, <3>1, <3>2
  <2> QED  BY <1>1, <1>2, <2>1, <2>3 DEF IdentityKnown, At
<1>9. CASE SaveRole(p)
  <2>1. /\ proc'[p].task = proc[p].task /\ proc'[p].request = proc[p].request
        /\ proc'[p].pc = "bind_role" /\ proc'[p].address = proc[p].address
        /\ At(p, "save_role") /\ backup' = backup
        /\ record' = [record EXCEPT ![proc[p].task] =
                        [request |-> proc[p].id, address |-> proc[p].address]]
    BY <1>9 DEF SaveRole, SaveRecord, Goto, PVInv, TypeOK, ProcessStates
  <2>2. /\ proc[p].address # None /\ proc[p].address = backup[proc[p].id] /\ proc[p].id # None
        /\ record[i] # None
    BY <2>1 DEF PVInv, KeyInv, KeyKnown, IdentityInv, IdentityKnown, At
  <2>3. record'[i] # None /\ KeyOf(i)' = proc[p].address
    <3>1. record'[i] = [request |-> proc[p].id, address |-> proc[p].address]
      BY <2>1 DEF PVInv, TypeOK
    <3>2. record'[i] # None
      BY <2>2, KeyOfGrows
    <3> QED  BY <2>1, <2>2, <3>1, <3>2 DEF KeyOf
  <2> QED  BY <1>1, <1>2, <2>1, <2>2, <2>3 DEF IdentityKnown, At, Ensuring
<1>10. CASE /\ Ensure(p) \/ ShowKey(p) \/ ShowNothing(p) \/ Generate(p) \/ Import(p)
            /\ proc'[p] # Idle
  <2>1. /\ proc'[p].task = proc[p].task /\ proc'[p].request = proc[p].request
        /\ proc'[p].id = proc[p].id /\ record' = record /\ proc[p].pc \in Ensuring
        /\ proc'[p].pc \notin {"decide", "bind_role"}
    BY <1>10 DEF Ensure, ShowKey, ShowNothing, Generate, Import, Ensured, Goto, OnlyProc, volume,
                 PVInv, TypeOK, ProcessStates, At, Ensuring
  <2>2. record[i] # None /\ record[i].request = proc[p].id
    BY <2>1 DEF PVInv, IdentityInv, IdentityKnown
  <2> QED  BY <1>1, <1>2, <2>1, <2>2 DEF IdentityKnown, At
<1>11. CASE Bind(p)
  <2>1. proc[p].task \notin Identities
    BY <1>11 DEF Bind, BindIf, At, PVInv, WorkInv, Working, InRole
  <2>2. CASE Goto(p, "register")
    BY <2>1, <2>2 DEF Goto, PVInv, TypeOK, ProcessStates
  <2> QED  BY <1>3, <1>11, <2>2 DEF Bind, BindIf, Finish, PVInv, TypeOK
<1>12. Finish(p) => proc'[p] = Idle
  BY DEF Finish, PVInv, TypeOK
<1>13. ImportRefused(p) \/ KeyForFails(p) \/ Refused(p) \/ Stop(p) \/ BindRole(p)
         \/ Register(p) \/ Renew(p) => Finish(p)
  BY DEF ImportRefused, KeyForFails, Refused, Stop, BindRole, Register, Renew
<1>14. (\E t \in Tasks : Start(p, t)) => Begins(p)
  BY DEF Start, StartRole, StartAccount, Renewing, Begins, Tasks
<1> QED  BY <1>3, <1>4, <1>5, <1>6, <1>7, <1>8, <1>9, <1>10, <1>11, <1>12, <1>13, <1>14
         DEF ProcessStep, Advance

LEMMA IdentityStep ==
    ASSUME PVInv, NEW p \in Processes, ProcessStep(p)
    PROVE  IdentityInv'
<1>1. \A r \in RoleIds : issued'[r] = None => backup'[r] = None
  BY IdentityFrame, MadeForRecord, NoneAssumption DEF PVInv, IdentityInv, Tasks
<1>2. \A q \in Processes : IdentityKnown(q)'
  BY OthersKnow, SelfKnows
<1> QED  BY <1>1, <1>2, OneKeyStep DEF IdentityInv

LEMMA ProcessKeeps ==
    ASSUME PVInv, NEW p \in Processes, ProcessStep(p)
    PROVE  PVInv'
BY TypeStep, WorkStep, LockStep, KeyStep, AccountStep, IdentityStep, VolumeGrows DEF PVInv

-----------------------------------------------------------------------------
(* The application, the database, the chain and the operator *)

\* Who changes neither the processes nor the phrases and keys.
LEMMA Untouched ==
    ASSUME PVInv, UNCHANGED <<proc, backup, keyring>>
    PROVE  (WorkInv /\ KeyringInv /\ RoleInv /\ LeaseInv /\ KeyInv /\ KeyHasBackup)'
<1>1. (WorkInv /\ KeyringInv)'
  BY DEF PVInv, WorkInv, Working, KeyringInv, At
<1>2. (RoleInv /\ LeaseInv)'
  BY DEF PVInv, RoleInv, LeaseInv
<1>3. (KeyInv /\ KeyHasBackup)'
  BY DEF PVInv, KeyInv, KeyKnown, KeyHasBackup, At
<1> QED  BY <1>1, <1>2, <1>3

LEMMA SameAccounts ==
    ASSUME PVInv, UNCHANGED <<proc, account, backup, keyring>>
    PROVE  (AccountInv /\ BoundIsRecoverable)'
BY DEF PVInv, AccountInv, AccountKnown, BoundIsRecoverable, At

LEMMA SameIdentities ==
    ASSUME PVInv, UNCHANGED <<proc, record, role, backup, registered, bound, issued>>
    PROVE  IdentityInv'
<1>1. \A i \in Identities : OneKey(i)'
  BY DEF PVInv, IdentityInv, OneKey, KeyOf, Asked
<1>2. \A p \in Processes : IdentityKnown(p)'
  BY DEF PVInv, IdentityInv, IdentityKnown, KeyOf, Asked, At
<1> QED  BY <1>1, <1>2 DEF PVInv, IdentityInv

\* Without a session a process knows no less of its identity.
LEMMA LoseKeeps == PVInv /\ LoseDatabase => PVInv'
<1> SUFFICES ASSUME PVInv, LoseDatabase PROVE PVInv'
  OBVIOUS
<1>1. ASSUME NEW p \in Processes
      PROVE  /\ proc'[p] = [proc[p] EXCEPT !.live = FALSE] /\ proc'[p] \in ProcessStates
             /\ proc'[p].pc = proc[p].pc /\ proc'[p].task = proc[p].task
             /\ proc'[p].request = proc[p].request /\ proc'[p].id = proc[p].id
             /\ proc'[p].seen = proc[p].seen /\ proc'[p].address = proc[p].address
             /\ ~proc'[p].live
  <2>1. proc[p] \in ProcessStates /\ proc'[p] = [proc[p] EXCEPT !.live = FALSE]
    BY DEF LoseDatabase, PVInv, TypeOK
  <2> QED  BY <2>1 DEF ProcessStates
<1>2. UNCHANGED <<backup, keyring, imported, record, registered, joined, issued, bound, stops>>
  BY DEF LoseDatabase, volume, chain, history
<1>3. /\ \A i \in Identities : role'[i] = None
      /\ \A a \in AccountIds : account'[a] = None
  BY DEF LoseDatabase
<1>4. TypeOK'
  <2>1. proc' \in [Processes -> ProcessStates]
    BY <1>1 DEF LoseDatabase
  <2>2. role' \in [Identities -> RoleRequests \cup {None}]
        /\ account' \in [AccountIds -> AccountRequests \cup {None}]
    BY DEF LoseDatabase
  <2>3. losses' \in 0..MaxLosses
    BY FaultAssumption DEF LoseDatabase, PVInv, TypeOK
  <2> QED  BY <1>2, <2>1, <2>2, <2>3 DEF PVInv, TypeOK
<1>5. WorkInv'
  <2>1. ASSUME NEW p \in Processes, proc[p] = Idle PROVE proc'[p] = Idle
    BY <1>1, <2>1 DEF Idle
  <2>2. ASSUME NEW p \in Processes PROVE Working(p)'
    <3>1. Working(p)
      BY DEF PVInv, WorkInv
    <3> QED  BY <1>1, <2>1, <3>1 DEF Working, At
  <2> QED  BY <2>2 DEF WorkInv
<1>6. (KeyringInv /\ RoleInv /\ LeaseInv)'
  BY <1>1 DEF PVInv, KeyringInv, RoleInv, LeaseInv
<1>7. (KeyInv /\ KeyHasBackup)'
  <2>1. ASSUME NEW p \in Processes PROVE KeyKnown(p)'
    <3>1. KeyKnown(p)
      BY DEF PVInv, KeyInv
    <3> QED  BY <1>1, <1>2, <3>1 DEF KeyKnown, At
  <2> QED  BY <1>2, <2>1 DEF PVInv, KeyInv, KeyHasBackup
<1>8. (AccountInv /\ BoundIsRecoverable)'
  BY <1>1, <1>3 DEF AccountInv, AccountKnown, BoundIsRecoverable
<1>9. IdentityInv'
  <2>1. \A i \in Identities : OneKey(i)'
    BY <1>2, <1>3 DEF PVInv, IdentityInv, OneKey, KeyOf
  <2>2. ASSUME NEW p \in Processes PROVE IdentityKnown(p)'
    <3>1. IdentityKnown(p)
      BY DEF PVInv, IdentityInv
    <3> QED  BY <1>1, <1>2, <3>1 DEF IdentityKnown, KeyOf, Asked, At
  <2> QED  BY <1>2, <2>1, <2>2 DEF PVInv, IdentityInv
<1> QED  BY <1>4, <1>5, <1>6, <1>7, <1>8, <1>9 DEF PVInv

\* A new request finds no phrase of its id, and gets the key the chain knows.
LEMMA AskRoleKeeps ==
    ASSUME PVInv, NEW i \in Identities, AskRole(i)
    PROVE  PVInv'
<1>1. PICK r \in RoleIds :
        /\ issued[r] = None /\ issued' = [issued EXCEPT ![r] = i]
        /\ role' = [role EXCEPT ![i] = [id |-> r, address |-> registered[i], activated |-> FALSE]]
  BY DEF AskRole
<1>2. UNCHANGED <<backup, keyring, imported, record, account, registered, joined, proc, bound,
                  losses, stops>>
  BY DEF AskRole, volume, chain, faults
<1>3. i # None /\ \A j \in Identities : j # None
  BY NoneAssumption DEF Tasks
<1>4. TypeOK'
  <2>1. [id |-> r, address |-> registered[i], activated |-> FALSE] \in RoleRequests
    BY DEF RoleRequests, PVInv, TypeOK
  <2> QED  BY <1>1, <1>2, <2>1 DEF PVInv, TypeOK
<1>5. \A s \in RoleIds : issued[s] # None => issued'[s] = issued[s]
  BY <1>1 DEF PVInv, TypeOK
<1>6. ASSUME NEW j \in Identities PROVE OneKey(j)'
  <2>1. OneKey(j)
    BY DEF PVInv, IdentityInv
  <2>2. \A s \in RoleIds : issued'[s] = j /\ backup[s] # None => issued[s] = j
    BY <1>1 DEF PVInv, TypeOK, IdentityInv
  <2>3. role'[j] # None => issued'[role'[j].id] = j /\ Asked(j, role[j].address)'
    <3>1. CASE j = i
      <4>1. role'[j] = [id |-> r, address |-> registered[j], activated |-> FALSE]
            /\ issued'[r] = j
        BY <1>1, <3>1 DEF PVInv, TypeOK
      <4> QED  BY <1>2, <4>1 DEF Asked
    <3>2. CASE j # i
      <4>1. role'[j] = role[j] /\ (role[j] # None => role[j].id \in RoleIds)
        BY <1>1, <3>2 DEF PVInv, TypeOK, RoleRequests
      <4> QED  BY <1>2, <1>3, <1>5, <2>1, <4>1 DEF OneKey, Asked
    <3> QED  BY <3>1, <3>2
  <2>4. record[j] # None /\ record[j].request # None => issued'[record[j].request] = j
    BY <1>3, <1>5, <2>1 DEF OneKey, PVInv, TypeOK, Records
  <2> QED  BY <1>2, <2>1, <2>2, <2>3, <2>4 DEF OneKey, KeyOf, Asked
<1>7. ASSUME NEW p \in Processes PROVE IdentityKnown(p)'
  <2>1. IdentityKnown(p) /\ proc' = proc
    BY <1>2 DEF PVInv, IdentityInv
  <2>2. proc[p].task \in Identities => proc[p].request.id \in RoleIds
    BY DEF PVInv, WorkInv, Working, RoleRequests
  <2> QED  BY <1>2, <1>3, <1>5, <2>1, <2>2 DEF IdentityKnown, KeyOf, Asked, At
<1>8. \A s \in RoleIds : issued'[s] = None => backup'[s] = None
  BY <1>1, <1>2 DEF PVInv, TypeOK, IdentityInv
<1> QED  BY <1>2, <1>4, <1>6, <1>7, <1>8, Untouched, SameAccounts DEF PVInv, IdentityInv

\* A player gets a key that was bound to its identity.
LEMMA JoinKeeps ==
    ASSUME PVInv, NEW i \in Identities, Join(i)
    PROVE  PVInv'
<1>1. PICK k \in bound[i] : registered' = [registered EXCEPT ![i] = k]
  BY DEF Join
<1>2. UNCHANGED <<backup, keyring, imported, record, role, account, joined, proc, issued, bound,
                  losses, stops>> /\ registered[i] = None
  BY DEF Join, volume, sql, history, faults
<1>3. \A j \in Identities : registered'[j] = IF j = i THEN k ELSE registered[j]
  BY <1>1 DEF PVInv, TypeOK
<1>4. TypeOK'
  BY <1>1, <1>2 DEF PVInv, TypeOK
<1>5. \A j \in Identities : \A address : Asked(j, address) => Asked(j, address)'
  BY <1>2, <1>3 DEF Asked
<1>6. ASSUME NEW j \in Identities PROVE OneKey(j)'
  <2>1. OneKey(j)
    BY DEF PVInv, IdentityInv
  <2>2. j = i => registered'[j] = KeyOf(j)
    BY <1>3, <2>1 DEF OneKey
  <2>3. role[j] # None => Asked(j, role[j].address)'
    BY <1>2, <1>5, <2>1 DEF OneKey
  <2> QED  BY <1>2, <1>3, <2>1, <2>2, <2>3 DEF OneKey, KeyOf
<1>7. ASSUME NEW p \in Processes PROVE IdentityKnown(p)'
  <2>1. IdentityKnown(p)
    BY DEF PVInv, IdentityInv
  <2>2. proc[p].task \in Identities => Asked(proc[p].task, proc[p].request.address)'
    BY <1>2, <1>5, <2>1 DEF IdentityKnown
  <2> QED  BY <1>2, <2>1, <2>2 DEF IdentityKnown, KeyOf, At
<1> QED  BY <1>2, <1>4, <1>6, <1>7, Untouched, SameAccounts DEF PVInv, IdentityInv

\* What SQL and the chain do to an account leaves its key alone, and neither takes
\* the account from a process nor a failed registration from its renewal.
LEMMA AccountChange ==
    ASSUME PVInv, NEW a \in AccountIds, NEW new \in AccountRequests,
           account' = [account EXCEPT ![a] = new],
           UNCHANGED <<volume, role, registered, proc, history, faults>>, joined' \subseteq Phrases,
           \/ account[a] = None /\ new.address = None /\ new.tx = "none"
           \/ /\ account[a] # None /\ new.address = account[a].address
              /\ new.renewals = account[a].renewals
              /\ account[a].tx # "none"
              /\ account[a].tx = "failed" => new.tx = "failed"
    PROVE  PVInv'
<1>1. \A b \in AccountIds : account'[b] = IF b = a THEN new ELSE account[b]
  BY DEF PVInv, TypeOK
<1>2. UNCHANGED <<backup, keyring, imported, record, role, registered, proc, issued, bound,
                  losses, stops>>
  BY DEF volume, history, faults
<1>3. new # None
  BY NoneAssumption
<1>4. TypeOK'
  BY <1>2 DEF PVInv, TypeOK
<1>5. ASSUME NEW p \in Processes PROVE AccountKnown(p)'
  <2>1. AccountKnown(p) /\ Working(p)
    BY DEF PVInv, AccountInv, WorkInv
  <2>2. proc[p].pc \in {"register", "renew"} => proc[p].task \in AccountIds
    BY <2>1 DEF Working, At, Tasks, InRole
  <2> QED  BY <1>1, <1>2, <1>3, <2>1, <2>2 DEF AccountKnown, At
<1>6. ASSUME NEW b \in AccountIds, account'[b] # None, account'[b].tx # "none"
      PROVE  account'[b].address # None
  BY <1>1, <1>6 DEF PVInv, AccountInv
<1>7. BoundIsRecoverable'
  BY <1>1, <1>2 DEF PVInv, BoundIsRecoverable
<1> QED  BY <1>2, <1>4, <1>5, <1>6, <1>7, Untouched, SameIdentities DEF PVInv, AccountInv

LEMMA AccountsKeep ==
    ASSUME PVInv, NEW a \in AccountIds,
           AskAccount(a) \/ Decide(a) \/ \E p \in Processes : Activate(p, a)
    PROVE  PVInv'
<1>1. account[a] # None => account[a] \in AccountRequests
  BY DEF PVInv, TypeOK
<1>2. CASE AskAccount(a)
  <2> DEFINE new == [address |-> None, status |-> "generating", tx |-> "none", renewals |-> 0]
  <2>1. new \in AccountRequests
    BY FaultAssumption DEF AccountRequests
  <2> QED  BY <1>2, <2>1, AccountChange DEF AskAccount, chain, PVInv, TypeOK
<1>3. CASE Decide(a)
  <2>1. PICK tx \in {"committed", "failed"} :
          /\ account' = [account EXCEPT ![a].tx = tx]
          /\ joined' = IF tx = "committed" THEN joined \cup {account[a].address} ELSE joined
    BY <1>3 DEF Decide
  <2> DEFINE new == [account[a] EXCEPT !.tx = tx]
  <2>2. account[a] # None /\ account[a].tx = "queued"
    BY <1>3 DEF Decide
  <2>3. new \in AccountRequests /\ new.address = account[a].address
        /\ new.renewals = account[a].renewals
    BY <1>1, <2>2 DEF AccountRequests
  <2>4. joined' \subseteq Phrases
    BY <1>1, <2>1, <2>2 DEF AccountRequests, PVInv, TypeOK, AccountInv
  <2>5. account' = [account EXCEPT ![a] = new]
    BY <2>1
  <2>6. UNCHANGED <<volume, role, registered, proc, history, faults>>
    BY <1>3 DEF Decide
  <2> HIDE DEF new
  <2> QED  BY <2>2, <2>3, <2>4, <2>5, <2>6, AccountChange
<1>4. CASE \E p \in Processes : Activate(p, a)
  <2> DEFINE new == [account[a] EXCEPT !.status = "available"]
  <2>1. /\ account[a] # None /\ account[a].tx = "committed"
        /\ account' = [account EXCEPT ![a] = new]
        /\ UNCHANGED <<volume, role, registered, joined, proc, history, faults>>
    BY <1>4 DEF Activate, chain
  <2>2. new \in AccountRequests /\ new.address = account[a].address /\ new.tx = account[a].tx
        /\ new.renewals = account[a].renewals
    BY <1>1, <2>1 DEF AccountRequests
  <2>3. joined' \subseteq Phrases
    BY <2>1 DEF PVInv, TypeOK
  <2> HIDE DEF new
  <2> QED  BY <2>1, <2>2, <2>3, AccountChange
<1> QED  BY <1>2, <1>3, <1>4

LEMMA ImportKeeps ==
    ASSUME PVInv, NEW key \in Foreign, ImportKey(key)
    PROVE  PVInv'
<1>1. UNCHANGED <<backup, keyring, record, role, account, registered, joined, proc, issued, bound,
                  losses, stops>> /\ imported' \subseteq Foreign
  BY DEF ImportKey, sql, chain, history, faults, PVInv, TypeOK
<1>2. TypeOK'
  BY <1>1 DEF PVInv, TypeOK
<1> QED  BY <1>1, <1>2, Untouched, SameAccounts, SameIdentities DEF PVInv

LEMMA StutterKeeps == PVInv /\ UNCHANGED vars => PVInv'
<1> SUFFICES ASSUME PVInv, UNCHANGED vars PROVE PVInv'
  OBVIOUS
<1>1. UNCHANGED <<backup, keyring, imported, record, role, account, registered, joined, proc,
                  issued, bound, losses, stops>>
  BY DEF vars, volume, sql, chain, history, faults
<1>2. TypeOK'
  BY <1>1 DEF PVInv, TypeOK
<1> QED  BY <1>1, <1>2, Untouched, SameAccounts, SameIdentities DEF PVInv

-----------------------------------------------------------------------------
(* The theorems *)

LEMMA InitHolds == Init => PVInv
<1> SUFFICES ASSUME Init PROVE PVInv
  OBVIOUS
<1> USE DEF Init
<1>1. TypeOK
  BY IdleType, FaultAssumption DEF TypeOK, Keys
<1>2. WorkInv /\ KeyringInv /\ RoleInv /\ LeaseInv
  BY NoneAssumption DEF WorkInv, Working, KeyringInv, RoleInv, LeaseInv, Idle, At, Inside, InRole, Tasks
<1>3. KeyInv /\ KeyHasBackup
  BY DEF KeyInv, KeyKnown, KeyHasBackup, Idle, At, Ensuring
<1>4. AccountInv /\ BoundIsRecoverable
  BY DEF AccountInv, AccountKnown, BoundIsRecoverable, Idle, At
<1>5. IdentityInv
  <2>1. \A i \in Identities : OneKey(i)
    BY DEF OneKey, Ids
  <2>2. \A p \in Processes : IdentityKnown(p)
    BY NoneAssumption DEF IdentityKnown, Idle, Tasks
  <2> QED  BY <2>1, <2>2 DEF IdentityInv, Ids
<1> QED  BY <1>1, <1>2, <1>3, <1>4, <1>5 DEF PVInv

\* The inductive invariant: the file locks and leases exclude, what a process has
\* read under them is still so, and a record leads to the only key of its identity.
THEOREM ProvisioningInvariance == Spec => []PVInv
<1>1. PVInv /\ [Next]_vars => PVInv'
  <2> SUFFICES ASSUME PVInv, [Next]_vars PROVE PVInv'
    OBVIOUS
  <2>1. CASE LoseDatabase
    BY <2>1, LoseKeeps
  <2>2. CASE \E key \in Foreign : ImportKey(key)
    BY <2>2, ImportKeeps
  <2>3. CASE \E i \in Identities : AskRole(i) \/ Join(i)
    BY <2>3, AskRoleKeeps, JoinKeeps
  <2>4. CASE \E a \in AccountIds : AskAccount(a) \/ Decide(a) \/ \E p \in Processes : Activate(p, a)
    BY <2>4, AccountsKeep
  <2>5. CASE \E p \in Processes : ProcessStep(p)
    BY <2>5, ProcessKeeps
  <2>6. CASE UNCHANGED vars
    BY <2>6, StutterKeeps
  <2> QED  BY <2>1, <2>2, <2>3, <2>4, <2>5, <2>6 DEF Next, ProcessStep
<1> QED  BY <1>1, InitHolds, PTL DEF Spec

\* Provisioning never leaves its types.
THEOREM ProvisioningTypeCorrect == Spec => []TypeOK
<1>1. PVInv => TypeOK
  BY DEF PVInv
<1> QED  BY <1>1, ProvisioningInvariance, PTL

\* Keys.ensure never leaves a key whose phrase is not on the volume.
THEOREM EveryKeyHasBackup == Spec => []KeyHasBackup
<1>1. PVInv => KeyHasBackup
  BY DEF PVInv
<1> QED  BY <1>1, ProvisioningInvariance, PTL

\* The key bound to a requested account can be made again from its saved phrase.
THEOREM EveryBoundIsRecoverable == Spec => []BoundIsRecoverable
<1>1. PVInv => BoundIsRecoverable
  BY DEF PVInv
<1> QED  BY <1>1, ProvisioningInvariance, PTL

\* No crash, second process or new database gives an identity a second key.
THEOREM IdentityHasOneKey == Spec => []OneKeyPerIdentity
<1>1. PVInv => OneKeyPerIdentity
  <2> SUFFICES ASSUME PVInv, NEW i \in Identities
               PROVE  Cardinality(bound[i] \cup ({backup[r] : r \in {id \in RoleIds : issued[id] = i}}
                                                   \ {None})) <= 1
    BY DEF OneKeyPerIdentity
  <2> DEFINE made == {backup[r] : r \in {id \in RoleIds : issued[id] = i}} \ {None}
  <2>1. OneKey(i)
    BY DEF PVInv, IdentityInv
  <2>2. ASSUME NEW r \in RoleIds, issued[r] = i, backup[r] # None PROVE backup[r] = KeyOf(i)
    BY <2>1, <2>2, IdAssumption DEF OneKey, KeyOf, Ids
  <2>3. bound[i] \cup made \subseteq {KeyOf(i)}
    BY <2>1, <2>2 DEF OneKey
  <2>4. CASE bound[i] \cup made = {}
    BY <2>4, FS_EmptySet
  <2>5. CASE bound[i] \cup made = {KeyOf(i)}
    <3>1. Cardinality({KeyOf(i)}) = 1
      BY FS_Singleton
    <3> QED  BY <2>5, <3>1
  <2> QED  BY <2>3, <2>4, <2>5
<1> QED  BY <1>1, ProvisioningInvariance, PTL

\* A registration is queued a second time only after SQL says that the first failed.
THEOREM RenewsOnlyFailed == Spec => NoSecondRegistration
<1>1. PVInv /\ [Next]_vars =>
        [\A a \in AccountIds :
            account[a] # None /\ account'[a] # None /\ account'[a].renewals > account[a].renewals
              => account[a].tx = "failed"]_vars
  <2> SUFFICES ASSUME PVInv, Next, NEW a \in AccountIds, account[a] # None, account'[a] # None,
                      account'[a].renewals # account[a].renewals
               PROVE  account[a].tx = "failed"
    BY FaultAssumption DEF PVInv, TypeOK, AccountRequests
  <2>1. CASE LoseDatabase
    BY <2>1 DEF LoseDatabase
  <2>2. CASE \E key \in Foreign : ImportKey(key)
    BY <2>2 DEF ImportKey, sql
  <2>3. CASE \E i \in Identities : AskRole(i) \/ Join(i)
    BY <2>3 DEF AskRole, Join, sql
  <2>4. CASE \E b \in AccountIds : AskAccount(b) \/ Decide(b) \/ \E p \in Processes : Activate(p, b)
    BY <2>4 DEF AskAccount, Decide, Activate, PVInv, TypeOK, AccountRequests
  <2>5. CASE \E p \in Processes : ProcessStep(p)
    <3>1. PICK p \in Processes : ProcessStep(p)
      BY <2>5
    <3>2. Updates(p)
      BY <3>1, AccountGives
    <3> QED  BY <3>2 DEF Updates, Binds, Queues, PVInv, TypeOK
  <2> QED  BY <2>1, <2>2, <2>3, <2>4, <2>5 DEF Next, ProcessStep
<1> QED  BY <1>1, ProvisioningInvariance, PTL DEF Spec, NoSecondRegistration
-----------------------------------------------------------------------------
(* Refinement: what each step is to IdentityKeys. *)

LEMMA SameKeys ==
    ASSUME \A i \in Identities : KeyOf(i)' = KeyOf(i),
           UNCHANGED <<backup, keyring, bound, registered, joined>>
    PROVE  UNCHANGED Promise!vars
BY DEF Promise!vars

\* The ids of a saved phrase and of a chosen key belong together.
LEMMA GenerateSaves ==
    ASSUME PVInv, NEW p \in Processes, Generate(p)
    PROVE  Promise!Next
<1> DEFINE r == proc[p].id  t == proc[p].task
<1>1. PICK k \in Fresh : backup' = [backup EXCEPT ![r] = k]
  BY DEF Generate
<1>2. /\ UNCHANGED <<keyring, record, bound, registered, joined>>
      /\ k \in Phrases /\ \A s \in Ids : backup[s] # k
  BY DEF Generate, Fresh, chain, history
<1>3. r \in Ids /\ backup[r] = None /\ backup'[r] = k
  BY <1>1 DEF Generate, At, PVInv, TypeOK, ProcessStates, KeyInv, KeyKnown, Ensuring
<1>4. /\ t \in Identities \cup AccountIds
      /\ t \in AccountIds => r = t
  BY DEF Generate, At, PVInv, WorkInv, Working, Tasks
<1>5. Promise!Save(r, k)
  BY <1>1, <1>2, <1>3 DEF Promise!Save
<1>6. \A j \in Identities : record[j] # None /\ record[j].request = r => issued[r] = j
  BY <1>3, IdAssumption DEF PVInv, IdentityInv, OneKey, Ids
<1>7. \A j \in Identities : ~(record[j] # None /\ record[j].request = r) => KeyOf(j)' = KeyOf(j)
  <2>1. \A j \in Identities : record[j] # None /\ record[j].request # None => record[j].request \in Ids
    BY DEF PVInv, TypeOK, Records, Ids
  <2> QED  BY <1>1, <1>2, <2>1 DEF KeyOf, PVInv, TypeOK
<1>8. CASE t \in AccountIds
  <2>1. \A j \in Identities : ~(record[j] # None /\ record[j].request = r)
    BY <1>3, <1>4, <1>8, IdAssumption DEF PVInv, TypeOK, Records, Ids
  <2>2. \A j \in Identities : KeyOf(j)' = KeyOf(j)
    BY <1>7, <2>1
  <2>3. Promise!SaveForRequest(r, k)
    BY <1>5, <2>2 DEF Promise!SaveForRequest
  <2> QED  BY <1>2, <1>3, <2>3 DEF Promise!Next
<1>9. ASSUME NEW i \in Identities, t = i PROVE Promise!Next
  <2>1. record[i] # None /\ record[i].request = r /\ r # None
    BY <1>9 DEF Generate, At, PVInv, IdentityInv, IdentityKnown, Ensuring, KeyInv, KeyKnown
  <2>2. KeyOf(i) = None /\ KeyOf(i)' = k
    BY <1>2, <1>3, <2>1 DEF KeyOf
  <2>3. registered[i] = None
    BY <2>1, <2>2 DEF PVInv, IdentityInv, OneKey
  <2>4. \A j \in Identities : j # i => KeyOf(j)' = KeyOf(j)
    BY <1>6, <1>7, <1>9, <2>1
  <2>5. [j \in Identities |-> KeyOf(j)'] = [[j \in Identities |-> KeyOf(j)] EXCEPT ![i] = k]
    BY <2>2, <2>4
  <2>6. Promise!SaveForIdentity(r, k, i)
    BY <1>5, <2>2, <2>3, <2>5 DEF Promise!SaveForIdentity
  <2> QED  BY <1>2, <1>3, <2>6 DEF Promise!Next
<1> QED  BY <1>4, <1>8, <1>9

LEMMA ImportMakes ==
    ASSUME PVInv, NEW p \in Processes, Import(p)
    PROVE  Promise!Next
<1> DEFINE r == proc[p].id
<1>1. /\ keyring[r] = None /\ keyring' = [keyring EXCEPT ![r] = backup[r]]
      /\ UNCHANGED <<backup, record, bound, registered, joined>>
  BY DEF Import, chain, history
<1>2. r \in Ids /\ backup[r] # None
  BY DEF Import, At, PVInv, TypeOK, ProcessStates, KeyInv, KeyKnown, Ensuring
<1>3. \A i \in Identities : KeyOf(i)' = KeyOf(i)
  BY <1>1 DEF KeyOf
<1>4. Promise!MakeKey(r)
  BY <1>1, <1>2, <1>3 DEF Promise!MakeKey
<1> QED  BY <1>2, <1>4 DEF Promise!Next

\* A first record with an address adopts the player's key; any other write of a
\* record leads to the key it led to before.
LEMMA WriteAdopts ==
    ASSUME PVInv, NEW p \in Processes, ProcessStep(p), record' # record
    PROVE  \/ \A i \in Identities : KeyOf(i)' = KeyOf(i)
           \/ \E i \in Identities :
                /\ KeyOf(i) = None /\ registered[i] # None /\ KeyOf(i)' = registered[i]
                /\ \A j \in Identities : j # i => KeyOf(j)' = KeyOf(j)
<1>1. PICK new \in Records : Writes(p, new)
  BY RecordStep
<1>0. PICK i \in Identities : i = proc[p].task
  BY <1>1 DEF Writes
<1>2. /\ record'[i] = new /\ backup' = backup /\ new # None
      /\ \A j \in Identities : j # i => record'[j] = record[j]
  BY <1>0, <1>1, NoneAssumption DEF Writes, PVInv, TypeOK
<1>3. \A j \in Identities : j # i => KeyOf(j)' = KeyOf(j)
  BY <1>2 DEF KeyOf
<1>4. CASE record[i] = None /\ new.request = None
  <2>1. KeyOf(i) = None /\ KeyOf(i)' = new.address /\ new.address # None
    BY <1>0, <1>1, <1>2, <1>4, IdAssumption DEF KeyOf, Writes, Ids
  <2>2. AnswerKnown(p) /\ record[i] = None
    <3>1. AnswerKnown(p) \/ Make(p) \/ SaveRole(p)
      BY IdentityFrame DEF PVInv
    <3>2. ~Make(p)
      <4>1. ASSUME Make(p) PROVE record' = [record EXCEPT ![i] =
                                              [request |-> proc[p].request.id, address |-> None]]
                                  \/ record' = record
        BY <1>0, <4>1, MakeGives
      <4> QED  BY <1>2, <2>1, <4>1 DEF PVInv, TypeOK
    <3>3. ~SaveRole(p)
      BY <1>0, <1>2, <1>4 DEF SaveRole, At, PVInv, IdentityInv, IdentityKnown
    <3> QED  BY <1>4, <3>1, <3>2, <3>3
  <2>3. Known(p) = registered[i] /\ Known(p) # None /\ proc[p].seen = None
    BY <1>0, <2>2, KnownIsKey
  <2>4. record' = [record EXCEPT ![i] = [request |-> None, address |-> Known(p)]]
    BY <1>0, <2>2, <2>3 DEF AnswerKnown, SaveRecord
  <2>5. new.address = Known(p)
    BY <1>2, <2>4 DEF PVInv, TypeOK
  <2> QED  BY <1>2, <1>3, <2>1, <2>3, <2>5
<1>5. CASE record[i] = None /\ new.request # None
  <2>1. new.request \in RoleIds /\ issued[new.request] = i
    BY <1>0, <1>1, <1>5 DEF Writes
  <2>2. backup[new.request] = None
    BY <1>2, <1>5, <2>1 DEF PVInv, IdentityInv, OneKey
  <2>3. KeyOf(i)' = KeyOf(i)
    BY <1>2, <1>5, <2>2 DEF KeyOf
  <2> QED  BY <1>3, <2>3
<1>6. CASE record[i] # None
  <2>1. KeyOf(i)' = KeyOf(i)
    BY <1>0, <1>1, <1>2, <1>6 DEF KeyOf, Writes
  <2> QED  BY <1>3, <2>1
<1> QED  BY <1>4, <1>5, <1>6

LEMMA RecordsAdopt ==
    ASSUME PVInv, NEW p \in Processes, ProcessStep(p), record' # record
    PROVE  Promise!Next \/ UNCHANGED Promise!vars
<1>1. UNCHANGED <<backup, keyring, bound, registered, joined>>
  <2>1. AnswerKnown(p) \/ Make(p) \/ SaveRole(p)
    BY IdentityFrame DEF PVInv
  <2> QED  BY <2>1 DEF AnswerKnown, Make, Making, SaveRole, chain, history
<1>2. CASE \A i \in Identities : KeyOf(i)' = KeyOf(i)
  BY <1>1, <1>2, SameKeys
<1>3. ASSUME NEW i \in Identities, KeyOf(i) = None, registered[i] # None, KeyOf(i)' = registered[i],
             \A j \in Identities : j # i => KeyOf(j)' = KeyOf(j)
      PROVE  Promise!Next
  <2>1. [j \in Identities |-> KeyOf(j)'] = [[j \in Identities |-> KeyOf(j)] EXCEPT ![i] = registered[i]]
    BY <1>3
  <2>2. Promise!Adopt(i)
    BY <1>1, <1>3, <2>1 DEF Promise!Adopt
  <2> QED  BY <2>2 DEF Promise!Next
<1> QED  BY <1>2, <1>3, WriteAdopts

LEMMA BindRoleGivesKey ==
    ASSUME PVInv, NEW p \in Processes, BindRole(p)
    PROVE  Promise!Next \/ UNCHANGED Promise!vars
<1> DEFINE i == proc[p].task  key == proc[p].address
<1>1. UNCHANGED <<backup, keyring, record, registered, joined>>
  BY DEF BindRole, volume, chain
<1>2. \A j \in Identities : KeyOf(j)' = KeyOf(j)
  BY <1>1 DEF KeyOf
<1>3. CASE bound' = bound
  BY <1>1, <1>2, <1>3, SameKeys
<1>4. CASE bound' # bound
  <2>1. i \in Identities /\ key # None /\ key = KeyOf(i) /\ bound' = [bound EXCEPT ![i] = @ \cup {key}]
    BY <1>4, BindRoleGives
  <2>2. bound[i] \cup {key} = {KeyOf(i)}
    BY <2>1 DEF PVInv, IdentityInv, OneKey
  <2>3. bound' = [bound EXCEPT ![i] = {KeyOf(i)}]
    BY <2>1, <2>2
  <2>4. Promise!Give(i)
    BY <1>1, <1>2, <2>1, <2>3 DEF Promise!Give
  <2> QED  BY <2>1, <2>4 DEF Promise!Next
<1> QED  BY <1>3, <1>4

LEMMA ProcessImplements ==
    ASSUME PVInv, NEW p \in Processes, ProcessStep(p)
    PROVE  Promise!Next \/ UNCHANGED Promise!vars
<1>1. CASE Generate(p) \/ Import(p)
  BY <1>1, GenerateSaves, ImportMakes
<1>2. CASE record' # record
  BY <1>2, RecordsAdopt
<1>3. CASE BindRole(p)
  BY <1>3, BindRoleGivesKey
<1>4. CASE ~(Generate(p) \/ Import(p)) /\ record' = record /\ ~BindRole(p)
  <2>1. UNCHANGED <<backup, keyring, registered, bound>>
    BY <1>4, VolumeStep, IdentityFrame DEF PVInv
  <2>2. joined' = joined
    BY DEF ProcessStep, Advance, Stop, Disconnect, Start, StartRole, StartAccount, Renewing, Begin,
       Ensure, ShowKey, ShowNothing, Generate, Import, ImportRefused, OpenRecord, AnswerKnown,
       KeyForFails, Make, Making, SaveRole, BindRole, Bind, BindIf, Register, Renew, Refused,
       OnlyProc, chain
  <2>3. \A i \in Identities : KeyOf(i)' = KeyOf(i)
    BY <1>4, <2>1 DEF KeyOf
  <2> QED  BY <2>1, <2>2, <2>3, SameKeys
<1> QED  BY <1>1, <1>2, <1>3, <1>4

LEMMA DecideEnrols ==
    ASSUME PVInv, NEW a \in AccountIds, Decide(a)
    PROVE  Promise!Next \/ UNCHANGED Promise!vars
<1>1. UNCHANGED <<backup, keyring, record, bound, registered>>
  BY DEF Decide, volume, history
<1>2. \A i \in Identities : KeyOf(i)' = KeyOf(i)
  BY <1>1 DEF KeyOf
<1>3. account[a].address # None /\ account[a].address = keyring[a] /\ a \in Ids
  BY DEF Decide, PVInv, AccountInv, BoundIsRecoverable, Ids
<1>4. CASE joined' = joined
  BY <1>1, <1>2, <1>4, SameKeys
<1>5. CASE joined' # joined
  <2>1. joined' = joined \cup {keyring[a]}
    BY <1>3, <1>5 DEF Decide
  <2>2. Promise!Enrol(a)
    BY <1>1, <1>2, <1>3, <2>1 DEF Promise!Enrol
  <2> QED  BY <1>3, <2>2 DEF Promise!Next
<1> QED  BY <1>4, <1>5

\* Provisioning implements IdentityKeys: whatever crashes, overlaps and is lost, a
\* phrase is saved first and never replaced, and the key of an identity is chosen
\* once and is the only one given out for it (accounts.py:63-84, roles.py:20-50).
THEOREM ProvisioningImplements == Spec => ImplementsIdentityKeys
<1>1. Init => Promise!Init
  BY DEF Init, Promise!Init, KeyOf
<1>2. PVInv /\ [Next]_vars => [Promise!Next]_(Promise!vars)
  <2> SUFFICES ASSUME PVInv, [Next]_vars PROVE Promise!Next \/ UNCHANGED Promise!vars
    OBVIOUS
  <2>1. CASE LoseDatabase \/ (\E key \in Foreign : ImportKey(key)) \/ (\E i \in Identities : AskRole(i))
          \/ (\E a \in AccountIds : AskAccount(a) \/ \E p \in Processes : Activate(p, a)) \/ UNCHANGED vars
    <3>1. UNCHANGED <<backup, keyring, record, bound, registered, joined>>
      BY <2>1 DEF LoseDatabase, ImportKey, AskRole, AskAccount, Activate, vars, volume, chain, history
    <3>2. \A i \in Identities : KeyOf(i)' = KeyOf(i)
      BY <3>1 DEF KeyOf
    <3> QED  BY <3>1, <3>2, SameKeys
  <2>2. ASSUME NEW i \in Identities, Join(i) PROVE Promise!Next
    <3>1. UNCHANGED <<backup, keyring, record, bound, joined>>
      BY <2>2 DEF Join, volume, history
    <3>2. \A j \in Identities : KeyOf(j)' = KeyOf(j)
      BY <3>1 DEF KeyOf
    <3>3. Promise!Join(i)
      BY <2>2, <3>1, <3>2 DEF Join, Promise!Join
    <3> QED  BY <3>3 DEF Promise!Next
  <2>3. CASE \E a \in AccountIds : Decide(a)
    BY <2>3, DecideEnrols
  <2>4. CASE \E p \in Processes : ProcessStep(p)
    BY <2>4, ProcessImplements
  <2> QED  BY <2>1, <2>2, <2>3, <2>4 DEF Next, ProcessStep
<1> QED  BY <1>1, <1>2, ProvisioningInvariance, PTL DEF Spec, ImplementsIdentityKeys, Promise!Spec
==============================================================================
