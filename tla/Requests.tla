------------------------------- MODULE Requests ------------------------------
(***************************************************************************)
(* Requests for more keys, made at most once whatever is lost on the way:  *)
(* Pools.run saves a request with its UUID in the file of the role before  *)
(* it asks SQL, an operator's request is saved under the UUID it is        *)
(* repeated with.  The files survive the database.  Queued works and UUIDs *)
(* of the pool manager are numbers, drawn in order.                        *)
(***************************************************************************)
EXTENDS Integers, FiniteSets

CONSTANTS
    Roles,         \* numeric ids of roles, the same ones in every database
    Managers,      \* maintenance threads that may overlap
    Operators,     \* runs of an operator command
    Uuids,         \* request ids an operator may give
    Arguments,     \* what an operator may ask for
    MaxWorks,      \* bound: rows queued in all databases
    MaxRequests,   \* bound: UUIDs the pool managers draw
    MaxLosses,     \* bound: losses of the database
    MaxStops,      \* bound: crashes, failed calls and stops of a manager
    None

ASSUME BoundAssumption == {MaxWorks, MaxRequests, MaxLosses, MaxStops} \subseteq Nat

Intents == [id : 1..MaxRequests, work : 1..MaxWorks, resolved : BOOLEAN]
Asked == [id : 1..MaxRequests, role : Roles, work : 1..MaxWorks]
Commands == [uuid : Uuids, args : Arguments]
ManagerStates ==
    [pc : {"idle", "next", "submit", "acknowledge"}, todo : SUBSET Roles, done : SUBSET Roles,
     page : [Roles -> 0..MaxWorks], role : Roles \cup {None}, growing : BOOLEAN, live : BOOLEAN]

ASSUME NoneAssumption == None \notin Roles \cup Arguments \cup Intents \cup Commands

VARIABLES
    intent,      \* pool-requests/<role>.json
    pending,     \* SQL: the queued row of a role that waits for a key
    asked,       \* SQL: pool requests by UUID
    mgr,         \* a manager: next call, roles to do, the intent in hand
    argfile,     \* operator-requests/<uuid>.json
    manual,      \* SQL: operator requests by UUID
    op,          \* an operator's command: what it is about to ask for
    works, requests, losses, stops,
    simulated,   \* history: works whose simulation by a manager passed
    settled,     \* history: UUIDs with an acknowledgement on the volume
    meant        \* history: what SQL was ever asked for under a UUID

poolVars == <<intent, mgr, requests, simulated, settled>>
operatorVars == <<argfile, op>>
sqlVars == <<pending, asked, manual, meant>>
faults == <<losses, stops>>
vars == <<poolVars, operatorVars, sqlVars, works, faults>>

Idle == [pc |-> "idle", todo |-> {}, done |-> {}, page |-> [r \in Roles |-> 0],
         role |-> None, growing |-> FALSE, live |-> FALSE]

TypeOK ==
    /\ intent \in [Roles -> Intents \cup {None}]
    /\ pending \in [Roles -> 0..MaxWorks] /\ asked \subseteq Asked
    /\ mgr \in [Managers -> ManagerStates]
    /\ argfile \in [Uuids -> Arguments \cup {None}] /\ manual \in [Uuids -> Arguments \cup {None}]
    /\ op \in [Operators -> Commands \cup {None}]
    /\ works \in 0..MaxWorks /\ requests \in 0..MaxRequests
    /\ losses \in 0..MaxLosses /\ stops \in 0..MaxStops
    /\ simulated \subseteq 1..MaxWorks /\ settled \subseteq 1..MaxRequests
    /\ meant \in [Uuids -> SUBSET Arguments]

Init ==
    /\ intent = [r \in Roles |-> None]
    /\ pending = [r \in Roles |-> 0] /\ asked = {}
    /\ mgr = [m \in Managers |-> Idle]
    /\ argfile = [u \in Uuids |-> None] /\ manual = [u \in Uuids |-> None]
    /\ op = [o \in Operators |-> None]
    /\ works = 0 /\ requests = 0 /\ losses = 0 /\ stops = 0
    /\ simulated = {} /\ settled = {} /\ meant = [u \in Uuids |-> {}]

-----------------------------------------------------------------------------
(* The queue and the database *)

\* A row that no idle key may sign; rows of a rebuilt database are others, under
\* the same numbers.
Enqueue(r) ==
    /\ pending[r] = 0 /\ works < MaxWorks
    /\ works' = works + 1
    /\ pending' = [pending EXCEPT ![r] = works']
    /\ UNCHANGED <<poolVars, operatorVars, asked, manual, meant, faults>>

\* A key has become free, or the row was withdrawn.
Dequeue(r) ==
    /\ pending[r] # 0
    /\ pending' = [pending EXCEPT ![r] = 0]
    /\ UNCHANGED <<poolVars, operatorVars, asked, manual, meant, works, faults>>

LoseDatabase ==
    /\ losses < MaxLosses /\ losses' = losses + 1
    /\ pending' = [r \in Roles |-> 0] /\ asked' = {} /\ manual' = [u \in Uuids |-> None]
    /\ mgr' = [m \in Managers |-> [mgr[m] EXCEPT !.live = FALSE]]
    /\ UNCHANGED <<intent, requests, simulated, settled, operatorVars, meant, works, stops>>

-----------------------------------------------------------------------------
(* Pools.run.  The pool-manager lock lasts from Start to the return.       *)

At(m, pc) == mgr[m].pc = pc
OnlyManager == UNCHANGED <<intent, requests, simulated, settled, operatorVars, sqlVars, works, faults>>

Locked == \E m \in Managers : ~At(m, "idle")

Unresolved(r) == intent[r] # None /\ ~intent[r].resolved

StartUnlocked(m) ==
    /\ At(m, "idle")
    /\ mgr' = [mgr EXCEPT ![m] = [Idle EXCEPT !.pc = "next", !.live = TRUE,
                                              !.todo = {r \in Roles : Unresolved(r)}]]
    /\ OnlyManager

StartOver(m) ==
    /\ At(m, "idle") /\ ~Locked
    /\ mgr' = [mgr EXCEPT ![m] = [Idle EXCEPT !.pc = "next", !.live = TRUE,
                                              !.todo = {r \in Roles : intent[r] # None}]]
    /\ OnlyManager

Start(m) ==
    /\ At(m, "idle") /\ ~Locked
    /\ mgr' = [mgr EXCEPT ![m] = [Idle EXCEPT !.pc = "next", !.live = TRUE,
                                              !.todo = {r \in Roles : Unresolved(r)}]]
    /\ OnlyManager

\* The next role of the list in hand, with its intent to be put to SQL.
Take(m, r) ==
    /\ At(m, "next") /\ r \in mgr[m].todo
    /\ mgr' = [mgr EXCEPT ![m].todo = @ \ {r}, ![m].done = @ \cup {r},
                          ![m].role = r, ![m].pc = "submit"]

RetryCurrent(m, r) ==
    /\ ~mgr[m].growing /\ Take(m, r) /\ OnlyManager
    /\ intent[r].work = pending[r]

\* An unresolved intent is repeated, whatever has become of its work.
Retry(m, r) == ~mgr[m].growing /\ Take(m, r) /\ OnlyManager

\* Roles with a queued row that no idle key may sign, but some ready key of the
\* role will.
Candidates == {r \in Roles : pending[r] # 0}

\* One candidate per role, and none of a role seen before.
ReadPage(m) ==
    /\ At(m, "next") /\ ~mgr[m].growing /\ mgr[m].todo = {} /\ mgr[m].live
    /\ mgr' = [mgr EXCEPT ![m].growing = TRUE, ![m].page = pending,
                          ![m].todo = Candidates \ mgr[m].done]
    /\ OnlyManager

\* The work passes its simulation: a new UUID is on the disk before it is used.
Grow(m, r) ==
    /\ mgr[m].growing /\ Take(m, r) /\ requests < MaxRequests
    /\ requests' = requests + 1
    /\ simulated' = simulated \cup {mgr[m].page[r]}
    /\ intent' = [intent EXCEPT ![r] = [id |-> requests', work |-> mgr[m].page[r], resolved |-> FALSE]]
    /\ UNCHANGED <<settled, operatorVars, sqlVars, works, faults>>

\* A throttle, a rejection or missing evidence is no reason to grow.
LeaveOut(m, r) ==
    /\ At(m, "next") /\ mgr[m].growing /\ r \in mgr[m].todo
    /\ mgr' = [mgr EXCEPT ![m].todo = @ \ {r}, ![m].done = @ \cup {r}]
    /\ OnlyManager

FreshContext(r) == pending[r]

\* What SQL is told about the work: the context that was simulated.
SourceContext(r) == intent[r].work

\* SQL takes a request for the work that is queued now, answers a known UUID
\* with the request it has, and may refuse: the role has an open registration,
\* or is at its capacity.
Submit(m) ==
    /\ At(m, "submit") /\ mgr[m].live
    /\ LET r == mgr[m].role IN
       \/ /\ pending[r] # 0 /\ pending[r] = SourceContext(r)
          /\ \A a \in asked : a.id # intent[r].id
          /\ asked' = asked \cup {[id |-> intent[r].id, role |-> r, work |-> pending[r]]}
       \/ UNCHANGED asked
    /\ mgr' = [mgr EXCEPT ![m].pc = "acknowledge"]
    /\ UNCHANGED <<intent, requests, simulated, settled, operatorVars, pending, manual, meant, works, faults>>

\* A refusal resolves the intent as well.
Acknowledge(m) ==
    /\ At(m, "acknowledge")
    /\ LET r == mgr[m].role IN
       /\ intent' = [intent EXCEPT ![r].resolved = TRUE]
       /\ settled' = settled \cup {intent[r].id}
    /\ mgr' = [mgr EXCEPT ![m].pc = "next", ![m].role = None]
    /\ UNCHANGED <<requests, simulated, operatorVars, sqlVars, works, faults>>

Finish(m) ==
    /\ At(m, "next") /\ mgr[m].growing /\ mgr[m].todo = {}
    /\ mgr' = [mgr EXCEPT ![m] = Idle]
    /\ OnlyManager

\* A stop signal, a killed process, an error or a lost acknowledgement.
Stop(m) ==
    /\ ~At(m, "idle") /\ stops < MaxStops
    /\ stops' = stops + 1
    /\ mgr' = [mgr EXCEPT ![m] = Idle]
    /\ UNCHANGED <<intent, requests, simulated, settled, operatorVars, sqlVars, works, losses>>

\* The next call of the database raises once its session is gone.
Refused(m) ==
    /\ ~mgr[m].live
    /\ At(m, "submit") \/ (At(m, "next") /\ ~mgr[m].growing /\ mgr[m].todo = {})
    /\ mgr' = [mgr EXCEPT ![m] = Idle]
    /\ OnlyManager

Manage(m) ==
    \/ \E r \in Roles : Retry(m, r) \/ Grow(m, r) \/ LeaveOut(m, r)
    \/ ReadPage(m) \/ Submit(m) \/ Acknowledge(m) \/ Finish(m) \/ Refused(m)

-----------------------------------------------------------------------------
(* operator.request: the arguments are compared and saved under a lock, so *)
(* in one step; SQL is asked after it is released.                         *)

RecordUncompared(o, u, args) ==
    /\ op[o] = None
    /\ argfile' = IF argfile[u] = None THEN [argfile EXCEPT ![u] = args] ELSE argfile
    /\ op' = [op EXCEPT ![o] = [uuid |-> u, args |-> args]]
    /\ UNCHANGED <<poolVars, sqlVars, works, faults>>

\* Other arguments under a known UUID are refused.
Record(o, u, args) ==
    /\ op[o] = None /\ argfile[u] \in {None, args}
    /\ argfile' = [argfile EXCEPT ![u] = args]
    /\ op' = [op EXCEPT ![o] = [uuid |-> u, args |-> args]]
    /\ UNCHANGED <<poolVars, sqlVars, works, faults>>

\* SQL keeps the first request of a UUID.
Ask(o) ==
    /\ op[o] # None
    /\ LET u == op[o].uuid IN
       IF manual[u] = None
       THEN /\ manual' = [manual EXCEPT ![u] = op[o].args]
            /\ meant' = [meant EXCEPT ![u] = @ \cup {op[o].args}]
       ELSE UNCHANGED <<manual, meant>>
    /\ op' = [op EXCEPT ![o] = None]
    /\ UNCHANGED <<poolVars, argfile, pending, asked, works, faults>>

\* The command is killed or loses its connection before SQL has taken it; an
\* answer that is lost leaves nothing behind and needs no step.
Interrupt(o) ==
    /\ op[o] # None
    /\ op' = [op EXCEPT ![o] = None]
    /\ UNCHANGED <<poolVars, argfile, sqlVars, works, faults>>

-----------------------------------------------------------------------------
Next ==
    \/ LoseDatabase
    \/ \E r \in Roles : Enqueue(r) \/ Dequeue(r)
    \/ \E m \in Managers : Start(m) \/ Manage(m) \/ Stop(m)
    \/ \E o \in Operators :
         \/ Ask(o) \/ Interrupt(o)
         \/ \E u \in Uuids, args \in Arguments : Record(o, u, args)

Spec == Init /\ [][Next]_vars

-----------------------------------------------------------------------------
(* Safety *)

\* A request that SQL has is on the volume until its answer is: a lost answer
\* is asked for again under the same UUID, and no second request takes the
\* place of the first (pools.py:24-26).
AskedIsRetained ==
    \A a \in asked :
        a.id \notin settled =>
            intent[a.role] = [id |-> a.id, work |-> a.work, resolved |-> FALSE]

\* A role only grows for a queued work whose simulation passed, also when an
\* intent is repeated against a rebuilt database (pools.py:51-66; README.md:102:
\* pool requests require simulation).
GrowthWasSimulated == \A a \in asked : a.work \in simulated

\* A UUID means one request, in every database that ever saw it
\* (operator.py:28-32; test: "Request UUID already identifies different operator
\* arguments").
UuidMeansOne == \A u \in Uuids : meant[u] \subseteq {argfile[u]}

\* Under OneRequest a role has a question while its intent is unresolved.
Hand == [r \in Roles |-> IF Unresolved(r) THEN intent[r] ELSE None]

Promise == INSTANCE OneRequest
    WITH hand <- Hand, drawn <- requests, proven <- simulated, recorded <- asked,
         purpose <- argfile, served <- manual, Questions <- Intents

\* Every step is one of OneRequest or leaves it alone: what was answered, with a
\* refusal too, is never put to SQL again, and what was not is put to it under the
\* same id and for the same work (pools.py:24-40, 63-68; operator.py:28-44).
ImplementsOneRequest == Promise!Spec

-----------------------------------------------------------------------------
(* Liveness.  The maintenance loop runs the manager again and again, its   *)
(* calls are answered once the faults have ceased.                         *)

\* Of all managers the one with the lock is the one that goes on.
Fairness == WF_vars(\E m \in Managers : Start(m) \/ Manage(m))

LiveSpec == Spec /\ Fairness

\* No intent blocks the growth of its role for ever (pools.py:30-40).
IntentIsResolved == \A r \in Roles : Unresolved(r) ~> ~Unresolved(r)
==============================================================================
