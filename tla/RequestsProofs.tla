---------------------------- MODULE RequestsProofs ----------------------------
(***************************************************************************)
(* Proofs about Requests, for every number of roles, managers, operators,  *)
(* losses and crashes.                                                     *)
(***************************************************************************)
EXTENDS Requests, TLAPS

\* The pool-manager lock.
OneManager ==
    \A m, n \in Managers : ~At(m, "idle") /\ ~At(n, "idle") => m = n

\* What a manager in its run still has to do about the files: every unresolved
\* intent is in its list or in its hands, and while it grows none is in the list.
Run(m) ==
    ~At(m, "idle") =>
        /\ mgr[m].pc \in {"submit", "acknowledge"} =>
             mgr[m].role \in Roles \ mgr[m].todo /\ Unresolved(mgr[m].role)
        /\ ~mgr[m].growing => \A r \in mgr[m].todo : Unresolved(r)
        /\ mgr[m].growing => \A r \in mgr[m].todo : mgr[m].page[r] # 0
        /\ \A r \in Roles : Unresolved(r) =>
             \/ ~mgr[m].growing /\ r \in mgr[m].todo
             \/ mgr[m].pc \in {"submit", "acknowledge"} /\ r = mgr[m].role

RunInv == \A m \in Managers : Run(m)

\* An intent is only ever saved after the simulation of its work.
IntentInv == \A r \in Roles : intent[r] # None => intent[r].work \in simulated

\* A command goes to SQL with the arguments of the file, and nothing else does.
CommandInv ==
    /\ \A o \in Operators : op[o] # None => argfile[op[o].uuid] = op[o].args
    /\ \A u \in Uuids : argfile[u] = None => meant[u] = {}

RInv ==
    /\ TypeOK /\ OneManager /\ RunInv /\ IntentInv /\ CommandInv
    /\ AskedIsRetained /\ GrowthWasSimulated /\ UuidMeansOne

\* The invariant holds at the start.
LEMMA InitRInv == Init => RInv
<1> SUFFICES ASSUME Init PROVE RInv
  OBVIOUS
<1>1. Idle \in ManagerStates
  BY BoundAssumption DEF Idle, ManagerStates
<1>2. TypeOK
  BY <1>1, BoundAssumption DEF Init, TypeOK
<1>3. OneManager /\ RunInv
  BY DEF Init, OneManager, RunInv, Run, At, Idle
<1>4. IntentInv /\ CommandInv /\ AskedIsRetained /\ GrowthWasSimulated /\ UuidMeansOne
  BY DEF Init, IntentInv, CommandInv, AskedIsRetained, GrowthWasSimulated, UuidMeansOne
<1> QED  BY <1>2, <1>3, <1>4 DEF RInv

\* A row that comes or goes concerns no file and no request.
LEMMA QueueRInv ==
    ASSUME RInv, NEW r \in Roles, Enqueue(r) \/ Dequeue(r)
    PROVE  RInv'
<1>1. UNCHANGED <<intent, mgr, requests, simulated, settled, argfile, op, asked, manual, meant,
                  losses, stops>>
  BY DEF Enqueue, Dequeue, poolVars, operatorVars, faults
<1>2. TypeOK'
  BY <1>1, BoundAssumption DEF RInv, TypeOK, Enqueue, Dequeue
<1>3. OneManager' /\ RunInv'
  BY <1>1 DEF RInv, OneManager, RunInv, Run, At, Unresolved
<1>4. IntentInv' /\ CommandInv' /\ AskedIsRetained' /\ GrowthWasSimulated' /\ UuidMeansOne'
  BY <1>1 DEF RInv, IntentInv, CommandInv, AskedIsRetained, GrowthWasSimulated, UuidMeansOne
<1> QED  BY <1>2, <1>3, <1>4 DEF RInv

\* A new database has no requests; the files and the runs stay as they are.
LEMMA LoseRInv ==
    ASSUME RInv, LoseDatabase
    PROVE  RInv'
<1> USE DEF RInv
<1>1. mgr' = [m \in Managers |-> [mgr[m] EXCEPT !.live = FALSE]]
  BY DEF LoseDatabase
<1>2. \A m \in Managers :
        /\ mgr'[m] \in ManagerStates
        /\ mgr'[m].pc = mgr[m].pc /\ mgr'[m].todo = mgr[m].todo /\ mgr'[m].role = mgr[m].role
        /\ mgr'[m].page = mgr[m].page /\ mgr'[m].growing = mgr[m].growing
  <2> SUFFICES ASSUME NEW m \in Managers
               PROVE  /\ mgr'[m] \in ManagerStates
                      /\ mgr'[m].pc = mgr[m].pc /\ mgr'[m].todo = mgr[m].todo
                      /\ mgr'[m].role = mgr[m].role /\ mgr'[m].page = mgr[m].page
                      /\ mgr'[m].growing = mgr[m].growing
    OBVIOUS
  <2>1. mgr[m] \in ManagerStates
    BY DEF TypeOK
  <2>2. mgr'[m] = [mgr[m] EXCEPT !.live = FALSE]
    BY <1>1
  <2> QED  BY <2>1, <2>2 DEF ManagerStates
<1>3. TypeOK'
  BY <1>2, <1>1, BoundAssumption DEF LoseDatabase, TypeOK, operatorVars
<1>4. OneManager' /\ RunInv'
  <2>1. intent' = intent
    BY DEF LoseDatabase
  <2>2. ASSUME NEW m \in Managers PROVE Run(m)'
    <3>1. Run(m)
      BY DEF RunInv
    <3>2. mgr'[m].pc = mgr[m].pc /\ mgr'[m].todo = mgr[m].todo /\ mgr'[m].role = mgr[m].role
          /\ mgr'[m].page = mgr[m].page /\ mgr'[m].growing = mgr[m].growing
      BY <1>2
    <3> QED  BY <2>1, <3>1, <3>2 DEF Run, At, Unresolved
  <2> QED  BY <1>2, <2>2 DEF OneManager, RunInv, At
<1>5. IntentInv' /\ CommandInv' /\ AskedIsRetained' /\ GrowthWasSimulated' /\ UuidMeansOne'
  BY DEF LoseDatabase, operatorVars, IntentInv, CommandInv, AskedIsRetained, GrowthWasSimulated,
         UuidMeansOne
<1> QED  BY <1>3, <1>4, <1>5

-----------------------------------------------------------------------------
(* The steps of a manager.  It is the only one in its run, so its own run   *)
(* is all there is to show.                                                *)

LEMMA OneRun ==
    ASSUME RInv, NEW m \in Managers, ~At(m, "idle") \/ ~Locked,
           NEW next \in ManagerStates, mgr' = [mgr EXCEPT ![m] = next],
           Run(m)'
    PROVE  mgr' \in [Managers -> ManagerStates] /\ OneManager' /\ RunInv'
<1>1. mgr \in [Managers -> ManagerStates]
  BY DEF RInv, TypeOK
<1>2. \A n \in Managers \ {m} : At(n, "idle") /\ mgr'[n] = mgr[n]
  BY <1>1 DEF RInv, OneManager, Locked
<1>3. \A n \in Managers \ {m} : At(n, "idle")'
  BY <1>2 DEF At
<1>4. OneManager'
  BY <1>3 DEF OneManager
<1>5. RunInv'
  BY <1>3 DEF RunInv, Run
<1> QED  BY <1>1, <1>4, <1>5

\* A step of a manager that touches neither file nor SQL.
LEMMA RunRInv ==
    ASSUME RInv, NEW m \in Managers, ~At(m, "idle") \/ ~Locked,
           NEW next \in ManagerStates, mgr' = [mgr EXCEPT ![m] = next],
           Run(m)', OnlyManager
    PROVE  RInv'
<1>1. mgr' \in [Managers -> ManagerStates] /\ OneManager' /\ RunInv'
  BY OneRun
<1>2. UNCHANGED <<intent, requests, simulated, settled, argfile, op, pending, asked, manual, meant,
                  works, losses, stops>>
  BY DEF OnlyManager, operatorVars, sqlVars, faults
<1>3. TypeOK'
  BY <1>1, <1>2 DEF RInv, TypeOK
<1>4. IntentInv' /\ CommandInv' /\ AskedIsRetained' /\ GrowthWasSimulated' /\ UuidMeansOne'
  BY <1>2 DEF RInv, IntentInv, CommandInv, AskedIsRetained, GrowthWasSimulated, UuidMeansOne
<1> QED  BY <1>1, <1>3, <1>4 DEF RInv

LEMMA IdleRun ==
    ASSUME NEW m \in Managers, mgr \in [Managers -> ManagerStates], mgr' = [mgr EXCEPT ![m] = Idle]
    PROVE  Idle \in ManagerStates /\ Run(m)'
<1>1. Idle \in ManagerStates
  BY BoundAssumption DEF Idle, ManagerStates
<1>2. mgr'[m] = Idle /\ Idle.pc = "idle"
  BY DEF Idle
<1> QED  BY <1>1, <1>2 DEF Run, At

\* A run begins with every unresolved intent in its list.
LEMMA StartRInv ==
    ASSUME RInv, NEW m \in Managers, Start(m)
    PROVE  RInv'
<1> DEFINE next == [Idle EXCEPT !.pc = "next", !.live = TRUE, !.todo = {r \in Roles : Unresolved(r)}]
<1>1. Idle \in ManagerStates /\ ~Idle.growing
  BY BoundAssumption DEF Idle, ManagerStates
<1>2. next \in ManagerStates /\ next.pc = "next" /\ ~next.growing
      /\ next.todo = {r \in Roles : Unresolved(r)}
  BY <1>1 DEF ManagerStates
<1>3. mgr' = [mgr EXCEPT ![m] = next] /\ ~Locked /\ OnlyManager
  BY DEF Start
<1> HIDE DEF next
<1>4. mgr'[m] = next /\ intent' = intent
  BY <1>3 DEF OnlyManager, RInv, TypeOK
<1>5. Run(m)'
  BY <1>2, <1>4 DEF Run, Unresolved
<1> QED  BY <1>2, <1>3, <1>5, RunRInv

\* A run that ends leaves its intents for the next one.
LEMMA EndRInv ==
    ASSUME RInv, NEW m \in Managers, Finish(m) \/ Refused(m) \/ Stop(m)
    PROVE  RInv'
<1>1. mgr' = [mgr EXCEPT ![m] = Idle] /\ ~At(m, "idle")
  BY DEF Finish, Refused, Stop, At
<1>2. Idle \in ManagerStates /\ Run(m)'
  BY <1>1, IdleRun DEF RInv, TypeOK
<1>3. CASE Finish(m) \/ Refused(m)
  BY <1>1, <1>2, <1>3, RunRInv DEF Finish, Refused
<1>4. CASE Stop(m)
  <2>1. mgr' \in [Managers -> ManagerStates] /\ OneManager' /\ RunInv'
    BY <1>1, <1>2, OneRun
  <2>2. UNCHANGED <<intent, requests, simulated, settled, argfile, op, pending, asked, manual,
                    meant, works, losses>> /\ stops' \in 0..MaxStops
    BY <1>4, BoundAssumption DEF Stop, operatorVars, sqlVars, RInv, TypeOK
  <2>3. TypeOK'
    BY <2>1, <2>2 DEF RInv, TypeOK
  <2>4. IntentInv' /\ CommandInv' /\ AskedIsRetained' /\ GrowthWasSimulated' /\ UuidMeansOne'
    BY <2>2 DEF RInv, IntentInv, CommandInv, AskedIsRetained, GrowthWasSimulated, UuidMeansOne
  <2> QED  BY <2>1, <2>3, <2>4 DEF RInv
<1> QED  BY <1>3, <1>4

\* What Take does to the manager.
LEMMA TakeRun ==
    ASSUME RInv, NEW m \in Managers, NEW r \in Roles, Take(m, r)
    PROVE  \E next \in ManagerStates :
             /\ mgr' = [mgr EXCEPT ![m] = next]
             /\ mgr'[m] = next /\ next.pc = "submit" /\ next.role = r
             /\ next.todo = mgr[m].todo \ {r} /\ next.growing = mgr[m].growing
             /\ next.page = mgr[m].page
             /\ At(m, "next") /\ r \in mgr[m].todo
<1> DEFINE next == [mgr[m] EXCEPT !.todo = @ \ {r}, !.done = @ \cup {r}, !.role = r, !.pc = "submit"]
<1>1. mgr[m] \in ManagerStates
  BY DEF RInv, TypeOK
<1>2. next \in ManagerStates /\ next.pc = "submit" /\ next.role = r
      /\ next.todo = mgr[m].todo \ {r} /\ next.growing = mgr[m].growing
      /\ next.page = mgr[m].page
  BY <1>1 DEF ManagerStates
<1>3. mgr' = [mgr EXCEPT ![m] = next] /\ mgr'[m] = next
  BY DEF Take, RInv, TypeOK
<1>4. At(m, "next") /\ r \in mgr[m].todo
  BY DEF Take
<1> QED  BY <1>2, <1>3, <1>4

\* A retained intent passes from the list into the hands of the run.
LEMMA RetryRInv ==
    ASSUME RInv, NEW m \in Managers, NEW r \in Roles, Retry(m, r)
    PROVE  RInv'
<1>1. Take(m, r) /\ OnlyManager /\ ~mgr[m].growing
  BY DEF Retry
<1>2. PICK next \in ManagerStates :
        /\ mgr' = [mgr EXCEPT ![m] = next]
        /\ mgr'[m] = next /\ next.pc = "submit" /\ next.role = r
        /\ next.todo = mgr[m].todo \ {r} /\ next.growing = mgr[m].growing
        /\ next.page = mgr[m].page
        /\ At(m, "next") /\ r \in mgr[m].todo
  BY <1>1, TakeRun
<1>3. Run(m) /\ intent' = intent /\ ~At(m, "idle")
  BY <1>1, <1>2 DEF RInv, RunInv, OnlyManager, At
<1>4. Run(m)'
  BY <1>1, <1>2, <1>3 DEF Run, At, Unresolved
<1> QED  BY <1>1, <1>2, <1>3, <1>4, RunRInv

\* A role that does not grow leaves the list and nothing else changes.
LEMMA LeaveOutRInv ==
    ASSUME RInv, NEW m \in Managers, NEW r \in Roles, LeaveOut(m, r)
    PROVE  RInv'
<1> DEFINE next == [mgr[m] EXCEPT !.todo = @ \ {r}, !.done = @ \cup {r}]
<1>1. mgr[m] \in ManagerStates /\ Run(m) /\ mgr[m].pc = "next" /\ ~At(m, "idle") /\ mgr[m].growing
      /\ OnlyManager /\ intent' = intent
  BY DEF RInv, TypeOK, RunInv, LeaveOut, At, OnlyManager
<1>2. next \in ManagerStates /\ next.pc = "next" /\ next.todo = mgr[m].todo \ {r}
      /\ next.growing = mgr[m].growing /\ next.page = mgr[m].page
  BY <1>1 DEF ManagerStates
<1>3. mgr' = [mgr EXCEPT ![m] = next] /\ mgr'[m] = next
  BY DEF LeaveOut, RInv, TypeOK
<1> HIDE DEF next
<1>4. Run(m)'
  BY <1>1, <1>2, <1>3 DEF Run, At, Unresolved
<1> QED  BY <1>1, <1>2, <1>3, <1>4, RunRInv

\* Every intent is resolved when the page is read.
LEMMA ReadPageRInv ==
    ASSUME RInv, NEW m \in Managers, ReadPage(m)
    PROVE  RInv'
<1> DEFINE next == [mgr[m] EXCEPT !.growing = TRUE, !.page = pending,
                                  !.todo = Candidates \ mgr[m].done]
<1>1. mgr[m] \in ManagerStates /\ Run(m) /\ mgr[m].pc = "next" /\ ~At(m, "idle")
      /\ ~mgr[m].growing /\ mgr[m].todo = {} /\ OnlyManager /\ intent' = intent
      /\ pending \in [Roles -> 0..MaxWorks]
  BY DEF RInv, TypeOK, RunInv, ReadPage, At, OnlyManager
<1>2. next \in ManagerStates /\ next.pc = "next" /\ next.growing /\ next.page = pending
      /\ \A r \in next.todo : r \in Roles /\ pending[r] # 0
  BY <1>1 DEF ManagerStates, Candidates
<1>3. mgr' = [mgr EXCEPT ![m] = next] /\ mgr'[m] = next
  BY DEF ReadPage, RInv, TypeOK
<1> HIDE DEF next
<1>4. \A r \in Roles : ~Unresolved(r)
  BY <1>1 DEF Run, At
<1>5. Run(m)'
  BY <1>1, <1>2, <1>3, <1>4 DEF Run, At, Unresolved
<1> QED  BY <1>1, <1>2, <1>3, <1>5, RunRInv

\* A new intent replaces one that is resolved, so every request it stood for has
\* its acknowledgement.
LEMMA GrowRInv ==
    ASSUME RInv, NEW m \in Managers, NEW r \in Roles, Grow(m, r)
    PROVE  RInv'
<1> DEFINE new == [id |-> requests + 1, work |-> mgr[m].page[r], resolved |-> FALSE]
<1>1. Take(m, r) /\ mgr[m].growing
      /\ requests' = requests + 1 /\ requests' \in 1..MaxRequests
      /\ simulated' = simulated \cup {mgr[m].page[r]}
      /\ intent' = [intent EXCEPT ![r] = new]
      /\ UNCHANGED <<settled, argfile, op, pending, asked, manual, meant, works, losses, stops>>
  BY BoundAssumption DEF Grow, RInv, TypeOK, operatorVars, sqlVars, faults
<1>2. PICK next \in ManagerStates :
        /\ mgr' = [mgr EXCEPT ![m] = next]
        /\ mgr'[m] = next /\ next.pc = "submit" /\ next.role = r
        /\ next.todo = mgr[m].todo \ {r} /\ next.growing = mgr[m].growing
        /\ next.page = mgr[m].page
        /\ At(m, "next") /\ r \in mgr[m].todo
  BY <1>1, TakeRun
<1>3. /\ Run(m) /\ ~At(m, "idle") /\ mgr[m].page[r] \in 1..MaxWorks
      /\ \A other \in Roles : ~Unresolved(other)
  <2>1. Run(m) /\ ~At(m, "idle") /\ mgr[m].pc = "next"
    BY <1>2 DEF RInv, RunInv, At
  <2>2. mgr[m].page[r] \in 0..MaxWorks
    BY DEF RInv, TypeOK, ManagerStates
  <2>3. mgr[m].page[r] # 0
    BY <1>1, <1>2, <2>1 DEF Run
  <2> QED  BY <1>1, <2>1, <2>2, <2>3, BoundAssumption DEF Run
<1>4. new \in Intents /\ new # None
  <2>1. new \in Intents
    BY <1>1, <1>3 DEF Intents
  <2> QED  BY <2>1, NoneAssumption
<1>5. intent' \in [Roles -> Intents \cup {None}] /\ intent'[r] = new
      /\ \A other \in Roles \ {r} : intent'[other] = intent[other]
  BY <1>1, <1>4 DEF RInv, TypeOK
<1>6. Run(m)'
  <2>1. Unresolved(r)' /\ \A other \in Roles \ {r} : ~Unresolved(other)'
    BY <1>3, <1>4, <1>5 DEF Unresolved
  <2>2. \A other \in next.todo : next.page[other] # 0
    BY <1>1, <1>2, <1>3 DEF Run
  <2> QED  BY <1>1, <1>2, <2>1, <2>2 DEF Run
<1>7. mgr' \in [Managers -> ManagerStates] /\ OneManager' /\ RunInv'
  BY <1>2, <1>3, <1>6, OneRun
<1>8. TypeOK'
  <2>1. requests' \in 0..MaxRequests
    BY <1>1
  <2>2. simulated' \subseteq 1..MaxWorks
    BY <1>1, <1>3 DEF RInv, TypeOK
  <2> QED  BY <1>1, <1>5, <1>7, <2>1, <2>2 DEF RInv, TypeOK
<1>9. IntentInv'
  BY <1>1, <1>5 DEF RInv, IntentInv
<1>10. AskedIsRetained' /\ GrowthWasSimulated'
  <2>1. \A a \in asked : a.id \in settled
    <3>1. \A a \in asked : a.role \in Roles
      BY DEF RInv, TypeOK, Asked
    <3>2. ASSUME NEW a \in asked, a.id \notin settled PROVE FALSE
      <4>1. intent[a.role] = [id |-> a.id, work |-> a.work, resolved |-> FALSE]
        BY <3>2 DEF RInv, AskedIsRetained
      <4>2. [id |-> a.id, work |-> a.work, resolved |-> FALSE] \in Intents
        BY DEF RInv, TypeOK, Asked, Intents
      <4>3. intent[a.role] \in Intents /\ ~intent[a.role].resolved
        BY <4>1, <4>2
      <4> QED  BY <1>3, <3>1, <4>3, NoneAssumption DEF Unresolved
    <3> QED  BY <3>2
  <2> QED  BY <1>1, <2>1 DEF RInv, AskedIsRetained, GrowthWasSimulated
<1>11. CommandInv' /\ UuidMeansOne'
  BY <1>1 DEF RInv, CommandInv, UuidMeansOne
<1> QED  BY <1>7, <1>8, <1>9, <1>10, <1>11 DEF RInv

\* What SQL takes is the unresolved intent in hand, for work that was simulated.
LEMMA SubmitRInv ==
    ASSUME RInv, NEW m \in Managers, Submit(m)
    PROVE  RInv'
<1> DEFINE r == mgr[m].role
           next == [mgr[m] EXCEPT !.pc = "acknowledge"]
<1>1. mgr[m] \in ManagerStates /\ Run(m) /\ mgr[m].pc = "submit" /\ ~At(m, "idle")
  BY DEF RInv, TypeOK, RunInv, Submit, At
<1>2. r \in Roles /\ Unresolved(r) /\ intent[r] \in Intents /\ intent[r] # None
  BY <1>1 DEF Run, RInv, TypeOK, Unresolved
<1>3. UNCHANGED <<intent, requests, simulated, settled, argfile, op, pending, manual, meant,
                  works, losses, stops>>
  BY DEF Submit, operatorVars, faults
<1>4. \/ asked' = asked
      \/ /\ pending[r] = intent[r].work
         /\ asked' = asked \cup {[id |-> intent[r].id, role |-> r, work |-> pending[r]]}
  BY DEF Submit, SourceContext
<1>5. next \in ManagerStates /\ next.pc = "acknowledge" /\ next.todo = mgr[m].todo
      /\ next.growing = mgr[m].growing /\ next.page = mgr[m].page /\ next.role = r
  BY <1>1 DEF ManagerStates
<1>6. mgr' = [mgr EXCEPT ![m] = next] /\ mgr'[m] = next
  BY DEF Submit, RInv, TypeOK
<1> HIDE DEF next
<1>7. Run(m)'
  BY <1>1, <1>2, <1>3, <1>5, <1>6 DEF Run, At, Unresolved
<1>8. mgr' \in [Managers -> ManagerStates] /\ OneManager' /\ RunInv'
  BY <1>1, <1>5, <1>6, <1>7, OneRun
<1> HIDE DEF r
<1>9. \A a \in asked' \ asked : a = [id |-> intent[r].id, role |-> r, work |-> intent[r].work]
  BY <1>4
<1>10. intent[r] = [id |-> intent[r].id, work |-> intent[r].work, resolved |-> FALSE]
  BY <1>2 DEF Intents, Unresolved
<1>11. TypeOK'
  <2>1. asked' \subseteq Asked
    BY <1>2, <1>9 DEF RInv, TypeOK, Asked, Intents
  <2> QED  BY <1>3, <1>8, <2>1 DEF RInv, TypeOK
<1>12. AskedIsRetained' /\ GrowthWasSimulated'
  <2>1. intent[r].work \in simulated
    BY <1>2 DEF RInv, IntentInv
  <2>2. GrowthWasSimulated'
    BY <1>3, <1>9, <2>1 DEF RInv, GrowthWasSimulated
  <2>3. ASSUME NEW a \in asked', a.id \notin settled
        PROVE  intent[a.role] = [id |-> a.id, work |-> a.work, resolved |-> FALSE]
    <3>1. CASE a \in asked
      BY <2>3, <3>1 DEF RInv, AskedIsRetained
    <3>2. CASE a \notin asked
      <4>1. a.id = intent[r].id /\ a.role = r /\ a.work = intent[r].work
        BY <1>9, <3>2
      <4> QED  BY <1>10, <4>1
    <3> QED  BY <3>1, <3>2
  <2> QED  BY <1>3, <2>2, <2>3 DEF AskedIsRetained
<1>13. IntentInv' /\ CommandInv' /\ UuidMeansOne'
  BY <1>3 DEF RInv, IntentInv, CommandInv, UuidMeansOne
<1> QED  BY <1>8, <1>11, <1>12, <1>13 DEF RInv

\* The answer is on the volume, and the role is free for the next intent.
LEMMA AcknowledgeRInv ==
    ASSUME RInv, NEW m \in Managers, Acknowledge(m)
    PROVE  RInv'
<1>1. mgr[m] \in ManagerStates /\ Run(m) /\ mgr[m].pc = "acknowledge" /\ ~At(m, "idle")
  BY DEF RInv, TypeOK, RunInv, Acknowledge, At
<1>2. PICK r \in Roles :
        /\ r = mgr[m].role /\ r \notin mgr[m].todo
        /\ Unresolved(r) /\ intent[r] \in Intents /\ intent[r] # None
  BY <1>1 DEF Run, RInv, TypeOK, Unresolved
<1> DEFINE next == [mgr[m] EXCEPT !.pc = "next", !.role = None]
           answered == [intent[r] EXCEPT !.resolved = TRUE]
<1>3. /\ intent' = [intent EXCEPT ![r] = answered]
      /\ settled' = settled \cup {intent[r].id}
      /\ UNCHANGED <<requests, simulated, argfile, op, pending, asked, manual, meant,
                     works, losses, stops>>
  BY <1>2 DEF Acknowledge, operatorVars, sqlVars, faults
<1>4. answered \in Intents /\ answered.resolved /\ answered.work = intent[r].work
      /\ answered.id = intent[r].id
  BY <1>2 DEF Intents
<1>5. next \in ManagerStates /\ next.pc = "next" /\ next.todo = mgr[m].todo
      /\ next.growing = mgr[m].growing /\ next.page = mgr[m].page
  BY <1>1 DEF ManagerStates
<1>6. mgr' = [mgr EXCEPT ![m] = next] /\ mgr'[m] = next
  BY DEF Acknowledge, RInv, TypeOK
<1> HIDE DEF next, answered
<1>7. intent' \in [Roles -> Intents \cup {None}] /\ intent'[r] = answered
      /\ \A other \in Roles \ {r} : intent'[other] = intent[other]
  BY <1>2, <1>3, <1>4 DEF RInv, TypeOK
<1>8. Run(m)'
  <2>1. ~Unresolved(r)' /\ \A other \in Roles \ {r} : (Unresolved(other)' <=> Unresolved(other))
    BY <1>4, <1>7 DEF Unresolved
  <2>2. \A other \in Roles : Unresolved(other)' =>
          ~mgr[m].growing /\ other \in mgr[m].todo
    BY <1>1, <1>2, <2>1 DEF Run
  <2>3. mgr[m].todo \subseteq Roles
    BY <1>1 DEF ManagerStates
  <2>4. ~mgr[m].growing => \A other \in mgr[m].todo : Unresolved(other)'
    BY <1>1, <1>2, <2>1, <2>3 DEF Run
  <2>5. mgr[m].growing => \A other \in mgr[m].todo : mgr[m].page[other] # 0
    BY <1>1 DEF Run
  <2> QED  BY <1>5, <1>6, <2>2, <2>4, <2>5 DEF Run
<1>9. mgr' \in [Managers -> ManagerStates] /\ OneManager' /\ RunInv'
  BY <1>1, <1>5, <1>6, <1>8, OneRun
<1>10. TypeOK'
  <2>1. settled' \subseteq 1..MaxRequests
    BY <1>2, <1>3 DEF RInv, TypeOK, Intents
  <2> QED  BY <1>3, <1>7, <1>9, <2>1 DEF RInv, TypeOK
<1>11. IntentInv'
  BY <1>2, <1>3, <1>4, <1>7 DEF RInv, IntentInv
<1>12. AskedIsRetained'
  <2>1. ASSUME NEW a \in asked, a.id \notin settled'
        PROVE  intent'[a.role] = [id |-> a.id, work |-> a.work, resolved |-> FALSE]
    <3>1. intent[a.role] = [id |-> a.id, work |-> a.work, resolved |-> FALSE]
      BY <1>3, <2>1 DEF RInv, AskedIsRetained
    <3>2. a.role \in Roles /\ intent[a.role].id = a.id
      BY <3>1 DEF RInv, TypeOK, Asked
    <3>3. a.role # r
      BY <1>3, <2>1, <3>2
    <3> QED  BY <1>7, <3>1, <3>2, <3>3
  <2> QED  BY <1>3, <2>1 DEF AskedIsRetained
<1>13. GrowthWasSimulated' /\ CommandInv' /\ UuidMeansOne'
  BY <1>3 DEF RInv, GrowthWasSimulated, CommandInv, UuidMeansOne
<1> QED  BY <1>9, <1>10, <1>11, <1>12, <1>13 DEF RInv

-----------------------------------------------------------------------------
(* The steps of an operator's command *)

\* The operator commands touch neither the intents nor the pool requests.
LEMMA CommandRInv ==
    ASSUME RInv, NEW o \in Operators,
           \/ Ask(o) \/ Interrupt(o)
           \/ \E u \in Uuids, args \in Arguments : Record(o, u, args)
    PROVE  RInv'
<1>1. UNCHANGED <<intent, mgr, requests, simulated, settled, pending, asked, works, losses, stops>>
  BY DEF Ask, Interrupt, Record, poolVars, sqlVars, faults
<1>2. OneManager' /\ RunInv' /\ IntentInv' /\ AskedIsRetained' /\ GrowthWasSimulated'
  BY <1>1 DEF RInv, OneManager, RunInv, Run, At, Unresolved, IntentInv, AskedIsRetained,
     GrowthWasSimulated
<1>3. CASE Ask(o)
  <2>1. op[o] \in Commands
    BY <1>3 DEF Ask, RInv, TypeOK
  <2>2. op[o].uuid \in Uuids /\ op[o].args \in Arguments /\ argfile[op[o].uuid] = op[o].args
    BY <1>3, <2>1 DEF Ask, Commands, RInv, CommandInv
  <2>3. TypeOK' /\ CommandInv'
    BY <1>1, <1>3, <2>2, NoneAssumption DEF Ask, RInv, TypeOK, CommandInv
  <2>4. UuidMeansOne'
    BY <1>1, <1>3, <2>2 DEF Ask, RInv, TypeOK, UuidMeansOne
  <2> QED  BY <1>2, <2>3, <2>4 DEF RInv
<1>4. CASE Interrupt(o)
  BY <1>1, <1>2, <1>4 DEF Interrupt, sqlVars, RInv, TypeOK, CommandInv, UuidMeansOne
<1>5. ASSUME NEW u \in Uuids, NEW args \in Arguments, Record(o, u, args)
      PROVE  RInv'
  <2>1. [uuid |-> u, args |-> args] \in Commands /\ args # None
    BY NoneAssumption DEF Commands
  <2>2. /\ argfile[u] \in {None, args}
        /\ argfile' = [argfile EXCEPT ![u] = args]
        /\ op' = [op EXCEPT ![o] = [uuid |-> u, args |-> args]]
        /\ UNCHANGED <<manual, meant>>
    BY <1>5 DEF Record, sqlVars
  <2>3. TypeOK'
    BY <1>1, <2>1, <2>2 DEF RInv, TypeOK
  <2>4. CommandInv'
    <3>1. \A p \in Operators : op'[p] # None => argfile'[op'[p].uuid] = op'[p].args
      <4>1. SUFFICES ASSUME NEW p \in Operators, op'[p] # None
                     PROVE  argfile'[op'[p].uuid] = op'[p].args
        OBVIOUS
      <4>2. CASE p = o
        BY <2>2, <4>2 DEF RInv, TypeOK
      <4>3. CASE p # o
        <5>1. op'[p] = op[p] /\ op[p] \in Commands /\ argfile[op[p].uuid] = op[p].args
          BY <2>2, <4>1, <4>3 DEF RInv, TypeOK, CommandInv
        <5>2. op[p].uuid \in Uuids /\ op[p].args # None
          BY <5>1, NoneAssumption DEF Commands
        <5> QED  BY <2>2, <5>1, <5>2 DEF RInv, TypeOK
      <4> QED  BY <4>2, <4>3
    <3>2. \A v \in Uuids : argfile'[v] = None => meant'[v] = {}
      BY <2>1, <2>2 DEF RInv, TypeOK, CommandInv
    <3> QED  BY <3>1, <3>2 DEF CommandInv
  <2>5. UuidMeansOne'
    BY <2>2 DEF RInv, TypeOK, CommandInv, UuidMeansOne
  <2> QED  BY <1>2, <2>3, <2>4, <2>5 DEF RInv
<1> QED  BY <1>3, <1>4, <1>5

\* A stutter changes nothing the invariant reads.
LEMMA StutterRInv == RInv /\ UNCHANGED vars => RInv'
BY DEF RInv, vars, poolVars, operatorVars, sqlVars, faults, TypeOK, OneManager, RunInv, Run, At,
       Unresolved, IntentInv, CommandInv, AskedIsRetained, GrowthWasSimulated, UuidMeansOne

-----------------------------------------------------------------------------
\* The invariant holds in every reachable state.
THEOREM RequestsInvariance == Spec => []RInv
<1>1. ASSUME RInv, [Next]_vars PROVE RInv'
  <2>1. CASE UNCHANGED vars
    BY <1>1, <2>1, StutterRInv
  <2>2. CASE LoseDatabase
    BY <1>1, <2>2, LoseRInv
  <2>3. ASSUME NEW r \in Roles, Enqueue(r) \/ Dequeue(r) PROVE RInv'
    BY <1>1, <2>3, QueueRInv
  <2>4. ASSUME NEW m \in Managers, Start(m) \/ Manage(m) \/ Stop(m) PROVE RInv'
    <3>1. CASE Start(m)
      BY <1>1, <3>1, StartRInv
    <3>2. CASE Finish(m) \/ Refused(m) \/ Stop(m)
      BY <1>1, <3>2, EndRInv
    <3>3. ASSUME NEW r \in Roles, Retry(m, r) \/ Grow(m, r) \/ LeaveOut(m, r) PROVE RInv'
      BY <1>1, <3>3, RetryRInv, GrowRInv, LeaveOutRInv
    <3>4. CASE ReadPage(m)
      BY <1>1, <3>4, ReadPageRInv
    <3>5. CASE Submit(m)
      BY <1>1, <3>5, SubmitRInv
    <3>6. CASE Acknowledge(m)
      BY <1>1, <3>6, AcknowledgeRInv
    <3> QED  BY <2>4, <3>1, <3>2, <3>3, <3>4, <3>5, <3>6 DEF Manage
  <2>5. ASSUME NEW o \in Operators,
               \/ Ask(o) \/ Interrupt(o)
               \/ \E u \in Uuids, args \in Arguments : Record(o, u, args)
        PROVE  RInv'
    BY <1>1, <2>5, CommandRInv
  <2> QED  BY <1>1, <2>1, <2>2, <2>3, <2>4, <2>5 DEF Next
<1> QED  BY InitRInv, <1>1, PTL DEF Spec

\* Every file, row and manager keeps its type.
THEOREM RequestsTypeCorrect == Spec => []TypeOK
BY RequestsInvariance, PTL DEF RInv

\* A request that SQL has stays on the volume until its answer does, whatever is
\* lost in between and however many managers there are.
THEOREM AskedStaysRetained == Spec => []AskedIsRetained
BY RequestsInvariance, PTL DEF RInv

\* No role grows for a work whose simulation did not pass, in any database.
THEOREM GrowthIsSimulated == Spec => []GrowthWasSimulated
BY RequestsInvariance, PTL DEF RInv

\* An operator's UUID never means two requests.
THEOREM UuidsMeanOne == Spec => []UuidMeansOne
BY RequestsInvariance, PTL DEF RInv

-----------------------------------------------------------------------------
(* Requests implements OneRequest.  A new intent is a Draw, what SQL takes  *)
(* is a Record, an acknowledgement an Answer, a new file of the operator a  *)
(* Name and what SQL takes of it a Serve; every other step is a stutter.    *)

promised == <<Hand, requests, simulated, asked, argfile, manual>>

\* The files decide what is in hand.
LEMMA SameHand == intent' = intent => Hand' = Hand
BY DEF Hand, Unresolved

\* A manager that neither saves nor asks leaves the promise alone.
LEMMA ManagerStutters ==
    ASSUME NEW m \in Managers, OnlyManager \/ Stop(m)
    PROVE  UNCHANGED promised
<1>1. UNCHANGED <<intent, requests, simulated, asked, argfile, manual>>
  BY DEF OnlyManager, Stop, operatorVars, sqlVars
<1> QED  BY <1>1, SameHand DEF promised

\* A run grows once nothing is in its hands, so the next UUID is for a role that
\* waits for no answer.
LEMMA GrowDraws ==
    ASSUME RInv, NEW m \in Managers, NEW r \in Roles, Grow(m, r)
    PROVE  \E q \in Intents : Promise!Draw(r, q)
<1> DEFINE new == [id |-> requests + 1, work |-> mgr[m].page[r], resolved |-> FALSE]
<1>1. /\ requests' = requests + 1 /\ requests + 1 \in 1..MaxRequests
      /\ simulated' = simulated \cup {mgr[m].page[r]}
      /\ intent' = [intent EXCEPT ![r] = new]
      /\ UNCHANGED <<asked, argfile, manual>>
  BY BoundAssumption DEF Grow, RInv, TypeOK, operatorVars, sqlVars
<1>2. At(m, "next") /\ r \in mgr[m].todo /\ mgr[m].growing /\ Run(m)
  BY DEF Grow, Take, RInv, RunInv
<1>3. mgr[m].page[r] \in 1..MaxWorks
  <2>1. mgr[m].page[r] \in 0..MaxWorks /\ mgr[m].page[r] # 0
    BY <1>2 DEF RInv, TypeOK, ManagerStates, Run, At
  <2> QED  BY <2>1, BoundAssumption
<1>4. \A other \in Roles : ~Unresolved(other)
  BY <1>2 DEF Run, At
<1>5. new \in Intents /\ new # None /\ ~new.resolved
      /\ new.id = requests + 1 /\ new.work = mgr[m].page[r]
  <2>1. new \in Intents
    BY <1>1, <1>3 DEF Intents
  <2> QED  BY <2>1, NoneAssumption
<1> HIDE DEF new
<1>6. Hand[r] = None /\ Hand' = [Hand EXCEPT ![r] = new]
  <2>1. \A other \in Roles : Hand[other] = None
    BY <1>4 DEF Hand
  <2>2. intent'[r] = new /\ \A other \in Roles \ {r} : intent'[other] = intent[other]
    BY <1>1 DEF RInv, TypeOK
  <2>3. \A other \in Roles : Hand'[other] = IF other = r THEN new ELSE None
    BY <1>4, <1>5, <2>2 DEF Hand, Unresolved
  <2> QED  BY <2>1, <2>3 DEF Hand
<1>7. Promise!Draw(r, new)
  BY <1>1, <1>5, <1>6 DEF Promise!Draw
<1> QED  BY <1>5, <1>7

\* What SQL is asked for is in the hands of the role, under the id it was drawn with.
LEMMA SubmitRecords ==
    ASSUME RInv, NEW m \in Managers, Submit(m)
    PROVE  (\E r \in Roles : Promise!Record(r)) \/ UNCHANGED promised
<1>1. PICK r \in Roles : r = mgr[m].role /\ Unresolved(r)
  BY DEF Submit, At, RInv, RunInv, Run
<1>2. Hand[r] = intent[r] /\ Hand[r] # None
  BY <1>1 DEF Hand, Unresolved
<1>3. UNCHANGED <<intent, requests, simulated, argfile, manual>> /\ Hand' = Hand
  BY SameHand DEF Submit, operatorVars
<1>4. CASE UNCHANGED asked
  BY <1>3, <1>4 DEF promised
<1>5. CASE /\ pending[r] = intent[r].work
           /\ \A a \in asked : a.id # intent[r].id
           /\ asked' = asked \cup {[id |-> intent[r].id, role |-> r, work |-> pending[r]]}
  BY <1>2, <1>3, <1>5 DEF Promise!Record
<1> QED  BY <1>1, <1>4, <1>5 DEF Submit, SourceContext

\* The answer takes the question out of the hands of the role.
LEMMA AcknowledgeAnswers ==
    ASSUME RInv, NEW m \in Managers, Acknowledge(m)
    PROVE  \E r \in Roles : Promise!Answer(r)
<1>1. PICK r \in Roles : r = mgr[m].role /\ Unresolved(r)
  BY DEF Acknowledge, At, RInv, RunInv, Run
<1>2. intent[r] \in Intents
  BY <1>1 DEF RInv, TypeOK, Unresolved
<1>3. /\ intent' = [intent EXCEPT ![r].resolved = TRUE]
      /\ UNCHANGED <<requests, simulated, asked, argfile, manual>>
  BY <1>1 DEF Acknowledge, operatorVars, sqlVars
<1>4. intent'[r].resolved /\ \A other \in Roles \ {r} : intent'[other] = intent[other]
  BY <1>2, <1>3 DEF RInv, TypeOK, Intents
<1>5. Hand[r] # None /\ Hand' = [Hand EXCEPT ![r] = None]
  <2>1. Hand[r] # None
    BY <1>1 DEF Hand, Unresolved
  <2>2. \A other \in Roles : Hand'[other] = IF other = r THEN None ELSE Hand[other]
    BY <1>4 DEF Hand, Unresolved
  <2> QED  BY <2>1, <2>2 DEF Hand
<1> QED  BY <1>3, <1>5 DEF Promise!Answer

LEMMA ManageImplements ==
    ASSUME RInv, NEW m \in Managers, Start(m) \/ Manage(m) \/ Stop(m)
    PROVE  Promise!Next \/ UNCHANGED promised
<1>1. CASE OnlyManager \/ Stop(m)
  BY <1>1, ManagerStutters
<1>2. ASSUME NEW r \in Roles, Grow(m, r) PROVE Promise!Next
  BY <1>2, GrowDraws DEF Promise!Next
<1>3. CASE Submit(m)
  BY <1>3, SubmitRecords DEF Promise!Next
<1>4. CASE Acknowledge(m)
  BY <1>4, AcknowledgeAnswers DEF Promise!Next
<1> QED  BY <1>1, <1>2, <1>3, <1>4 DEF Start, Manage, Retry, LeaveOut, ReadPage, Finish, Refused

\* A command gives a UUID its only meaning, and SQL that meaning or none.
LEMMA CommandImplements ==
    ASSUME RInv, NEW o \in Operators,
           \/ Ask(o) \/ Interrupt(o)
           \/ \E u \in Uuids, args \in Arguments : Record(o, u, args)
    PROVE  Promise!Next \/ UNCHANGED promised
<1>1. UNCHANGED <<requests, simulated, asked>> /\ Hand' = Hand
  BY SameHand DEF Ask, Interrupt, Record, poolVars, sqlVars
<1>2. CASE Ask(o)
  <2>1. op[o] # None /\ op[o] \in Commands /\ argfile[op[o].uuid] = op[o].args
    BY <1>2 DEF Ask, RInv, TypeOK, CommandInv
  <2>2. PICK u \in Uuids : u = op[o].uuid /\ argfile[u] = op[o].args /\ argfile[u] # None
    BY <2>1, NoneAssumption DEF Commands
  <2>3. argfile' = argfile
    BY <1>2 DEF Ask
  <2>4. CASE manual[u] = None
    <3>1. manual' = [manual EXCEPT ![u] = argfile[u]]
      BY <1>2, <2>2, <2>4 DEF Ask
    <3>2. Promise!Serve(u)
      BY <1>1, <2>2, <2>3, <2>4, <3>1 DEF Promise!Serve
    <3> QED  BY <3>2 DEF Promise!Next
  <2>5. CASE manual[u] # None
    BY <1>1, <1>2, <2>2, <2>3, <2>5 DEF Ask, promised
  <2> QED  BY <2>4, <2>5
<1>3. CASE Interrupt(o)
  BY <1>1, <1>3 DEF Interrupt, sqlVars, promised
<1>4. ASSUME NEW u \in Uuids, NEW args \in Arguments, Record(o, u, args)
      PROVE  Promise!Next \/ UNCHANGED promised
  <2>1. argfile[u] \in {None, args} /\ argfile' = [argfile EXCEPT ![u] = args] /\ manual' = manual
    BY <1>4 DEF Record, sqlVars
  <2>2. CASE argfile[u] = None
    <3>1. Promise!Name(u, args)
      BY <1>1, <2>1, <2>2 DEF Promise!Name
    <3> QED  BY <3>1 DEF Promise!Next
  <2>3. CASE argfile[u] = args
    <3>1. argfile' = argfile
      BY <2>1, <2>3 DEF RInv, TypeOK
    <3> QED  BY <1>1, <2>1, <3>1 DEF promised
  <2> QED  BY <2>1, <2>2, <2>3
<1> QED  BY <1>2, <1>3, <1>4

\* No request is made after its answer, none is forgotten before it, and no id
\* stands for two, in any number of databases.
THEOREM RequestsImplement == Spec => ImplementsOneRequest
<1>1. Init => Promise!Init
  BY DEF Init, Hand, Unresolved, Promise!Init
<1>2. RInv /\ [Next]_vars => [Promise!Next]_(Promise!vars)
  <2> SUFFICES ASSUME RInv, [Next]_vars PROVE Promise!Next \/ UNCHANGED promised
    BY DEF promised, Promise!vars
  <2>1. CASE UNCHANGED vars
    BY <2>1, SameHand DEF vars, poolVars, operatorVars, sqlVars, promised
  <2>2. CASE LoseDatabase
    <3>1. Promise!Forget
      BY <2>2, SameHand DEF LoseDatabase, operatorVars, Promise!Forget
    <3> QED  BY <3>1 DEF Promise!Next
  <2>3. ASSUME NEW r \in Roles, Enqueue(r) \/ Dequeue(r) PROVE UNCHANGED promised
    BY <2>3, SameHand DEF Enqueue, Dequeue, poolVars, operatorVars, promised
  <2>4. ASSUME NEW m \in Managers, Start(m) \/ Manage(m) \/ Stop(m)
        PROVE  Promise!Next \/ UNCHANGED promised
    BY <2>4, ManageImplements
  <2>5. ASSUME NEW o \in Operators,
               \/ Ask(o) \/ Interrupt(o)
               \/ \E u \in Uuids, args \in Arguments : Record(o, u, args)
        PROVE  Promise!Next \/ UNCHANGED promised
    BY <2>5, CommandImplements
  <2> QED  BY <2>1, <2>2, <2>3, <2>4, <2>5 DEF Next
<1> QED  BY <1>1, <1>2, RequestsInvariance, PTL DEF Spec, ImplementsOneRequest, Promise!Spec
==============================================================================
