----------------------------- MODULE Supervisor -------------------------------
(***************************************************************************)
(* Runtime.run: the supervisor's passes, its pool of workers and its way   *)
(* out.  Only the order of row ids matters here, so `rows` is the list of  *)
(* live rows by ascending id, the cursor is the number of live rows whose  *)
(* id it has passed, and a row that is closed for good leaves the list.    *)
(***************************************************************************)
EXTENDS Integers, Sequences, FiniteSets

CONSTANTS
    Workers,       \* TSA_WORKERS
    Keys,          \* keys that may sign: each active row reserves one
    MaxRows,       \* bound: live rows
    MaxArrivals,   \* bound: rows enqueued, unless Endless
    Endless,       \* new rows never cease
    MaxFaults      \* bound: kills, outages of the database, overdue inventories

ASSUME CapacityAssumption == Workers \in Nat \ {0} /\ Keys \in Nat \ {0}
ASSUME BoundAssumption ==
    /\ MaxRows \in Nat \ {0} /\ MaxArrivals \in Nat /\ MaxFaults \in Nat
    /\ Endless \in BOOLEAN

VARIABLES
    rows,          \* [state, future, watched] by ascending id
    cursor,        \* recovery cursor
    fresh,         \* the last inventory is younger than 120 s
    pc,            \* where the supervisor thread stands
    maintenance,   \* the maintenance thread is running
    stop,          \* the stop event
    arrivals, faults

mainVars == <<cursor, pc, stop>>
boundVars == <<arrivals, faults>>
vars == <<rows, cursor, fresh, pc, maintenance, stop, arrivals, faults>>

\* watched marks one row whose history the properties follow.
Row == [state : {"pending", "active", "closed"}, future : {"none", "running", "done"},
        watched : BOOLEAN]

\* The type invariant.
TypeOK ==
    /\ rows \in Seq(Row) /\ Len(rows) <= MaxRows
    /\ \A i \in DOMAIN rows :
         /\ rows[i].state = "pending" => rows[i].future = "none"
         /\ rows[i].state = "closed" => rows[i].future = "done"
    /\ cursor \in 0..Len(rows)
    /\ fresh \in BOOLEAN /\ maintenance \in BOOLEAN /\ stop \in BOOLEAN
    /\ pc \in {"collect", "recover", "claim", "wait", "drain", "join", "stopped"}
    /\ arrivals \in 0..MaxArrivals /\ faults \in 0..MaxFaults

With(state) == {i \in DOMAIN rows : rows[i].state = state}
InFlight == {i \in DOMAIN rows : rows[i].future # "none"}
Free == Workers - Cardinality(InFlight)

Init ==
    /\ rows = <<>> /\ cursor = 0
    /\ pc = "collect" /\ stop = FALSE
    /\ fresh = FALSE /\ maintenance = TRUE
    /\ arrivals = 0 /\ faults = 0

Kept(list) == {i \in DOMAIN list : list[i].state # "closed" \/ list[i].future # "none"}

\* Closed rows that nobody waits for are no longer seen by any query; the others
\* keep their order.
Compact(list, at) ==
    LET slots == 1..Cardinality(Kept(list)) IN
    /\ \E old \in [slots -> Kept(list)] :
         /\ \A i, j \in slots : i < j => old[i] < old[j]
         /\ rows' = [i \in slots |-> list[old[i]]]
    /\ cursor' = Cardinality({i \in Kept(list) : i <= at})

-----------------------------------------------------------------------------
(* The queue, the clock, signals and kills *)

Enqueue ==
    /\ Len(rows) < MaxRows
    /\ Endless \/ arrivals < MaxArrivals
    /\ \E watched \in BOOLEAN :
         /\ watched => \A i \in DOMAIN rows : ~rows[i].watched
         /\ rows' = Append(rows, [state |-> "pending", future |-> "none", watched |-> watched])
    /\ arrivals' = IF Endless THEN arrivals ELSE arrivals + 1
    /\ UNCHANGED <<mainVars, fresh, maintenance, faults>>

\* No inventory was completed for 120 s.
Age ==
    /\ fresh /\ faults < MaxFaults
    /\ fresh' = FALSE /\ faults' = faults + 1
    /\ UNCHANGED <<rows, mainVars, maintenance, arrivals>>

Signal ==
    /\ ~stop /\ pc # "stopped" /\ stop' = TRUE
    /\ UNCHANGED <<rows, cursor, pc, fresh, maintenance, boundVars>>

\* A kill, and the next start of the container.
Crash ==
    /\ faults < MaxFaults
    /\ faults' = faults + 1
    /\ Compact([i \in DOMAIN rows |-> [rows[i] EXCEPT !.future = "none"]], 0)
    /\ pc' = "collect" /\ stop' = FALSE /\ fresh' = FALSE /\ maintenance' = TRUE
    /\ UNCHANGED arrivals

-----------------------------------------------------------------------------
(* The supervisor thread *)

CollectForEver ==
    /\ pc = "collect"
    /\ pc' = "recover"
    /\ Compact([i \in DOMAIN rows |->
                  IF rows[i].future = "done" THEN [rows[i] EXCEPT !.future = "none"]
                  ELSE rows[i]], cursor)
    /\ UNCHANGED <<stop, fresh, maintenance, boundVars>>

\* Futures that are done are forgotten at the start of a pass.
Collect ==
    /\ pc = "collect"
    /\ IF stop
       THEN pc' = "drain" /\ UNCHANGED <<rows, cursor>>
       ELSE /\ pc' = "recover"
            /\ Compact([i \in DOMAIN rows |->
                          IF rows[i].future = "done"
                          THEN [rows[i] EXCEPT !.future = "none"] ELSE rows[i]], cursor)
    /\ UNCHANGED <<stop, fresh, maintenance, boundVars>>

PageFromEnd(after, limit) ==
    {i \in With("active") : i > after
        /\ Cardinality({j \in With("active") : i < j}) < limit}

\* The page after a cursor: so many active rows by ascending id.
Page(after, limit) ==
    {i \in With("active") : i > after
        /\ Cardinality({j \in With("active") : after < j /\ j < i}) < limit}

Share(free) == LET half == (free + 1) \div 2 IN IF half > 1 THEN half ELSE 1

StayAtEnd(page) == IF page = {} THEN cursor ELSE CHOOSE i \in page : \A j \in page : j <= i

\* The end of the list sends the cursor back to the start.
Advance(page) == IF page = {} THEN 0 ELSE CHOOSE i \in page : \A j \in page : j <= i

\* New work is claimed in this pass if the inventory is recent.
Recovered == pc' = IF fresh THEN "claim" ELSE "wait"

RecoverFromStart ==
    /\ pc = "recover"
    /\ LET page == IF Free > 0 THEN Page(0, Share(Free)) ELSE {}
       IN rows' = [i \in DOMAIN rows |->
                     IF i \in page \ InFlight THEN [rows[i] EXCEPT !.future = "running"]
                     ELSE rows[i]]
    /\ Recovered
    /\ UNCHANGED <<cursor, stop, fresh, maintenance, boundVars>>

RecoverWhenFull ==
    /\ pc = "recover"
    /\ LET page == Page(cursor, Share(Free))
       IN /\ cursor' = Advance(page)
          /\ rows' = [i \in DOMAIN rows |->
                        IF i \in page \ InFlight THEN [rows[i] EXCEPT !.future = "running"]
                        ELSE rows[i]]
    /\ Recovered
    /\ UNCHANGED <<stop, fresh, maintenance, boundVars>>

Recover ==
    /\ pc = "recover"
    /\ LET page == IF Free > 0 THEN Page(cursor, Share(Free)) ELSE {}
       IN /\ cursor' = IF Free > 0 THEN Advance(page) ELSE cursor
          /\ rows' = [i \in DOMAIN rows |->
                        IF i \in page \ InFlight THEN [rows[i] EXCEPT !.future = "running"]
                        ELSE rows[i]]
    /\ Recovered
    /\ UNCHANGED <<stop, fresh, maintenance, boundVars>>

\* SQL hands out any pending row, if a key is free.
Claimable == Free > 0 /\ ~stop /\ With("pending") # {}
                /\ Cardinality(With("active")) < Keys

Claim ==
    /\ pc = "claim" /\ Claimable
    /\ \E i \in With("pending") :
         rows' = [rows EXCEPT ![i].state = "active", ![i].future = "running"]
    /\ UNCHANGED <<mainVars, fresh, maintenance, boundVars>>

EndPass ==
    /\ pc = "claim" /\ ~Claimable
    /\ pc' = "wait"
    /\ UNCHANGED <<rows, cursor, stop, fresh, maintenance, boundVars>>

\* The database cannot be reached: nothing more happens in this pass, but the
\* claim it did not acknowledge may have been made.
Outage ==
    /\ pc \in {"recover", "claim"} /\ faults < MaxFaults
    /\ faults' = faults + 1
    /\ pc' = "wait"
    /\ \/ UNCHANGED rows
       \/ /\ pc = "claim" /\ Claimable
          /\ \E i \in With("pending") : rows' = [rows EXCEPT ![i].state = "active"]
    /\ UNCHANGED <<cursor, stop, fresh, maintenance, arrivals>>

Wake ==
    /\ pc = "wait"
    /\ pc' = "collect"
    /\ UNCHANGED <<rows, cursor, stop, fresh, maintenance, boundVars>>

DrainNothing ==
    /\ pc = "drain"
    /\ pc' = "join"
    /\ UNCHANGED <<rows, cursor, stop, fresh, maintenance, boundVars>>

\* Leaving the executor waits for every future.
Drain ==
    /\ pc = "drain" /\ \A i \in DOMAIN rows : rows[i].future # "running"
    /\ pc' = "join"
    /\ UNCHANGED <<rows, cursor, stop, fresh, maintenance, boundVars>>

Join ==
    /\ pc = "join" /\ ~maintenance
    /\ pc' = "stopped"
    /\ UNCHANGED <<rows, cursor, stop, fresh, maintenance, boundVars>>

Supervise == Collect \/ Recover \/ Claim \/ EndPass \/ Wake \/ Drain \/ Join

-----------------------------------------------------------------------------
(* The threads *)

\* A worker decides its row for good, or leaves it active for another visit.
Work(i) ==
    /\ rows[i].future = "running"
    /\ \E state \in {"active", "closed"} :
         rows' = [rows EXCEPT ![i].state = state, ![i].future = "done"]
    /\ UNCHANGED <<mainVars, fresh, maintenance, boundVars>>

\* The maintenance thread finishes an inventory, or sees the stop event.
Maintain ==
    /\ maintenance
    /\ \/ fresh' = TRUE /\ UNCHANGED maintenance
       \/ stop /\ maintenance' = FALSE /\ UNCHANGED fresh
    /\ UNCHANGED <<rows, mainVars, boundVars>>

Next ==
    \/ Enqueue \/ Age \/ Signal \/ Crash
    \/ Supervise \/ Outage
    \/ \E i \in DOMAIN rows : Work(i)
    \/ Maintain

Spec == Init /\ [][Next]_vars

-----------------------------------------------------------------------------
(* Safety *)

\* No pass hands out more rows than there are threads, so none waits in the
\* executor's queue while its claim grows old (runtime.py:146-162).
SlotsSuffice == Cardinality(InFlight) <= Workers

\* A supervisor that reports `stopped` left no worker and no maintenance behind
\* that could still sign or send (runtime.py:132, 172-177).
StoppedIsQuiet ==
    pc = "stopped" => ~maintenance /\ \A i \in DOMAIN rows : rows[i].future # "running"

Watched(state, futures) ==
    \E i \in DOMAIN rows : rows[i].watched /\ rows[i].state = state /\ rows[i].future \in futures

Ahead(i) ==
    /\ rows[i].watched /\ rows[i].state = "active" /\ rows[i].future = "none"
    /\ cursor < i

\* The recovery cursor skips nobody: a claimed row ahead of it stays ahead until
\* a thread takes it up, and each pass with a free slot leaves fewer rows between
\* them, however much new work comes in; only a restart begins anew
\* (runtime.py:146-154).
RecoverySkipsNobody ==
    [][\A i \in DOMAIN rows : Ahead(i) =>
         \/ Watched("active", {"running"})'
         \/ \E j \in DOMAIN rows' :
              /\ Ahead(j)'
              /\ Crash \/ j - cursor' <= i - cursor
              /\ Recover /\ Free > 0 => j - cursor' < i - cursor]_vars

-----------------------------------------------------------------------------
(* Liveness.  Passes go on, every call has a timeout, and the faults cease. *)

Fairness ==
    /\ WF_vars(Supervise)
    /\ \A i \in 1..MaxRows : WF_vars(i \in DOMAIN rows /\ Work(i))
    /\ WF_vars(Maintain)
    /\ SF_vars(Maintain /\ ~maintenance')

LiveSpec == Spec /\ Fairness

\* A row that was claimed and is in nobody's hands is visited again, unless the
\* process is told to stop (runtime.py:147: recovery gets capacity each pass).
ActiveIsVisited == Watched("active", {"none"}) ~> (Watched("active", {"running"}) \/ stop)

\* Rows that stay undecided do not keep new work waiting for ever: a pending row
\* is claimed, unless at some point every key is reserved (runtime.py:147-150).
PendingIsClaimed ==
    Watched("pending", {"none"}) ~>
        (Watched("active", {"running"}) \/ stop \/ Cardinality(With("active")) >= Keys)

\* A signal ends the process, whatever is in flight (runtime.py:133, 172-177).
StopEnds == stop ~> (pc = "stopped" \/ ~stop)
==============================================================================
