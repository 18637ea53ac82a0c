------------------------------- MODULE Worker --------------------------------
(***************************************************************************)
(* Transaction workers: Worker.process and Worker.observe, one step for    *)
(* each call that leaves the process.  Each worker has its own database    *)
(* session, and with it the advisory lock on its row; the session can be   *)
(* lost at any step, and the worker finds out at its next SQL call.        *)
(***************************************************************************)
EXTENDS Outbox

CONSTANT Workers

VARIABLES
    pc,      \* the call the worker makes next
    job,     \* the row it works on
    saved,   \* hash of the signed bytes it read or saved
    live     \* whether its database session still exists

workerVars == <<pc, job, saved, live>>

WorkerTypeOK ==
    /\ pc \in [Workers -> {"idle", "prepare", "preflight", "abort", "mark", "begin",
                           "send", "wait", "timedOut", "admitted", "refused",
                           "recover", "observe"} \cup Outcomes]
    /\ job \in [Workers -> Txs \cup {None}]
    /\ saved \in [Workers -> Hashes \cup {None}]
    /\ live \in [Workers -> BOOLEAN]

WorkerInit ==
    /\ pc = [w \in Workers |-> "idle"]
    /\ job = [w \in Workers |-> None]
    /\ saved = [w \in Workers |-> None]
    /\ live = [w \in Workers |-> FALSE]

Goto(w, next) == pc' = [pc EXCEPT ![w] = next] /\ UNCHANGED <<job, saved, live>>

\* Leaving process() closes the session, which drops its locks.
Return(w) ==
    /\ pc' = [pc EXCEPT ![w] = "idle"]
    /\ job' = [job EXCEPT ![w] = None]
    /\ saved' = [saved EXCEPT ![w] = None]
    /\ live' = [live EXCEPT ![w] = FALSE]

Holding(w, t) == live[w] /\ job[w] = t

Leased(t) == \E w \in Workers : Holding(w, t)

-----------------------------------------------------------------------------
(* Taking a row *)

ResumeBySending(t) ==
    CASE submission[t] = None      -> "prepare"
      [] state[t] = "prepared"     -> "preflight"
      [] state[t] = "sending"      -> "send"
      [] OTHER                     -> "observe"

Resume(t) ==
    CASE submission[t] = None      -> "prepare"
      [] state[t] = "prepared"     -> "preflight"
      [] state[t] = "sending"      -> "recover"
      [] OTHER                     -> "observe"

OpenUnleased(w, t) ==
    /\ pc[w] = "idle" /\ Recoverable(t)
    /\ pc' = [pc EXCEPT ![w] = Resume(t)]
    /\ job' = [job EXCEPT ![w] = t]
    /\ saved' = [saved EXCEPT ![w] = submission[t]]
    /\ live' = [live EXCEPT ![w] = TRUE]
    /\ UNCHANGED <<chainVars, sqlVars, outboxVars>>

\* Lease, claim and submission are read in one step: while the lease lasts
\* nobody else moves the row.
Open(w, t) ==
    /\ pc[w] = "idle" /\ Recoverable(t) /\ ~Leased(t)
    /\ pc' = [pc EXCEPT ![w] = Resume(t)]
    /\ job' = [job EXCEPT ![w] = t]
    /\ saved' = [saved EXCEPT ![w] = submission[t]]
    /\ live' = [live EXCEPT ![w] = TRUE]
    /\ UNCHANGED <<chainVars, sqlVars, outboxVars>>

\* Every early return and every exception: busy peers, unavailable evidence,
\* a refused permit, a failed SQL call, a killed process.
Stop(w) ==
    /\ pc[w] # "idle"
    /\ Return(w)
    /\ UNCHANGED <<chainVars, sqlVars, outboxVars>>

Disconnect(w) ==
    /\ live[w]
    /\ live' = [live EXCEPT ![w] = FALSE]
    /\ UNCHANGED <<chainVars, sqlVars, outboxVars, pc, job, saved>>

-----------------------------------------------------------------------------
(* Before the send *)

Prepare(w, h) ==
    /\ pc[w] = "prepare" /\ live[w]
    /\ Sign(h, account[job[w]]) /\ SaveSigned(job[w], h)
    /\ pc' = [pc EXCEPT ![w] = "preflight"]
    /\ saved' = [saved EXCEPT ![w] = h]
    /\ UNCHANGED <<outboxVars, job, live>>

Preflight(w) ==
    /\ pc[w] = "preflight" /\ Current(saved[w])
    /\ Goto(w, "mark")
    /\ UNCHANGED <<chainVars, sqlVars, outboxVars>>

\* InvalidRequest, while preparing or in the preflight.
Invalid(w) ==
    /\ pc[w] \in {"prepare", "preflight"}
    /\ Goto(w, "abort")
    /\ UNCHANGED <<chainVars, sqlVars, outboxVars>>

\* Without saved bytes there is no marker to finish.
Abort(w) ==
    /\ pc[w] = "abort" /\ live[w]
    /\ AbortUnsent(job[w])
    /\ IF saved[w] = None THEN Return(w) ELSE Goto(w, "cancelled")
    /\ UNCHANGED <<chainVars, outboxVars>>

Mark(w) ==
    /\ pc[w] = "mark"
    /\ JournalBegin(saved[w])
    /\ Goto(w, "begin")
    /\ UNCHANGED <<chainVars, sqlVars>>

\* Only a confirmed TRUE grants the one attempt.
Begin(w) ==
    /\ pc[w] = "begin" /\ live[w]
    /\ BeginSubmission(job[w])
    /\ Goto(w, "send")
    /\ UNCHANGED <<chainVars, outboxVars>>

-----------------------------------------------------------------------------
(* The send and its answer *)

Broadcast(w) ==
    /\ pc[w] = "send"
    /\ Transmit(saved[w])
    /\ Goto(w, "wait")
    /\ UNCHANGED <<sqlVars, outboxVars>>

AnswerOrGiveUp(w) ==
    /\ pc[w] = "wait"
    /\ \/ Admitted(saved[w]) /\ Goto(w, "admitted")
       \/ ~Admitted(saved[w]) /\ Goto(w, "refused")
    /\ UNCHANGED <<chainVars, sqlVars, outboxVars>>

Answer(w) ==
    /\ pc[w] = "wait"
    /\ \/ Admitted(saved[w]) /\ Goto(w, "admitted")
       \/ fate[saved[w]] = "refused" /\ Goto(w, "refused")
    /\ UNCHANGED <<chainVars, sqlVars, outboxVars>>

ResendOnTimeout(w) ==
    /\ pc[w] = "wait"
    /\ Goto(w, "send")
    /\ UNCHANGED <<chainVars, sqlVars, outboxVars>>

\* A timeout, a lost or malformed answer: says nothing about the bytes.
NoAnswer(w) ==
    /\ pc[w] = "wait"
    /\ Goto(w, "timedOut")
    /\ UNCHANGED <<chainVars, sqlVars, outboxVars>>

RecordUnknown(w) ==
    /\ pc[w] = "timedOut" /\ live[w]
    /\ MarkUnknown(job[w])
    /\ Return(w)
    /\ UNCHANGED <<chainVars, outboxVars>>

FinishOnAnyAnswer(w) ==
    /\ live[w]
    /\ \/ pc[w] = "admitted" /\ Accept(job[w]) /\ Goto(w, "accepted")
       \/ pc[w] = "refused" /\ Reject(job[w]) /\ Goto(w, "rejected")
    /\ UNCHANGED <<chainVars, outboxVars>>

\* An admission leaves the marker pending: only a block completes it.
RecordAnswer(w) ==
    /\ live[w]
    /\ \/ pc[w] = "admitted" /\ Accept(job[w]) /\ Return(w)
       \/ pc[w] = "refused" /\ Reject(job[w]) /\ Goto(w, "rejected")
    /\ UNCHANGED <<chainVars, outboxVars>>

-----------------------------------------------------------------------------
(* Observation of a row whose bytes may have been sent *)

Recover(w) ==
    /\ pc[w] = "recover" /\ live[w]
    /\ MarkUnknown(job[w])
    /\ Goto(w, "observe")
    /\ UNCHANGED <<chainVars, outboxVars>>

ObserveAdmission(w) ==
    /\ pc[w] = "observe" /\ live[w]
    /\ Admitted(saved[w]) /\ Commit(job[w])
    /\ Goto(w, "committed")
    /\ UNCHANGED <<chainVars, outboxVars>>

Observe(w) ==
    /\ pc[w] = "observe" /\ live[w]
    /\ Included(saved[w]) /\ Commit(job[w])
    /\ Goto(w, "committed")
    /\ UNCHANGED <<chainVars, outboxVars>>

\* SQL holds the outcome; the journal follows.  It needs no session.
FinishMarker(w) ==
    /\ pc[w] \in Outcomes
    /\ JournalFinish(saved[w], pc[w])
    /\ Return(w)
    /\ UNCHANGED <<chainVars, sqlVars>>

CrashInFinish(w) ==
    /\ pc[w] \in Outcomes
    /\ JournalHalfFinish(saved[w], pc[w])
    /\ Return(w)
    /\ UNCHANGED <<chainVars, sqlVars>>

WorkerStep(w) ==
    \/ \E t \in Txs : Open(w, t)
    \/ \E h \in Hashes : Prepare(w, h)
    \/ Stop(w) \/ Disconnect(w)
    \/ Preflight(w) \/ Invalid(w) \/ Abort(w) \/ Mark(w) \/ Begin(w)
    \/ Broadcast(w) \/ Answer(w) \/ NoAnswer(w) \/ RecordUnknown(w) \/ RecordAnswer(w)
    \/ Recover(w) \/ Observe(w) \/ FinishMarker(w) \/ CrashInFinish(w)
==============================================================================
