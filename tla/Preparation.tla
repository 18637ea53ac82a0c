----------------------------- MODULE Preparation ------------------------------
(***************************************************************************)
(* One row on its way to a send permit: Signer.prepare and preflight over  *)
(* a chain that moves on between any two calls.  LCD reads are pinned to a *)
(* height, so one context is read in one step; the simulation is not       *)
(* pinned, it runs on whatever block is the last one.                      *)
(***************************************************************************)
EXTENDS Integers, Sequences

CONSTANTS
    MaxHeight,       \* bound: the last block
    TimeoutBlocks,   \* blocks until prepared bytes expire, 0 for never
    MaxGas,          \* gas budget of one transaction
    Used,            \* Used[h]: gas the simulation uses in the state of h
    Prices,          \* gas prices the daemon may run with, in tenths, or None
    None

ASSUME HeightAssumption == MaxHeight \in Nat \ {0} /\ TimeoutBlocks \in 0..(MaxHeight - 1)
ASSUME GasAssumption == MaxGas \in Nat \ {0} /\ Used \in [1..MaxHeight -> Nat]

ASSUME PriceAssumption == Prices \subseteq Nat \cup {None}

Signed ==
    [sequence : Nat, source : 1..MaxHeight, timeout : 0..MaxHeight, gas : 1..MaxGas, fee : Nat]

ASSUME NoneAssumption == None \notin Signed \cup Nat

VARIABLES
    request,    \* the kind of message, and the price the daemon runs with
    blocks,     \* state after each block, as far as the signer looks at it
    pc,         \* the call the worker makes next
    height,     \* height the current context is pinned to
    sequence,   \* sequence of the bytes being prepared or checked
    timeout,    \* their timeout height
    judged,     \* height the last simulation really ran at
    saved,      \* the signed bytes in SQL
    row         \* "claimed", "sent" (a permit was asked for) or "cancelled"

localVars == <<height, sequence, timeout, judged>>
vars == <<request, blocks, pc, height, sequence, timeout, judged, saved, row>>

\* What the state says to the message, if the sequence is right; an address
\* that is not the player's any more is found out before the simulation.
Verdicts == {"ok", "throttled", "rejected", "disowned"}

State == [sequence : Nat, verdict : Verdicts]

\* A message outside the signing contract, and one whose signed bytes are too
\* large or fail the independent verification, never get far.
Kinds == {"plain", "priced", "foreign", "unverified"}

\* The type invariant.  Signed bytes stay within the gas budget (signer.py:225)
\* and expire within the modelled chain.
TypeOK ==
    /\ request \in [kind : Kinds, price : Prices]
    /\ blocks \in Seq(State) /\ Len(blocks) \in 1..MaxHeight
    /\ pc \in {"idle", "estimate", "refresh", "check", "before", "simulate", "after",
               "sign", "send", "invalid"}
    /\ height \in 0..MaxHeight /\ judged \in 0..MaxHeight
    /\ sequence \in Nat /\ timeout \in 0..MaxHeight
    /\ saved \in Signed \cup {None}
    /\ row \in {"claimed", "sent", "cancelled"}

Tip == Len(blocks)
Expired(limit, h) == limit # 0 /\ h >= limit

Init ==
    /\ request \in [kind : Kinds, price : Prices]
    /\ \E verdict \in Verdicts : blocks = <<[sequence |-> 0, verdict |-> verdict]>>
    /\ pc = "idle"
    /\ height = 0 /\ sequence = 0 /\ timeout = 0 /\ judged = 0
    /\ saved = None /\ row = "claimed"

-----------------------------------------------------------------------------
(* The chain.  The key may be used elsewhere, so its sequence may move.    *)

Block ==
    /\ Tip < MaxHeight
    /\ \E step \in {0, 1}, verdict \in Verdicts :
         blocks' = Append(blocks, [sequence |-> blocks[Tip].sequence + step, verdict |-> verdict])
    /\ UNCHANGED <<request, pc, localVars, saved, row>>

-----------------------------------------------------------------------------
(* The worker *)

Goto(next) == pc' = next /\ UNCHANGED <<request, blocks, saved, row>>

Start ==
    /\ pc = "idle" /\ row = "claimed"
    /\ Goto(IF saved = None THEN "estimate" ELSE "check")
    /\ UNCHANGED localVars

\* Unavailable evidence, a throttle, a chain that moved on, a killed process:
\* the row stays as it is for a later attempt.
Stop ==
    /\ pc # "idle"
    /\ Goto("idle")
    /\ height' = 0 /\ sequence' = 0 /\ timeout' = 0 /\ judged' = 0

\* The context of a height: the state it is pinned to decides what is next.
Context(next) ==
    /\ height' = Tip
    /\ Goto(IF blocks[Tip].verdict = "disowned" THEN "invalid" ELSE next)

Generated == request.kind # "foreign"
Verified == request.kind # "unverified"
Priced == request.kind = "priced"

\* A paid message waits for a daemon with a price.  The bound keeps every
\* timeout within the modelled blocks.
Estimate ==
    /\ pc = "estimate" /\ Tip + TimeoutBlocks <= MaxHeight
    /\ Priced /\ request.price = None => blocks[Tip].verdict = "disowned"
    /\ Context(IF Generated /\ Verified THEN "refresh" ELSE "invalid")
    /\ sequence' = blocks[Tip].sequence
    /\ timeout' = IF TimeoutBlocks = 0 THEN 0 ELSE Tip + TimeoutBlocks
    /\ UNCHANGED judged

Refresh ==
    /\ pc = "refresh"
    /\ blocks[Tip].verdict # "disowned" =>
         blocks[Tip].sequence = sequence /\ ~Expired(timeout, Tip)
    /\ Context("before")
    /\ UNCHANGED <<sequence, timeout, judged>>

CheckSequenceOnly ==
    /\ pc = "check"
    /\ Context(IF blocks[Tip].sequence # saved.sequence THEN "invalid" ELSE "before")
    /\ sequence' = saved.sequence /\ timeout' = saved.timeout
    /\ UNCHANGED judged

Check ==
    /\ pc = "check"
    /\ Context(IF blocks[Tip].sequence # saved.sequence \/ Expired(saved.timeout, Tip)
               THEN "invalid" ELSE "before")
    /\ sequence' = saved.sequence /\ timeout' = saved.timeout
    /\ UNCHANGED judged

Before ==
    /\ pc = "before" /\ Tip = height
    /\ Goto("simulate")
    /\ UNCHANGED localVars

Simulate ==
    /\ pc = "simulate"
    /\ judged' = Tip
    /\ Goto("after")
    /\ UNCHANGED <<height, sequence, timeout>>

JudgementWithoutThrottle ==
    IF blocks[judged].sequence = sequence /\ blocks[judged].verdict # "throttled"
    THEN blocks[judged].verdict ELSE "rejected"

\* A wrong sequence is a rejection too.
Judgement ==
    IF blocks[judged].sequence = sequence THEN blocks[judged].verdict ELSE "rejected"

AfterAnyBlock ==
    /\ pc = "after"
    /\ \/ Judgement = "ok" /\ Goto(IF saved = None THEN "sign" ELSE "send")
       \/ Judgement = "rejected" /\ Goto("invalid")
    /\ UNCHANGED localVars

\* The answer counts only if no block came since the context was read.
After ==
    /\ pc = "after" /\ Tip = height
    /\ \/ Judgement = "ok" /\ Goto(IF saved = None THEN "sign" ELSE "send")
       \/ Judgement = "rejected" /\ Goto("invalid")
    /\ UNCHANGED localVars

GasRoundedDown(used) == LET gas == (used * 13) \div 10 IN IF gas > 1 THEN gas ELSE 1

\* Three tenths on top of the simulated use, rounded up.
Gas(used) == LET gas == (used * 13 + 9) \div 10 IN IF gas > 1 THEN gas ELSE 1

FeeRoundedDown(gas) == IF Priced THEN (request.price * gas) \div 10 ELSE 0

\* The price of the gas limit, rounded up.
Fee(gas) == IF Priced THEN (request.price * gas + 9) \div 10 ELSE 0

SignWithoutBudget ==
    /\ pc = "sign"
    /\ pc' = "check"
    /\ LET gas == Gas(Used[judged]) IN
       saved' = [sequence |-> sequence, source |-> height, timeout |-> timeout,
                 gas |-> gas, fee |-> Fee(gas)]
    /\ UNCHANGED <<request, blocks, localVars, row>>

Sign ==
    /\ pc = "sign"
    /\ LET gas == Gas(Used[judged]) IN
       IF gas > MaxGas
       THEN pc' = "invalid" /\ UNCHANGED saved
       ELSE /\ pc' = "check"
            /\ saved' = [sequence |-> sequence, source |-> height, timeout |-> timeout,
                         gas |-> gas, fee |-> Fee(gas)]
    /\ UNCHANGED <<request, blocks, localVars, row>>

Send ==
    /\ pc = "send"
    /\ row' = "sent" /\ pc' = "idle"
    /\ UNCHANGED <<request, blocks, localVars, saved>>

Abort ==
    /\ pc = "invalid"
    /\ row' = "cancelled" /\ pc' = "idle"
    /\ UNCHANGED <<request, blocks, localVars, saved>>

Work ==
    \/ Estimate \/ Refresh \/ Check \/ Before \/ Simulate \/ After \/ Sign \/ Send \/ Abort

Next == Block \/ Start \/ Work \/ Stop

Spec == Init /\ [][Next]_vars

-----------------------------------------------------------------------------
(* Safety *)

\* What makes a row definitely invalid in the state of h.
Cause(h) ==
    \/ blocks[h].verdict \in {"disowned", "rejected"}
    \/ ~Generated \/ ~Verified
    \/ saved = None /\ Gas(Used[h]) > MaxGas
    \/ saved # None /\ (blocks[h].sequence # saved.sequence \/ Expired(saved.timeout, h))

\* A row is cancelled only for a cause found in the very state its context was
\* pinned to, never for an answer given in another block (signer.py:179-203).
CancelledForCause ==
    pc = "invalid" \/ row = "cancelled" => height \in 1..Tip /\ Cause(height)

\* Bytes for which a permit is asked were owned, in sequence, not expired and
\* accepted by the simulation, all in the state of one height (README: the
\* worker checks current ownership, account state and simulation before
\* transport; signer.py:236-243).
SentIsCurrent ==
    pc = "send" \/ row = "sent" =>
        /\ saved # None /\ height \in 1..Tip
        /\ blocks[height] = [sequence |-> saved.sequence, verdict |-> "ok"]
        /\ ~Expired(saved.timeout, height)

\* The gas limit in the bytes is the least that covers the simulated use and
\* three tenths, and within the budget (signer.py:224-226).
GasIsEnough ==
    saved # None =>
        LET used == Used[saved.source] IN
        /\ saved.gas \in 1..MaxGas
        /\ 10 * saved.gas >= 13 * used
        /\ \A less \in 1..(saved.gas - 1) : 10 * less < 13 * used

\* A paid message offers the least fee that is not below the price of its gas
\* limit, any other offers none (signer.py:227-232).
FeeIsEnough ==
    saved # None =>
        LET due == IF Priced THEN request.price * saved.gas ELSE 0 IN
        /\ 10 * saved.fee >= due
        /\ saved.fee > 0 => 10 * (saved.fee - 1) < due

-----------------------------------------------------------------------------
(* Liveness.  Blocks keep coming, the supervisor repeats the attempt       *)
(* (runtime.py:146-153), and a height can be read at some point.           *)

Fairness ==
    /\ WF_vars(Block)
    /\ WF_vars(Start)
    /\ WF_vars(Work \/ Stop)
    /\ SF_vars(Check)
    /\ SF_vars(Abort)

LiveSpec == Spec /\ Fairness

\* Prepared bytes do not reserve their key for ever: they are sent, or expire
\* and are cancelled, however often the preflight has no answer
\* (signer.py:208, 240-242).
PreparedSettles == (saved # None) ~> (row # "claimed")
==============================================================================
