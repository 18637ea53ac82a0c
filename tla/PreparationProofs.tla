--------------------------- MODULE PreparationProofs ---------------------------
(***************************************************************************)
(* Proofs about Preparation, for every chain, timeout, budget and use.     *)
(***************************************************************************)
EXTENDS Preparation, TLAPS

\* Where the bytes being prepared or checked stand: between two reads of the
\* height, the context is the one of `height`, and after the second read that
\* is also the height of the simulation.
PathInv ==
    /\ pc \in {"estimate", "refresh", "sign"} => saved = None
    /\ pc \in {"check", "send"} => saved # None
    /\ pc \in {"before", "simulate", "after", "sign", "send"} =>
         /\ height \in 1..Tip
         /\ blocks[height].sequence = sequence
         /\ ~Expired(timeout, height)
    /\ pc = "after" => judged \in height..Tip
    /\ pc \in {"sign", "send"} => judged = height /\ blocks[height].verdict = "ok"
    /\ pc \in {"before", "simulate", "after", "send"} /\ saved # None =>
         sequence = saved.sequence /\ timeout = saved.timeout
    /\ row # "claimed" => pc = "idle"
    /\ (pc \notin {"idle", "estimate", "invalid"} \/ saved # None) /\ Priced =>
         request.price # None

PInv == TypeOK /\ PathInv /\ CancelledForCause /\ SentIsCurrent /\ GasIsEnough /\ FeeIsEnough

\* The gas limit is the least one that covers the use and three tenths of it.
LEMMA GasIsLeast ==
    ASSUME NEW used \in Nat
    PROVE  /\ Gas(used) \in Nat \ {0}
           /\ 10 * Gas(used) >= 13 * used
           /\ \A less \in 1..(Gas(used) - 1) : 10 * less < 13 * used
BY DEF Gas

\* The fee is the least whole amount that is not below the price of the gas.
LEMMA FeeIsLeast ==
    ASSUME NEW gas \in Nat, Priced => request.price \in Nat
    PROVE  /\ Fee(gas) \in Nat
           /\ LET due == IF Priced THEN request.price * gas ELSE 0 IN
              /\ 10 * Fee(gas) >= due
              /\ Fee(gas) > 0 => 10 * (Fee(gas) - 1) < due
<1>1. ASSUME NEW due \in Nat
      PROVE  LET fee == (due + 9) \div 10 IN
             fee \in Nat /\ 10 * fee >= due /\ (fee > 0 => 10 * (fee - 1) < due)
  OBVIOUS
<1>2. CASE Priced
  <2>1. request.price * gas \in Nat
    BY <1>2
  <2> QED  BY <1>1, <1>2, <2>1 DEF Fee
<1>3. CASE ~Priced
  BY <1>3 DEF Fee
<1> QED  BY <1>2, <1>3

\* The invariant holds at the start.
LEMMA InitPInv == Init => PInv
<1> SUFFICES ASSUME Init PROVE PInv
  OBVIOUS
<1>1. PICK verdict \in Verdicts : blocks = <<[sequence |-> 0, verdict |-> verdict]>>
  BY DEF Init
<1>2. [sequence |-> 0, verdict |-> verdict] \in State
  BY DEF State
<1>3. blocks \in Seq(State) /\ Len(blocks) = 1
  BY <1>1, <1>2
<1>4. TypeOK
  BY <1>3, HeightAssumption DEF Init, TypeOK
<1>5. PathInv /\ CancelledForCause /\ SentIsCurrent /\ GasIsEnough /\ FeeIsEnough
  BY DEF Init, PathInv, CancelledForCause, SentIsCurrent, GasIsEnough, FeeIsEnough
<1> QED  BY <1>4, <1>5 DEF PInv

\* The worker's own conjuncts are about one height; a block adds another.
LEMMA BlockPInv == PInv /\ Block => PInv'
<1> SUFFICES ASSUME PInv, Block PROVE PInv'
  OBVIOUS
<1> USE DEF PInv
<1>1. PICK step \in {0, 1}, verdict \in Verdicts :
        blocks' = Append(blocks, [sequence |-> blocks[Tip].sequence + step,
                                  verdict |-> verdict])
  BY DEF Block
<1>2. UNCHANGED <<request, pc, height, sequence, timeout, judged, saved, row>>
  BY DEF Block, localVars
<1>3. /\ Tip \in 1..MaxHeight /\ Tip' = Tip + 1 /\ Tip' \in 1..MaxHeight
      /\ \A h \in 1..Tip : blocks'[h] = blocks[h]
  BY <1>1, HeightAssumption DEF Block, TypeOK, Tip
<1>4. blocks' \in Seq(State)
  <2>1. blocks[Tip] \in State
    BY <1>3 DEF TypeOK, Tip
  <2>2. [sequence |-> blocks[Tip].sequence + step, verdict |-> verdict] \in State
    BY <2>1 DEF State
  <2> QED  BY <1>1, <2>2 DEF TypeOK
<1>5. TypeOK'
  BY <1>2, <1>3, <1>4 DEF TypeOK, Tip
<1>6. PathInv'
  BY <1>2, <1>3 DEF PathInv, Expired, Priced, TypeOK
<1>7. CancelledForCause'
  BY <1>2, <1>3 DEF CancelledForCause, Cause, Expired, Generated, Verified
<1>8. SentIsCurrent'
  BY <1>2, <1>3 DEF SentIsCurrent, Expired
<1>9. GasIsEnough' /\ FeeIsEnough'
  BY <1>2 DEF GasIsEnough, FeeIsEnough, Priced
<1> QED  BY <1>5, <1>6, <1>7, <1>8, <1>9

\* The calls that change only where the worker stands.
LEMMA StepPInv ==
    PInv /\ (Start \/ Stop \/ Estimate \/ Refresh \/ Check \/ Before \/ Simulate \/ After
               \/ Send \/ Abort) => PInv'
<1> SUFFICES ASSUME PInv,
                    Start \/ Stop \/ Estimate \/ Refresh \/ Check \/ Before \/ Simulate
                      \/ After \/ Send \/ Abort
             PROVE  PInv'
  OBVIOUS
<1> USE HeightAssumption DEF PInv, Generated, Verified, Priced, Signed
<1>1. /\ Tip \in 1..MaxHeight /\ Tip' = Tip /\ blocks' = blocks /\ saved' = saved
      /\ request' = request
      /\ blocks[Tip].sequence \in Nat /\ blocks[Tip] \in State
  <2>1. blocks' = blocks /\ saved' = saved /\ request' = request
    BY DEF Start, Stop, Estimate, Refresh, Check, Before, Simulate, After, Send, Abort,
           Context, Goto
  <2>2. Tip \in 1..MaxHeight /\ blocks[Tip] \in State
    BY DEF TypeOK, Tip
  <2> QED  BY <2>1, <2>2 DEF Tip, State
<1>2. GasIsEnough' /\ FeeIsEnough'
  BY <1>1 DEF GasIsEnough, FeeIsEnough, Priced
<1>3. CASE Start
  BY <1>1, <1>2, <1>3 DEF Start, Goto, localVars, TypeOK, PathInv, CancelledForCause,
     SentIsCurrent, Tip
<1>4. CASE Stop
  BY <1>1, <1>2, <1>4 DEF Stop, Goto, TypeOK, PathInv, CancelledForCause, SentIsCurrent, Tip
<1>5. CASE Estimate
  BY <1>1, <1>2, <1>5 DEF Estimate, Context, Goto, TypeOK, PathInv, CancelledForCause, Cause,
     SentIsCurrent, Tip
<1>6. CASE Refresh
  BY <1>1, <1>2, <1>6 DEF Refresh, Context, Goto, TypeOK, PathInv, CancelledForCause, Cause,
     SentIsCurrent, Tip
<1>7. CASE Check
  BY <1>1, <1>2, <1>7 DEF Check, Context, Goto, TypeOK, PathInv, CancelledForCause, Cause,
     SentIsCurrent, Tip
<1>8. CASE Before
  BY <1>1, <1>2, <1>8 DEF Before, Goto, localVars, TypeOK, PathInv, CancelledForCause,
     SentIsCurrent, Tip
<1>9. CASE Simulate
  BY <1>1, <1>2, <1>9 DEF Simulate, Goto, TypeOK, PathInv, CancelledForCause,
     SentIsCurrent, Tip
<1>10. CASE After
  <2>1. /\ pc = "after" /\ judged = height /\ height \in 1..Tip /\ row = "claimed"
        /\ Tip = height /\ blocks[height].sequence = sequence
    BY <1>10 DEF After, PathInv, TypeOK, Tip
  <2>2. Judgement = blocks[height].verdict
    BY <2>1 DEF Judgement
  <2>3. UNCHANGED <<height, sequence, timeout, judged, row>>
    BY <1>10 DEF After, Goto, localVars
  <2>4. \/ blocks[height].verdict = "ok" /\ pc' = IF saved = None THEN "sign" ELSE "send"
        \/ blocks[height].verdict = "rejected" /\ pc' = "invalid"
    BY <1>10, <2>2 DEF After, Goto
  <2>5. TypeOK'
    BY <1>1, <2>3, <2>4 DEF TypeOK
  <2>6. PathInv'
    BY <1>1, <2>1, <2>3, <2>4 DEF PathInv, Expired
  <2>7. CancelledForCause'
    BY <1>1, <2>1, <2>3, <2>4 DEF CancelledForCause, Cause
  <2>8. SentIsCurrent'
    <3>1. CASE saved # None /\ blocks[height].verdict = "ok"
      <4>1. blocks[height] = [sequence |-> saved.sequence, verdict |-> "ok"]
        BY <2>1, <3>1, <1>1 DEF PathInv, State
      <4>2. ~Expired(saved.timeout, height)
        BY <2>1, <3>1 DEF PathInv
      <4> QED  BY <1>1, <2>1, <2>3, <3>1, <4>1, <4>2 DEF SentIsCurrent, Expired
    <3>2. CASE ~(saved # None /\ blocks[height].verdict = "ok")
      BY <1>1, <2>1, <2>3, <2>4, <3>2 DEF SentIsCurrent
    <3> QED  BY <3>1, <3>2
  <2> QED  BY <1>2, <2>5, <2>6, <2>7, <2>8
<1>11. CASE Send
  BY <1>1, <1>2, <1>11 DEF Send, localVars, TypeOK, PathInv, CancelledForCause,
     SentIsCurrent, Tip
<1>12. CASE Abort
  BY <1>1, <1>2, <1>12 DEF Abort, localVars, TypeOK, PathInv, CancelledForCause, Cause,
     SentIsCurrent, Tip
<1> QED  BY <1>3, <1>4, <1>5, <1>6, <1>7, <1>8, <1>9, <1>10, <1>11, <1>12

\* Signing writes the gas limit and the fee into the bytes.
LEMMA SignPInv == PInv /\ Sign => PInv'
<1> SUFFICES ASSUME PInv, Sign PROVE PInv'
  OBVIOUS
<1> USE DEF PInv, Generated, Verified, Priced
<1> DEFINE gas == Gas(Used[judged])
<1>1. /\ pc = "sign" /\ saved = None /\ judged = height /\ height \in 1..Tip /\ row = "claimed"
      /\ height \in 1..MaxHeight
  BY HeightAssumption DEF Sign, PathInv, TypeOK, Tip
<1>2. UNCHANGED <<request, blocks, height, sequence, timeout, judged, row>> /\ Tip' = Tip
  BY DEF Sign, localVars, Tip
<1>3. Used[judged] \in Nat /\ gas \in Nat \ {0}
  BY <1>1, GasAssumption, GasIsLeast
<1>4. CASE gas > MaxGas
  <2>1. pc' = "invalid" /\ saved' = saved
    BY <1>4 DEF Sign
  <2>2. TypeOK' /\ GasIsEnough' /\ FeeIsEnough'
    BY <1>2, <2>1 DEF TypeOK, GasIsEnough, FeeIsEnough
  <2>3. PathInv' /\ SentIsCurrent'
    BY <1>1, <1>2, <2>1 DEF PathInv, SentIsCurrent
  <2>4. CancelledForCause'
    BY <1>1, <1>2, <1>4, <2>1 DEF CancelledForCause, Cause
  <2> QED  BY <2>2, <2>3, <2>4
<1>5. CASE gas <= MaxGas
  <2>1. /\ pc' = "check"
        /\ saved' = [sequence |-> sequence, source |-> height, timeout |-> timeout,
                     gas |-> gas, fee |-> Fee(gas)]
    BY <1>3, <1>5, GasAssumption DEF Sign
  <2>2. gas \in 1..MaxGas
    BY <1>3, <1>5, GasAssumption
  <2>3. Priced => request.price \in Nat
    BY <1>1, PriceAssumption DEF PathInv, TypeOK
  <2>4. Fee(gas) \in Nat
    BY <1>3, <2>3, FeeIsLeast
  <2>5. saved' \in Signed
    BY <1>1, <2>1, <2>2, <2>4 DEF TypeOK, Signed
  <2>6. TypeOK'
    BY <1>2, <2>1, <2>5 DEF TypeOK
  <2>7. GasIsEnough'
    <3>1. saved'.source = judged /\ saved'.gas = gas
      BY <1>1, <2>1
    <3> QED  BY <1>3, <3>1, <2>2, GasIsLeast DEF GasIsEnough
  <2>8. saved' # None
    BY <2>5, NoneAssumption
  <2>9. row' = "claimed" /\ pc' = "check"
    BY <1>1, <1>2, <2>1
  <2>10. FeeIsEnough'
    <3>1. saved'.gas = gas /\ saved'.fee = Fee(gas) /\ Priced' = Priced
      BY <1>2, <2>1
    <3> QED  BY <1>2, <1>3, <2>3, <3>1, FeeIsLeast DEF FeeIsEnough
  <2>11. PathInv' /\ CancelledForCause' /\ SentIsCurrent'
    BY <1>1, <1>2, <2>8, <2>9 DEF PathInv, CancelledForCause, SentIsCurrent
  <2> QED  BY <2>6, <2>7, <2>11, <2>10
<1> QED  BY <1>3, <1>4, <1>5, GasAssumption

\* A stutter changes nothing the invariant reads.
LEMMA StutterPInv == PInv /\ UNCHANGED vars => PInv'
BY DEF PInv, vars, TypeOK, PathInv, CancelledForCause, Cause, SentIsCurrent, GasIsEnough, FeeIsEnough,
       Tip, Expired, Generated, Verified, Priced

\* The invariant holds in every reachable state of every chain.
THEOREM PreparationInvariance == Spec => []PInv
<1>1. PInv /\ [Next]_vars => PInv'
  BY BlockPInv, StepPInv, SignPInv, StutterPInv DEF Next, Work
<1> QED  BY InitPInv, <1>1, PTL DEF Spec

\* Every variable keeps its type; signed bytes never exceed the gas budget
\* (signer.py:225).
THEOREM PreparationTypeCorrect == Spec => []TypeOK
BY PreparationInvariance, PTL DEF PInv

\* A row is cancelled only for a cause in the very state its context was pinned
\* to, however the chain advances between the calls.
THEOREM CancelledRightly == Spec => []CancelledForCause
BY PreparationInvariance, PTL DEF PInv

\* A permit is asked only for bytes that were owned, in sequence, alive and
\* accepted by the simulation in the state of one height.
THEOREM SentCurrent == Spec => []SentIsCurrent
BY PreparationInvariance, PTL DEF PInv

\* The signed gas limit is the least one that covers the simulated use with its
\* margin, and stays within the budget.
THEOREM GasSuffices == Spec => []GasIsEnough
BY PreparationInvariance, PTL DEF PInv

\* A paid message offers the least fee that covers its gas limit, at any price.
THEOREM FeeSuffices == Spec => []FeeIsEnough
BY PreparationInvariance, PTL DEF PInv
==============================================================================
