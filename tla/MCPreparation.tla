---------------------------- MODULE MCPreparation -----------------------------
(* A short chain for Preparation: the simulated use grows so that rounding and *)
(* the gas budget both matter, at a price of 0.7 and at none.              *)
EXTENDS Preparation

MCUsed == [h \in 1..MaxHeight |-> 4 * h - 4]
MCPrices == {7, None}
==============================================================================
