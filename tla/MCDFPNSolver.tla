----------------------------- MODULE MCDFPNSolver ------------------------------
(* The df-pn solver on the games of MCGameTree. *)
EXTENDS DFPNSolver, MCGameTree

Vanilla == [simControl |-> "other", focused |-> FALSE, base |-> 1, ratios |-> {0},
            weak |-> FALSE, epsilon |-> 0, numbers |-> {[pn |-> 1, dn |-> 1]}]

MCConfigs ==
  {Vanilla,
   [Vanilla EXCEPT !.simControl = "time", !.weak = TRUE],
   [Vanilla EXCEPT !.simControl = "nodes", !.focused = TRUE, !.ratios = {0, 4},
                   !.epsilon = 1],
   [Vanilla EXCEPT !.focused = TRUE,
                   !.numbers = {[pn |-> 1, dn |-> 1], [pn |-> 3, dn |-> 2]}]}

\* Stones 1 and 2 and their pair, 3 and 4 have home slots in common.
MCHome == [k \in [early : EarlyResults, late : BlackWins, stones : SUBSET (1 .. 6)] |->
             (2 * Cardinality(k.stones)) % TTSize]
===============================================================================
