-------------------------- MODULE MCStrategyDelivery --------------------------
(* TLC instance of StrategyDelivery. *)
EXTENDS StrategyDelivery

=============================================================================
