---------------------------- MODULE MCDispatcher ----------------------------
(* The dispatcher with two ids and room for one of them in time wait. *)
EXTENDS Dispatcher, TLC

\* Ids and addresses are interchangeable; no property is a liveness property.
DispatcherSymmetry == Permutations(ConnectionIds) \cup Permutations(Sessions)
=============================================================================
