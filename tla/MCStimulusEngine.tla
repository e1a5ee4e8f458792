-------------------------- MODULE MCStimulusEngine --------------------------
(***************************************************************************)
(* TLC instances of the engine with a free-running producer.               *)
(***************************************************************************)
EXTENDS StimulusEngine, TLC

\* Instances are interchangeable: nothing in the engine orders them.
InstanceSymmetry == Permutations(Instance)
=============================================================================
