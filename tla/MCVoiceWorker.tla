--------------------------- MODULE MCVoiceWorker ---------------------------
(* Instances of VoiceWorker for TLC: task ids are small numbers.           *)
EXTENDS VoiceWorker, TLC

CONSTANT TaskCount

MCTasks == 1 .. TaskCount

\* Sessions are alike; used where no liveness is checked.
MCSymmetry == Permutations(Sessions)

=============================================================================
