----------------------------- MODULE VoiceTasks -----------------------------
(***************************************************************************)
(* What the voice worker promises, seen from outside: a ledger of coding   *)
(* tasks.  A task is accepted, waits, is worked on alone, may have its     *)
(* branch published while it is worked on, and ends in one of four ways:   *)
(* a pull request, no change, a failure, or (the worker stopped under it)  *)
(* lost.  An ending is final.  VoiceWorker implements this module.         *)
(***************************************************************************)
CONSTANT Tasks

VARIABLES
  phase,      \* what has become of each task
  published   \* the tasks whose branch voice/<id> exists on GitHub

vars == <<phase, published>>

Endings == {"pull request", "no change", "failed", "lost"}
Phases  == {"unknown", "queued", "working"} \cup Endings

TypeOK ==
  /\ phase \in [Tasks -> Phases]
  /\ published \subseteq Tasks

Init ==
  /\ phase = [t \in Tasks |-> "unknown"]
  /\ published = {}

Become(t, from, to) ==
  /\ phase[t] = from
  /\ phase' = [phase EXCEPT ![t] = to]

Accept(t) ==
  /\ Become(t, "unknown", "queued")
  /\ UNCHANGED published

\* One task at a time.
Start(t) ==
  /\ \A u \in Tasks : phase[u] # "working"
  /\ Become(t, "queued", "working")
  /\ UNCHANGED published

Publish(t) ==
  /\ phase[t] = "working"
  /\ published' = published \cup {t}
  /\ UNCHANGED phase

\* "pull request" is said only of a published task, "no change" only of one
\* that published nothing; a failed or lost task may have been published.
End(t) ==
  /\ \E how \in Endings :
       /\ how = "pull request" => t \in published
       /\ how = "no change" => t \notin published
       /\ Become(t, "working", how)
  /\ UNCHANGED published

Next == \E t \in Tasks : Accept(t) \/ Start(t) \/ Publish(t) \/ End(t)

SafeSpec == Init /\ [][Next]_vars

Spec ==
  /\ SafeSpec
  /\ WF_vars(\E t \in Tasks : Start(t))
  /\ \A t \in Tasks : WF_vars(End(t))

=============================================================================
