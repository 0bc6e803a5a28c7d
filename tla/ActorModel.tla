----------------------------- MODULE ActorModel -----------------------------
(***************************************************************************)
(* What onbnet promises its services: a service is an actor.  Messages wait *)
(* until the actor takes them; it handles one message at a time; a message  *)
(* is taken once and none is invented.  Actors that are in the middle of    *)
(* none may lose their messages, all at once: the program deletes them when *)
(* it stops.  Nothing is said here of threads,                              *)
(* queues or flags: ServiceDispatch is shown to implement this module.      *)
(***************************************************************************)
EXTENDS Naturals

CONSTANT Services   \* the actors

VARIABLES
  pending,  \* per actor, the messages that wait
  active    \* the actors in the middle of a message

vars == <<pending, active>>

Init ==
  /\ pending = [s \in Services |-> 0]
  /\ active = {}

\* anybody sends s a message
Send(s) ==
  /\ pending' = [pending EXCEPT ![s] = @ + 1]
  /\ UNCHANGED active

\* s takes a message, being in the middle of none
Begin(s) ==
  /\ s \notin active
  /\ pending[s] > 0
  /\ pending' = [pending EXCEPT ![s] = @ - 1]
  /\ active' = active \cup {s}

\* s has done with its message
End(s) ==
  /\ s \in active
  /\ active' = active \ {s}
  /\ UNCHANGED pending

\* the actors in D are deleted with the messages that wait for them
Delete(D) ==
  /\ D \cap active = {}
  /\ pending' = [s \in Services |-> IF s \in D THEN 0 ELSE pending[s]]
  /\ UNCHANGED active

Next ==
  \/ \E s \in Services : Send(s) \/ Begin(s) \/ End(s)
  \/ \E D \in SUBSET Services : Delete(D)

Spec == Init /\ [][Next]_vars

=============================================================================
