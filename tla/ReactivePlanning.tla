-------------------------- MODULE ReactivePlanning --------------------------
(***************************************************************************)
(* What the event router promises, without replicas, leases, cursors,      *)
(* queues or debouncing: the world changes, and every change is sooner or  *)
(* later in front of a re-plan.  One re-plan may answer many changes (they *)
(* are coalesced) and a change may be answered again, but an answer is     *)
(* never taken back and never given to a change that has not happened.     *)
(***************************************************************************)
CONSTANT Change           \* the changes that can happen

VARIABLES changes,        \* the ones that happened
          replanned       \* the ones a finished re-plan had before it

vars == <<changes, replanned>>

TypeOK == changes \subseteq Change /\ replanned \subseteq changes

Init == changes = {} /\ replanned = {}

Happen(c) ==
  /\ c \in Change \ changes
  /\ changes' = changes \cup {c}
  /\ UNCHANGED replanned

(* A re-plan in an officer's name may itself be a change: the jobs it       *)
(* cancels are cancelled by a person.                                       *)
Replan(S) ==
  /\ S \subseteq changes
  /\ replanned' = replanned \cup S
  /\ \/ UNCHANGED changes
     \/ \E c \in Change \ changes : changes' = changes \cup {c}

Answer(c) == c \notin replanned /\ \E S \in SUBSET changes : c \in S /\ Replan(S)

Next == (\E c \in Change : Happen(c)) \/ (\E S \in SUBSET changes : Replan(S))

Spec == Init /\ [][Next]_vars /\ \A c \in Change : WF_vars(Answer(c))

(* Every change is eventually re-planned for. *)
EveryChangeAnswered == \A c \in Change : (c \in changes) ~> (c \in replanned)
=============================================================================
