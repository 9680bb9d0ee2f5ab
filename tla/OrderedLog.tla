---------------------------- MODULE OrderedLog -----------------------------
(***************************************************************************)
(* What the replicas of BigBFT promise together: one log.  A submitted     *)
(* command has a place of its own in it; every replica applies the log     *)
(* from its start, without gaps, and a command is answered by a step that  *)
(* applies it.  The module states steps as relations: it is what Consensus *)
(* is checked against, not a specification to run.                         *)
(***************************************************************************)
EXTENDS Integers

CONSTANTS
    Replica,     \* the replicas that apply the log
    Place(_)     \* the place of a command in the log

VARIABLES
    submitted,   \* the commands clients have submitted
    applied,     \* applied[r]: place -> command, what r has applied
    answered     \* the commands that were answered

vars == <<submitted, applied, answered>>

\* The command at place s of the log, once it is submitted.
At(s) == CHOOSE c \in submitted : Place(c) = s

Init == /\ submitted = {}
        /\ applied = [r \in Replica |-> <<>>]
        /\ answered = {}

\* A client submits a command for a free place.
Submit ==
    \E c \in submitted' :
        /\ \A d \in submitted : Place(d) # Place(c)
        /\ submitted' = submitted \cup {c}
        /\ UNCHANGED <<applied, answered>>

\* Replica r applies more of the log, without gaps and each place with the
\* command submitted for it, and answers some of the commands it applies.
Apply(r) ==
    LET new == DOMAIN applied'[r] \ DOMAIN applied[r]
    IN /\ DOMAIN applied[r] \subseteq DOMAIN applied'[r]
       /\ \A s \in new : 0..s \subseteq DOMAIN applied'[r]
       /\ \A s \in new : \E c \in submitted : Place(c) = s
       /\ applied' = [applied EXCEPT ![r] = [s \in DOMAIN applied'[r] |->
                         IF s \in new THEN At(s) ELSE applied[r][s]]]
       /\ answered \subseteq answered'
       /\ answered' \ answered \subseteq {At(s) : s \in new}
       /\ UNCHANGED submitted

Next == Submit \/ \E r \in Replica : Apply(r)

Spec == Init /\ [][Next]_vars
=============================================================================
