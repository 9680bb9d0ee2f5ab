------------------------------ MODULE Ballots -------------------------------
(***************************************************************************)
(* Ballot numbers (src/ballot.go): a counter and the ID of a node packed   *)
(* into one machine word, by shifts and bitwise or.  Nothing checks that   *)
(* the parts fit their fields.                                             *)
(***************************************************************************)
EXTENDS Integers

CONSTANTS
    Field,     \* values of the zone and the node in a ballot (2^16)
    Zones,     \* zones and nodes of the IDs in use
    Nodes,
    WordOr(_, _)   \* bitwise or of two words

ASSUME BallotFields == Field \in Nat \ {0} /\ Zones \subseteq Nat /\ Nodes \subseteq Nat

ID   == [zone : Zones, node : Nodes]
Word == Field * Field * Field * Field

\* A word no less than either of the two; their sum, when the one ends in zeros
\* where the other has all its bits.
ASSUME BitwiseOr == \A a, b \in 0..(Word - 1) :
    /\ WordOr(a, b) \in 0..(Word - 1) /\ WordOr(a, b) >= a /\ WordOr(a, b) >= b
    /\ \A f \in {Field, Field * Field} : a % f = 0 /\ b < f => WordOr(a, b) = a + b

VARIABLES
    ballot,
    by         \* history: the ID given to Next last

ballotVars == <<ballot, by>>

\* mutant: the zone is shifted as far as the counter
NewBallotShifted(n, id) ==
    WordOr(WordOr((n * Field * Field) % Word, (id.zone * Field * Field) % Word), id.node % Word)

\* n<<32 | zone<<16 | node, in a word.
NewBallot(n, id) ==
    WordOr(WordOr((n * Field * Field) % Word, (id.zone * Field) % Word), id.node % Word)

N(b) == b \div (Field * Field)
IDOf(b) == [zone |-> (b % (Field * Field)) \div Field, node |-> b % Field]

\* b.Next(id)
NextBallot(id) ==
    /\ ballot' = NewBallot(N(ballot) + 1, id)
    /\ by' = id

BallotInit == \E id \in ID : ballot = NewBallot(0, id) /\ by = id
BallotNext == \E id \in ID : NextBallot(id)
BallotSpec == BallotInit /\ [][BallotNext]_ballotVars

-----------------------------------------------------------------------------
(* Properties *)

Fits(id) == id.zone < Field /\ id.node < Field

\* Until the counter wraps around, Next gives a higher ballot whatever ID it is
\* given; with an ID that fits its fields the counter grows by one and N and ID
\* recover both parts, so that no two nodes have the same ballot (NewBallot,
\* Next, N, ID).
BallotsGrow ==
    [][N(ballot) + 1 < Field * Field =>
         /\ ballot' > ballot
         /\ Fits(by') => N(ballot') = N(ballot) + 1 /\ IDOf(ballot') = by']_ballotVars
=============================================================================
