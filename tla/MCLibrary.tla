----------------------------- MODULE MCLibrary ------------------------------
(***************************************************************************)
(* The data structures and helpers of the repository and the stores with   *)
(* their audit, for TLC.  They do not touch one another: a behaviour uses  *)
(* one of them and leaves the others as they began.                        *)
(***************************************************************************)
EXTENDS Queue, Graph, HashRing, Limiter, Ballots, Conflicts, Database, Bitwise

MCWordOr(a, b) == a | b

VARIABLE inUse

libraryVars == <<inUse, vars, graphVars, ring, limiterVars, ballotVars, storeVars,
                 databaseVars>>

LibraryInit ==
    /\ inUse \in {"queue", "graph", "ring", "limiter", "ballot", "store",
                 "database"}
    /\ NewQueue /\ NewGraph /\ ring = <<>> /\ NewLimiter
    /\ ballot = NewBallot(0, [zone |-> 1, node |-> 1])
    /\ by = [zone |-> 1, node |-> 1]
    /\ StoreInit
    /\ NewDatabase /\ (inUse # "database" => k = CHOOSE key \in Key : TRUE)

LibraryNext ==
    /\ UNCHANGED inUse
    /\ \/ /\ inUse = "queue" /\ Next
          /\ UNCHANGED <<graphVars, ring, limiterVars, ballotVars, storeVars, databaseVars>>
       \/ /\ inUse = "graph" /\ GraphNext
          /\ UNCHANGED <<vars, ring, limiterVars, ballotVars, storeVars, databaseVars>>
       \/ /\ inUse = "ring" /\ RingNext
          /\ UNCHANGED <<vars, graphVars, limiterVars, ballotVars, storeVars, databaseVars>>
       \/ /\ inUse = "limiter" /\ LimiterNext
          /\ UNCHANGED <<vars, graphVars, ring, ballotVars, storeVars, databaseVars>>
       \/ /\ inUse = "ballot" /\ BallotNext
          /\ UNCHANGED <<vars, graphVars, ring, limiterVars, storeVars, databaseVars>>
       \/ /\ inUse = "store" /\ StoreNext
          /\ UNCHANGED <<vars, graphVars, ring, limiterVars, ballotVars, databaseVars>>
       \/ /\ inUse = "database" /\ DatabaseNext
          /\ UNCHANGED <<vars, graphVars, ring, limiterVars, ballotVars, storeVars>>

LibrarySpec == LibraryInit /\ [][LibraryNext]_libraryVars
=============================================================================
