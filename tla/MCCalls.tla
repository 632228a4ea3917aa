-------------------------------- MODULE MCCalls -------------------------------
(***************************************************************************)
(* Calling, and the calls table afterwards.  Placing calls only adds rows  *)
(* to the table (CreateCall), so a behaviour exercises one of the two.     *)
(***************************************************************************)
EXTENDS Calls, CallRecords, TLC

VARIABLE part

MCInit == part \in {"calling", "records"} /\ Init /\ RecordsInit

MCNext ==
    /\ \/ part = "calling" /\ Next /\ UNCHANGED recordVars
       \/ part = "records" /\ RecordsNext /\ UNCHANGED vars
    /\ UNCHANGED part

MCSpec == MCInit /\ [][MCNext]_<<vars, recordVars, part>>

OneOrg == [j \in Jobs |-> CHOOSE o \in Orgs : TRUE]

\* A two-hour day and two zones, one of them an hour ahead of UTC.
Offsets == [utc |-> 0, ahead |-> 1]
Morning == [start |-> 0, end |-> 1, tz |-> "utc"]
Evening == [start |-> 0, end |-> 1, tz |-> "ahead"]
Empty == [start |-> 1, end |-> 1, tz |-> "utc"]
Nowhere == [start |-> 0, end |-> 1, tz |-> "nowhere"]
Windows == {Morning, Evening, Empty, Nowhere}

Symmetry == Permutations(Workers) \cup Permutations(Jobs)
===============================================================================
