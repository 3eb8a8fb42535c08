---------------------------- MODULE MCCardVisits ----------------------------
(* Instances of CardVisits for TLC. *)
EXTENDS CardReleases, TLC

\* Ids are interchangeable: no definition tells two of a kind apart.
Symmetry == Permutations(Workers) \cup Permutations(Visitors)
            \cup Permutations(Cards) \cup Permutations(Appts)

Work(ops, states) == [ops |-> ops, states |-> states, faults |-> FALSE, serial |-> FALSE]

SerialWork(ops) == [Work(ops, {"keep"}) EXCEPT !.serial = TRUE]

FaultyWork(ops) == [Work(ops, {"keep"}) EXCEPT !.faults = TRUE]

\* The operations that write an appointment's times.
TimeOps == {"CreateAppt", "CheckIn", "CheckOut", "CheckOutVisitor", "UpdateVisitor",
            "UpdateAppt", "Cancel", "Archive", "AssignJob", "ReleaseJob"}

\* Two workloads with one request at a time, the others with two requests that
\* overlap and meet at the same rows.
VisitWork ==
  {SerialWork(AllOps \ {"RecordLocation", "ReportLocation", "ReleaseJob"}),
   SerialWork({"Register", "CheckIn", "CheckOut", "Assign", "Unassign", "RecordLocation",
               "ReportLocation"}),
   FaultyWork(AssignOps),
   Work({"CheckOutVisitor", "SetImage", "DeleteVisitor", "UpdateAppt", "Assign", "Unassign",
         "ReleaseJob"}, {"en_progreso"}),
   Work({"SetImage", "DeleteVisitor", "UpdateAppt", "Unassign", "UpdateCard"}, {"en_progreso"}),
   Work(TimeOps \ {"CreateAppt"}, {"pendiente"}),
   Work({"CreateAppt", "CheckIn", "CheckOut", "CheckOutVisitor", "Cancel"}, {"pendiente"})}

LendingWork ==
  {SerialWork({"Register", "CheckIn", "CheckOut", "CheckOutVisitor", "SetImage",
               "DeleteVisitor", "Cancel", "Assign", "Unassign", "AssignJob", "UpdateCard"})}

ReleaseWork == {Work(ReleaseOps, {"en_progreso"})}

\* For the properties the code does not have.
ReleaseJobWork == {Work({"CheckIn", "ReleaseJob"}, {"keep"})}

CheckInWork == {Work({"CheckIn"}, {"keep"})}
=============================================================================
