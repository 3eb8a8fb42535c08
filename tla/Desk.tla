-------------------------------- MODULE Desk --------------------------------
(***************************************************************************)
(* Requests under way, for the services that Office puts together.  A      *)
(* worker carries a request from one awaited call to the next.             *)
(***************************************************************************)
EXTENDS Naturals, FiniteSets, Sequences

CONSTANTS
  Workers,    \* requests that run at once
  Workloads   \* what may be asked, see Init of Office

ASSUME WorkersAssumption == IsFiniteSet(Workers) /\ Workers # {}

\* One set of operations, how many requests overlap, how many rows of a kind are
\* inserted (a bound), whether calls may fail, and whether the tables are those
\* of the migrations or those of the entities.
ASSUME WorkloadsAssumption ==
  \A l \in Workloads :
    /\ DOMAIN l = {"ops", "width", "size", "fails", "schema"}
    /\ l.width \in 1..Cardinality(Workers) /\ l.size \in Nat
    /\ l.fails \in BOOLEAN
    /\ l.schema \in {"migrated", "synchronized"}

VARIABLES
  task,      \* what each worker is doing: op, pc and what it has read
  workload   \* never changes

desk == <<task, workload>>

Idle == [op |-> "none", pc |-> "idle"]

At(w, pc) == task[w].pc = pc

AtRest == \A w \in Workers : At(w, "idle")

Serial == workload.width = 1

Asked(ops) == workload.ops \cap ops # {}

\* Ids are given in order.
IsNext(i, used) == i \notin used /\ i <= workload.size /\ \A k \in 1..(i - 1) : k \in used

Become(w, t) == task' = [task EXCEPT ![w] = t] /\ UNCHANGED workload

Goto(w, pc) == Become(w, [task[w] EXCEPT !.pc = pc])

Finish(w) == Become(w, Idle)

Accepts(w, op) ==
  /\ At(w, "idle")
  /\ Cardinality({u \in Workers : ~At(u, "idle")}) < workload.width
  /\ op \in workload.ops

\* An awaited call throws and the request ends; what it has written stays.
Abort(w) == workload.fails /\ ~At(w, "idle") /\ Finish(w)
=============================================================================
