------------------------------- MODULE Roles --------------------------------
(***************************************************************************)
(* RoleService and PermissionService with their repositories.  Every       *)
(* operation of RoleRepository reads a role with its permissions and saves *)
(* all of it.  Reads that follow each other are one step.                  *)
(***************************************************************************)
EXTENDS Desk

CONSTANTS
  RoleIds,     \* 1..n
  Names, Permissions,
  Offices,     \* suppliers
  NoOffice

ASSUME OfficesAssumption == NoOffice \notin Offices /\ RoleIds \subseteq Nat

NoRole == [state |-> "unused", name |-> "none", office |-> NoOffice, system |-> FALSE,
           permissions |-> {}]

VARIABLES
  role,        \* roles, their permissions, and whether the row exists
  permission   \* rows of permissions

roles == <<role, permission>>

RoleInit == role = [r \in RoleIds |-> NoRole] /\ permission = {}

RoleTypeOK ==
  /\ role \in [RoleIds ->
       [state : {"unused", "live", "deleted"}, name : Names \cup {"none"},
        office : Offices \cup {NoOffice}, system : BOOLEAN, permissions : SUBSET Permissions]]
  /\ permission \subseteq Permissions

Live == {r \in RoleIds : role[r].state = "live"}

\* Mutant of Namesakes: only protected roles are found.
Namesakes_System(n, office) == {r \in Live : role[r].name = n /\ role[r].system}

\* findByName: without a supplier, roles of any supplier.
Namesakes(n, office) ==
  {r \in Live : role[r].name = n /\ (office = NoOffice \/ role[r].office = office)}

-----------------------------------------------------------------------------
(* Saving a role.                                                          *)

\* The row becomes the copy, its permissions included, and is inserted again if
\* it was deleted; permissions that are gone are refused.
SaveRole(w) ==
  /\ At(w, "saveRole")
  /\ LET t == task[w]
     IN  /\ t.copy.permissions \subseteq permission
         /\ role' = [role EXCEPT ![t.role] = t.copy]
         /\ IF t.then = "idle" THEN Finish(w) ELSE Goto(w, t.then)
  /\ UNCHANGED permission

RoleRefused(w) ==
  /\ At(w, "saveRole") /\ ~(task[w].copy.permissions \subseteq permission)
  /\ Finish(w)
  /\ UNCHANGED roles

\* What remains to do with permissions once a step is over.
Remaining(remove, assign) ==
  IF remove # {} THEN "remove" ELSE IF assign # {} THEN "assign" ELSE "idle"

\* RoleRepository.removePermissions
RemoveRead(w) ==
  /\ At(w, "remove") /\ task[w].role \in Live
  /\ LET t == task[w]
     IN  Become(w, [t EXCEPT !.pc = "saveRole", !.then = Remaining({}, t.assign),
                             !.copy = [role[t.role] EXCEPT !.permissions = @ \ t.remove]])
  /\ UNCHANGED roles

\* RoleRepository.assignPermissions: all of them must exist.
AssignRead(w) ==
  /\ At(w, "assign") /\ task[w].role \in Live /\ task[w].assign \subseteq permission
  /\ LET t == task[w]
     IN  Become(w, [t EXCEPT !.pc = "saveRole", !.then = "idle",
                             !.copy = [role[t.role] EXCEPT !.permissions = @ \cup t.assign]])
  /\ UNCHANGED roles

-----------------------------------------------------------------------------
(* Requests.                                                               *)

\* create: the name is looked up among the roles of the supplier, if there is one.
CreateRole(w, n, office, system, assign) ==
  /\ Accepts(w, "CreateRole")
  /\ office # NoOffice => Namesakes(n, office) = {}
  /\ Become(w, [op |-> "CreateRole", pc |-> "insertRole", assign |-> assign,
                copy |-> [NoRole EXCEPT !.state = "live", !.name = n, !.office = office,
                                        !.system = system]])
  /\ UNCHANGED roles

InsertRole(w, r) ==
  /\ At(w, "insertRole") /\ IsNext(r, {q \in RoleIds : role[q].state # "unused"})
  /\ role' = [role EXCEPT ![r] = task[w].copy]
  /\ IF task[w].assign = {} THEN Finish(w)
     ELSE Become(w, [op |-> "CreateRole", pc |-> "assign", role |-> r, remove |-> {},
                     assign |-> task[w].assign, copy |-> NoRole, then |-> "idle"])
  /\ UNCHANGED permission

\* update: the role is read and its new name looked up ...
UpdateRole(w, r, n, office, mark, replaced, assign) ==
  /\ Accepts(w, "UpdateRole") /\ r \in Live
  /\ office # NoOffice => Asked({"GiveOffice"})
  /\ n \notin {role[r].name, "none"} => Namesakes(n, role[r].office) \subseteq {r}
  /\ Become(w, [op |-> "UpdateRole", pc |-> "updateRole", role |-> r, name |-> n,
                office |-> office, mark |-> mark, copy |-> NoRole,
                then |-> IF replaced THEN Remaining(role[r].permissions, assign) ELSE "idle",
                remove |-> role[r].permissions, assign |-> assign])
  /\ UNCHANGED roles

\* Mutant of MayUpdate: the mark of a protected role may be taken off.
MayUpdate_Unmarks(t) == t.role \in Live

\* ... RoleRepository.update reads it again; a system role stays one ...
MayUpdate(t) == t.role \in Live /\ ~(role[t.role].system /\ t.mark = "cleared")

\* ... and assigns what the request gives.  The supplier the role was read with
\* wins over another supplier_id.
UpdateRead(w) ==
  /\ At(w, "updateRole") /\ MayUpdate(task[w])
  /\ LET t == task[w]
         old == role[t.role]
     IN  Become(w, [t EXCEPT !.pc = "saveRole",
           !.copy = [old EXCEPT !.name = IF t.name = "none" THEN @ ELSE t.name,
                                !.system = CASE t.mark = "kept" -> @
                                             [] t.mark = "set" -> TRUE
                                             [] t.mark = "cleared" -> FALSE,
                                !.office = IF old.office = NoOffice THEN t.office ELSE @]])
  /\ UNCHANGED roles

\* delete: RoleRepository.delete reads the role again ...
DeleteRole(w, r) ==
  /\ Accepts(w, "DeleteRole") /\ r \in Live
  /\ Become(w, [op |-> "DeleteRole", pc |-> "deleteRole", role |-> r])
  /\ UNCHANGED roles

MayDelete(r) == r \in Live /\ ~role[r].system

DeleteRead(w) ==
  /\ At(w, "deleteRole") /\ MayDelete(task[w].role)
  /\ Goto(w, "removeRow")
  /\ UNCHANGED roles

\* ... and deletes the row and its permissions.
DeleteRow(w) ==
  /\ At(w, "removeRow")
  /\ role' = [role EXCEPT ![task[w].role].state = "deleted", ![task[w].role].permissions = {}]
  /\ Finish(w)
  /\ UNCHANGED permission

\* What was read is not what the step needs: the request ends.
NotFound(w) ==
  /\ \/ At(w, "remove") /\ task[w].role \notin Live
     \/ At(w, "assign") /\ ~(task[w].role \in Live /\ task[w].assign \subseteq permission)
     \/ At(w, "updateRole") /\ ~MayUpdate(task[w])
     \/ At(w, "deleteRole") /\ ~MayDelete(task[w].role)
  /\ Finish(w)
  /\ UNCHANGED roles

\* assignPermissions, removePermissions: the role, and what is assigned, exist.
ChangePermissions(w, r, remove, assign) ==
  /\ Accepts(w, "ChangePermissions") /\ r \in Live
  /\ (remove = {}) # (assign = {}) /\ assign \subseteq permission
  /\ Become(w, [op |-> "ChangePermissions", pc |-> Remaining(remove, assign), role |-> r,
                remove |-> remove, assign |-> assign, copy |-> NoRole, then |-> "idle"])
  /\ UNCHANGED roles

\* PermissionService: the name is looked up, then inserted (create); a row is
\* read, then saved, which inserts it again if it was deleted (update).
SavePermission(w, p) ==
  /\ Accepts(w, "SavePermission")
  /\ Become(w, [op |-> "SavePermission", pc |-> "savePermission", permission |-> p])
  /\ UNCHANGED roles

InsertPermission(w) ==
  /\ At(w, "savePermission")
  /\ permission' = permission \cup {task[w].permission}
  /\ Finish(w)
  /\ UNCHANGED role

\* delete: roles lose the permission with its row.
DeletePermission(w, p) ==
  /\ Accepts(w, "DeletePermission") /\ p \in permission
  /\ permission' = permission \ {p}
  /\ role' = [r \in RoleIds |-> [role[r] EXCEPT !.permissions = @ \ {p}]]
  /\ UNCHANGED desk

RoleNext ==
  \E w \in Workers :
    \/ SaveRole(w)
    \/ RoleRefused(w)
    \/ RemoveRead(w)
    \/ AssignRead(w)
    \/ NotFound(w)
    \/ \E office \in Offices \cup {NoOffice}, assign \in SUBSET Permissions :
         \/ \E n \in Names, system \in BOOLEAN : CreateRole(w, n, office, system, assign)
         \/ \E r \in RoleIds, n \in Names \cup {"none"}, replaced \in BOOLEAN,
               mark \in {"kept", "set", "cleared"} :
              UpdateRole(w, r, n, office, mark, replaced, assign)
    \/ \E r \in RoleIds :
         \/ InsertRole(w, r)
         \/ DeleteRole(w, r)
         \/ \E remove, assign \in SUBSET Permissions : ChangePermissions(w, r, remove, assign)
    \/ UpdateRead(w)
    \/ DeleteRead(w)
    \/ DeleteRow(w)
    \/ \E p \in Permissions : SavePermission(w, p) \/ DeletePermission(w, p)
    \/ InsertPermission(w)

-----------------------------------------------------------------------------

\* Requests that do not overlap leave no two roles of a supplier with one name,
\* unless a role without supplier is given one (create and update look the name
\* up with the supplier the role has before).
RoleNamesUnique ==
  Serial /\ ~Asked({"GiveOffice"}) =>
    \A q, r \in Live :
      /\ role[q].name = role[r].name
      /\ role[q].office = role[r].office /\ role[r].office # NoOffice
      => q = r

\* A system role stays, and stays one, if requests do not overlap or none
\* updates roles: a stale copy that is saved may not take the mark off, nor a
\* deletion that has passed the check remove the role (RoleRepository).
SystemRolesStay ==
  [][Serial \/ ~Asked({"UpdateRole"}) =>
       \A r \in Live : role[r].system => role'[r].state = "live" /\ role'[r].system
    ]_<<roles, workload>>
=============================================================================
