------------------------------ MODULE MCOffice ------------------------------
(* Workloads for TLC: the operations of one service at a time.               *)
EXTENDS Office, TLC

MCWorkload(ops, width, size, fails, schema) ==
  [ops |-> ops, width |-> width, size |-> size, fails |-> fails, schema |-> schema]

MCSymmetry == Permutations(Workers)

CardWork ==
  {MCWorkload({"CreateCard", "RemoveCard", "ChangeLimit"}, 2, 2, FALSE, "migrated"),
   MCWorkload({"CreateCard", "RemoveCard", "ChangeLimit", "Report", "LastLocation", "Expire",
               "FlushLocations"}, 1, 2, FALSE, "migrated"),
   MCWorkload({"CreateCard", "ReportUnknown", "Report", "LastLocation", "Expire"}, 1, 2, FALSE,
              "migrated"),
   MCWorkload({"RemoveCard", "ReportUnknown", "Report"}, 2, 2, FALSE, "migrated"),
   MCWorkload({"CreateCard", "RemoveCard", "Report"}, 2, 2, FALSE, "migrated"),
   MCWorkload({"CreateCard", "Report", "LastLocation", "Expire"}, 2, 2, TRUE, "migrated")}

ChatWork ==
  {MCWorkload({"SaveMessage", "FlushChat"}, 2, 3, FALSE, "migrated"),
   MCWorkload({"SaveMessage", "Expire"}, 2, 3, FALSE, "migrated"),
   MCWorkload({"SaveKey", "Expire", "FlushChat"}, 2, 1, TRUE, "migrated")}

FormWork ==
  {MCWorkload({"CreateForm", "UpdateForm", "Submit", "UpdateStatus"}, 2, 1, FALSE, "synchronized"),
   MCWorkload({"CreateForm", "UpdateForm", "Submit", "UpdateStatus"}, 2, 1, FALSE, "migrated"),
   MCWorkload({"CreateForm", "UpdateForm", "Deactivate"}, 1, 2, TRUE, "migrated"),
   MCWorkload({"CreateForm", "Submit", "UpdateStatus", "CreateVisit"}, 1, 1, FALSE, "synchronized"),
   MCWorkload({"CreateForm", "Submit", "CreateVisit"}, 2, 1, FALSE, "synchronized")}

RoleWork ==
  {MCWorkload({"CreateRole", "UpdateRole", "DeleteRole"}, 1, 2, TRUE, "migrated"),
   MCWorkload({"CreateRole", "UpdateRole", "GiveOffice"}, 1, 2, FALSE, "migrated"),
   MCWorkload({"CreateRole", "DeleteRole", "ChangePermissions", "SavePermission",
               "DeletePermission"}, 2, 1, FALSE, "migrated")}

ImageWork ==
  {MCWorkload({"Upload"}, 1, 3, FALSE, "migrated"),
   MCWorkload({"Upload", "EditSupplier"}, 2, 2, TRUE, "migrated")}

PreferenceWork ==
  {MCWorkload({"CreatePreference", "UpdatePreference", "RemovePreference"}, 2, 2, FALSE,
              "synchronized")}

MCWorkloads == CardWork \cup ChatWork \cup FormWork \cup RoleWork \cup ImageWork
  \cup PreferenceWork

\* For the property the code does not have.
Visits == {MCWorkload({"CreateForm", "Submit", "CreateVisit"}, 1, 1, FALSE, "migrated")}
=============================================================================
