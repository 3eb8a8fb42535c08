----------------------------- MODULE MCAccounts -----------------------------
(* Workloads for TLC: small groups of requests that share state.            *)
EXTENDS Accounts, TLC

Alone == 1

Both == 2

MCWorkload(known, ops, width) == [known |-> known, ops |-> ops, width |-> width]

MCSymmetry ==
  Permutations(Workers) \cup Permutations(Secrets) \cup Permutations(OtpCodes)
    \cup Permutations(Links)

MCWorkloads ==
  {MCWorkload({1}, {"Login", "UpdateEmployee"}, Alone),
   MCWorkload({1}, {"Login"}, Both),
   MCWorkload({1}, {"Google", "Login", "RemoveEmployee"}, Both),
   MCWorkload({1, 2}, {"GenerateSecret", "Enable", "Disable", "NewBackupCode",
                       "UseBackupCode", "EnableSms", "DisableSms"}, Alone),
   MCWorkload({1, 2}, {"GenerateSecret", "Enable", "UpdateEmployee", "SendLink",
                       "FollowLink"}, Both),
   MCWorkload({1}, {"SendLink", "Resend", "FollowLink"}, Both),
   MCWorkload({1}, {"InitiateSms", "VerifySms", "EnableSms", "DisableSms"}, Alone),
   MCWorkload({}, {"InitiateSmsPublic", "VerifySmsPublic", "CreatePublic"}, Both),
   MCWorkload({}, {"InitiateEmailPublic", "VerifyEmailPublic", "CreatePublic"}, Both),
   MCWorkload({}, {"CreateSupplier", "Create", "RemoveEmployee", "RemoveSupplier"}, Both)}

\* For the properties the code does not have.
SmsCodes == {MCWorkload({1}, {"InitiateSms", "VerifySms"}, Alone)}

Callers == {MCWorkload({1, 2}, {"GenerateSecret"}, Alone)}

EmployeeIds == {1, 2}
=============================================================================
