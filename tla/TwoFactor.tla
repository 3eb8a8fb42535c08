----------------------------- MODULE TwoFactor ------------------------------
(***************************************************************************)
(* TwoFactorAuthService: the secret of the authenticator app, the backup   *)
(* codes and the second factor by SMS, as the routes of                    *)
(* two-factor-auth.controller.ts call them.  Each operation reads the      *)
(* employee, checks, and updates some columns by a second statement.       *)
(***************************************************************************)
EXTENDS AccountStore

\* req.user.id of the authenticated routes: AuthGuard stores the payload of the
\* token, which carries the employee's id as "sub".
CallerId(e) == Undefined

\* A request of an authenticated employee, and the statements it leads to.
Ask(w, op, caller, arg, todo) ==
  /\ Accepts(w, op)
  /\ employee[caller] = "live"
  /\ Become(w, Do([Idle EXCEPT !.op = op, !.id = caller, !.arg = arg], todo))
  /\ UNCHANGED <<store, audit>>

\* A secret that nobody has, nor is about to get.
FreshSecret(s) ==
  /\ \A e \in Employees : credentials[e].secret # s
  /\ \A w \in Workers : task[w].arg # s

GenerateSecret(w, caller, s) ==
  /\ FreshSecret(s)
  /\ FindById(CallerId(caller)) # {}
  /\ Ask(w, "GenerateSecret", caller, s, <<UpdateCommand(CallerId(caller), [secret |-> s])>>)

\* verifyToken: the six digits come from the app that holds secret s.
Verifies(row, s) == row.secret # NoSecret /\ row.secret = s

\* Mutant of Enable: the secret is not required.
Enable_NoSecret(w, caller, s) ==
  \E e \in WithCredentials(CallerId(caller)) :
    Ask(w, "Enable", caller, s, <<UpdateCommand(CallerId(caller), [enabled |-> TRUE])>>)

Enable(w, caller, s) ==
  \E e \in WithCredentials(CallerId(caller)) :
    /\ Verifies(credentials[e], s)
    /\ Ask(w, "Enable", caller, s, <<UpdateCommand(CallerId(caller), [enabled |-> TRUE])>>)

Disable(w, caller, s) ==
  \E e \in WithCredentials(CallerId(caller)) :
    /\ credentials[e].enabled
    /\ Verifies(credentials[e], s)
    /\ Ask(w, "Disable", caller, s,
           <<UpdateCommand(CallerId(caller), [enabled |-> FALSE, secret |-> NoSecret])>>)

\* validateTwoFactorToken: what a client asks after the password.
ValidateToken(row, s) ==
  CASE ~row.enabled -> "skipped"
    [] row.enabled /\ row.secret = NoSecret -> "incomplete"
    [] OTHER -> IF Verifies(row, s) THEN "valid" ELSE "invalid"

\* The code is random: it is new.  The array that was read is written back.
NewBackupCode(w, caller, c) ==
  \E e \in WithCredentials(CallerId(caller)) :
    /\ credentials[e].enabled
    /\ credentials[e].backup[c] = "absent" /\ \A u \in Workers : task[u].arg # c
    /\ Ask(w, "NewBackupCode", caller, c,
           <<UpdateCommand(e, [backup |-> [credentials[e].backup EXCEPT ![c] = "fresh"]])>>)

\* Mutant of UseBackupCode: used codes are accepted.
UseBackupCode_Again(w, caller, c) ==
  \E e \in WithCredentials(CallerId(caller)) :
    /\ credentials[e].enabled
    /\ credentials[e].backup[c] # "absent"
    /\ Ask(w, "UseBackupCode", caller, c,
           <<UpdateCommand(e, [backup |-> [credentials[e].backup EXCEPT ![c] = "used"]])>>)

UseBackupCode(w, caller, c) ==
  \E e \in WithCredentials(CallerId(caller)) :
    /\ credentials[e].enabled
    /\ credentials[e].backup[c] = "fresh"
    /\ Ask(w, "UseBackupCode", caller, c,
           <<UpdateCommand(e, [backup |-> [credentials[e].backup EXCEPT ![c] = "used"]])>>)

\* The second factor by SMS: refused unless the phone number is verified, and
\* switched off only if it is on.
EnableSms(w, caller) ==
  \E e \in WithCredentials(CallerId(caller)) :
    Ask(w, "EnableSms", caller, "nil",
        IF credentials[e].phone
        THEN <<UpdateCommand(CallerId(caller), [sms |-> TRUE])>> ELSE <<>>)

DisableSms(w, caller) ==
  \E e \in WithCredentials(CallerId(caller)) :
    Ask(w, "DisableSms", caller, "nil",
        IF credentials[e].sms
        THEN <<UpdateCommand(CallerId(caller), [sms |-> FALSE])>> ELSE <<>>)

TwoFactorNext ==
  \E w \in Workers, e \in Employees :
    \/ \E s \in Secrets : GenerateSecret(w, e, s)
    \/ \E s \in Secrets : Enable(w, e, s)
    \/ \E s \in Secrets : Disable(w, e, s)
    \/ \E c \in BackupCodes : NewBackupCode(w, e, c)
    \/ \E c \in BackupCodes : UseBackupCode(w, e, c)
    \/ EnableSms(w, e)
    \/ DisableSms(w, e)
=============================================================================
