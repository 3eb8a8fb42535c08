---------------------------- MODULE OneTimeCodes ----------------------------
(***************************************************************************)
(* TwoFactorAuthService: six-digit codes sent by SMS or e-mail, kept in    *)
(* Redis for ten minutes, and the marks of verified addresses that a       *)
(* public registration needs.                                              *)
(***************************************************************************)
EXTENDS AccountStore

\* initiateSmsVerification: the phone is saved, the code is stored under the
\* employee's id, then under its e-mail address, and sent.
InitiateSms(w, e, code) ==
  /\ e \in FindById(e)
  /\ Accepts(w, "InitiateSms")
  /\ Begin(w, "InitiateSms", e, <<UpdateCommand(e, <<>>),
           SetCommand(Key("sms", e), code), SetCommand(Key("smsMail", e), code)>>)
  /\ UNCHANGED <<store, audit>>

\* verifySmsOtpForPhoneNumber: reads the employee, then the code.
VerifySms(w, e, code) ==
  /\ e \in WithCredentials(e)
  /\ Accepts(w, "VerifySms")
  /\ Become(w, [Idle EXCEPT !.op = "VerifySms", !.pc = "getSms", !.id = e, !.arg = code])
  /\ UNCHANGED <<store, audit>>

\* storedOtp === otp
Matches(stored, typed) == Parsed(stored) = Typed(typed)

\* The checks on the code found under key k.
CheckSms(w, k) ==
  LET t == task[w]
  IN  Become(w, IF ~Matches(redis[k], t.arg) THEN Idle
                ELSE Do(t, <<UpdateCommand(t.id, [phone |-> TRUE]),
                             DeleteCommand({Key("sms", t.id), Key("smsMail", t.id)})>>))

GetSms(w) ==
  /\ At(w, "getSms")
  /\ LET k == Key("sms", task[w].id)
     IN  IF redis[k] = "nil" THEN Goto(w, "getSmsMail") ELSE CheckSms(w, k)
  /\ UNCHANGED <<store, audit>>

GetSmsMail(w) ==
  /\ At(w, "getSmsMail")
  /\ LET k == Key("smsMail", task[w].id)
     IN  IF redis[k] = "nil" THEN Throw(w) ELSE CheckSms(w, k)
  /\ UNCHANGED <<store, audit>>

\* initiateSmsVerificationPublic, for an address that need not be registered.
InitiateSmsPublic(w, e, code) ==
  /\ Accepts(w, "InitiateSmsPublic")
  /\ Begin(w, "InitiateSmsPublic", e,
           <<SetCommand(Key("pending", e), code), SetCommand(Key("meta", e), "set")>>)
  /\ UNCHANGED <<store, audit>>

\* Mutant of Entered: any code is accepted while one is pending.
Entered_Any(k, code) == redis[k] # "nil"

\* String(pendingOtp) === String(otp)
Entered(k, code) == redis[k] # "nil" /\ Parsed(redis[k]).code = Typed(code).code

\* Whoever entered the code that was pending for the address has proved it.
Proves(e, code, k) ==
  audit' = [audit EXCEPT ![e].proved = @ \/ redis[k] = code]

\* verifySmsOtpPublic.  The phone number stored with the code is parsed by
\* get() already, so parsing it again fails: the mark never names a phone.
VerifySmsPublic(w, e, code) ==
  /\ Accepts(w, "VerifySmsPublic")
  /\ Entered(Key("pending", e), code)
  /\ Become(w, [Idle EXCEPT !.op = "VerifySmsPublic", !.pc = "getMeta", !.id = e])
  /\ Proves(e, code, Key("pending", e))
  /\ UNCHANGED store

GetMeta(w) ==
  /\ At(w, "getMeta")
  /\ LET t == task[w]
     IN  Become(w, Do(t, <<SetCommand(Key("smsVerified", t.id), "set"),
                           DeleteCommand({Key("pending", t.id), Key("meta", t.id)})>>))
  /\ UNCHANGED <<store, audit>>

\* initiateEmailVerificationPublic; a code whose mail fails to be sent stays.
InitiateEmailPublic(w, e, code) ==
  /\ Accepts(w, "InitiateEmailPublic")
  /\ Begin(w, "InitiateEmailPublic", e, <<SetCommand(Key("emailPending", e), code)>>)
  /\ UNCHANGED <<store, audit>>

\* verifyEmailOtpPublic
VerifyEmailPublic(w, e, code) ==
  /\ Accepts(w, "VerifyEmailPublic")
  /\ Entered(Key("emailPending", e), code)
  /\ Begin(w, "VerifyEmailPublic", e,
           <<SetCommand(Key("emailVerified", e), "set"),
             DeleteCommand({Key("emailPending", e)})>>)
  /\ Proves(e, code, Key("emailPending", e))
  /\ UNCHANGED store

OneTimeCodesNext ==
  \/ \E w \in Workers, e \in Employees, code \in OtpCodes :
       \/ InitiateSms(w, e, code)
       \/ VerifySms(w, e, code)
       \/ InitiateSmsPublic(w, e, code)
       \/ VerifySmsPublic(w, e, code)
       \/ InitiateEmailPublic(w, e, code)
       \/ VerifyEmailPublic(w, e, code)
  \/ \E w \in Workers : GetSms(w) \/ GetSmsMail(w) \/ GetMeta(w)
  \/ \E k \in Keys : Expire(k)
=============================================================================
