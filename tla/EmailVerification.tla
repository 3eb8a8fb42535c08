------------------------- MODULE EmailVerification --------------------------
(***************************************************************************)
(* EmailVerificationService: verification links, valid for 24 hours.       *)
(***************************************************************************)
EXTENDS TwoFactor

Unverified(id) ==
  {e \in FindById(id) : employee[e] = "live" => ~credentials[e].verified}

\* A token nobody has seen: uuidv4().
FreshLink(l) ==
  /\ \A e \in Employees : credentials[e].link # l /\ l \notin audit[e].mailed
  /\ \A w \in Workers : task[w].arg # l /\ task[w].row.link # l

Asks(caller, l) == employee[caller] = "live" /\ FreshLink(l)

\* sendVerificationEmail: the employee is read, and kept for the address.
SendLink(w, caller, l) ==
  /\ Accepts(w, "SendLink")
  /\ Asks(caller, l)
  /\ \E e \in Unverified(CallerId(caller)) :
       Become(w, [Idle EXCEPT !.op = "SendLink", !.pc = "generate", !.id = e,
                              !.arg = l, !.next = "mail"])
  /\ UNCHANGED <<store, audit>>

\* resendVerificationEmail: clears the old token first, if there is one.
Resend(w, caller, l) ==
  /\ Accepts(w, "Resend")
  /\ Asks(caller, l)
  /\ \E e \in Unverified(CallerId(caller)) :
       Become(w, Do([Idle EXCEPT !.op = "Resend", !.id = e, !.arg = l, !.next = "sendCheck"],
                    IF employee[e] = "live" /\ credentials[e].link # NoLink
                    THEN <<UpdateCommand(CallerId(caller), [link |-> NoLink, age |-> "no"])>>
                    ELSE <<>>))
  /\ UNCHANGED <<store, audit>>

\* ... and goes on as sendVerificationEmail.
ResendChecks(w) ==
  /\ At(w, "sendCheck")
  /\ LET t == task[w]
         found == Unverified(CallerId(t.id))
     IN  \/ found = {} /\ Throw(w)
         \/ \E e \in found :
              Become(w, [t EXCEPT !.pc = "generate", !.id = e, !.next = "mail"])
  /\ UNCHANGED <<store, audit>>

\* generateVerificationToken checks again and stores the token.
GenerateLink(w) ==
  /\ At(w, "generate")
  /\ LET t == task[w]
     IN  Become(w, IF Unverified(CallerId(t.id)) = {} THEN Idle
                   ELSE Do(t, <<UpdateCommand(CallerId(t.id), [link |-> t.arg, age |-> "ahead"])>>))
  /\ UNCHANGED <<store, audit>>

\* sendEmailVerification of EmailService: the mail leaves, or the template, the
\* provider or its answer fails and the error is thrown.
Mails(l) == {{}, {l}}

\* The link is sent to the address of the employee that was read, or the mail
\* fails and the request with it: the token stays.
MailLink(w) ==
  /\ At(w, "mail")
  /\ \E sent \in Mails(task[w].arg) :
       audit' = [audit EXCEPT ![task[w].id].mailed = @ \cup sent]
  /\ Throw(w)
  /\ UNCHANGED store

\* A link somebody was sent.
Sent(l) == \E e \in Employees : l \in audit[e].mailed

Linked(l) == {e \in Employees : employee[e] = "live" /\ credentials[e].link = l}

\* verifyEmail.  Who follows a link sent to its address has proved the address.
FollowLink(w, e, l) ==
  /\ Accepts(w, "FollowLink")
  /\ Sent(l)
  /\ e \in Linked(l) /\ credentials[e].age # "past"
  /\ Begin(w, "FollowLink", e,
           <<UpdateCommand(e, [verified |-> TRUE, link |-> NoLink, age |-> "no"])>>)
  /\ audit' = [audit EXCEPT ![e].proved = @ \/ l \in audit[e].mailed]
  /\ UNCHANGED store

LinkExpires(e) ==
  /\ credentials[e].age = "ahead"
  /\ credentials' = [credentials EXCEPT ![e].age = "past"]
  /\ UNCHANGED <<employee, redis, supplier, task, workload, audit>>

EmailVerificationNext ==
  \/ \E w \in Workers, e \in Employees, l \in Links :
       \/ SendLink(w, e, l)
       \/ Resend(w, e, l)
       \/ FollowLink(w, e, l)
  \/ \E w \in Workers : ResendChecks(w) \/ GenerateLink(w) \/ MailLink(w)
  \/ \E e \in Employees : LinkExpires(e)
=============================================================================
