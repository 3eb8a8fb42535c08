------------------------------- MODULE Forms --------------------------------
(***************************************************************************)
(* FormTemplateService and FormSubmissionService: forms, what visitors     *)
(* submit, and the appointments made from it.  The tables are those of the *)
(* migrations, which production runs, or those TypeORM derives from the    *)
(* entities elsewhere; they treat the answers to deleted fields and second *)
(* appointments differently.  A set of fields that is inserted together is *)
(* one version, answers are named by the version they belong to, and all   *)
(* fields are required.  Deleting a form always ends in a conflict (the    *)
(* form itself is counted), so that it changes nothing.                    *)
(***************************************************************************)
EXTENDS Desk

CONSTANTS
  FormIds, Submissions,  \* 1..n
  Slugs,       \* base, base-1, ...: 1..n
  MaxVersions, \* bound: sets of fields inserted
  MaxVisits    \* bound: appointments made from one submission

ASSUME FormIdsAssumption == FormIds \subseteq Nat \ {0} /\ Submissions \subseteq Nat
ASSUME FormsAssumption == MaxVersions \in Nat /\ MaxVisits \in Nat

\* The search for a slug that is free ends: suffixes are not exhausted.
ASSUME SlugsAssumption ==
  /\ Slugs \subseteq Nat \ {0}
  /\ IsFiniteSet(FormIds) /\ IsFiniteSet(Slugs) /\ Cardinality(FormIds) <= Cardinality(Slugs)

NoForm == [slug |-> 0, active |-> FALSE, fields |-> {}]

NoSubmission == [form |-> 0, status |-> "none", answers |-> {}, made |-> 0, linked |-> {}]

VARIABLES
  form,        \* form_templates with their form_fields
  submission,  \* form_submissions with their form_answers and appointments
  visitor,     \* there is a visitor with the e-mail of the submissions
  versions     \* sets of fields inserted so far

formRows == <<form, versions>>

forms == <<form, submission, visitor, versions>>

Versions == 1..MaxVersions

FormInit ==
  /\ form = [f \in FormIds |-> NoForm]
  /\ submission = [s \in Submissions |-> NoSubmission]
  /\ visitor = FALSE
  /\ versions = 0

FormTypeOK ==
  /\ form \in [FormIds -> [slug : Slugs \cup {0}, active : BOOLEAN, fields : SUBSET Versions]]
  /\ submission \in [Submissions ->
       [form : FormIds \cup {0}, status : {"none", "pending", "approved", "rejected"},
        answers : SUBSET Versions, made : 0..MaxVisits, linked : SUBSET (1..MaxVisits)]]
  /\ visitor \in BOOLEAN /\ versions \in 0..MaxVersions

FormExists(f) == form[f] # NoForm

SubmissionExists(s) == submission[s] # NoSubmission

Synchronized == workload.schema = "synchronized"

-----------------------------------------------------------------------------
(* Forms.                                                                  *)

\* Mutant of FreeSlug: the forms are counted.
FreeSlug_Counted(own) == Cardinality({f \in FormIds : FormExists(f)}) + 1

\* ensureUniqueSlug: the first slug no other form has.
FreeSlug(own) ==
  LET free == {n \in Slugs : \A f \in FormIds : form[f].slug # n \/ n = own}
  IN  CHOOSE n \in free : \A k \in free : n <= k

CreateForm(w) ==
  /\ Accepts(w, "CreateForm")
  /\ \E f \in FormIds : IsNext(f, {g \in FormIds : FormExists(g)})
  /\ Become(w, [op |-> "CreateForm", pc |-> "insertForm", slug |-> FreeSlug(0)])
  /\ UNCHANGED forms

\* The slug is unique; the fields follow.
InsertForm(w, f) ==
  /\ At(w, "insertForm")
  /\ IsNext(f, {g \in FormIds : FormExists(g)})
  /\ \A g \in FormIds : form[g].slug # task[w].slug
  /\ form' = [form EXCEPT ![f] = [slug |-> task[w].slug, active |-> TRUE, fields |-> {}]]
  /\ Become(w, [op |-> "CreateForm", pc |-> "insertFields", form |-> f])
  /\ UNCHANGED <<submission, visitor, versions>>

InsertFields(w) ==
  /\ At(w, "insertFields") /\ versions < MaxVersions
  /\ versions' = versions + 1
  /\ form' = [form EXCEPT ![task[w].form].fields = @ \cup {versions'}]
  /\ Finish(w)
  /\ UNCHANGED <<submission, visitor>>

\* update, deactivate: the form is read with its fields; columns that are not
\* named keep what was read.
UpdateForm(w, f, renamed, replaced) ==
  /\ Accepts(w, "UpdateForm") /\ FormExists(f)
  /\ replaced => versions < MaxVersions
  /\ Become(w, [op |-> "UpdateForm", pc |-> IF renamed THEN "pickSlug" ELSE "saveForm",
                form |-> f, copy |-> form[f], replaced |-> replaced])
  /\ UNCHANGED forms

PickSlug(w) ==
  /\ At(w, "pickSlug")
  /\ Become(w, [task[w] EXCEPT !.pc = "saveForm",
                               !.copy.slug = FreeSlug(form[task[w].form].slug)])
  /\ UNCHANGED forms

Deactivate(w, f) ==
  /\ Accepts(w, "Deactivate") /\ FormExists(f)
  /\ Become(w, [op |-> "Deactivate", pc |-> "saveForm", form |-> f,
                copy |-> [form[f] EXCEPT !.active = FALSE], replaced |-> FALSE])
  /\ UNCHANGED forms

\* Fields the copy lacks would lose their form, which the column refuses; a
\* slug taken meanwhile is refused as well.
MaySave(f, copy) ==
  /\ form[f].fields \subseteq copy.fields
  /\ \A g \in FormIds \ {f} : form[g].slug # copy.slug

\* save writes every column of the copy, and its fields anew if they are gone.
SaveForm(w) ==
  /\ At(w, "saveForm")
  /\ LET t == task[w]
     IN  /\ MaySave(t.form, t.copy)
         /\ form' = [form EXCEPT ![t.form] = t.copy]
         /\ IF t.replaced THEN Goto(w, "deleteFields") ELSE Finish(w)
  /\ UNCHANGED <<submission, visitor, versions>>

\* Mutant of Answered: the foreign key of the answers gives way.
Answered_Cascades(fields) == FALSE

\* In the tables of the entities an answer keeps its field from being deleted.
Answered(fields) ==
  Synchronized /\ \E s \in Submissions : submission[s].answers \cap fields # {}

\* In those of the migrations the answers go with it.
DeleteFields(w) ==
  /\ At(w, "deleteFields")
  /\ LET f == task[w].form
     IN  /\ ~Answered(form[f].fields)
         /\ form' = [form EXCEPT ![f].fields = {}]
         /\ submission' = [s \in Submissions |->
              [submission[s] EXCEPT !.answers = @ \ form[f].fields]]
  /\ Goto(w, "insertFields")
  /\ UNCHANGED <<visitor, versions>>

FormRefused(w) ==
  \/ At(w, "insertForm") /\ \E g \in FormIds : form[g].slug = task[w].slug
  \/ At(w, "saveForm") /\ ~MaySave(task[w].form, task[w].copy)
  \/ At(w, "deleteFields") /\ Answered(form[task[w].form].fields)

-----------------------------------------------------------------------------
(* Submissions.                                                            *)

\* Mutant of Complete: what is required is not looked up.
Complete_Anything(f, answers) == TRUE

Complete(f, answers) == form[f].fields \subseteq answers

\* submit: an active form is read, with its fields.
Submit(w, f, answers) ==
  /\ Accepts(w, "Submit")
  /\ FormExists(f) /\ form[f].active
  /\ answers \subseteq form[f].fields /\ Complete(f, answers)
  /\ Become(w, [op |-> "Submit", pc |-> "insertSubmission", form |-> f, answers |-> answers])
  /\ UNCHANGED forms

InsertSubmission(w, s, status) ==
  /\ At(w, "insertSubmission")
  /\ IsNext(s, {x \in Submissions : SubmissionExists(x)})
  /\ submission' = [submission EXCEPT ![s] =
       [NoSubmission EXCEPT !.form = task[w].form, !.status = status]]
  /\ Become(w, [op |-> "Submit", pc |-> "insertAnswers", submission |-> s,
                answers |-> task[w].answers])
  /\ UNCHANGED <<formRows, visitor>>

FieldsExist(fields) == fields \subseteq UNION {form[f].fields : f \in FormIds}

\* The answers refer to fields that must still be there.
InsertAnswers(w) ==
  /\ At(w, "insertAnswers")
  /\ FieldsExist(task[w].answers)
  /\ submission' = [submission EXCEPT ![task[w].submission].answers = @ \cup task[w].answers]
  /\ Finish(w)
  /\ UNCHANGED <<formRows, visitor>>

\* The appointment a query joins to a submission, 0 for none.
Linked(s) == IF submission[s].linked = {} THEN {0} ELSE submission[s].linked

\* updateStatus: the submission is read with its answers and its appointment.
UpdateStatus(w, s, status) ==
  /\ Accepts(w, "UpdateStatus") /\ SubmissionExists(s)
  /\ \E link \in Linked(s) :
       Become(w, [op |-> "UpdateStatus", pc |-> "saveSubmission", submission |-> s,
                  status |-> status, answers |-> submission[s].answers, link |-> link])
  /\ UNCHANGED forms

\* createAppointmentFromSubmission: not if the copy has an appointment.
CreateVisit(w, s) ==
  /\ Accepts(w, "CreateVisit") /\ SubmissionExists(s)
  /\ submission[s].linked = {} /\ submission[s].made < MaxVisits
  /\ Become(w, [op |-> "CreateVisit", pc |-> "findVisitor", submission |-> s,
                status |-> "approved", answers |-> submission[s].answers, link |-> 0])
  /\ UNCHANGED forms

FindVisitor(w) ==
  /\ At(w, "findVisitor")
  /\ Goto(w, IF visitor THEN "insertVisit" ELSE "insertVisitor")
  /\ UNCHANGED forms

\* The e-mail of a visitor is unique.
InsertVisitor(w) ==
  /\ At(w, "insertVisitor") /\ ~visitor
  /\ visitor' = TRUE
  /\ Goto(w, "insertVisit")
  /\ UNCHANGED <<formRows, submission>>

\* The appointment refers to its submission, in the tables of the entities at
\* most one.
InsertVisit(w) ==
  /\ At(w, "insertVisit")
  /\ LET s == task[w].submission
         n == submission[s].made + 1
     IN  /\ ~(Synchronized /\ submission[s].linked # {}) /\ n <= MaxVisits
         /\ submission' = [submission EXCEPT ![s].made = n, ![s].linked = @ \cup {n}]
  /\ Goto(w, "saveSubmission")
  /\ UNCHANGED <<formRows, visitor>>

\* The answers a copy lacks would lose their submission, which is refused; those
\* it has beyond the row are inserted again.
MaySaveAnswers(t) ==
  /\ submission[t.submission].answers \subseteq t.answers
  /\ FieldsExist(t.answers)

\* save(submission) also writes the appointment of the copy back: none, and the
\* one the row has is let go, or one that is tied again.
SaveSubmission(w) ==
  /\ At(w, "saveSubmission")
  /\ LET t == task[w]
         s == t.submission
     IN  /\ MaySaveAnswers(t)
         /\ \E link \in Linked(s) :
              LET linked == IF t.link = 0 THEN submission[s].linked \ {link}
                            ELSE submission[s].linked \cup {t.link}
              IN  /\ ~(Synchronized /\ Cardinality(linked) > 1)
                  /\ submission' = [submission EXCEPT ![s].status = t.status,
                                                      ![s].answers = t.answers,
                                                      ![s].linked = linked]
  /\ Finish(w)
  /\ UNCHANGED <<formRows, visitor>>

SubmissionRefused(w) ==
  \/ At(w, "insertAnswers") /\ ~FieldsExist(task[w].answers)
  \/ At(w, "insertVisitor") /\ visitor
  \/ At(w, "insertVisit") /\ Synchronized /\ submission[task[w].submission].linked # {}
  \/ At(w, "saveSubmission") /\ ~MaySaveAnswers(task[w])

\* A statement the database refuses ends the request.
Refused(w) == (FormRefused(w) \/ SubmissionRefused(w)) /\ Finish(w) /\ UNCHANGED forms

FormNext ==
  \E w \in Workers :
    \/ CreateForm(w)
    \/ \E f \in FormIds : InsertForm(w, f) \/ Deactivate(w, f)
    \/ InsertFields(w)
    \/ \E f \in FormIds, renamed, replaced \in BOOLEAN : UpdateForm(w, f, renamed, replaced)
    \/ PickSlug(w)
    \/ SaveForm(w)
    \/ DeleteFields(w)
    \/ \E f \in FormIds, answers \in SUBSET Versions : Submit(w, f, answers)
    \/ \E s \in Submissions :
         \/ \E status \in {"pending", "approved"} : InsertSubmission(w, s, status)
         \/ \E status \in {"pending", "approved", "rejected"} : UpdateStatus(w, s, status)
         \/ CreateVisit(w, s)
    \/ InsertAnswers(w)
    \/ FindVisitor(w)
    \/ InsertVisitor(w)
    \/ InsertVisit(w)
    \/ SaveSubmission(w)
    \/ Refused(w)

-----------------------------------------------------------------------------

\* In the tables of the entities no edit of a form takes an answer from a
\* submission, whatever runs at the same time (update deletes the fields).
AnswersKept ==
  [][Synchronized =>
       \A s \in Submissions : submission[s].answers \subseteq submission'[s].answers
    ]_<<forms, workload>>

\* Visitors who submit a form leave no submission without answers, if requests
\* do not overlap, none is cut short and the fields of a form are not replaced.
SubmissionsAnswered ==
  Serial /\ AtRest /\ ~workload.fails /\ ~Asked({"UpdateForm"}) =>
    \A s \in Submissions :
      SubmissionExists(s) /\ form[submission[s].form].fields # {} => submission[s].answers # {}

\* Staff make one appointment from a submission (form-submission.service.ts: "An
\* appointment already exists for this submission").
OneVisit == \A s \in Submissions : submission[s].made <= 1
=============================================================================
