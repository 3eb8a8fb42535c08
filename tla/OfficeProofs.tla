---------------------------- MODULE OfficeProofs ----------------------------
(***************************************************************************)
(* Proofs about the office: the types of rows and requests, and the        *)
(* properties of the six services, for any workers, workloads and rows.    *)
(***************************************************************************)
EXTENDS Office, FiniteSetTheorems, WellFoundedInduction, TLAPS

-----------------------------------------------------------------------------
(* What a request carries, by the place it has come to.                    *)

LocationRows == [place : Places, at : 1..MaxReports]

NewCards == [op : {"CreateCard"}, pc : {"insertCard"}]

UnknownCards == [op : {"ReportUnknown"}, pc : {"insertUnknown"}, card : Cards]

Reports ==
  [op : {"Report"}, pc : {"saveCard", "saveLocation", "cacheBody", "cacheIndex"},
   card : Cards, place : Places, at : 1..MaxReports, rows : SUBSET LocationRows]

Questions ==
  [op : {"LastLocation"}, pc : {"cacheBody", "cacheIndex"}, card : Cards, place : Places]

CardTasks == NewCards \cup UnknownCards \cup Reports \cup Questions

Messages ==
  [op : {"SaveMessage"}, pc : {"push", "trim", "expireList"}, text : Texts, ttl : BOOLEAN]

NewKeys == [op : {"SaveKey"}, pc : {"expireKey"}, key : Keys]

CacheTasks == Messages \cup NewKeys

SavedForms == [slug : Slugs, active : BOOLEAN, fields : SUBSET Versions]

NewForms == [op : {"CreateForm"}, pc : {"insertForm"}, slug : Slugs]

NewFields == [op : {"CreateForm"}, pc : {"insertFields"}, form : FormIds]

FormEdits ==
  [op : {"UpdateForm"}, pc : {"pickSlug", "saveForm", "deleteFields", "insertFields"},
   form : FormIds, copy : SavedForms, replaced : BOOLEAN]

Deactivations ==
  [op : {"Deactivate"}, pc : {"saveForm"}, form : FormIds, copy : SavedForms,
   replaced : {FALSE}]

NewSubmissions ==
  [op : {"Submit"}, pc : {"insertSubmission"}, form : FormIds, answers : SUBSET Versions]

NewAnswers ==
  [op : {"Submit"}, pc : {"insertAnswers"}, submission : Submissions,
   answers : SUBSET Versions]

SubmissionEdits ==
  [op : {"UpdateStatus"}, pc : {"saveSubmission"}, submission : Submissions,
   status : {"pending", "approved", "rejected"}, answers : SUBSET Versions,
   link : 0..MaxVisits]

FormVisits ==
  [op : {"CreateVisit"}, pc : {"findVisitor", "insertVisitor", "insertVisit", "saveSubmission"},
   submission : Submissions, status : {"approved"}, answers : SUBSET Versions, link : {0}]

FormTasks ==
  NewForms \cup NewFields \cup FormEdits \cup Deactivations \cup NewSubmissions
    \cup NewAnswers \cup SubmissionEdits \cup FormVisits

RoleRows ==
  [state : {"unused", "live", "deleted"}, name : Names \cup {"none"},
   office : Offices \cup {NoOffice}, system : BOOLEAN, permissions : SUBSET Permissions]

NewRoles ==
  [op : {"CreateRole"}, pc : {"insertRole"}, assign : SUBSET Permissions, copy : RoleRows]

PermissionChanges ==
  [op : {"CreateRole", "ChangePermissions"}, pc : {"remove", "assign", "saveRole"},
   role : RoleIds, remove : SUBSET Permissions, assign : SUBSET Permissions,
   copy : RoleRows, then : {"remove", "assign", "idle"}]

RoleEdits ==
  [op : {"UpdateRole"}, pc : {"updateRole", "remove", "assign", "saveRole"},
   role : RoleIds, name : Names \cup {"none"}, office : Offices \cup {NoOffice},
   mark : {"kept", "set", "cleared"}, remove : SUBSET Permissions,
   assign : SUBSET Permissions, copy : RoleRows, then : {"remove", "assign", "idle"}]

RoleDeletions == [op : {"DeleteRole"}, pc : {"deleteRole", "removeRow"}, role : RoleIds]

NewPermissions ==
  [op : {"SavePermission"}, pc : {"savePermission"}, permission : Permissions]

RoleTasks ==
  NewRoles \cup PermissionChanges \cup RoleEdits \cup RoleDeletions \cup NewPermissions

AnyUrls == [at : {"s3", "disk"}, file : Nat]

Uploads ==
  [op : {"Upload"}, pc : {"headBucket", "createBucket", "putObject", "writeDisk"},
   owner : Owners, file : Nat]

NewImages == [op : {"Upload"}, pc : {"saveImage"}, owner : Owners, url : AnyUrls]

SupplierEdits ==
  [op : {"EditSupplier"}, pc : {"saveRow"}, image : AnyUrls \cup {NoImage}]

ImageTasks == Uploads \cup NewImages \cup SupplierEdits

AnyPreferences == [id : Nat, kind : Kinds, value : Values]

SavedPreferences ==
  [op : {"CreatePreference", "UpdatePreference"}, pc : {"savePreference"},
   row : AnyPreferences]

Removals == [op : {"RemovePreference"}, pc : {"removePreference"}, row : AnyPreferences]

PreferenceTasks == SavedPreferences \cup Removals

Tasks ==
  {Idle} \cup CardTasks \cup CacheTasks \cup FormTasks \cup RoleTasks \cup ImageTasks
    \cup PreferenceTasks

-----------------------------------------------------------------------------
(* Types.                                                                  *)

FormRows == [slug : Slugs \cup {0}, active : BOOLEAN, fields : SUBSET Versions]

SubmissionRows ==
  [form : FormIds \cup {0}, status : {"none", "pending", "approved", "rejected"},
   answers : SUBSET Versions, made : 0..MaxVisits, linked : SUBSET (1..MaxVisits)]

\* A form that exists has a slug, and so has one a request works on.
FormsNamed == \A f \in FormIds : FormExists(f) => form[f].slug \in Slugs

Named(t) ==
  t \in NewFields \cup FormEdits \cup Deactivations => form[t.form].slug \in Slugs

RequestsNamed == \A w \in Workers : Named(task[w])

FormTypes == FormTypeOK /\ FormsNamed /\ RequestsNamed

CacheTypes ==
  /\ list \in Seq(Texts) /\ listTimed \in BOOLEAN
  /\ body \in [Texts -> Lifetimes] /\ key \in [Keys -> Lifetimes]

ImageTypes ==
  /\ usesS3 \in BOOLEAN /\ buckets \subseteq Owners
  /\ uploads \in 0..workload.size /\ stored \subseteq AnyUrls
  /\ image \in [Owners -> AnyUrls \cup {NoImage}]

PreferenceTypes == lastId \in 0..workload.size /\ preferences \subseteq AnyPreferences

DeskTypes == workload \in Workloads /\ task \in [Workers -> Tasks]

TypeInv ==
  DeskTypes /\ CardTypeOK /\ CacheTypes /\ FormTypes /\ RoleTypeOK /\ ImageTypes
    /\ PreferenceTypes

\* A request does what was asked, and requests that do not overlap are one.
DeskInv ==
  /\ \A w \in Workers : task[w].op \in workload.ops \cup {"none"}
  /\ Serial => \A u, w \in Workers : ~At(u, "idle") /\ ~At(w, "idle") => u = w

-----------------------------------------------------------------------------
(* What each service keeps.                                                *)

\* There is room for the card about to be inserted, and a card whose location is
\* reported is there.
LimitInv ==
  /\ IsFiniteSet(cards)
  /\ Serial => \A w \in Workers :
       /\ At(w, "insertCard") => Cardinality(cards) < limit
       /\ At(w, "saveCard") \/ At(w, "saveLocation") => task[w].card \in cards

\* Somebody is about to write what the card lacks.
Undone(c, pcs) ==
  \E w \in Workers : task[w] \in Reports \cup Questions /\ task[w].pc \in pcs /\ task[w].card = c

\* The rows of a card have different times, all of them in the past.
RowsInOrder(c) ==
  \A l \in locations[c] : l.at <= reports /\ \A k \in locations[c] : k.at = l.at => k = l

\* A report that is not saved yet is the newest; it has read all rows, and the
\* columns of the card follow it.
Newest(t) ==
  /\ \A l \in locations[t.card] : l.at < t.at
  /\ t.at <= reports
  /\ t.pc = "saveCard" => t.rows = locations[t.card]
  /\ t.pc = "saveLocation" => position[t.card] = t.place

Caching(t) == locations[t.card] # {} /\ t.place = Latest(t.card).place

\* A card whose key, member of the index or location is about to be written may
\* differ there from the rows.
AgreesBut(c, inKey, inIndex, inRows) ==
  /\ RowsInOrder(c)
  /\ cached[c] # NoPlace => locations[c] # {} /\ (cached[c] = Latest(c).place \/ inKey)
  /\ locations[c] = {} => index[c] = NoPlace
  /\ ~ZeroReported /\ index[c] # NoPlace => index[c] = Latest(c).place \/ inIndex
  /\ locations[c] # {} /\ position[c] # Latest(c).place => inRows

Agrees(c) ==
  AgreesBut(c, Undone(c, {"cacheBody"}), Undone(c, {"cacheBody", "cacheIndex"}),
            Undone(c, {"saveLocation"}))

LocationsInv ==
  Serial /\ ~workload.fails =>
    /\ \A c \in Cards : Agrees(c)
    /\ \A w \in Workers :
         /\ At(w, "saveCard") \/ At(w, "saveLocation") => Newest(task[w])
         /\ At(w, "cacheBody") \/ At(w, "cacheIndex") => Caching(task[w])

\* What is listed, and what is about to be, has a body.
ListedInv ==
  ~Asked({"Expire"}) /\ (Serial \/ ~Asked({"FlushChat"})) =>
    /\ \A i \in 1..Len(list) : body[list[i]] # "none"
    /\ \A w \in Workers : At(w, "push") => body[task[w].text] # "none"

Trimming == {w \in Workers : At(w, "trim")}

\* Who has pushed trims, and who has set a key gives it a time to live.
BoundInv ==
  ~workload.fails =>
    /\ Len(list) <= ListSize + Cardinality(Trimming)
    /\ \A k \in Keys : key[k] = "kept" => \E w \in Workers : At(w, "expireKey") /\ task[w].key = k

CacheInv == ListedInv /\ BoundInv

\* A submission of a form with fields has its answers, or they are on their way.
Answering(s) ==
  \/ form[submission[s].form].fields = {}
  \/ submission[s].answers # {}
  \/ \E w \in Workers : At(w, "insertAnswers") /\ task[w].submission = s

OfForm(s, f) == SubmissionExists(s) /\ submission[s].form = f

\* What a request has read is still so.
Current(t) ==
  /\ t.pc = "insertFields" => \A s \in Submissions : ~OfForm(s, t.form)
  /\ t.pc = "saveForm" => t.copy.fields = form[t.form].fields
  /\ t.pc = "insertSubmission" => FormExists(t.form) /\ t.answers = form[t.form].fields
  /\ t.pc = "insertAnswers" =>
       SubmissionExists(t.submission) /\ t.answers = form[submission[t.submission].form].fields
  /\ t.pc \in {"findVisitor", "insertVisitor", "insertVisit", "saveSubmission"} =>
       SubmissionExists(t.submission) /\ t.answers = submission[t.submission].answers

AnsweredInv ==
  Serial /\ ~workload.fails /\ ~Asked({"UpdateForm"}) =>
    /\ \A s \in Submissions : SubmissionExists(s) =>
         submission[s].form \in FormIds /\ FormExists(submission[s].form) /\ Answering(s)
    /\ \A w \in Workers : Current(task[w])

\* No other role of the supplier has the name.
NameFree(r, n, office) ==
  office # NoOffice => \A q \in Live \ {r} : ~(role[q].name = n /\ role[q].office = office)

\* The name a request gives is free until it is saved.
NamesInv ==
  Serial /\ ~Asked({"GiveOffice"}) =>
    /\ \A r \in Live : NameFree(r, role[r].name, role[r].office)
    /\ \A w \in Workers :
         LET t == task[w] IN
         /\ At(w, "insertRole") /\ t.copy.office # NoOffice =>
              Namesakes(t.copy.name, t.copy.office) = {}
         /\ At(w, "updateRole") =>
              /\ t.office = NoOffice
              /\ t.name # "none" => NameFree(t.role, t.name, role[t.role].office)
         /\ At(w, "saveRole") => NameFree(t.role, t.copy.name, t.copy.office)

\* A copy about to be saved has the mark the row has; nobody is about to remove
\* a system role.
SystemInv ==
  /\ \A w \in Workers :
       /\ task[w] \in PermissionChanges \cup RoleEdits \cup RoleDeletions =>
            role[task[w].role].state # "unused"
       /\ At(w, "insertRole") \/ At(w, "saveRole") => task[w].copy.state = "live"
  /\ Serial \/ ~Asked({"UpdateRole"}) => \A w \in Workers :
       /\ At(w, "saveRole") =>
            /\ role[task[w].role].system => task[w].copy.system
            /\ ~Asked({"UpdateRole"}) => task[w].copy.system = role[task[w].role].system
       /\ At(w, "removeRow") => ~role[task[w].role].system

\* A request has a file of its own number, or the URL of a file that is stored.
UploadsInv ==
  /\ stored \subseteq Urls
  /\ \A o \in Owners : image[o] \in stored \cup {NoImage}
  /\ \A w \in Workers :
       /\ task[w] \in Uploads => task[w].file \in 1..uploads
       /\ At(w, "saveImage") => task[w].url \in stored
       /\ At(w, "saveRow") => task[w].image \in stored \cup {NoImage}

\* Nobody is sent to the disk.
S3Inv ==
  Serial /\ ~workload.fails /\ usesS3 =>
    /\ \A url \in stored : url.at = "s3"
    /\ \A w \in Workers :
         /\ ~At(w, "writeDisk")
         /\ At(w, "createBucket") => task[w].owner \notin buckets

ImageInv == UploadsInv /\ S3Inv

\* Ids are given once, and a kind has one row.
PreferenceInv ==
  /\ PreferenceTypeOK
  /\ \A w \in Workers : task[w] \in PreferenceTasks => task[w].row.id <= lastId

-----------------------------------------------------------------------------
(* Requests and what they carry.                                           *)

\* The place a request has come to tells what it carries.
CardPlaces(t) ==
  /\ t.pc = "insertCard" => t \in NewCards
  /\ t.pc = "insertUnknown" => t \in UnknownCards
  /\ t.pc \in {"saveCard", "saveLocation"} => t \in Reports
  /\ t.pc \in {"cacheBody", "cacheIndex"} => t \in Reports \cup Questions

CachePlaces(t) ==
  /\ t.pc \in {"push", "trim", "expireList"} => t \in Messages
  /\ t.pc = "expireKey" => t \in NewKeys

FormPlaces(t) ==
  /\ t.pc = "insertForm" => t \in NewForms
  /\ t.pc = "insertFields" => t \in NewFields \cup FormEdits
  /\ t.pc \in {"pickSlug", "deleteFields"} => t \in FormEdits
  /\ t.pc = "saveForm" => t \in FormEdits \cup Deactivations
  /\ t.pc = "insertSubmission" => t \in NewSubmissions
  /\ t.pc = "insertAnswers" => t \in NewAnswers
  /\ t.pc \in {"findVisitor", "insertVisitor", "insertVisit"} => t \in FormVisits
  /\ t.pc = "saveSubmission" => t \in SubmissionEdits \cup FormVisits

RolePlaces(t) ==
  /\ t.pc = "insertRole" => t \in NewRoles
  /\ t.pc \in {"remove", "assign", "saveRole"} => t \in PermissionChanges \cup RoleEdits
  /\ t.pc = "updateRole" => t \in RoleEdits
  /\ t.pc \in {"deleteRole", "removeRow"} => t \in RoleDeletions
  /\ t.pc = "savePermission" => t \in NewPermissions

ImagePlaces(t) ==
  /\ t.pc \in {"headBucket", "createBucket", "putObject", "writeDisk"} => t \in Uploads
  /\ t.pc = "saveImage" => t \in NewImages
  /\ t.pc = "saveRow" => t \in SupplierEdits

PreferencePlaces(t) ==
  /\ t.pc = "savePreference" => t \in SavedPreferences
  /\ t.pc = "removePreference" => t \in Removals

AllPlaces(t) ==
  /\ t.pc = "idle" <=> t = Idle
  /\ CardPlaces(t) /\ CachePlaces(t) /\ FormPlaces(t) /\ RolePlaces(t) /\ ImagePlaces(t)
  /\ PreferencePlaces(t)

LEMMA CardTasksPlaced ==
  ASSUME NEW t \in CardTasks
  PROVE  AllPlaces(t) /\ t.op \in {"CreateCard", "ReportUnknown", "Report", "LastLocation"}
<1>1. CASE t \in NewCards
  BY <1>1 DEF NewCards, AllPlaces, CardPlaces, CachePlaces, FormPlaces, RolePlaces, ImagePlaces,
    PreferencePlaces, Idle
<1>2. CASE t \in UnknownCards
  BY <1>2 DEF UnknownCards, AllPlaces, CardPlaces, CachePlaces, FormPlaces, RolePlaces,
    ImagePlaces, PreferencePlaces, Idle
<1>3. CASE t \in Reports
  BY <1>3 DEF Reports, AllPlaces, CardPlaces, CachePlaces, FormPlaces, RolePlaces, ImagePlaces,
    PreferencePlaces, Idle
<1>4. CASE t \in Questions
  BY <1>4 DEF Questions, AllPlaces, CardPlaces, CachePlaces, FormPlaces, RolePlaces,
    ImagePlaces, PreferencePlaces, Idle
<1> QED
  BY <1>1, <1>2, <1>3, <1>4 DEF CardTasks

LEMMA CacheTasksPlaced ==
  ASSUME NEW t \in CacheTasks
  PROVE  AllPlaces(t) /\ t.op \in {"SaveMessage", "SaveKey"}
<1>1. CASE t \in Messages
  BY <1>1 DEF Messages, AllPlaces, CardPlaces, CachePlaces, FormPlaces, RolePlaces,
    ImagePlaces, PreferencePlaces, Idle
<1>2. CASE t \in NewKeys
  BY <1>2 DEF NewKeys, AllPlaces, CardPlaces, CachePlaces, FormPlaces, RolePlaces,
    ImagePlaces, PreferencePlaces, Idle
<1> QED
  BY <1>1, <1>2 DEF CacheTasks

LEMMA FormTasksPlaced ==
  ASSUME NEW t \in FormTasks
  PROVE  /\ AllPlaces(t)
         /\ t.op \in {"CreateForm", "UpdateForm", "Deactivate", "Submit", "UpdateStatus",
                     "CreateVisit"}
<1>1. CASE t \in NewForms
  BY <1>1 DEF NewForms, AllPlaces, CardPlaces, CachePlaces, FormPlaces, RolePlaces,
    ImagePlaces, PreferencePlaces, Idle
<1>2. CASE t \in NewFields
  BY <1>2 DEF NewFields, AllPlaces, CardPlaces, CachePlaces, FormPlaces, RolePlaces,
    ImagePlaces, PreferencePlaces, Idle
<1>3. CASE t \in FormEdits
  BY <1>3 DEF FormEdits, AllPlaces, CardPlaces, CachePlaces, FormPlaces, RolePlaces,
    ImagePlaces, PreferencePlaces, Idle
<1>4. CASE t \in Deactivations
  <2>1. t.pc = "saveForm" /\ t.op = "Deactivate"
    BY <1>4 DEF Deactivations
  <2> QED
    BY <1>4, <2>1 DEF AllPlaces, CardPlaces, CachePlaces, FormPlaces, RolePlaces,
      ImagePlaces, PreferencePlaces, Idle
<1>5. CASE t \in NewSubmissions
  BY <1>5 DEF NewSubmissions, AllPlaces, CardPlaces, CachePlaces, FormPlaces, RolePlaces,
    ImagePlaces, PreferencePlaces, Idle
<1>6. CASE t \in NewAnswers
  BY <1>6 DEF NewAnswers, AllPlaces, CardPlaces, CachePlaces, FormPlaces, RolePlaces,
    ImagePlaces, PreferencePlaces, Idle
<1>7. CASE t \in SubmissionEdits
  BY <1>7 DEF SubmissionEdits, AllPlaces, CardPlaces, CachePlaces, FormPlaces, RolePlaces,
    ImagePlaces, PreferencePlaces, Idle
<1>8. CASE t \in FormVisits
  BY <1>8 DEF FormVisits, AllPlaces, CardPlaces, CachePlaces, FormPlaces, RolePlaces,
    ImagePlaces, PreferencePlaces, Idle
<1> QED
  BY <1>1, <1>2, <1>3, <1>4, <1>5, <1>6, <1>7, <1>8 DEF FormTasks

LEMMA RoleTasksPlaced ==
  ASSUME NEW t \in RoleTasks
  PROVE  /\ AllPlaces(t)
         /\ t.op \in {"CreateRole", "ChangePermissions", "UpdateRole", "DeleteRole",
                     "SavePermission"}
<1>1. CASE t \in NewRoles
  BY <1>1 DEF NewRoles, AllPlaces, CardPlaces, CachePlaces, FormPlaces, RolePlaces,
    ImagePlaces, PreferencePlaces, Idle
<1>2. CASE t \in PermissionChanges
  BY <1>2 DEF PermissionChanges, AllPlaces, CardPlaces, CachePlaces, FormPlaces, RolePlaces,
    ImagePlaces, PreferencePlaces, Idle
<1>3. CASE t \in RoleEdits
  BY <1>3 DEF RoleEdits, AllPlaces, CardPlaces, CachePlaces, FormPlaces, RolePlaces,
    ImagePlaces, PreferencePlaces, Idle
<1>4. CASE t \in RoleDeletions
  BY <1>4 DEF RoleDeletions, AllPlaces, CardPlaces, CachePlaces, FormPlaces, RolePlaces,
    ImagePlaces, PreferencePlaces, Idle
<1>5. CASE t \in NewPermissions
  BY <1>5 DEF NewPermissions, AllPlaces, CardPlaces, CachePlaces, FormPlaces, RolePlaces,
    ImagePlaces, PreferencePlaces, Idle
<1> QED
  BY <1>1, <1>2, <1>3, <1>4, <1>5 DEF RoleTasks

LEMMA ImageTasksPlaced ==
  ASSUME NEW t \in ImageTasks
  PROVE  AllPlaces(t) /\ t.op \in {"Upload", "EditSupplier"}
<1>1. CASE t \in Uploads
  BY <1>1 DEF Uploads, AllPlaces, CardPlaces, CachePlaces, FormPlaces, RolePlaces,
    ImagePlaces, PreferencePlaces, Idle
<1>2. CASE t \in NewImages
  BY <1>2 DEF NewImages, AllPlaces, CardPlaces, CachePlaces, FormPlaces, RolePlaces,
    ImagePlaces, PreferencePlaces, Idle
<1>3. CASE t \in SupplierEdits
  BY <1>3 DEF SupplierEdits, AllPlaces, CardPlaces, CachePlaces, FormPlaces, RolePlaces,
    ImagePlaces, PreferencePlaces, Idle
<1> QED
  BY <1>1, <1>2, <1>3 DEF ImageTasks

LEMMA PreferenceTasksPlaced ==
  ASSUME NEW t \in PreferenceTasks
  PROVE  AllPlaces(t) /\ t.op \in {"CreatePreference", "UpdatePreference", "RemovePreference"}
<1>1. CASE t \in SavedPreferences
  BY <1>1 DEF SavedPreferences, AllPlaces, CardPlaces, CachePlaces, FormPlaces, RolePlaces,
    ImagePlaces, PreferencePlaces, Idle
<1>2. CASE t \in Removals
  BY <1>2 DEF Removals, AllPlaces, CardPlaces, CachePlaces, FormPlaces, RolePlaces,
    ImagePlaces, PreferencePlaces, Idle
<1> QED
  BY <1>1, <1>2 DEF PreferenceTasks


LEMMA IdlePlaced == AllPlaces(Idle) /\ Idle.op = "none"
  BY DEF AllPlaces, CardPlaces, CachePlaces, FormPlaces, RolePlaces, ImagePlaces,
    PreferencePlaces, Idle

LEMMA TasksPlaced ==
  ASSUME NEW t \in Tasks
  PROVE  AllPlaces(t)
BY IdlePlaced, CardTasksPlaced, CacheTasksPlaced, FormTasksPlaced, RoleTasksPlaced,
   ImageTasksPlaced, PreferenceTasksPlaced DEF Tasks

\* No request belongs to two services.
LEMMA TasksApart ==
  /\ CardTasks \cap (CacheTasks \cup FormTasks \cup RoleTasks \cup ImageTasks
       \cup PreferenceTasks \cup {Idle}) = {}
  /\ CacheTasks \cap (FormTasks \cup RoleTasks \cup ImageTasks \cup PreferenceTasks
       \cup {Idle}) = {}
  /\ FormTasks \cap (RoleTasks \cup ImageTasks \cup PreferenceTasks \cup {Idle}) = {}
  /\ RoleTasks \cap (ImageTasks \cup PreferenceTasks \cup {Idle}) = {}
  /\ ImageTasks \cap (PreferenceTasks \cup {Idle}) = {}
  /\ PreferenceTasks \cap {Idle} = {}
<1>1. ASSUME NEW t \in CardTasks
      PROVE  t \notin CacheTasks \cup FormTasks \cup RoleTasks \cup ImageTasks
               \cup PreferenceTasks \cup {Idle}
  BY IdlePlaced, CardTasksPlaced, CacheTasksPlaced, FormTasksPlaced, RoleTasksPlaced,
     ImageTasksPlaced, PreferenceTasksPlaced
<1>2. ASSUME NEW t \in CacheTasks
      PROVE  t \notin FormTasks \cup RoleTasks \cup ImageTasks \cup PreferenceTasks
               \cup {Idle}
  BY IdlePlaced, CacheTasksPlaced, FormTasksPlaced, RoleTasksPlaced, ImageTasksPlaced,
     PreferenceTasksPlaced
<1>3. ASSUME NEW t \in FormTasks
      PROVE  t \notin RoleTasks \cup ImageTasks \cup PreferenceTasks \cup {Idle}
  BY IdlePlaced, FormTasksPlaced, RoleTasksPlaced, ImageTasksPlaced, PreferenceTasksPlaced
<1>4. ASSUME NEW t \in RoleTasks
      PROVE  t \notin ImageTasks \cup PreferenceTasks \cup {Idle}
  BY IdlePlaced, RoleTasksPlaced, ImageTasksPlaced, PreferenceTasksPlaced
<1>5. ASSUME NEW t \in ImageTasks
      PROVE  t \notin PreferenceTasks \cup {Idle}
  BY IdlePlaced, ImageTasksPlaced, PreferenceTasksPlaced
<1>6. ASSUME NEW t \in PreferenceTasks
      PROVE  t # Idle
  BY IdlePlaced, PreferenceTasksPlaced
<1> QED
  BY <1>1, <1>2, <1>3, <1>4, <1>5, <1>6

-----------------------------------------------------------------------------
(* What a step does to the requests.                                       *)

\* A worker goes on to t, with a request of Z.
Moves(w, t, Z) ==
  /\ Become(w, t)
  /\ \/ t \in Z /\ Accepts(w, t.op)
     \/ t \in Z /\ task[w] \in Z /\ t.op = task[w].op
     \/ t = Idle /\ task[w] \in Z

\* Requests are cut short.
Halts ==
  /\ workload.fails /\ UNCHANGED workload
  /\ task' = [w \in Workers |-> task'[w]]
  /\ \A w \in Workers : task'[w] \in {task[w], Idle}

Turn(Z) == UNCHANGED desk \/ Halts \/ \E w \in Workers : \E t \in Z \cup {Idle} : Moves(w, t, Z)

\* The requests of X stay as they are, those that are cut short excepted.
Kept(X) ==
  /\ UNCHANGED workload
  /\ \A w \in Workers : task'[w] \in X \/ (task[w] \in X /\ ~workload.fails) => task'[w] = task[w]

LEMMA TurnTypes ==
  ASSUME NEW Z, Z \subseteq Tasks, DeskTypes, Turn(Z)
  PROVE  DeskTypes'
<1> USE DEF DeskTypes
<1>0. Idle \in Tasks
  BY DEF Tasks
<1>1. CASE UNCHANGED desk
  BY <1>1 DEF desk
<1>2. CASE Halts
  BY <1>0, <1>2 DEF Halts
<1>3. CASE \E w \in Workers : \E t \in Z \cup {Idle} : Moves(w, t, Z)
  <2>1. PICK w \in Workers, t \in Z \cup {Idle} : Become(w, t)
    BY <1>3 DEF Moves
  <2> QED
    BY <1>0, <2>1 DEF Become
<1> QED
  BY <1>1, <1>2, <1>3 DEF Turn

LEMMA TurnKeeps ==
  ASSUME NEW Z, NEW X, X \cap (Z \cup {Idle}) = {}, DeskTypes, Turn(Z)
  PROVE  Kept(X)
<1> USE DEF DeskTypes
<1>1. CASE UNCHANGED desk
  BY <1>1 DEF desk, Kept
<1>2. CASE Halts
  BY <1>2 DEF Halts, Kept
<1>3. CASE \E w \in Workers : \E t \in Z \cup {Idle} : Moves(w, t, Z)
  <2>1. PICK w \in Workers, t \in Z \cup {Idle} : Moves(w, t, Z)
    BY <1>3
  <2>2. task' = [task EXCEPT ![w] = t] /\ UNCHANGED workload
    BY <2>1 DEF Moves, Become
  <2>3. t \notin X
    OBVIOUS
  <2>4. task[w] \notin X
    <3>1. CASE At(w, "idle")
      BY <3>1, TasksPlaced DEF At, AllPlaces
    <3>2. CASE task[w] \in Z
      BY <3>2
    <3> QED
      BY <2>1, <3>1, <3>2 DEF Moves, Accepts
  <2> QED
    BY <2>2, <2>3, <2>4 DEF Kept
<1> QED
  BY <1>1, <1>2, <1>3 DEF Turn

\* A request is taken only when there is room: nobody is busy if requests do not overlap.
LEMMA NobodyBusy ==
  ASSUME NEW w \in Workers, NEW op, Accepts(w, op), Serial
  PROVE  AtRest
<1> DEFINE Busy == {u \in Workers : ~At(u, "idle")}
<1>1. Cardinality(Busy) < 1
  BY DEF Accepts, Serial
<1>2. IsFiniteSet(Busy)
  BY WorkersAssumption, FS_Subset
<1>3. Cardinality(Busy) = 0
  BY <1>1, <1>2, FS_CardinalityType
<1>4. Busy = {}
  BY <1>2, <1>3, FS_EmptySet
<1> QED
  BY <1>4 DEF AtRest

LEMMA TurnDesk ==
  ASSUME NEW Z, Z \subseteq Tasks \ {Idle}, DeskTypes, DeskInv, Turn(Z)
  PROVE  DeskInv'
<1> USE DEF DeskTypes
<1>0. \A u \in Workers : At(u, "idle") <=> task[u] = Idle
  BY TasksPlaced DEF At, AllPlaces
<1>1. CASE UNCHANGED desk
  BY <1>1 DEF desk, DeskInv, Serial, At
<1>2. CASE Halts
  <2>1. UNCHANGED workload /\ \A u \in Workers : task'[u] \in {task[u], Idle}
    BY <1>2 DEF Halts
  <2>2. ASSUME NEW u \in Workers
        PROVE  task'[u].op \in workload.ops \cup {"none"} /\ (~At(u, "idle")' => ~At(u, "idle"))
    BY <2>1, <1>0, IdlePlaced DEF DeskInv, At, AllPlaces
  <2> QED
    BY <2>1, <2>2 DEF DeskInv, Serial
<1>3. CASE \E w \in Workers : \E t \in Z \cup {Idle} : Moves(w, t, Z)
  <2>1. PICK w \in Workers, t \in Z \cup {Idle} : Moves(w, t, Z)
    BY <1>3
  <2>2. task' = [task EXCEPT ![w] = t] /\ UNCHANGED workload
    BY <2>1 DEF Moves, Become
  <2>3. t.op \in workload.ops \cup {"none"}
    BY <2>1, IdlePlaced DEF Moves, Accepts, DeskInv
  <2>4. \A u \in Workers : task'[u] = IF u = w THEN t ELSE task[u]
    BY <2>2
  <2>5. \A u \in Workers : task'[u].op \in workload'.ops \cup {"none"}
    BY <2>2, <2>3, <2>4 DEF DeskInv
  <2>6. ASSUME Serial, NEW u \in Workers, NEW v \in Workers,
               ~At(u, "idle")', ~At(v, "idle")'
        PROVE  u = v
    <3>1. t # Idle \/ u # w
      BY <2>4, <2>6, IdlePlaced DEF At, AllPlaces
    <3>2. t # Idle \/ v # w
      BY <2>4, <2>6, IdlePlaced DEF At, AllPlaces
    <3>3. (u # w => ~At(u, "idle")) /\ (v # w => ~At(v, "idle"))
      BY <2>4, <2>6 DEF At
    <3>4. CASE Accepts(w, t.op)
      BY <2>6, <3>3, <3>4, NobodyBusy DEF AtRest
    <3>5. CASE task[w] \in Z
      BY <1>0, <2>6, <3>3, <3>5 DEF DeskInv
    <3> QED
      BY <2>1, <3>4, <3>5 DEF Moves
  <2> QED
    BY <2>2, <2>5, <2>6 DEF DeskInv, Serial
<1> QED
  BY <1>1, <1>2, <1>3 DEF Turn

\* The three ways a worker goes on.
LEMMA TurnNew ==
  ASSUME NEW Z, NEW w \in Workers, NEW t \in Z, Accepts(w, t.op), Become(w, t)
  PROVE  Turn(Z)
BY DEF Turn, Moves

LEMMA TurnOn ==
  ASSUME NEW Z, NEW w \in Workers, NEW t \in Z, task[w] \in Z, t.op = task[w].op, Become(w, t)
  PROVE  Turn(Z)
BY DEF Turn, Moves

LEMMA TurnEnd ==
  ASSUME NEW Z, NEW w \in Workers, task[w] \in Z, Finish(w)
  PROVE  Turn(Z)
BY DEF Turn, Moves, Finish

LEMMA TurnStay ==
  ASSUME NEW Z, UNCHANGED desk
  PROVE  Turn(Z)
BY DEF Turn

-----------------------------------------------------------------------------
(* Numbers and rows.                                                       *)

Least(S) == CHOOSE n \in S : \A k \in S : n <= k

\* A set of numbers has a least one.
LEMMA LeastOfNaturals ==
  ASSUME NEW S, S \subseteq Nat, S # {}
  PROVE  Least(S) \in S /\ \A x \in S : Least(S) <= x
<1> DEFINE Less == {p \in Nat \X Nat : p[1] < p[2]}
<1>1. IsWellFoundedOn(Less, Nat)
  BY NatLessThanWellFounded DEF OpToRel
<1>2. PICK x \in S : \A y \in S : ~(<<y, x>> \in Less)
  BY <1>1, WFMin
<1>3. ASSUME NEW y \in S PROVE x <= y
  <2>1. x \in Nat /\ y \in Nat
    OBVIOUS
  <2>2. ~(y < x)
    BY <1>2, <2>1
  <2> QED
    BY <2>1, <2>2
<1> QED
  BY <1>3 DEF Least

NewestOf(S) == CHOOSE l \in S : \A k \in S : l.at >= k.at

\* Rows of locations have a newest one.
LEMMA NewestOfRows ==
  ASSUME NEW S, S \subseteq LocationRows, S # {}
  PROVE  NewestOf(S) \in S /\ \A k \in S : NewestOf(S).at >= k.at
<1> DEFINE Ages == {MaxReports - l.at : l \in S}
<1>1. \A l \in S : l.at \in 1..MaxReports
  BY DEF LocationRows
<1>2. Ages \subseteq Nat /\ Ages # {}
  BY <1>1, LimitsAssumption
<1>3. Least(Ages) \in Ages /\ \A x \in Ages : Least(Ages) <= x
  BY <1>2, LeastOfNaturals
<1>4. PICK l \in S : Least(Ages) = MaxReports - l.at
  BY <1>3
<1>5. ASSUME NEW k \in S PROVE l.at >= k.at
  <2>1. MaxReports - l.at <= MaxReports - k.at
    BY <1>3, <1>4
  <2> QED
    BY <1>1, <2>1, LimitsAssumption
<1> QED
  BY <1>5 DEF NewestOf

LEMMA LatestIsNewest ==
  ASSUME NEW c
  PROVE  Latest(c) = NewestOf(locations[c])
BY DEF Latest, NewestOf

LEMMA LatestRow ==
  ASSUME CardTypeOK, NEW c \in Cards, locations[c] # {}
  PROVE  /\ Latest(c) \in locations[c] /\ Latest(c) \in LocationRows
         /\ \A k \in locations[c] : Latest(c).at >= k.at
<1>1. locations[c] \subseteq LocationRows
  BY DEF CardTypeOK, LocationRows
<1>2. NewestOf(locations[c]) \in locations[c] /\ \A k \in locations[c] : NewestOf(locations[c]).at >= k.at
  BY <1>1, NewestOfRows
<1> QED
  BY <1>1, <1>2, LatestIsNewest

-----------------------------------------------------------------------------
(* Cards: what a step does to the requests and the rows.                   *)

LEMMA ReportMoves ==
  ASSUME NEW t \in Reports, NEW pc \in {"saveCard", "saveLocation", "cacheBody", "cacheIndex"}
  PROVE  [t EXCEPT !.pc = pc] \in Reports /\ [t EXCEPT !.pc = pc].op = t.op
BY DEF Reports

LEMMA QuestionMoves ==
  ASSUME NEW t \in Questions, NEW pc \in {"cacheBody", "cacheIndex"}
  PROVE  [t EXCEPT !.pc = pc] \in Questions /\ [t EXCEPT !.pc = pc].op = t.op
BY DEF Questions

LEMMA CardPlace ==
  ASSUME DeskTypes, NEW w \in Workers
  PROVE  CardPlaces(task[w])
BY TasksPlaced DEF DeskTypes, AllPlaces

LEMMA CardTurns ==
  ASSUME DeskTypes, CardTypeOK, CardNext
  PROVE  Turn(CardTasks) /\ CardTypeOK'
<1> DEFINE Goal == Turn(CardTasks) /\ CardTypeOK'
<1> USE DEF CardTypeOK
<1>0. NewCards \cup UnknownCards \cup Reports \cup Questions \subseteq CardTasks
  BY DEF CardTasks
<1>1. ASSUME NEW w \in Workers, CreateCard(w) PROVE Goal
  <2> DEFINE t == [op |-> "CreateCard", pc |-> "insertCard"]
  <2>1. t \in NewCards /\ t.op = "CreateCard"
    BY DEF NewCards
  <2>2. Accepts(w, "CreateCard") /\ Become(w, t) /\ UNCHANGED locating
    BY <1>1 DEF CreateCard
  <2> HIDE DEF t
  <2>3. Turn(CardTasks)
    BY <1>0, <2>1, <2>2, TurnNew
  <2> QED
    BY <2>2, <2>3 DEF locating
<1>2. ASSUME NEW w \in Workers, NEW c \in Cards, InsertCard(w, c) PROVE Goal
  <2>1. task[w] \in CardTasks
    BY <1>0, <1>2, CardPlace DEF InsertCard, At, CardPlaces
  <2>2. Turn(CardTasks)
    BY <1>2, <2>1, TurnEnd DEF InsertCard
  <2> QED
    BY <1>2, <2>2 DEF InsertCard, cardCache
<1>3. ASSUME NEW w \in Workers, NEW c \in Cards, RemoveCard(w, c) PROVE Goal
  <2>1. Turn(CardTasks)
    BY <1>3, TurnStay DEF RemoveCard
  <2> QED
    BY <1>3, <2>1 DEF RemoveCard, cardCache
<1>4. ASSUME NEW w \in Workers, NEW c \in Cards, LastLocation(w, c) PROVE Goal
  <2> DEFINE t == [op |-> "LastLocation", pc |-> "cacheBody", card |-> c,
                   place |-> Latest(c).place]
  <2>1. Latest(c) \in LocationRows
    BY <1>4, LatestRow DEF LastLocation
  <2>2. t \in Questions /\ t.op = "LastLocation"
    BY <2>1 DEF Questions, LocationRows
  <2>3. Accepts(w, "LastLocation") /\ Become(w, t) /\ UNCHANGED locating
    BY <1>4 DEF LastLocation
  <2> HIDE DEF t
  <2>4. PICK u : u = t
    OBVIOUS
  <2>5. Turn(CardTasks)
    BY <1>0, <2>2, <2>3, <2>4, TurnNew
  <2> QED
    BY <2>3, <2>5 DEF locating
<1>5. ASSUME NEW w \in Workers, NEW c \in Cards, ReportUnknown(w, c) PROVE Goal
  <2> DEFINE t == [op |-> "ReportUnknown", pc |-> "insertUnknown", card |-> c]
  <2>1. t \in UnknownCards /\ t.op = "ReportUnknown"
    BY DEF UnknownCards
  <2>2. Accepts(w, "ReportUnknown") /\ Become(w, t) /\ UNCHANGED locating
    BY <1>5 DEF ReportUnknown
  <2> HIDE DEF t
  <2>3. Turn(CardTasks)
    BY <1>0, <2>1, <2>2, TurnNew
  <2> QED
    BY <2>2, <2>3 DEF locating
<1>6. ASSUME NEW w \in Workers, InsertUnknown(w) PROVE Goal
  <2>1. task[w] \in UnknownCards
    BY <1>6, CardPlace DEF InsertUnknown, At, CardPlaces
  <2>2. Turn(CardTasks)
    BY <1>0, <1>6, <2>1, TurnEnd DEF InsertUnknown
  <2>3. task[w].card \in Cards
    BY <2>1 DEF UnknownCards
  <2> QED
    BY <1>6, <2>2, <2>3 DEF InsertUnknown, cardCache
<1>7. ASSUME NEW w \in Workers, NEW n \in Limits, ChangeLimit(w, n) PROVE Goal
  <2>1. Turn(CardTasks)
    BY <1>7, TurnStay DEF ChangeLimit
  <2> QED
    BY <1>7, <2>1 DEF ChangeLimit, cardCache
<1>8. ASSUME NEW w \in Workers, NEW c \in Cards, NEW p \in Places, RecordLocation(w, c, p)
      PROVE  Goal
  <2>1. Report(c, p) \in Reports /\ Report(c, p).op = "Report" /\ reports + 1 \in 1..MaxReports
    BY <1>8, LimitsAssumption DEF RecordLocation, Report, Reports, LocationRows
  <2>2. Accepts(w, "Report") /\ Become(w, Report(c, p))
    BY <1>8 DEF RecordLocation
  <2>3. PICK u : u = Report(c, p)
    OBVIOUS
  <2>4. Turn(CardTasks)
    BY <1>0, <2>1, <2>2, <2>3, TurnNew
  <2> QED
    BY <1>8, <2>1, <2>4 DEF RecordLocation, cardCache
<1>9. ASSUME NEW w \in Workers, SavePosition(w) PROVE Goal
  <2>1. task[w] \in Reports
    BY <1>9, CardPlace DEF SavePosition, At, CardPlaces
  <2>2. PICK u : u = [task[w] EXCEPT !.pc = "saveLocation"]
    OBVIOUS
  <2>3. u \in Reports /\ u.op = task[w].op /\ Become(w, u)
    BY <1>9, <2>1, <2>2, ReportMoves DEF SavePosition, Goto
  <2>4. Turn(CardTasks)
    BY <1>0, <2>1, <2>3, TurnOn
  <2>5. task[w].card \in Cards /\ task[w].place \in Places
    BY <2>1 DEF Reports
  <2> QED
    BY <1>9, <2>4, <2>5 DEF SavePosition, cardCache
<1>10. ASSUME NEW w \in Workers, ReportRefused(w) PROVE Goal
  <2>1. task[w] \in Reports
    BY <1>10, CardPlace DEF ReportRefused, At, CardPlaces
  <2>2. Turn(CardTasks)
    BY <1>0, <1>10, <2>1, TurnEnd DEF ReportRefused
  <2> QED
    BY <1>10, <2>2 DEF ReportRefused, locating
<1>11. ASSUME NEW w \in Workers, SaveLocation(w) PROVE Goal
  <2>1. task[w] \in Reports
    BY <1>11, CardPlace DEF SaveLocation, At, CardPlaces
  <2>2. PICK u : u = [task[w] EXCEPT !.pc = "cacheBody"]
    OBVIOUS
  <2>3. u \in Reports /\ u.op = task[w].op /\ Become(w, u)
    BY <1>11, <2>1, <2>2, ReportMoves DEF SaveLocation, Goto
  <2>4. Turn(CardTasks)
    BY <1>0, <2>1, <2>3, TurnOn
  <2>5. task[w].card \in Cards /\ task[w].place \in Places /\ task[w].at \in 1..MaxReports
    BY <2>1 DEF Reports
  <2>6. locations' \in [Cards -> SUBSET [place : Places, at : 1..MaxReports]]
    BY <1>11, <2>5 DEF SaveLocation
  <2> QED
    BY <1>11, <2>4, <2>6 DEF SaveLocation, cardCache
<1>12. ASSUME NEW w \in Workers, CacheBody(w) PROVE Goal
  <2>1. task[w] \in Reports \cup Questions
    BY <1>12, CardPlace DEF CacheBody, At, CardPlaces
  <2>2. ASSUME Finish(w) PROVE Turn(CardTasks)
    BY <1>0, <2>1, <2>2, TurnEnd
  <2>3. ASSUME Goto(w, "cacheIndex") PROVE Turn(CardTasks)
    <3>1. PICK u : u = [task[w] EXCEPT !.pc = "cacheIndex"]
      OBVIOUS
    <3>2. u \in Reports \cup Questions /\ u.op = task[w].op /\ Become(w, u)
      BY <2>1, <2>3, <3>1, ReportMoves, QuestionMoves DEF Goto
    <3> QED
      BY <1>0, <2>1, <3>2, TurnOn
  <2>4. Turn(CardTasks)
    BY <1>12, <2>2, <2>3 DEF CacheBody
  <2>5. task[w].card \in Cards /\ task[w].place \in Places
    BY <2>1 DEF Reports, Questions
  <2> QED
    BY <1>12, <2>4, <2>5 DEF CacheBody, cardRows
<1>13. ASSUME NEW w \in Workers, CacheIndex(w) PROVE Goal
  <2>1. task[w] \in Reports \cup Questions
    BY <1>13, CardPlace DEF CacheIndex, At, CardPlaces
  <2>2. Turn(CardTasks)
    BY <1>0, <1>13, <2>1, TurnEnd DEF CacheIndex
  <2>3. task[w].card \in Cards /\ task[w].place \in Places
    BY <2>1 DEF Reports, Questions
  <2> QED
    BY <1>13, <2>2, <2>3 DEF CacheIndex, cardRows
<1>14. ASSUME NEW w \in Workers, CacheFails(w) PROVE Goal
  <2>1. task[w] \in Reports \cup Questions
    BY <1>14, CardPlace DEF CacheFails, At, CardPlaces
  <2>2. Turn(CardTasks)
    BY <1>0, <1>14, <2>1, TurnEnd DEF CacheFails
  <2> QED
    BY <1>14, <2>2 DEF CacheFails, locating
<1>15. ASSUME NEW w \in Workers, FlushLocations(w) PROVE Goal
  <2>1. Turn(CardTasks)
    BY <1>15, TurnStay DEF FlushLocations
  <2> QED
    BY <1>15, <2>1 DEF FlushLocations, cardRows
<1>16. ASSUME NEW c \in Cards, KeyExpires(c) PROVE Goal
  <2>1. Turn(CardTasks)
    BY <1>16, TurnStay DEF KeyExpires
  <2> QED
    BY <1>16, <2>1 DEF KeyExpires, cardRows
<1> HIDE DEF Goal
<1>17. Goal
  BY <1>1, <1>2, <1>3, <1>4, <1>5, <1>6, <1>7, <1>8, <1>9, <1>10, <1>11, <1>12, <1>13, <1>14,
     <1>15, <1>16 DEF CardNext
<1> QED
  BY <1>17 DEF Goal

-----------------------------------------------------------------------------
(* The cache of the chat.                                                  *)

LEMMA MessageMoves ==
  ASSUME NEW t \in Messages, NEW pc \in {"push", "trim", "expireList"}
  PROVE  [t EXCEPT !.pc = pc] \in Messages /\ [t EXCEPT !.pc = pc].op = t.op
BY DEF Messages

LEMMA CachePlace ==
  ASSUME DeskTypes, NEW w \in Workers
  PROVE  CachePlaces(task[w])
BY TasksPlaced DEF DeskTypes, AllPlaces

\* Cutting a list leaves its first elements.
LEMMA TrimmedList ==
  ASSUME NEW s \in Seq(Texts)
  PROVE  /\ Trimmed(s) \in Seq(Texts)
         /\ Len(Trimmed(s)) = IF Len(s) > ListSize THEN ListSize ELSE Len(s)
         /\ \A i \in 1..Len(Trimmed(s)) : Trimmed(s)[i] = s[i] /\ i \in 1..Len(s)
<1>1. Len(s) \in Nat /\ ListSize \in Nat
  BY ListSizeAssumption
<1> DEFINE n == IF Len(s) > ListSize THEN ListSize ELSE Len(s)
<1>2. n \in Nat /\ n <= Len(s) /\ Trimmed(s) = SubSeq(s, 1, n)
  BY <1>1 DEF Trimmed
<1> HIDE DEF n
<1>3. SubSeq(s, 1, n) \in Seq(Texts) /\ Len(SubSeq(s, 1, n)) = n
  BY <1>1, <1>2
<1>4. \A i \in 1..n : SubSeq(s, 1, n)[i] = s[i] /\ i \in 1..Len(s)
  BY <1>1, <1>2
<1> QED
  BY <1>2, <1>3, <1>4 DEF n

LEMMA CacheTurns ==
  ASSUME DeskTypes, CacheTypes, CacheNext
  PROVE  Turn(CacheTasks) /\ CacheTypes'
<1> DEFINE Goal == Turn(CacheTasks) /\ CacheTypes'
<1> USE DEF CacheTypes
<1>0. Messages \cup NewKeys \subseteq CacheTasks
  BY DEF CacheTasks
<1>1. ASSUME NEW w \in Workers, NEW m \in Texts, NEW ttl \in BOOLEAN, SaveBody(w, m, ttl)
      PROVE  Goal
  <2> DEFINE t == [op |-> "SaveMessage", pc |-> "push", text |-> m, ttl |-> ttl]
  <2>1. t \in Messages /\ t.op = "SaveMessage"
    BY DEF Messages
  <2>2. Accepts(w, "SaveMessage") /\ Become(w, t)
    BY <1>1 DEF SaveBody
  <2> HIDE DEF t
  <2>3. Turn(CacheTasks)
    BY <1>0, <2>1, <2>2, TurnNew
  <2>4. Lifetime(ttl) \in Lifetimes
    BY DEF Lifetime, Lifetimes
  <2> QED
    BY <1>1, <2>3, <2>4 DEF SaveBody
<1>2. ASSUME NEW w \in Workers, Push(w) PROVE Goal
  <2>1. task[w] \in Messages
    BY <1>2, CachePlace DEF Push, At, CachePlaces
  <2>2. PICK u : u = [task[w] EXCEPT !.pc = "trim"]
    OBVIOUS
  <2>3. u \in Messages /\ u.op = task[w].op /\ Become(w, u)
    BY <1>2, <2>1, <2>2, MessageMoves DEF Push, Goto
  <2>4. Turn(CacheTasks)
    BY <1>0, <2>1, <2>3, TurnOn
  <2>5. task[w].text \in Texts
    BY <2>1 DEF Messages
  <2>6. list' \in Seq(Texts)
    BY <1>2, <2>5 DEF Push
  <2> QED
    BY <1>2, <2>4, <2>6 DEF Push
<1>3. ASSUME NEW w \in Workers, Trim(w) PROVE Goal
  <2>1. task[w] \in Messages
    BY <1>3, CachePlace DEF Trim, At, CachePlaces
  <2>2. ASSUME Finish(w) PROVE Turn(CacheTasks)
    BY <1>0, <2>1, <2>2, TurnEnd
  <2>3. ASSUME Goto(w, "expireList") PROVE Turn(CacheTasks)
    <3>1. PICK u : u = [task[w] EXCEPT !.pc = "expireList"]
      OBVIOUS
    <3>2. u \in Messages /\ u.op = task[w].op /\ Become(w, u)
      BY <2>1, <2>3, <3>1, MessageMoves DEF Goto
    <3> QED
      BY <1>0, <2>1, <3>2, TurnOn
  <2>4. Turn(CacheTasks)
    BY <1>3, <2>2, <2>3 DEF Trim
  <2>5. list' \in Seq(Texts)
    BY <1>3, TrimmedList DEF Trim
  <2> QED
    BY <1>3, <2>4, <2>5 DEF Trim
<1>4. ASSUME NEW w \in Workers, ExpireList(w) PROVE Goal
  <2>1. task[w] \in Messages
    BY <1>4, CachePlace DEF ExpireList, At, CachePlaces
  <2>2. Turn(CacheTasks)
    BY <1>0, <1>4, <2>1, TurnEnd DEF ExpireList
  <2>3. listTimed' \in BOOLEAN
    BY <1>4 DEF ExpireList
  <2> QED
    BY <1>4, <2>2, <2>3 DEF ExpireList
<1>5. ASSUME NEW w \in Workers, NEW k \in Keys, SetKey(w, k) PROVE Goal
  <2> DEFINE t == [op |-> "SaveKey", pc |-> "expireKey", key |-> k]
  <2>1. t \in NewKeys /\ t.op = "SaveKey"
    BY DEF NewKeys
  <2>2. Accepts(w, "SaveKey") /\ Become(w, t)
    BY <1>5 DEF SetKey
  <2> HIDE DEF t
  <2>3. Turn(CacheTasks)
    BY <1>0, <2>1, <2>2, TurnNew
  <2> QED
    BY <1>5, <2>3 DEF SetKey, lists, Lifetimes
<1>6. ASSUME NEW w \in Workers, ExpireKey(w) PROVE Goal
  <2>1. task[w] \in NewKeys
    BY <1>6, CachePlace DEF ExpireKey, At, CachePlaces
  <2>2. Turn(CacheTasks)
    BY <1>0, <1>6, <2>1, TurnEnd DEF ExpireKey
  <2> QED
    BY <1>6, <2>2 DEF ExpireKey, lists, Lifetimes
<1>7. ASSUME NEW w \in Workers, FlushChat(w) PROVE Goal
  <2>1. Turn(CacheTasks)
    BY <1>7, TurnStay DEF FlushChat
  <2>2. <<>> \in Seq(Texts)
    OBVIOUS
  <2> QED
    BY <1>7, <2>1, <2>2 DEF FlushChat, Lifetimes
<1>8. ASSUME Drop PROVE Goal
  <2>1. Turn(CacheTasks)
    BY <1>8, TurnStay DEF Drop
  <2>2. <<>> \in Seq(Texts)
    OBVIOUS
  <2>3. ASSUME NEW m \in Texts, body' = [body EXCEPT ![m] = "none"],
               UNCHANGED <<list, listTimed, key>>
        PROVE  Goal
    BY <2>1, <2>3 DEF Lifetimes
  <2>4. ASSUME list' = <<>>, listTimed' = FALSE, UNCHANGED <<body, key>> PROVE Goal
    BY <2>1, <2>2, <2>4
  <2>5. ASSUME NEW k \in Keys, key' = [key EXCEPT ![k] = "none"], UNCHANGED lists PROVE Goal
    BY <2>1, <2>5 DEF Lifetimes, lists
  <2> HIDE DEF Goal
  <2> QED
    BY <1>8, <2>3, <2>4, <2>5 DEF Drop
<1> HIDE DEF Goal
<1>9. Goal
  BY <1>1, <1>2, <1>3, <1>4, <1>5, <1>6, <1>7, <1>8 DEF CacheNext
<1> QED
  BY <1>9 DEF Goal

-----------------------------------------------------------------------------
(* Forms: slugs.                                                           *)

\* There are as many slugs as forms: one is free for a form that has none yet,
\* and for a form that has one.
LEMMA SlugFound ==
  ASSUME FormTypes, NEW own, own \in Slugs \/ \E f \in FormIds : form[f].slug = 0
  PROVE  /\ FreeSlug(own) \in Slugs
         /\ \A f \in FormIds : form[f].slug # FreeSlug(own) \/ FreeSlug(own) = own
<1> USE DEF FormTypes
<1> DEFINE Free == {n \in Slugs : \A f \in FormIds : form[f].slug # n \/ n = own}
<1>1. Free # {}
  <2>1. CASE own \in Slugs
    BY <2>1
  <2>2. ASSUME NEW f \in FormIds, form[f].slug = 0, Free = {} PROVE FALSE
    <3> DEFINE Holder == [n \in Slugs |-> CHOOSE g \in FormIds : form[g].slug = n]
    <3>1. ASSUME NEW n \in Slugs PROVE Holder[n] \in FormIds \ {f} /\ form[Holder[n]].slug = n
      <4>1. \E g \in FormIds : form[g].slug = n
        BY <2>2
      <4>2. Holder[n] \in FormIds /\ form[Holder[n]].slug = n
        BY <4>1
      <4>3. n # 0
        BY SlugsAssumption
      <4> QED
        BY <2>2, <4>2, <4>3
    <3>2. IsFiniteSet(FormIds \ {f}) /\ Cardinality(FormIds \ {f}) = Cardinality(FormIds) - 1
      BY SlugsAssumption, FS_RemoveElement
    <3>3. Cardinality(FormIds \ {f}) < Cardinality(Slugs)
      BY <3>2, SlugsAssumption, FS_CardinalityType
    <3> HIDE DEF Holder
    <3>4. Holder \in [Slugs -> FormIds \ {f}]
      BY <3>1 DEF Holder
    <3>5. PICK h \in [Slugs -> FormIds \ {f}] : h = Holder
      BY <3>4
    <3>6. IsFiniteSet(Slugs)
      BY SlugsAssumption
    <3>7. \E x, y \in Slugs : x # y /\ h[x] = h[y]
      BY ONLY <3>2, <3>3, <3>6, FS_PigeonHole
    <3> QED
      BY <3>1, <3>5, <3>7
  <2> QED
    BY <2>1, <2>2
<1>2. Free \subseteq Nat
  BY SlugsAssumption
<1>3. FreeSlug(own) = Least(Free)
  BY DEF FreeSlug, Least
<1> QED
  BY <1>1, <1>2, <1>3, LeastOfNaturals

-----------------------------------------------------------------------------
(* Forms: what a step does to the requests and the rows.                   *)

LEMMA FormPlace ==
  ASSUME DeskTypes, NEW w \in Workers
  PROVE  FormPlaces(task[w])
BY TasksPlaced DEF DeskTypes, AllPlaces

LEMMA FormEditMoves ==
  ASSUME NEW t \in FormEdits,
         NEW pc \in {"pickSlug", "saveForm", "deleteFields", "insertFields"}
  PROVE  /\ [t EXCEPT !.pc = pc] \in FormEdits
         /\ [t EXCEPT !.pc = pc].op = t.op /\ [t EXCEPT !.pc = pc].form = t.form
<1> DEFINE u == [t EXCEPT !.pc = pc]
<1>1. u.op = t.op /\ u.form = t.form /\ u.copy = t.copy /\ u.pc = pc
  BY DEF FormEdits
<1>2. u.replaced = t.replaced
  BY Zenon DEF FormEdits
<1>3. u \in FormEdits
  BY DEF FormEdits
<1> QED
  BY <1>1, <1>3

LEMMA FormVisitMoves ==
  ASSUME NEW t \in FormVisits,
         NEW pc \in {"findVisitor", "insertVisitor", "insertVisit", "saveSubmission"}
  PROVE  [t EXCEPT !.pc = pc] \in FormVisits /\ [t EXCEPT !.pc = pc].op = t.op
BY DEF FormVisits

\* A form a request works on keeps a slug.
LEMMA NamedStep ==
  ASSUME DeskTypes, RequestsNamed, NEW w \in Workers, NEW t, Become(w, t), Named(t)',
         \A f \in FormIds : form[f].slug \in Slugs => form'[f].slug \in Slugs
  PROVE  RequestsNamed'
<1>1. ASSUME NEW u \in Workers, u # w PROVE Named(task[u])'
  <2>1. task'[u] = task[u]
    BY <1>1 DEF Become, DeskTypes
  <2>2. PICK t1 : t1 = task[u]
    OBVIOUS
  <2>3. Named(t1)
    BY <2>2 DEF RequestsNamed
  <2>4. t1 \in NewFields \cup FormEdits \cup Deactivations => t1.form \in FormIds
    <3>1. t1 \in NewFields => t1.form \in FormIds
      BY DEF NewFields
    <3>2. t1 \in FormEdits => t1.form \in FormIds
      BY DEF FormEdits
    <3>3. t1 \in Deactivations => t1.form \in FormIds
      BY DEF Deactivations
    <3> QED
      BY <3>1, <3>2, <3>3
  <2> QED
    BY <2>1, <2>2, <2>3, <2>4 DEF Named
<1>2. Named(task[w])'
  <2>1. task'[w] = t
    BY DEF Become, DeskTypes
  <2> QED
    BY <2>1 DEF Named
<1> QED
  BY <1>1, <1>2 DEF RequestsNamed

\* A request about submissions works on no form.
LEMMA QuietRequest ==
  ASSUME NEW t \in NewForms \cup NewSubmissions \cup NewAnswers \cup SubmissionEdits \cup FormVisits
                     \cup {Idle}
  PROVE  t \notin NewFields \cup FormEdits \cup Deactivations
<1> DEFINE Ops == {"Submit", "UpdateStatus", "CreateVisit", "none"}
<1>1. t \in NewForms \/ t.op \in Ops
  BY DEF NewSubmissions, NewAnswers, SubmissionEdits, FormVisits, Idle
<1>2. t \in NewForms => t.pc = "insertForm"
  BY DEF NewForms
<1>3. t \in NewFields => t.op = "CreateForm" /\ t.pc = "insertFields"
  BY DEF NewFields
<1>4. t \in FormEdits => t.op = "UpdateForm" /\ t.pc # "insertForm"
  BY DEF FormEdits
<1>5. t \in Deactivations => t.op = "Deactivate" /\ t.pc = "saveForm"
  BY DEF Deactivations
<1> QED
  BY <1>1, <1>2, <1>3, <1>4, <1>5

LEMMA QuietNamed ==
  ASSUME NEW t \in NewForms \cup NewSubmissions \cup NewAnswers \cup SubmissionEdits \cup FormVisits
                     \cup {Idle}
  PROVE  Named(t)'
BY QuietRequest DEF Named

LEMMA QuietStep ==
  ASSUME DeskTypes, FormTypes, NEW w \in Workers,
         NEW t \in NewForms \cup NewSubmissions \cup NewAnswers \cup SubmissionEdits \cup FormVisits
                     \cup {Idle},
         Become(w, t), UNCHANGED form
  PROVE  FormsNamed' /\ RequestsNamed'
<1>1. Named(t)'
  BY QuietNamed
<1>2. RequestsNamed'
  BY <1>1, NamedStep DEF FormTypes
<1> QED
  BY <1>2 DEF FormTypes, FormsNamed, FormExists

LEMMA FormTurns ==
  ASSUME DeskTypes, FormTypes, FormNext
  PROVE  Turn(FormTasks) /\ FormTypes'
<1> DEFINE Goal == Turn(FormTasks) /\ FormTypes'
<1>0. /\ NewForms \cup NewFields \cup FormEdits \cup Deactivations \subseteq FormTasks
      /\ NewSubmissions \cup NewAnswers \cup SubmissionEdits \cup FormVisits \subseteq FormTasks
  BY DEF FormTasks
<1>t. /\ form \in [FormIds -> FormRows] /\ submission \in [Submissions -> SubmissionRows]
      /\ visitor \in BOOLEAN /\ versions \in 0..MaxVersions
  BY DEF FormTypes, FormTypeOK, FormRows, SubmissionRows
<1>e. ASSUME form' \in [FormIds -> FormRows], submission' \in [Submissions -> SubmissionRows],
             visitor' \in BOOLEAN, versions' \in 0..MaxVersions
      PROVE  FormTypeOK'
  BY <1>e DEF FormTypeOK, FormRows, SubmissionRows
<1>u. ASSUME UNCHANGED forms PROVE FormTypeOK'
  BY <1>t, <1>e, <1>u DEF forms
<1>n. \A f \in FormIds : FormExists(f) => form[f].slug \in Slugs /\ form[f] \in SavedForms
  BY <1>t DEF FormTypes, FormsNamed, FormRows, SavedForms
<1>1. ASSUME NEW w \in Workers, CreateForm(w) PROVE Goal
  <2> DEFINE t == [op |-> "CreateForm", pc |-> "insertForm", slug |-> FreeSlug(0)]
  <2>1. PICK f \in FormIds : IsNext(f, {g \in FormIds : FormExists(g)})
    BY <1>1 DEF CreateForm
  <2>2. form[f].slug = 0
    BY <2>1 DEF IsNext, FormExists, NoForm
  <2>3. FreeSlug(0) \in Slugs
    BY <2>2, SlugFound
  <2>4. t \in NewForms /\ t.op = "CreateForm"
    BY <2>3 DEF NewForms
  <2>5. Accepts(w, "CreateForm") /\ Become(w, t) /\ UNCHANGED forms
    BY <1>1 DEF CreateForm
  <2> HIDE DEF t
  <2>6. PICK u : u = t
    OBVIOUS
  <2>7. Turn(FormTasks)
    BY <1>0, <2>4, <2>5, <2>6, TurnNew
  <2>8. FormsNamed' /\ RequestsNamed'
    BY <2>4, <2>5, <2>6, QuietStep DEF forms
  <2> QED
    BY <1>u, <2>5, <2>7, <2>8 DEF FormTypes
<1>2. ASSUME NEW w \in Workers, NEW f \in FormIds, InsertForm(w, f) PROVE Goal
  <2> DEFINE t == [op |-> "CreateForm", pc |-> "insertFields", form |-> f]
  <2>1. task[w] \in NewForms
    BY <1>2, FormPlace DEF InsertForm, At, FormPlaces
  <2>2. task[w].slug \in Slugs /\ task[w].op = "CreateForm"
    BY <2>1 DEF NewForms
  <2>3. t \in NewFields /\ t.op = "CreateForm" /\ t.form = f
    BY DEF NewFields
  <2>4. Become(w, t)
    BY <1>2 DEF InsertForm
  <2> HIDE DEF t
  <2>5. PICK row : row = [slug |-> task[w].slug, active |-> TRUE, fields |-> {}]
    OBVIOUS
  <2>6. row \in FormRows /\ row.slug \in Slugs
    BY <2>2, <2>5 DEF FormRows
  <2>7. form' = [form EXCEPT ![f] = row] /\ UNCHANGED <<submission, visitor, versions>>
    BY <1>2, <2>5 DEF InsertForm
  <2>8. Turn(FormTasks)
    BY <1>0, <2>1, <2>2, <2>3, <2>4, TurnOn
  <2>9. Named(t)'
    BY <1>t, <2>3, <2>6, <2>7 DEF Named
  <2>10. RequestsNamed'
    BY <1>t, <2>4, <2>6, <2>7, <2>9, NamedStep DEF FormTypes
  <2>11. FormsNamed'
    BY <1>t, <1>n, <2>6, <2>7 DEF FormsNamed, FormExists
  <2>12. FormTypeOK'
    BY <1>t, <1>e, <2>6, <2>7
  <2> QED
    BY <2>8, <2>10, <2>11, <2>12 DEF FormTypes
<1>3. ASSUME NEW w \in Workers, NEW f \in FormIds, Deactivate(w, f) PROVE Goal
  <2> DEFINE t == [op |-> "Deactivate", pc |-> "saveForm", form |-> f,
                   copy |-> [form[f] EXCEPT !.active = FALSE], replaced |-> FALSE]
  <2>1. form[f] \in SavedForms /\ form[f].slug \in Slugs
    BY <1>3, <1>n DEF Deactivate
  <2>2. [form[f] EXCEPT !.active = FALSE] \in SavedForms
    BY <2>1 DEF SavedForms
  <2>3. t \in Deactivations
    BY <2>2 DEF Deactivations
  <2>4. t.op = "Deactivate" /\ t.form = f
    OBVIOUS
  <2>5. Accepts(w, "Deactivate") /\ Become(w, t) /\ UNCHANGED forms
    BY <1>3 DEF Deactivate
  <2> HIDE DEF t
  <2>6. PICK u : u = t
    OBVIOUS
  <2>7. Turn(FormTasks)
    BY <1>0, <2>3, <2>4, <2>5, <2>6, TurnNew
  <2>8. Named(u)'
    BY <2>1, <2>4, <2>5, <2>6 DEF Named, forms
  <2>9. RequestsNamed'
    BY <2>5, <2>6, <2>8, NamedStep DEF FormTypes, forms
  <2>10. FormsNamed'
    BY <1>n, <2>5 DEF FormsNamed, FormExists, forms
  <2> QED
    BY <1>u, <2>5, <2>7, <2>9, <2>10 DEF FormTypes
<1>4. ASSUME NEW w \in Workers, InsertFields(w) PROVE Goal
  <2>1. task[w] \in NewFields \cup FormEdits
    BY <1>4, FormPlace DEF InsertFields, At, FormPlaces
  <2>2. PICK f \in FormIds : f = task[w].form
    BY <2>1 DEF NewFields, FormEdits
  <2>3. PICK row : row = [form[f] EXCEPT !.fields = @ \cup {versions'}]
    OBVIOUS
  <2>4. form' = [form EXCEPT ![f] = row] /\ UNCHANGED <<submission, visitor>>
    BY <1>4, <2>2, <2>3 DEF InsertFields
  <2>5. versions' \in 1..MaxVersions /\ Become(w, Idle)
    BY <1>4, <1>t, FormsAssumption DEF InsertFields, Finish
  <2>6. row \in FormRows /\ row.slug = form[f].slug
    BY <1>t, <2>3, <2>5 DEF FormRows, Versions
  <2>7. form[f].slug \in Slugs
    BY <2>1, <2>2 DEF FormTypes, RequestsNamed, Named
  <2>8. Turn(FormTasks)
    BY <1>0, <1>4, <2>1, TurnEnd DEF InsertFields
  <2>9. Named(Idle)'
    BY QuietNamed
  <2>10. RequestsNamed'
    BY <1>t, <2>4, <2>5, <2>6, <2>9, NamedStep DEF FormTypes
  <2>11. FormsNamed'
    BY <1>t, <1>n, <2>4, <2>6, <2>7 DEF FormsNamed, FormExists
  <2>12. FormTypeOK'
    BY <1>t, <1>e, <2>4, <2>5, <2>6
  <2> QED
    BY <2>8, <2>10, <2>11, <2>12 DEF FormTypes
<1>5. ASSUME NEW w \in Workers, NEW f \in FormIds, NEW renamed \in BOOLEAN,
             NEW replaced \in BOOLEAN, UpdateForm(w, f, renamed, replaced)
      PROVE  Goal
  <2> DEFINE pc == IF renamed THEN "pickSlug" ELSE "saveForm"
             t == [op |-> "UpdateForm", pc |-> pc, form |-> f, copy |-> form[f],
                   replaced |-> replaced]
  <2>1. form[f] \in SavedForms /\ form[f].slug \in Slugs
    BY <1>5, <1>n DEF UpdateForm
  <2>2. pc \in {"pickSlug", "saveForm"}
    OBVIOUS
  <2>3. Accepts(w, "UpdateForm") /\ Become(w, t) /\ UNCHANGED forms
    BY <1>5 DEF UpdateForm
  <2> HIDE DEF pc
  <2>4. t \in FormEdits
    BY <2>1, <2>2 DEF FormEdits
  <2>5. t.op = "UpdateForm" /\ t.form = f
    OBVIOUS
  <2> HIDE DEF t
  <2>6. PICK u : u = t
    OBVIOUS
  <2>7. Turn(FormTasks)
    BY <1>0, <2>3, <2>4, <2>5, <2>6, TurnNew
  <2>8. Named(u)'
    BY <2>1, <2>3, <2>5, <2>6 DEF Named, forms
  <2>9. RequestsNamed'
    BY <2>3, <2>6, <2>8, NamedStep DEF FormTypes, forms
  <2>10. FormsNamed'
    BY <1>n, <2>3 DEF FormsNamed, FormExists, forms
  <2> QED
    BY <1>u, <2>3, <2>7, <2>9, <2>10 DEF FormTypes
<1>6. ASSUME NEW w \in Workers, PickSlug(w) PROVE Goal
  <2>1. task[w] \in FormEdits
    BY <1>6, FormPlace DEF PickSlug, At, FormPlaces
  <2>2. PICK f \in FormIds : f = task[w].form
    BY <2>1 DEF FormEdits
  <2>3. form[f].slug \in Slugs
    BY <2>1, <2>2 DEF FormTypes, RequestsNamed, Named
  <2>4. PICK n \in Slugs : n = FreeSlug(form[f].slug)
    BY <2>3, SlugFound
  <2>5. PICK t : t = task[w]
    OBVIOUS
  <2>6. PICK u : u = [t EXCEPT !.pc = "saveForm", !.copy.slug = n]
    OBVIOUS
  <2>7. Become(w, u) /\ UNCHANGED forms
    BY <1>6, <2>2, <2>4, <2>5, <2>6 DEF PickSlug
  <2>8. u \in FormEdits /\ u.op = t.op /\ u.form = f
    <3>1. t.copy \in SavedForms /\ t \in FormEdits
      BY <2>1, <2>5 DEF FormEdits
    <3>2. [t.copy EXCEPT !.slug = n] \in SavedForms
      BY <3>1 DEF SavedForms
    <3>3. PICK v : v = [t EXCEPT !.pc = "saveForm"]
      OBVIOUS
    <3>4. v \in FormEdits /\ v.op = t.op /\ v.form = t.form
      BY <3>1, <3>3, FormEditMoves
    <3>5. PICK copy : copy = [t.copy EXCEPT !.slug = n]
      OBVIOUS
    <3>6. u = [t EXCEPT !.pc = "saveForm", !.copy = copy]
      BY <2>6, <3>5
    <3>7. [v EXCEPT !.copy = copy] = [t EXCEPT !.pc = "saveForm", !.copy = copy]
      BY <3>1, <3>3 DEF FormEdits
    <3>8. u = [v EXCEPT !.copy = copy]
      BY <3>6, <3>7
    <3>9. u \in FormEdits
      BY <3>2, <3>4, <3>5, <3>8 DEF FormEdits
    <3>10. u.op = v.op /\ u.form = v.form
      BY <3>4, <3>8 DEF FormEdits
    <3> QED
      BY <2>2, <2>5, <3>4, <3>9, <3>10
  <2>9. Turn(FormTasks)
    BY <1>0, <2>1, <2>5, <2>7, <2>8, TurnOn
  <2>10. Named(u)'
    BY <2>3, <2>7, <2>8 DEF Named, forms
  <2>11. RequestsNamed'
    BY <2>7, <2>10, NamedStep DEF FormTypes, forms
  <2>12. FormsNamed'
    BY <1>n, <2>7 DEF FormsNamed, FormExists, forms
  <2> QED
    BY <1>u, <2>7, <2>9, <2>11, <2>12 DEF FormTypes
<1>7. ASSUME NEW w \in Workers, SaveForm(w) PROVE Goal
  <2>1. task[w] \in FormEdits \cup Deactivations
    BY <1>7, FormPlace DEF SaveForm, At, FormPlaces
  <2>2. PICK f \in FormIds : f = task[w].form
    BY <2>1 DEF FormEdits, Deactivations
  <2>3. PICK row \in SavedForms : row = task[w].copy
    BY <2>1 DEF FormEdits, Deactivations
  <2>4. form' = [form EXCEPT ![f] = row] /\ UNCHANGED <<submission, visitor, versions>>
    BY <1>7, <2>2, <2>3 DEF SaveForm
  <2>5. row \in FormRows /\ row.slug \in Slugs
    BY <2>3 DEF SavedForms, FormRows
  <2>6. FormTypeOK'
    BY <1>t, <1>e, <2>4, <2>5
  <2>7. FormsNamed'
    BY <1>t, <1>n, <2>4, <2>5 DEF FormsNamed, FormExists
  <2>8. ASSUME Finish(w) PROVE Turn(FormTasks) /\ RequestsNamed'
    <3>1. Named(Idle)'
      BY QuietNamed
    <3>2. RequestsNamed'
      BY <1>t, <2>4, <2>5, <2>8, <3>1, NamedStep DEF FormTypes, Finish
    <3> QED
      BY <1>0, <2>1, <2>8, <3>2, TurnEnd
  <2>9. ASSUME Goto(w, "deleteFields"), task[w].replaced
        PROVE  Turn(FormTasks) /\ RequestsNamed'
    <3>1. task[w] \in FormEdits
      <4>1. task[w] \in Deactivations => ~task[w].replaced
        BY Zenon DEF Deactivations
      <4> QED
        BY <2>1, <2>9, <4>1
    <3>2. PICK u : u = [task[w] EXCEPT !.pc = "deleteFields"]
      OBVIOUS
    <3>3. u \in FormEdits /\ u.op = task[w].op /\ u.form = f /\ Become(w, u)
      BY <2>2, <2>9, <3>1, <3>2, FormEditMoves DEF Goto
    <3>4. Turn(FormTasks)
      BY <1>0, <3>1, <3>3, TurnOn
    <3>5. Named(u)'
      BY <1>t, <2>4, <2>5, <3>3 DEF Named
    <3>6. RequestsNamed'
      BY <1>t, <2>4, <2>5, <3>3, <3>5, NamedStep DEF FormTypes
    <3> QED
      BY <3>4, <3>6
  <2>10. Turn(FormTasks) /\ RequestsNamed'
    BY <1>7, <2>8, <2>9 DEF SaveForm
  <2> QED
    BY <2>6, <2>7, <2>10 DEF FormTypes
<1>8. ASSUME NEW w \in Workers, DeleteFields(w) PROVE Goal
  <2>1. task[w] \in FormEdits
    BY <1>8, FormPlace DEF DeleteFields, At, FormPlaces
  <2>2. PICK f \in FormIds : f = task[w].form
    BY <2>1 DEF FormEdits
  <2>3. PICK row : row = [form[f] EXCEPT !.fields = {}]
    OBVIOUS
  <2>4. /\ form' = [form EXCEPT ![f] = row] /\ UNCHANGED <<visitor, versions>>
        /\ submission' = [s \in Submissions |->
             [submission[s] EXCEPT !.answers = @ \ form[f].fields]]
        /\ Goto(w, "insertFields")
    BY <1>8, <2>2, <2>3 DEF DeleteFields
  <2>5. row \in FormRows /\ row.slug = form[f].slug
    BY <1>t, <2>3 DEF FormRows
  <2>6. form[f].slug \in Slugs
    BY <2>1, <2>2 DEF FormTypes, RequestsNamed, Named
  <2>7. PICK u : u = [task[w] EXCEPT !.pc = "insertFields"]
    OBVIOUS
  <2>8. u \in FormEdits /\ u.op = task[w].op /\ u.form = f /\ Become(w, u)
    BY <2>1, <2>2, <2>4, <2>7, FormEditMoves DEF Goto
  <2>9. Turn(FormTasks)
    BY <1>0, <2>1, <2>8, TurnOn
  <2>10. Named(u)'
    BY <1>t, <2>4, <2>5, <2>6, <2>8 DEF Named
  <2>11. RequestsNamed'
    BY <1>t, <2>4, <2>5, <2>8, <2>10, NamedStep DEF FormTypes
  <2>12. FormsNamed'
    BY <1>t, <1>n, <2>4, <2>5, <2>6 DEF FormsNamed, FormExists
  <2>13. submission' \in [Submissions -> SubmissionRows]
    <3>1. ASSUME NEW s \in Submissions
          PROVE  [submission[s] EXCEPT !.answers = @ \ form[f].fields] \in SubmissionRows
      BY <1>t DEF SubmissionRows
    <3> QED
      BY <2>4, <3>1
  <2>14. FormTypeOK'
    BY <1>t, <1>e, <2>4, <2>5, <2>13
  <2> QED
    BY <2>9, <2>11, <2>12, <2>14 DEF FormTypes
<1>9. ASSUME NEW w \in Workers, NEW f \in FormIds, NEW answers \in SUBSET Versions,
             Submit(w, f, answers)
      PROVE  Goal
  <2> DEFINE t == [op |-> "Submit", pc |-> "insertSubmission", form |-> f,
                   answers |-> answers]
  <2>1. t \in NewSubmissions /\ t.op = "Submit"
    BY DEF NewSubmissions
  <2>2. Accepts(w, "Submit") /\ Become(w, t) /\ UNCHANGED forms
    BY <1>9 DEF Submit
  <2> HIDE DEF t
  <2>3. Turn(FormTasks)
    BY <1>0, <2>1, <2>2, TurnNew
  <2>4. FormsNamed' /\ RequestsNamed'
    BY <2>1, <2>2, QuietStep DEF forms
  <2> QED
    BY <1>u, <2>2, <2>3, <2>4 DEF FormTypes
<1>10. ASSUME NEW w \in Workers, NEW s \in Submissions, NEW status \in {"pending", "approved"},
              InsertSubmission(w, s, status)
       PROVE  Goal
  <2>1. task[w] \in NewSubmissions
    BY <1>10, FormPlace DEF InsertSubmission, At, FormPlaces
  <2>2. task[w].op = "Submit" /\ task[w].form \in FormIds /\ task[w].answers \in SUBSET Versions
    BY <2>1 DEF NewSubmissions
  <2>3. PICK t : t = [op |-> "Submit", pc |-> "insertAnswers", submission |-> s,
                      answers |-> task[w].answers]
    OBVIOUS
  <2>4. t \in NewAnswers /\ t.op = "Submit"
    BY <2>2, <2>3 DEF NewAnswers
  <2>5. Become(w, t) /\ UNCHANGED <<formRows, visitor>>
    BY <1>10, <2>3 DEF InsertSubmission
  <2>6. PICK row : row = [NoSubmission EXCEPT !.form = task[w].form, !.status = status]
    OBVIOUS
  <2>7. row \in SubmissionRows
    <3>1. NoSubmission \in SubmissionRows
      BY FormsAssumption DEF NoSubmission, SubmissionRows
    <3> QED
      BY <2>2, <2>6, <3>1 DEF SubmissionRows
  <2>8. submission' = [submission EXCEPT ![s] = row]
    BY <1>10, <2>6 DEF InsertSubmission
  <2>9. Turn(FormTasks)
    BY <1>0, <2>1, <2>2, <2>4, <2>5, TurnOn
  <2>10. FormsNamed' /\ RequestsNamed'
    BY <2>4, <2>5, QuietStep DEF formRows
  <2>11. FormTypeOK'
    BY <1>t, <1>e, <2>5, <2>7, <2>8 DEF formRows
  <2> QED
    BY <2>9, <2>10, <2>11 DEF FormTypes
<1>11. ASSUME NEW w \in Workers, NEW s \in Submissions,
              NEW status \in {"pending", "approved", "rejected"}, UpdateStatus(w, s, status)
       PROVE  Goal
  <2>1. PICK link \in Linked(s) :
          Become(w, [op |-> "UpdateStatus", pc |-> "saveSubmission", submission |-> s,
                     status |-> status, answers |-> submission[s].answers, link |-> link])
    BY <1>11 DEF UpdateStatus
  <2>2. link \in 0..MaxVisits
    BY <1>t, FormsAssumption DEF Linked, SubmissionRows
  <2>3. PICK t : t = [op |-> "UpdateStatus", pc |-> "saveSubmission", submission |-> s,
                      status |-> status, answers |-> submission[s].answers, link |-> link]
    OBVIOUS
  <2>4. t \in SubmissionEdits /\ t.op = "UpdateStatus"
    BY <1>t, <2>2, <2>3 DEF SubmissionEdits, SubmissionRows
  <2>5. Accepts(w, "UpdateStatus") /\ Become(w, t) /\ UNCHANGED forms
    BY <1>11, <2>1, <2>3 DEF UpdateStatus
  <2>6. Turn(FormTasks)
    BY <1>0, <2>4, <2>5, TurnNew
  <2>7. FormsNamed' /\ RequestsNamed'
    BY <2>4, <2>5, QuietStep DEF forms
  <2> QED
    BY <1>u, <2>5, <2>6, <2>7 DEF FormTypes
<1>12. ASSUME NEW w \in Workers, NEW s \in Submissions, CreateVisit(w, s) PROVE Goal
  <2>1. PICK t : t = [op |-> "CreateVisit", pc |-> "findVisitor", submission |-> s,
                      status |-> "approved", answers |-> submission[s].answers, link |-> 0]
    OBVIOUS
  <2>2. t \in FormVisits /\ t.op = "CreateVisit"
    BY <1>t, <2>1 DEF FormVisits, SubmissionRows
  <2>3. Accepts(w, "CreateVisit") /\ Become(w, t) /\ UNCHANGED forms
    BY <1>12, <2>1 DEF CreateVisit
  <2>4. Turn(FormTasks)
    BY <1>0, <2>2, <2>3, TurnNew
  <2>5. FormsNamed' /\ RequestsNamed'
    BY <2>2, <2>3, QuietStep DEF forms
  <2> QED
    BY <1>u, <2>3, <2>4, <2>5 DEF FormTypes
<1>13. ASSUME NEW w \in Workers, InsertAnswers(w) PROVE Goal
  <2>1. task[w] \in NewAnswers
    BY <1>13, FormPlace DEF InsertAnswers, At, FormPlaces
  <2>2. task[w].submission \in Submissions /\ task[w].answers \in SUBSET Versions
    BY <2>1 DEF NewAnswers
  <2>3. Finish(w) /\ UNCHANGED <<formRows, visitor>>
    BY <1>13 DEF InsertAnswers
  <2>4. submission' \in [Submissions -> SubmissionRows]
    BY <1>13, <1>t, <2>2 DEF InsertAnswers, SubmissionRows
  <2>5. Turn(FormTasks)
    BY <1>0, <2>1, <2>3, TurnEnd
  <2>6. FormsNamed' /\ RequestsNamed'
    BY <2>3, QuietStep DEF formRows, Finish
  <2>7. FormTypeOK'
    BY <1>t, <1>e, <2>3, <2>4 DEF formRows
  <2> QED
    BY <2>5, <2>6, <2>7 DEF FormTypes
<1>14. ASSUME NEW w \in Workers, FindVisitor(w) PROVE Goal
  <2>1. task[w] \in FormVisits
    BY <1>14, FormPlace DEF FindVisitor, At, FormPlaces
  <2>2. PICK pc \in {"insertVisit", "insertVisitor"} : Goto(w, pc)
    BY <1>14 DEF FindVisitor
  <2>3. PICK u : u = [task[w] EXCEPT !.pc = pc]
    OBVIOUS
  <2>4. u \in FormVisits /\ u.op = task[w].op /\ Become(w, u)
    BY <2>1, <2>2, <2>3, FormVisitMoves DEF Goto
  <2>5. Turn(FormTasks)
    BY <1>0, <2>1, <2>4, TurnOn
  <2>6. UNCHANGED forms
    BY <1>14 DEF FindVisitor
  <2>7. FormsNamed' /\ RequestsNamed'
    BY <2>4, <2>6, QuietStep DEF forms
  <2> QED
    BY <1>u, <2>5, <2>6, <2>7 DEF FormTypes
<1>15. ASSUME NEW w \in Workers, InsertVisitor(w) PROVE Goal
  <2>1. task[w] \in FormVisits
    BY <1>15, FormPlace DEF InsertVisitor, At, FormPlaces
  <2>2. PICK u : u = [task[w] EXCEPT !.pc = "insertVisit"]
    OBVIOUS
  <2>3. u \in FormVisits /\ u.op = task[w].op /\ Become(w, u)
    BY <1>15, <2>1, <2>2, FormVisitMoves DEF InsertVisitor, Goto
  <2>4. Turn(FormTasks)
    BY <1>0, <2>1, <2>3, TurnOn
  <2>5. visitor' = TRUE /\ UNCHANGED <<formRows, submission>>
    BY <1>15 DEF InsertVisitor
  <2>6. FormsNamed' /\ RequestsNamed'
    BY <2>3, <2>5, QuietStep DEF formRows
  <2>7. FormTypeOK'
    BY <1>t, <1>e, <2>5 DEF formRows
  <2> QED
    BY <2>4, <2>6, <2>7 DEF FormTypes
<1>16. ASSUME NEW w \in Workers, InsertVisit(w) PROVE Goal
  <2>1. task[w] \in FormVisits
    BY <1>16, FormPlace DEF InsertVisit, At, FormPlaces
  <2>2. PICK u : u = [task[w] EXCEPT !.pc = "saveSubmission"]
    OBVIOUS
  <2>3. u \in FormVisits /\ u.op = task[w].op /\ Become(w, u)
    BY <1>16, <2>1, <2>2, FormVisitMoves DEF InsertVisit, Goto
  <2>4. PICK s \in Submissions : s = task[w].submission
    BY <2>1 DEF FormVisits
  <2>5. PICK n \in 1..MaxVisits : n = submission[s].made + 1
    BY <1>16, <1>t, <2>4, FormsAssumption DEF InsertVisit, SubmissionRows
  <2>6. PICK row : row = [submission[s] EXCEPT !.made = n, !.linked = @ \cup {n}]
    OBVIOUS
  <2>7. row \in SubmissionRows
    <3>1. submission[s] \in SubmissionRows
      BY <1>t
    <3>2. submission[s].linked \cup {n} \in SUBSET (1..MaxVisits) /\ n \in 0..MaxVisits
      BY <2>5, <3>1, FormsAssumption DEF SubmissionRows
    <3> QED
      BY <2>6, <3>1, <3>2 DEF SubmissionRows
  <2>8. submission' = [submission EXCEPT ![s] = row] /\ UNCHANGED <<formRows, visitor>>
    BY <1>16, <1>t, <2>4, <2>5, <2>6 DEF InsertVisit
  <2>9. Turn(FormTasks)
    BY <1>0, <2>1, <2>3, TurnOn
  <2>10. FormsNamed' /\ RequestsNamed'
    BY <2>3, <2>8, QuietStep DEF formRows
  <2>11. FormTypeOK'
    BY <1>t, <1>e, <2>7, <2>8 DEF formRows
  <2> QED
    BY <2>9, <2>10, <2>11 DEF FormTypes
<1>17. ASSUME NEW w \in Workers, SaveSubmission(w) PROVE Goal
  <2>1. task[w] \in SubmissionEdits \cup FormVisits
    BY <1>17, FormPlace DEF SaveSubmission, At, FormPlaces
  <2>2. PICK t : t = task[w]
    OBVIOUS
  <2>3. /\ t.submission \in Submissions /\ t.status \in {"pending", "approved", "rejected"}
        /\ t.answers \in SUBSET Versions /\ t.link \in 0..MaxVisits
    BY <2>1, <2>2, FormsAssumption DEF SubmissionEdits, FormVisits
  <2>4. PICK s \in Submissions : s = t.submission
    BY <2>3
  <2>5. \E link \in Linked(s) :
          LET linked == IF t.link = 0 THEN submission[s].linked \ {link}
                        ELSE submission[s].linked \cup {t.link}
          IN  submission' = [submission EXCEPT ![s].status = t.status,
                                               ![s].answers = t.answers,
                                               ![s].linked = linked]
    BY <1>17, <2>2, <2>4 DEF SaveSubmission
  <2>6. PICK link \in Linked(s) :
          submission' = [submission EXCEPT ![s].status = t.status,
                           ![s].answers = t.answers,
                           ![s].linked = IF t.link = 0 THEN submission[s].linked \ {link}
                                         ELSE submission[s].linked \cup {t.link}]
    BY <2>5
  <2>7. PICK linked : linked = IF t.link = 0 THEN submission[s].linked \ {link}
                               ELSE submission[s].linked \cup {t.link}
    OBVIOUS
  <2>8. linked \in SUBSET (1..MaxVisits)
    BY <1>t, <2>3, <2>7, FormsAssumption DEF SubmissionRows
  <2>9. PICK row : row = [submission[s] EXCEPT !.status = t.status, !.answers = t.answers,
                                               !.linked = linked]
    OBVIOUS
  <2>10. row \in SubmissionRows
    <3>1. submission[s] \in SubmissionRows
      BY <1>t
    <3> QED
      BY <2>3, <2>8, <2>9, <3>1 DEF SubmissionRows
  <2>11. submission' = [submission EXCEPT ![s] = row]
    BY <1>t, <2>6, <2>7, <2>9
  <2>12. Finish(w) /\ UNCHANGED <<formRows, visitor>>
    BY <1>17 DEF SaveSubmission
  <2>13. Turn(FormTasks)
    BY <1>0, <2>1, <2>12, TurnEnd
  <2>14. FormsNamed' /\ RequestsNamed'
    BY <2>12, QuietStep DEF formRows, Finish
  <2>15. FormTypeOK'
    BY <1>t, <1>e, <2>10, <2>11, <2>12 DEF formRows
  <2> QED
    BY <2>13, <2>14, <2>15 DEF FormTypes
<1>18. ASSUME NEW w \in Workers, Refused(w) PROVE Goal
  <2>1. task[w] \in FormTasks
    BY <1>0, <1>18, FormPlace
      DEF Refused, FormRefused, SubmissionRefused, At, FormPlaces
  <2>2. Finish(w) /\ UNCHANGED forms
    BY <1>18 DEF Refused
  <2>3. Turn(FormTasks)
    BY <2>1, <2>2, TurnEnd
  <2>4. FormsNamed' /\ RequestsNamed'
    BY <2>2, QuietStep DEF forms, Finish
  <2> QED
    BY <1>u, <2>2, <2>3, <2>4 DEF FormTypes
<1> HIDE DEF Goal
<1>19. Goal
  BY <1>1, <1>2, <1>3, <1>4, <1>5, <1>6, <1>7, <1>8, <1>9, <1>10, <1>11, <1>12, <1>13, <1>14,
     <1>15, <1>16, <1>17, <1>18 DEF FormNext
<1> QED
  BY <1>19 DEF Goal

-----------------------------------------------------------------------------
(* Roles: what a step does to the requests and the rows.                   *)

LEMMA RolePlace ==
  ASSUME DeskTypes, NEW w \in Workers
  PROVE  RolePlaces(task[w])
BY TasksPlaced DEF DeskTypes, AllPlaces

Changes == PermissionChanges \cup RoleEdits

Nexts == {"remove", "assign", "idle"}

LEMMA ChangeFields ==
  ASSUME NEW t \in Changes
  PROVE  /\ t.role \in RoleIds /\ t.copy \in RoleRows
         /\ t.remove \in SUBSET Permissions /\ t.assign \in SUBSET Permissions
         /\ t.then \in {"remove", "assign", "idle"}
BY DEF Changes, PermissionChanges, RoleEdits

\* A change of a role goes on to another place, with another copy.
LEMMA ChangeMoves ==
  ASSUME NEW t \in Changes, NEW pc \in {"remove", "assign", "saveRole"}, NEW copy \in RoleRows
  PROVE  /\ [t EXCEPT !.pc = pc] \in Changes /\ [t EXCEPT !.pc = pc].op = t.op
         /\ [t EXCEPT !.pc = pc, !.copy = copy] \in Changes
         /\ [t EXCEPT !.pc = pc, !.copy = copy].op = t.op
<1>1. CASE t \in PermissionChanges
  BY <1>1 DEF Changes, PermissionChanges
<1>2. CASE t \in RoleEdits
  BY <1>2 DEF Changes, RoleEdits
<1> QED
  BY <1>1, <1>2 DEF Changes

\* A change of a role is about to save the copy, and knows what it does then.
LEMMA ChangeCopies ==
  ASSUME NEW t \in Changes, NEW copy \in RoleRows, NEW next \in Nexts,
         NEW u, u = [t EXCEPT !.pc = "saveRole", !.then = next, !.copy = copy]
  PROVE  u \in Changes /\ u.op = t.op
<1>1. CASE t \in PermissionChanges
  BY <1>1 DEF Changes, PermissionChanges, Nexts
<1>2. CASE t \in RoleEdits
  BY <1>2 DEF Changes, RoleEdits, Nexts
<1> QED
  BY <1>1, <1>2 DEF Changes

LEMMA RoleTurns ==
  ASSUME DeskTypes, RoleTypeOK, RoleNext
  PROVE  Turn(RoleTasks) /\ RoleTypeOK'
<1> DEFINE Goal == Turn(RoleTasks) /\ RoleTypeOK'
<1>0. NewRoles \cup Changes \cup RoleDeletions \cup NewPermissions \subseteq RoleTasks
  BY DEF RoleTasks, Changes
<1>t. role \in [RoleIds -> RoleRows] /\ permission \subseteq Permissions
  BY DEF RoleTypeOK, RoleRows
<1>e. ASSUME role' \in [RoleIds -> RoleRows], permission' \subseteq Permissions
      PROVE  RoleTypeOK'
  BY <1>e DEF RoleTypeOK, RoleRows
<1>u. ASSUME UNCHANGED roles PROVE RoleTypeOK'
  BY <1>t, <1>e, <1>u DEF roles
<1>n. NoRole \in RoleRows
  BY DEF NoRole, RoleRows
<1>1. ASSUME NEW w \in Workers, SaveRole(w) PROVE Goal
  <2>1. task[w] \in Changes
    BY <1>1, RolePlace DEF SaveRole, At, RolePlaces, Changes
  <2>2. PICK t : t = task[w]
    OBVIOUS
  <2>3. t.role \in RoleIds /\ t.copy \in RoleRows /\ t.then \in {"remove", "assign", "idle"}
    BY <2>1, <2>2, ChangeFields
  <2>4. role' = [role EXCEPT ![t.role] = t.copy] /\ UNCHANGED permission
    BY <1>1, <2>2 DEF SaveRole
  <2>5. ASSUME Finish(w) PROVE Turn(RoleTasks)
    BY <1>0, <2>1, <2>5, TurnEnd
  <2>6. ASSUME Goto(w, t.then), t.then # "idle" PROVE Turn(RoleTasks)
    <3>1. PICK pc \in {"remove", "assign"} : pc = t.then
      BY <2>3, <2>6
    <3>2. PICK u : u = [t EXCEPT !.pc = pc]
      OBVIOUS
    <3>3. u \in Changes /\ u.op = t.op
      BY <1>n, <2>1, <2>2, <3>2, ChangeMoves
    <3>4. Become(w, u)
      BY <2>2, <2>6, <3>1, <3>2 DEF Goto
    <3> QED
      BY <1>0, <2>1, <2>2, <3>3, <3>4, TurnOn
  <2>7. Turn(RoleTasks)
    BY <1>1, <2>2, <2>5, <2>6 DEF SaveRole
  <2>8. role' \in [RoleIds -> RoleRows]
    BY <1>t, <2>3, <2>4
  <2> QED
    BY <1>t, <1>e, <2>4, <2>7, <2>8
<1>2. ASSUME NEW w \in Workers, RoleRefused(w) PROVE Goal
  <2>1. task[w] \in Changes
    BY <1>2, RolePlace DEF RoleRefused, At, RolePlaces, Changes
  <2>2. Turn(RoleTasks)
    BY <1>0, <1>2, <2>1, TurnEnd DEF RoleRefused
  <2> QED
    BY <1>2, <1>u, <2>2 DEF RoleRefused
<1>3. ASSUME NEW w \in Workers, RemoveRead(w) PROVE Goal
  <2>1. task[w] \in Changes
    BY <1>3, RolePlace DEF RemoveRead, At, RolePlaces, Changes
  <2>2. PICK t \in Changes : t = task[w]
    BY <2>1
  <2>3. PICK copy : copy = [role[t.role] EXCEPT !.permissions = @ \ t.remove]
    OBVIOUS
  <2>4. copy \in RoleRows
    <3>1. role[t.role] \in RoleRows
      BY <1>t, ChangeFields
    <3> QED
      BY <2>3, <3>1 DEF RoleRows
  <2>5. PICK next \in Nexts : next = Remaining({}, t.assign)
    BY DEF Remaining, Nexts
  <2>6. PICK u : u = [t EXCEPT !.pc = "saveRole", !.then = next, !.copy = copy]
    OBVIOUS
  <2>7. u \in Changes /\ u.op = t.op
    BY <2>4, <2>6, ChangeCopies
  <2>8. Become(w, u)
    BY <1>3, <2>2, <2>3, <2>5, <2>6 DEF RemoveRead
  <2>9. Turn(RoleTasks)
    BY <1>0, <2>2, <2>7, <2>8, TurnOn
  <2> QED
    BY <1>3, <1>u, <2>9 DEF RemoveRead
<1>4. ASSUME NEW w \in Workers, AssignRead(w) PROVE Goal
  <2>1. task[w] \in Changes
    BY <1>4, RolePlace DEF AssignRead, At, RolePlaces, Changes
  <2>2. PICK t \in Changes : t = task[w]
    BY <2>1
  <2>3. PICK copy : copy = [role[t.role] EXCEPT !.permissions = @ \cup t.assign]
    OBVIOUS
  <2>4. copy \in RoleRows
    <3>1. role[t.role] \in RoleRows /\ t.assign \in SUBSET Permissions
      BY <1>t, ChangeFields
    <3> QED
      BY <2>3, <3>1 DEF RoleRows
  <2>5. PICK u : u = [t EXCEPT !.pc = "saveRole", !.then = "idle", !.copy = copy]
    OBVIOUS
  <2>6. u \in Changes /\ u.op = t.op
    <3>1. "idle" \in Nexts
      BY DEF Nexts
    <3> QED
      BY <2>4, <2>5, <3>1, ChangeCopies
  <2>7. Become(w, u)
    BY <1>4, <2>2, <2>3, <2>5 DEF AssignRead
  <2>8. Turn(RoleTasks)
    BY <1>0, <2>2, <2>6, <2>7, TurnOn
  <2> QED
    BY <1>4, <1>u, <2>8 DEF AssignRead
<1>5. ASSUME NEW w \in Workers, NotFound(w) PROVE Goal
  <2>1. task[w] \in RoleTasks
    BY <1>0, <1>5, RolePlace DEF NotFound, At, RolePlaces, Changes
  <2>2. Turn(RoleTasks)
    BY <1>5, <2>1, TurnEnd DEF NotFound
  <2> QED
    BY <1>5, <1>u, <2>2 DEF NotFound
<1>6. ASSUME NEW w \in Workers, NEW office \in Offices \cup {NoOffice},
             NEW assign \in SUBSET Permissions, NEW n \in Names, NEW system \in BOOLEAN,
             CreateRole(w, n, office, system, assign)
      PROVE  Goal
  <2>1. PICK copy : copy = [NoRole EXCEPT !.state = "live", !.name = n, !.office = office,
                                          !.system = system]
    OBVIOUS
  <2>2. copy \in RoleRows
    BY <1>n, <2>1 DEF RoleRows
  <2>3. PICK t : t = [op |-> "CreateRole", pc |-> "insertRole", assign |-> assign, copy |-> copy]
    OBVIOUS
  <2>4. t \in NewRoles /\ t.op = "CreateRole"
    BY <2>2, <2>3 DEF NewRoles
  <2>5. Accepts(w, "CreateRole") /\ Become(w, t) /\ UNCHANGED roles
    BY <1>6, <2>1, <2>3 DEF CreateRole
  <2>6. Turn(RoleTasks)
    BY <1>0, <2>4, <2>5, TurnNew
  <2> QED
    BY <1>u, <2>5, <2>6
<1>7. ASSUME NEW w \in Workers, NEW office \in Offices \cup {NoOffice},
             NEW assign \in SUBSET Permissions, NEW r \in RoleIds, NEW n \in Names \cup {"none"},
             NEW replaced \in BOOLEAN, NEW mark \in {"kept", "set", "cleared"},
             UpdateRole(w, r, n, office, mark, replaced, assign)
      PROVE  Goal
  <2>1. PICK then \in {"remove", "assign", "idle"} :
          then = IF replaced THEN Remaining(role[r].permissions, assign) ELSE "idle"
    BY DEF Remaining
  <2>2. role[r].permissions \in SUBSET Permissions
    BY <1>t DEF RoleRows
  <2>3. PICK t : t = [op |-> "UpdateRole", pc |-> "updateRole", role |-> r, name |-> n,
                      office |-> office, mark |-> mark, copy |-> NoRole, then |-> then,
                      remove |-> role[r].permissions, assign |-> assign]
    OBVIOUS
  <2>4. t \in RoleEdits /\ t.op = "UpdateRole"
    BY <1>n, <2>2, <2>3 DEF RoleEdits
  <2>5. Accepts(w, "UpdateRole") /\ Become(w, t) /\ UNCHANGED roles
    BY <1>7, <2>1, <2>3 DEF UpdateRole
  <2>6. Turn(RoleTasks)
    BY <1>0, <2>4, <2>5, TurnNew DEF Changes
  <2> QED
    BY <1>u, <2>5, <2>6
<1>8. ASSUME NEW w \in Workers, NEW r \in RoleIds, InsertRole(w, r) PROVE Goal
  <2>1. task[w] \in NewRoles
    BY <1>8, RolePlace DEF InsertRole, At, RolePlaces
  <2>2. /\ task[w].copy \in RoleRows /\ task[w].assign \in SUBSET Permissions
        /\ task[w].op = "CreateRole"
    BY <2>1 DEF NewRoles
  <2>3. PICK t : t = [op |-> "CreateRole", pc |-> "assign", role |-> r, remove |-> {},
                      assign |-> task[w].assign, copy |-> NoRole, then |-> "idle"]
    OBVIOUS
  <2>4. t \in PermissionChanges /\ t.op = "CreateRole"
    BY <1>n, <2>2, <2>3 DEF PermissionChanges
  <2>5. ASSUME Finish(w) PROVE Turn(RoleTasks)
    BY <1>0, <2>1, <2>5, TurnEnd
  <2>6. ASSUME Become(w, t) PROVE Turn(RoleTasks)
    BY <1>0, <2>1, <2>2, <2>4, <2>6, TurnOn DEF Changes
  <2>7. Turn(RoleTasks)
    BY <1>8, <2>3, <2>5, <2>6 DEF InsertRole
  <2>8. role' \in [RoleIds -> RoleRows] /\ UNCHANGED permission
    BY <1>8, <1>t, <2>2 DEF InsertRole
  <2> QED
    BY <1>t, <1>e, <2>7, <2>8
<1>9. ASSUME NEW w \in Workers, NEW r \in RoleIds, DeleteRole(w, r) PROVE Goal
  <2>1. PICK t : t = [op |-> "DeleteRole", pc |-> "deleteRole", role |-> r]
    OBVIOUS
  <2>2. t \in RoleDeletions /\ t.op = "DeleteRole"
    BY <2>1 DEF RoleDeletions
  <2>3. Accepts(w, "DeleteRole") /\ Become(w, t) /\ UNCHANGED roles
    BY <1>9, <2>1 DEF DeleteRole
  <2>4. Turn(RoleTasks)
    BY <1>0, <2>2, <2>3, TurnNew
  <2> QED
    BY <1>u, <2>3, <2>4
<1>10. ASSUME NEW w \in Workers, NEW r \in RoleIds, NEW remove \in SUBSET Permissions,
              NEW assign \in SUBSET Permissions, ChangePermissions(w, r, remove, assign)
       PROVE  Goal
  <2>1. PICK pc \in {"remove", "assign"} : pc = Remaining(remove, assign)
    BY <1>10 DEF ChangePermissions, Remaining
  <2>2. PICK t : t = [op |-> "ChangePermissions", pc |-> pc, role |-> r, remove |-> remove,
                      assign |-> assign, copy |-> NoRole, then |-> "idle"]
    OBVIOUS
  <2>3. t \in PermissionChanges /\ t.op = "ChangePermissions"
    BY <1>n, <2>1, <2>2 DEF PermissionChanges
  <2>4. Accepts(w, "ChangePermissions") /\ Become(w, t) /\ UNCHANGED roles
    BY <1>10, <2>1, <2>2 DEF ChangePermissions
  <2>5. Turn(RoleTasks)
    BY <1>0, <2>3, <2>4, TurnNew DEF Changes
  <2> QED
    BY <1>u, <2>4, <2>5
<1>11. ASSUME NEW w \in Workers, UpdateRead(w) PROVE Goal
  <2>1. task[w] \in RoleEdits
    BY <1>11, RolePlace DEF UpdateRead, At, RolePlaces
  <2>2. PICK t \in RoleEdits : t = task[w]
    BY <2>1
  <2>3. PICK old \in RoleRows : old = role[t.role]
    BY <1>t DEF RoleEdits
  <2>4. PICK name \in Names \cup {"none"} : name = IF t.name = "none" THEN old.name ELSE t.name
    BY DEF RoleEdits, RoleRows
  <2>5. PICK system \in BOOLEAN : system = (CASE t.mark = "kept" -> old.system
                                              [] t.mark = "set" -> TRUE
                                              [] t.mark = "cleared" -> FALSE)
    <3>1. t.mark \in {"kept", "set", "cleared"} /\ old.system \in BOOLEAN
      BY DEF RoleEdits, RoleRows
    <3> QED
      BY <3>1
  <2>6. PICK office \in Offices \cup {NoOffice} :
          office = IF old.office = NoOffice THEN t.office ELSE old.office
    BY DEF RoleEdits, RoleRows
  <2>7. PICK copy : copy = [old EXCEPT !.name = name, !.system = system, !.office = office]
    OBVIOUS
  <2>8. copy \in RoleRows
    BY <2>7 DEF RoleRows
  <2>9. PICK u : u = [t EXCEPT !.pc = "saveRole", !.copy = copy]
    OBVIOUS
  <2>10. u \in Changes /\ u.op = t.op /\ t \in Changes
    BY <2>8, <2>9, ChangeMoves DEF Changes
  <2>11. copy = [old EXCEPT !.name = IF t.name = "none" THEN @ ELSE t.name,
                            !.system = CASE t.mark = "kept" -> @
                                         [] t.mark = "set" -> TRUE
                                         [] t.mark = "cleared" -> FALSE,
                            !.office = IF old.office = NoOffice THEN t.office ELSE @]
    BY <2>4, <2>5, <2>6, <2>7 DEF RoleRows
  <2>12. Become(w, u)
    BY <1>11, <2>2, <2>3, <2>9, <2>11 DEF UpdateRead
  <2>13. Turn(RoleTasks)
    BY <1>0, <2>2, <2>10, <2>12, TurnOn
  <2> QED
    BY <1>11, <1>u, <2>13 DEF UpdateRead
<1>12. ASSUME NEW w \in Workers, DeleteRead(w) PROVE Goal
  <2>1. task[w] \in RoleDeletions
    BY <1>12, RolePlace DEF DeleteRead, At, RolePlaces
  <2>2. PICK u : u = [task[w] EXCEPT !.pc = "removeRow"]
    OBVIOUS
  <2>3. u \in RoleDeletions /\ u.op = task[w].op
    BY <2>1, <2>2 DEF RoleDeletions
  <2>4. Become(w, u)
    BY <1>12, <2>2 DEF DeleteRead, Goto
  <2>5. Turn(RoleTasks)
    BY <1>0, <2>1, <2>3, <2>4, TurnOn
  <2> QED
    BY <1>12, <1>u, <2>5 DEF DeleteRead
<1>13. ASSUME NEW w \in Workers, DeleteRow(w) PROVE Goal
  <2>1. task[w] \in RoleDeletions
    BY <1>13, RolePlace DEF DeleteRow, At, RolePlaces
  <2>2. PICK r \in RoleIds : r = task[w].role
    BY <2>1 DEF RoleDeletions
  <2>3. PICK row : row = [role[r] EXCEPT !.state = "deleted", !.permissions = {}]
    OBVIOUS
  <2>4. row \in RoleRows
    BY <1>t, <2>3 DEF RoleRows
  <2>5. role' = [role EXCEPT ![r] = row] /\ UNCHANGED permission
    BY <1>13, <1>t, <2>2, <2>3 DEF DeleteRow
  <2>6. Turn(RoleTasks)
    BY <1>0, <1>13, <2>1, TurnEnd DEF DeleteRow
  <2> QED
    BY <1>t, <1>e, <2>4, <2>5, <2>6
<1>14. ASSUME NEW w \in Workers, NEW p \in Permissions, SavePermission(w, p) PROVE Goal
  <2>1. PICK t : t = [op |-> "SavePermission", pc |-> "savePermission", permission |-> p]
    OBVIOUS
  <2>2. t \in NewPermissions /\ t.op = "SavePermission"
    BY <2>1 DEF NewPermissions
  <2>3. Accepts(w, "SavePermission") /\ Become(w, t) /\ UNCHANGED roles
    BY <1>14, <2>1 DEF SavePermission
  <2>4. Turn(RoleTasks)
    BY <1>0, <2>2, <2>3, TurnNew
  <2> QED
    BY <1>u, <2>3, <2>4
<1>15. ASSUME NEW w \in Workers, NEW p \in Permissions, DeletePermission(w, p) PROVE Goal
  <2>1. Turn(RoleTasks)
    BY <1>15, TurnStay DEF DeletePermission
  <2>2. ASSUME NEW r \in RoleIds
        PROVE  [role[r] EXCEPT !.permissions = @ \ {p}] \in RoleRows
    BY <1>t DEF RoleRows
  <2>3. role' \in [RoleIds -> RoleRows] /\ permission' \subseteq Permissions
    BY <1>15, <1>t, <2>2 DEF DeletePermission
  <2> QED
    BY <1>e, <2>1, <2>3
<1>16. ASSUME NEW w \in Workers, InsertPermission(w) PROVE Goal
  <2>1. task[w] \in NewPermissions
    BY <1>16, RolePlace DEF InsertPermission, At, RolePlaces
  <2>2. task[w].permission \in Permissions
    BY <2>1 DEF NewPermissions
  <2>3. Turn(RoleTasks)
    BY <1>0, <1>16, <2>1, TurnEnd DEF InsertPermission
  <2> QED
    BY <1>16, <1>t, <1>e, <2>2, <2>3 DEF InsertPermission
<1> HIDE DEF Goal
<1>17. Goal
  BY <1>1, <1>2, <1>3, <1>4, <1>5, <1>6, <1>7, <1>8, <1>9, <1>10, <1>11, <1>12, <1>13, <1>14,
     <1>15, <1>16 DEF RoleNext
<1> QED
  BY <1>17 DEF Goal

-----------------------------------------------------------------------------
(* Images: what a step does to the requests and the rows.                  *)

LEMMA ImagePlace ==
  ASSUME DeskTypes, NEW w \in Workers
  PROVE  ImagePlaces(task[w])
BY TasksPlaced DEF DeskTypes, AllPlaces

UploadPlaces == {"headBucket", "createBucket", "putObject", "writeDisk"}

LEMMA UploadMoves ==
  ASSUME NEW t \in Uploads, NEW pc \in UploadPlaces
  PROVE  /\ [t EXCEPT !.pc = pc] \in Uploads /\ [t EXCEPT !.pc = pc].op = t.op
         /\ [t EXCEPT !.pc = pc].file = t.file
BY DEF Uploads, UploadPlaces

LEMMA UploadTurns ==
  ASSUME NEW w \in Workers, task[w] \in Uploads, NEW pc \in UploadPlaces, Goto(w, pc)
  PROVE  Turn(ImageTasks)
<1>1. PICK u : u = [task[w] EXCEPT !.pc = pc]
  OBVIOUS
<1>2. u \in Uploads /\ u.op = task[w].op /\ Become(w, u)
  BY <1>1, UploadMoves DEF Goto
<1> QED
  BY <1>2, TurnOn DEF ImageTasks

LEMMA StoreTurns ==
  ASSUME NEW w \in Workers, task[w] \in Uploads, NEW at \in {"s3", "disk"},
         NEW known \in BOOLEAN, Store(w, at, known), ImageTypes
  PROVE  Turn(ImageTasks) /\ ImageTypes'
<1>1. PICK url : url = [at |-> at, file |-> task[w].file]
  OBVIOUS
<1>2. url \in AnyUrls /\ task[w].op = "Upload" /\ task[w].owner \in Owners
  BY <1>1 DEF AnyUrls, Uploads
<1>3. stored' = stored \cup {url} /\ UNCHANGED <<usesS3, buckets, image, uploads>>
  BY <1>1 DEF Store
<1>4. ASSUME known PROVE Turn(ImageTasks) /\ UNCHANGED workload
  <2>1. PICK t : t = [op |-> "Upload", pc |-> "saveImage", owner |-> task[w].owner, url |-> url]
    OBVIOUS
  <2>2. t \in NewImages /\ t.op = "Upload"
    BY <1>2, <2>1 DEF NewImages
  <2>3. Become(w, t)
    BY <1>1, <1>4, <2>1 DEF Store
  <2> QED
    BY <1>2, <2>2, <2>3, TurnOn DEF ImageTasks, Become
<1>5. ASSUME ~known PROVE Turn(ImageTasks) /\ UNCHANGED workload
  <2>1. Goto(w, "writeDisk") /\ UNCHANGED workload
    BY <1>5 DEF Store, Goto, Become
  <2> QED
    BY <2>1, UploadTurns DEF UploadPlaces
<1> QED
  BY <1>2, <1>3, <1>4, <1>5 DEF ImageTypes

LEMMA ImageTurns ==
  ASSUME DeskTypes, ImageTypes, ImageNext
  PROVE  Turn(ImageTasks) /\ ImageTypes'
<1> DEFINE Goal == Turn(ImageTasks) /\ ImageTypes'
<1>0. Uploads \cup NewImages \cup SupplierEdits \subseteq ImageTasks
  BY DEF ImageTasks
<1>s. workload.size \in Nat
  BY WorkloadsAssumption DEF DeskTypes
<1>u. ASSUME UNCHANGED files, UNCHANGED workload PROVE ImageTypes'
  BY <1>u DEF files, ImageTypes
<1>1. ASSUME Restart PROVE Goal
  <2>1. task' = [w \in Workers |-> Idle] /\ UNCHANGED workload /\ workload.fails
    BY <1>1 DEF Restart
  <2>2. Halts
    BY <2>1 DEF Halts
  <2>3. Turn(ImageTasks)
    BY <2>2 DEF Turn
  <2> QED
    BY <1>1, <2>3 DEF Restart, ImageTypes
<1>2. ASSUME NEW w \in Workers, NEW o \in Owners, Upload(w, o) PROVE Goal
  <2>1. PICK pc \in {"headBucket", "writeDisk"} : pc = IF usesS3 THEN "headBucket" ELSE "writeDisk"
    OBVIOUS
  <2>2. PICK t : t = [op |-> "Upload", pc |-> pc, owner |-> o, file |-> uploads + 1]
    OBVIOUS
  <2>3. uploads \in 0..workload.size /\ uploads < workload.size
    BY <1>2 DEF Upload, ImageTypes
  <2>4. t \in Uploads /\ t.op = "Upload"
    BY <1>s, <2>1, <2>2, <2>3 DEF Uploads
  <2>5. Accepts(w, "Upload") /\ Become(w, t)
    BY <1>2, <2>1, <2>2 DEF Upload
  <2>6. Turn(ImageTasks)
    BY <1>0, <2>4, <2>5, TurnNew
  <2>7. uploads' \in 0..workload.size /\ UNCHANGED workload
    BY <1>2, <1>s, <2>3, <2>5 DEF Upload, Become
  <2> QED
    BY <1>2, <2>6, <2>7 DEF Upload, ImageTypes
<1>3. ASSUME NEW w \in Workers, HeadBucket(w) PROVE Goal
  <2>1. task[w] \in Uploads
    BY <1>3, ImagePlace DEF HeadBucket, At, ImagePlaces
  <2>2. PICK pc \in UploadPlaces : Goto(w, pc)
    BY <1>3 DEF HeadBucket, UploadPlaces
  <2>3. Turn(ImageTasks)
    BY <2>1, <2>2, UploadTurns
  <2> QED
    BY <1>3, <1>u, <2>2, <2>3 DEF HeadBucket, Goto, Become
<1>4. ASSUME NEW w \in Workers, CreateBucket(w) PROVE Goal
  <2>1. task[w] \in Uploads
    BY <1>4, ImagePlace DEF CreateBucket, At, ImagePlaces
  <2>2. Turn(ImageTasks)
    BY <1>4, <2>1, UploadTurns DEF CreateBucket, UploadPlaces
  <2>3. task[w].owner \in Owners
    BY <2>1 DEF Uploads
  <2> QED
    BY <1>4, <2>2, <2>3 DEF CreateBucket, ImageTypes, Goto, Become
<1>5. ASSUME NEW w \in Workers, CreateBucketRefused(w) PROVE Goal
  <2>1. task[w] \in Uploads
    BY <1>5, ImagePlace DEF CreateBucketRefused, At, ImagePlaces
  <2>2. Turn(ImageTasks)
    BY <1>5, <2>1, UploadTurns DEF CreateBucketRefused, UploadPlaces
  <2> QED
    BY <1>5, <1>u, <2>2 DEF CreateBucketRefused, Goto, Become
<1>6. ASSUME NEW w \in Workers, FallsBack(w) PROVE Goal
  <2>1. task[w] \in Uploads
    BY <1>6, ImagePlace DEF FallsBack, At, ImagePlaces
  <2>2. Turn(ImageTasks)
    BY <1>6, <2>1, UploadTurns DEF FallsBack, UploadPlaces
  <2> QED
    BY <1>6, <1>u, <2>2 DEF FallsBack, Goto, Become
<1>7. ASSUME NEW w \in Workers, PutObject(w) PROVE Goal
  <2>1. task[w] \in Uploads
    BY <1>7, ImagePlace DEF PutObject, At, ImagePlaces
  <2>2. Store(w, "s3", TRUE) \/ Store(w, "s3", FALSE)
    BY <1>7 DEF PutObject
  <2> QED
    BY <2>1, <2>2, StoreTurns
<1>8. ASSUME NEW w \in Workers, WriteDisk(w) PROVE Goal
  <2>1. task[w] \in Uploads /\ Store(w, "disk", TRUE)
    BY <1>8, ImagePlace DEF WriteDisk, At, ImagePlaces
  <2> QED
    BY <2>1, StoreTurns
<1>9. ASSUME NEW w \in Workers, NEW o \in Owners, SaveImage(w, o) PROVE Goal
  <2>1. task[w] \in NewImages
    BY <1>9, ImagePlace DEF SaveImage, At, ImagePlaces
  <2>2. Turn(ImageTasks)
    BY <1>0, <1>9, <2>1, TurnEnd DEF SaveImage
  <2>3. task[w].url \in AnyUrls
    BY <2>1 DEF NewImages
  <2> QED
    BY <1>9, <2>2, <2>3 DEF SaveImage, ImageTypes, Finish, Become
<1>10. ASSUME NEW w \in Workers, EditSupplier(w) PROVE Goal
  <2>1. PICK t : t = [op |-> "EditSupplier", pc |-> "saveRow", image |-> image["supplier"]]
    OBVIOUS
  <2>2. t \in SupplierEdits /\ t.op = "EditSupplier"
    BY <2>1 DEF SupplierEdits, ImageTypes, Owners
  <2>3. Accepts(w, "EditSupplier") /\ Become(w, t)
    BY <1>10, <2>1 DEF EditSupplier
  <2>4. Turn(ImageTasks)
    BY <1>0, <2>2, <2>3, TurnNew
  <2> QED
    BY <1>10, <1>u, <2>3, <2>4 DEF EditSupplier, Become
<1>11. ASSUME NEW w \in Workers, SaveSupplier(w) PROVE Goal
  <2>1. task[w] \in SupplierEdits
    BY <1>11, ImagePlace DEF SaveSupplier, At, ImagePlaces
  <2>2. Turn(ImageTasks)
    BY <1>0, <1>11, <2>1, TurnEnd DEF SaveSupplier
  <2>3. task[w].image \in AnyUrls \cup {NoImage}
    BY <2>1 DEF SupplierEdits
  <2> QED
    BY <1>11, <2>2, <2>3 DEF SaveSupplier, ImageTypes, Finish, Become
<1> HIDE DEF Goal
<1>12. ASSUME NEW w \in Workers, UploadEmployee(w) \/ UploadVisitor(w) \/ UploadSupplier(w)
       PROVE  Goal
  BY <1>2, <1>12 DEF UploadEmployee, UploadVisitor, UploadSupplier, Owners
<1>13. ASSUME NEW w \in Workers,
              SaveEmployeeImage(w) \/ SaveVisitorImage(w) \/ SaveSupplierImage(w)
       PROVE  Goal
  BY <1>9, <1>13 DEF SaveEmployeeImage, SaveVisitorImage, SaveSupplierImage, Owners
<1>14. Goal
  BY <1>1, <1>3, <1>4, <1>5, <1>6, <1>7, <1>8, <1>10, <1>11, <1>12, <1>13 DEF ImageNext
<1> QED
  BY <1>14 DEF Goal

-----------------------------------------------------------------------------
(* Preferences: what a step does to the requests and the rows.             *)

LEMMA PreferencePlace ==
  ASSUME DeskTypes, NEW w \in Workers
  PROVE  PreferencePlaces(task[w])
BY TasksPlaced DEF DeskTypes, AllPlaces

LEMMA SaveTurns ==
  ASSUME NEW w \in Workers, NEW op, op \in {"CreatePreference", "UpdatePreference"},
         NEW row \in AnyPreferences, Accepts(w, op), Save(w, op, row)
  PROVE  Turn(PreferenceTasks) /\ UNCHANGED workload
<1>1. PICK t : t = [op |-> op, pc |-> "savePreference", row |-> row]
  OBVIOUS
<1>2. t \in SavedPreferences /\ t.op = op
  BY <1>1 DEF SavedPreferences
<1>3. Become(w, t)
  BY <1>1 DEF Save
<1> QED
  BY <1>2, <1>3, TurnNew DEF PreferenceTasks, Become

LEMMA PreferenceTurns ==
  ASSUME DeskTypes, PreferenceTypes, PreferenceNext
  PROVE  Turn(PreferenceTasks) /\ PreferenceTypes'
<1> DEFINE Goal == Turn(PreferenceTasks) /\ PreferenceTypes'
<1>0. SavedPreferences \cup Removals \subseteq PreferenceTasks
  BY DEF PreferenceTasks
<1>s. workload.size \in Nat /\ lastId \in 0..workload.size /\ preferences \subseteq AnyPreferences
  BY WorkloadsAssumption DEF DeskTypes, PreferenceTypes
<1>u. ASSUME UNCHANGED settings, UNCHANGED workload PROVE PreferenceTypes'
  BY <1>u DEF settings, PreferenceTypes
<1>v. ASSUME NEW k, NEW p \in Preferred(k), NEW v \in Values
      PROVE  p \in AnyPreferences /\ [p EXCEPT !.value = v] \in AnyPreferences
  BY <1>s DEF Preferred, AnyPreferences
<1>1. ASSUME NEW w \in Workers, SavePreference(w) PROVE Goal
  <2>1. task[w] \in SavedPreferences
    BY <1>1, PreferencePlace DEF SavePreference, At, PreferencePlaces
  <2>2. PICK r \in AnyPreferences : r = task[w].row
    BY <2>1 DEF SavedPreferences
  <2>3. PICK id : id = IF r.id = Unsaved THEN lastId + 1 ELSE r.id
    OBVIOUS
  <2>4. id \in Nat
    BY <1>s, <2>3 DEF AnyPreferences
  <2>5. id <= workload.size
    BY <1>1, <2>2, <2>3 DEF SavePreference
  <2>6. Turn(PreferenceTasks) /\ UNCHANGED workload
    BY <1>0, <1>1, <2>1, TurnEnd DEF SavePreference, Finish, Become
  <2>7. [r EXCEPT !.id = id] \in AnyPreferences
    BY <2>4 DEF AnyPreferences
  <2>8. ASSUME preferences' = {p \in preferences : p.id # id} \cup {[r EXCEPT !.id = id]},
               lastId' = IF id > lastId THEN id ELSE lastId
        PROVE  PreferenceTypes'
    BY <1>s, <2>4, <2>5, <2>6, <2>7, <2>8 DEF PreferenceTypes
  <2> QED
    BY <1>1, <1>u, <2>2, <2>3, <2>6, <2>8 DEF SavePreference
<1>2. ASSUME NEW w \in Workers, RemovePreference(w) PROVE Goal
  <2>1. task[w] \in Removals
    BY <1>2, PreferencePlace DEF RemovePreference, At, PreferencePlaces
  <2>2. Turn(PreferenceTasks) /\ UNCHANGED workload
    BY <1>0, <1>2, <2>1, TurnEnd DEF RemovePreference, Finish, Become
  <2> QED
    BY <1>2, <1>s, <2>2 DEF RemovePreference, PreferenceTypes
<1>3. ASSUME NEW w \in Workers, NEW k \in Kinds, RemovalOf(w, k) PROVE Goal
  <2>1. PICK p \in Preferred(k) :
          Become(w, [op |-> "RemovePreference", pc |-> "removePreference", row |-> p])
    BY <1>3 DEF RemovalOf
  <2>2. PICK t : t = [op |-> "RemovePreference", pc |-> "removePreference", row |-> p]
    OBVIOUS
  <2>3. t \in Removals /\ t.op = "RemovePreference"
    BY <1>s, <2>2 DEF Removals, Preferred
  <2>4. Accepts(w, "RemovePreference") /\ Become(w, t) /\ UNCHANGED settings
    BY <1>3, <2>1, <2>2 DEF RemovalOf
  <2>5. Turn(PreferenceTasks)
    BY <1>0, <2>3, <2>4, TurnNew
  <2> QED
    BY <1>u, <2>4, <2>5 DEF Become
<1>4. ASSUME NEW w \in Workers, NEW k \in Kinds, NEW v \in Values, CreatePreference(w, k, v)
      PROVE  Goal
  <2>1. Accepts(w, "CreatePreference") /\ UNCHANGED settings
    BY <1>4 DEF CreatePreference
  <2>2. ASSUME NEW p \in Preferred(k), Save(w, "CreatePreference", [p EXCEPT !.value = v])
        PROVE  Goal
    <3>1. PICK row \in AnyPreferences : row = [p EXCEPT !.value = v]
      BY <1>v
    <3>2. Turn(PreferenceTasks) /\ UNCHANGED workload
      BY <2>1, <2>2, <3>1, SaveTurns
    <3> QED
      BY <1>u, <2>1, <3>2
  <2>3. ASSUME Save(w, "CreatePreference", [id |-> Unsaved, kind |-> k, value |-> v])
        PROVE  Goal
    <3>1. PICK row \in AnyPreferences : row = [id |-> Unsaved, kind |-> k, value |-> v]
      BY DEF Unsaved, AnyPreferences
    <3>2. Turn(PreferenceTasks) /\ UNCHANGED workload
      BY <2>1, <2>3, <3>1, SaveTurns
    <3> QED
      BY <1>u, <2>1, <3>2
  <2> HIDE DEF Goal
  <2> QED
    BY <1>4, <2>2, <2>3 DEF CreatePreference
<1>5. ASSUME NEW w \in Workers, NEW k \in Kinds, NEW v \in Values, UpdatePreference(w, k, v)
      PROVE  Goal
  <2>1. Accepts(w, "UpdatePreference") /\ UNCHANGED settings
    BY <1>5 DEF UpdatePreference
  <2>2. PICK p \in Preferred(k) : Save(w, "UpdatePreference", [p EXCEPT !.value = v])
    BY <1>5 DEF UpdatePreference
  <2>3. PICK row \in AnyPreferences : row = [p EXCEPT !.value = v]
    BY <1>v
  <2>4. Turn(PreferenceTasks) /\ UNCHANGED workload
    BY <2>1, <2>2, <2>3, SaveTurns
  <2> QED
    BY <1>u, <2>1, <2>4
<1> HIDE DEF Goal
<1>6. Goal
  BY <1>1, <1>2, <1>3, <1>4, <1>5 DEF PreferenceNext
<1> QED
  BY <1>6 DEF Goal

-----------------------------------------------------------------------------
(* Steps of the office.                                                    *)

LEMMA TasksOfServices ==
  /\ CardTasks \cup CacheTasks \cup FormTasks \subseteq Tasks \ {Idle}
  /\ RoleTasks \cup ImageTasks \cup PreferenceTasks \subseteq Tasks \ {Idle}
BY TasksApart DEF Tasks

LEMMA BreakKeeps ==
  ASSUME NEW X, Idle \notin X, DeskTypes, Halts \/ UNCHANGED desk
  PROVE  Kept(X)
BY DEF Halts, desk, Kept, DeskTypes

LEMMA AbortHalts ==
  ASSUME DeskTypes, NEW w \in Workers, Abort(w)
  PROVE  Halts
<1>1. workload.fails /\ task' = [task EXCEPT ![w] = Idle] /\ UNCHANGED workload
  BY DEF Abort, Finish, Become
<1> QED
  BY <1>1 DEF Halts, DeskTypes

\* A service does a step, or its rows and its requests stay.
StepsOfServices ==
  /\ CardNext \/ (UNCHANGED locating /\ Kept(CardTasks))
  /\ CacheNext \/ (UNCHANGED chatCache /\ Kept(CacheTasks))
  /\ FormNext \/ (UNCHANGED forms /\ Kept(FormTasks))
  /\ RoleNext \/ (UNCHANGED roles /\ Kept(RoleTasks))
  /\ ImageNext \/ (UNCHANGED files /\ Kept(ImageTasks))
  /\ PreferenceNext \/ (UNCHANGED settings /\ Kept(PreferenceTasks))

LEMMA NextSteps ==
  ASSUME TypeInv, [Next]_vars
  PROVE  /\ StepsOfServices
         /\ \/ Halts \/ UNCHANGED desk
            \/ \E Z \in {CardTasks, CacheTasks, FormTasks, RoleTasks, ImageTasks, PreferenceTasks} :
                 Turn(Z)
<1> DEFINE Turns ==
             \/ Halts \/ UNCHANGED desk
             \/ \E Z \in {CardTasks, CacheTasks, FormTasks, RoleTasks, ImageTasks,
                          PreferenceTasks} : Turn(Z)
           Goal == StepsOfServices /\ Turns
<1> USE DEF TypeInv
<1>1. ASSUME CardNext, UNCHANGED <<chatCache, forms, roles, files, settings>> PROVE Goal
  <2>1. Turn(CardTasks)
    BY <1>1, CardTurns
  <2>2. /\ Kept(CacheTasks) /\ Kept(FormTasks) /\ Kept(RoleTasks) /\ Kept(ImageTasks)
        /\ Kept(PreferenceTasks)
    BY <2>1, TasksOfServices, TasksApart, TurnKeeps
  <2> QED
    BY <1>1, <2>1, <2>2 DEF StepsOfServices
<1>2. ASSUME CacheNext, UNCHANGED <<locating, forms, roles, files, settings>> PROVE Goal
  <2>1. Turn(CacheTasks)
    BY <1>2, CacheTurns
  <2>2. /\ Kept(CardTasks) /\ Kept(FormTasks) /\ Kept(RoleTasks) /\ Kept(ImageTasks)
        /\ Kept(PreferenceTasks)
    BY <2>1, TasksOfServices, TasksApart, TurnKeeps
  <2> QED
    BY <1>2, <2>1, <2>2 DEF StepsOfServices
<1>3. ASSUME FormNext, UNCHANGED <<locating, chatCache, roles, files, settings>> PROVE Goal
  <2>1. Turn(FormTasks)
    BY <1>3, FormTurns
  <2>2. /\ Kept(CardTasks) /\ Kept(CacheTasks) /\ Kept(RoleTasks) /\ Kept(ImageTasks)
        /\ Kept(PreferenceTasks)
    BY <2>1, TasksOfServices, TasksApart, TurnKeeps
  <2> QED
    BY <1>3, <2>1, <2>2 DEF StepsOfServices
<1>4. ASSUME RoleNext, UNCHANGED <<locating, chatCache, forms, files, settings>> PROVE Goal
  <2>1. Turn(RoleTasks)
    BY <1>4, RoleTurns
  <2>2. /\ Kept(CardTasks) /\ Kept(CacheTasks) /\ Kept(FormTasks) /\ Kept(ImageTasks)
        /\ Kept(PreferenceTasks)
    BY <2>1, TasksOfServices, TasksApart, TurnKeeps
  <2> QED
    BY <1>4, <2>1, <2>2 DEF StepsOfServices
<1>5. ASSUME ImageNext, UNCHANGED <<locating, chatCache, forms, roles, settings>> PROVE Goal
  <2>1. Turn(ImageTasks)
    BY <1>5, ImageTurns
  <2>2. /\ Kept(CardTasks) /\ Kept(CacheTasks) /\ Kept(FormTasks) /\ Kept(RoleTasks)
        /\ Kept(PreferenceTasks)
    BY <2>1, TasksOfServices, TasksApart, TurnKeeps
  <2> QED
    BY <1>5, <2>1, <2>2 DEF StepsOfServices
<1>6. ASSUME PreferenceNext, UNCHANGED <<locating, chatCache, forms, roles, files>> PROVE Goal
  <2>1. Turn(PreferenceTasks)
    BY <1>6, PreferenceTurns
  <2>2. /\ Kept(CardTasks) /\ Kept(CacheTasks) /\ Kept(FormTasks) /\ Kept(RoleTasks)
        /\ Kept(ImageTasks)
    BY <2>1, TasksOfServices, TasksApart, TurnKeeps
  <2> QED
    BY <1>6, <2>1, <2>2 DEF StepsOfServices
<1>7. ASSUME Halts \/ UNCHANGED desk,
             UNCHANGED <<locating, chatCache, forms, roles, files, settings>>
      PROVE  Goal
  <2>1. /\ Kept(CardTasks) /\ Kept(CacheTasks) /\ Kept(FormTasks) /\ Kept(RoleTasks)
        /\ Kept(ImageTasks) /\ Kept(PreferenceTasks)
    BY <1>7, TasksOfServices, BreakKeeps
  <2> QED
    BY <1>7, <2>1 DEF StepsOfServices
<1> HIDE DEF Goal
<1>8. Goal
  BY <1>1, <1>2, <1>3, <1>4, <1>5, <1>6, <1>7, AbortHalts DEF Next, vars
<1> QED
  BY <1>8 DEF Goal

LEMMA NextDesk ==
  ASSUME TypeInv, [Next]_vars
  PROVE  DeskTypes' /\ UNCHANGED workload /\ (DeskInv => DeskInv')
<1>1. DeskTypes
  BY DEF TypeInv
<1>2. ASSUME NEW Z, Z \subseteq Tasks \ {Idle}, Turn(Z)
      PROVE  DeskTypes' /\ UNCHANGED workload /\ (DeskInv => DeskInv')
  <2>1. UNCHANGED workload
    BY <1>2 DEF Turn, Moves, Become, Halts, desk
  <2> QED
    BY <1>1, <1>2, <2>1, TurnTypes, TurnDesk
<1>3. ASSUME Halts \/ UNCHANGED desk PROVE Turn(CardTasks)
  BY <1>3 DEF Turn
<1> QED
  BY <1>2, <1>3, NextSteps, TasksOfServices

\* The rows of every service keep their types.
LEMMA TypesInductive ==
  ASSUME TypeInv, [Next]_vars
  PROVE  TypeInv'
<1>1. DeskTypes' /\ UNCHANGED workload
  BY NextDesk
<1>2. StepsOfServices
  BY NextSteps
<1> USE DEF TypeInv
<1>3. CardTypeOK'
  <2>1. UNCHANGED locating => CardTypeOK'
    BY DEF locating, CardTypeOK
  <2> QED
    BY <1>2, <2>1, CardTurns DEF StepsOfServices
<1>4. CacheTypes'
  <2>1. UNCHANGED chatCache => CacheTypes'
    BY DEF chatCache, CacheTypes
  <2> QED
    BY <1>2, <2>1, CacheTurns DEF StepsOfServices
<1>5. FormTypes'
  <2>1. ASSUME UNCHANGED forms, Kept(FormTasks) PROVE FormTypes'
    <3>1. FormTypeOK' /\ FormsNamed'
      BY <2>1 DEF forms, FormTypes, FormTypeOK, FormsNamed, FormExists
    <3>2. ASSUME NEW w \in Workers, task'[w] \in NewFields \cup FormEdits \cup Deactivations
          PROVE  form'[task'[w].form].slug \in Slugs
      <4>1. task'[w] = task[w]
        BY <2>1, <3>2 DEF Kept, FormTasks
      <4> QED
        BY <2>1, <3>2, <4>1 DEF forms, FormTypes, RequestsNamed, Named
    <3> QED
      BY <3>1, <3>2 DEF FormTypes, RequestsNamed, Named
  <2> QED
    BY <1>2, <2>1, FormTurns DEF StepsOfServices
<1>6. RoleTypeOK'
  <2>1. UNCHANGED roles => RoleTypeOK'
    BY DEF roles, RoleTypeOK
  <2> QED
    BY <1>2, <2>1, RoleTurns DEF StepsOfServices
<1>7. ImageTypes'
  <2>1. UNCHANGED files => ImageTypes'
    BY <1>1 DEF files, ImageTypes
  <2> QED
    BY <1>2, <2>1, ImageTurns DEF StepsOfServices
<1>8. PreferenceTypes'
  <2>1. UNCHANGED settings => PreferenceTypes'
    BY <1>1 DEF settings, PreferenceTypes
  <2> QED
    BY <1>2, <2>1, PreferenceTurns DEF StepsOfServices
<1> QED
  BY <1>1, <1>3, <1>4, <1>5, <1>6, <1>7, <1>8

LEMMA TypesInitially ==
  ASSUME Init
  PROVE  TypeInv /\ DeskInv
<1> USE DEF Init
<1>1. DeskTypes
  BY DEF DeskTypes, Tasks
<1>w. workload.size \in Nat
  BY WorkloadsAssumption
<1>2. CardTypeOK
  BY LimitsAssumption DEF CardInit, CardTypeOK
<1>3. CacheTypes
  <2>1. <<>> \in Seq(Texts)
    OBVIOUS
  <2> QED
    BY <2>1 DEF CacheInit, CacheTypes, Lifetimes
<1>4. FormTypes
  <2>1. FormTypeOK
    <3>1. NoForm \in FormRows
      BY DEF NoForm, FormRows
    <3>2. NoSubmission \in SubmissionRows
      BY FormsAssumption DEF NoSubmission, SubmissionRows
    <3>3. visitor \in BOOLEAN
      BY Zenon DEF FormInit
    <3>4. versions \in 0..MaxVersions
      <4>1. versions = 0
        BY DEF FormInit
      <4> QED
        BY <4>1, FormsAssumption
    <3> QED
      BY <3>1, <3>2, <3>3, <3>4 DEF FormInit, FormTypeOK, FormRows, SubmissionRows
  <2>2. FormsNamed
    BY DEF FormsNamed, FormExists, FormInit
  <2>3. Idle \notin NewFields \cup FormEdits \cup Deactivations
    BY QuietRequest
  <2> QED
    BY <2>1, <2>2, <2>3 DEF FormTypes, RequestsNamed, Named
<1>5. RoleTypeOK
  BY DEF RoleInit, RoleTypeOK, NoRole
<1>6. ImageTypes
  <2>1. usesS3 \in BOOLEAN
    BY DEF ImageInit
  <2>2. uploads \in 0..workload.size
    BY <1>w DEF ImageInit
  <2> QED
    BY <2>1, <2>2 DEF ImageInit, ImageTypes
<1>7. PreferenceTypes
  BY <1>w DEF PreferenceInit, PreferenceTypes
<1>8. DeskInv
  BY IdlePlaced DEF DeskInv, At, AllPlaces
<1> QED
  BY <1>1, <1>2, <1>3, <1>4, <1>5, <1>6, <1>7, <1>8 DEF TypeInv

LEMMA TypesAlways == Spec => [](TypeInv /\ DeskInv)
<1>1. Init => TypeInv /\ DeskInv
  BY TypesInitially
<1>2. (TypeInv /\ DeskInv) /\ [Next]_vars => (TypeInv /\ DeskInv)'
  BY TypesInductive, NextDesk
<1> QED
  BY <1>1, <1>2, PTL DEF Spec

-----------------------------------------------------------------------------
(* Answers.                                                                *)

\* Of the steps about forms, three change answers: one keeps those of others,
\* one refuses to lose any, and one does not delete fields that are answered.
LEMMA AnswersStay ==
  ASSUME TypeInv, [Next]_vars, Synchronized, NEW s \in Submissions
  PROVE  submission[s].answers \subseteq submission'[s].answers
<1> DEFINE Goal == submission[s].answers \subseteq submission'[s].answers
<1>t. submission \in [Submissions -> SubmissionRows] /\ DeskTypes
  BY DEF TypeInv, FormTypes, FormTypeOK, SubmissionRows
<1>1. ASSUME UNCHANGED submission PROVE Goal
  BY <1>1
<1>2. ASSUME NEW w \in Workers, DeleteFields(w) PROVE Goal
  <2>1. submission'[s] = [submission[s] EXCEPT !.answers = @ \ form[task[w].form].fields]
    BY <1>2 DEF DeleteFields
  <2>2. submission[s].answers \cap form[task[w].form].fields = {}
    BY <1>2 DEF DeleteFields, Answered
  <2>3. submission'[s].answers = submission[s].answers \ form[task[w].form].fields
    BY <1>t, <2>1 DEF SubmissionRows
  <2> QED
    BY <2>2, <2>3
<1>3. ASSUME NEW w \in Workers, NEW x \in Submissions, NEW status, InsertSubmission(w, x, status)
      PROVE  Goal
  <2>1. submission[x] = NoSubmission
    BY <1>3 DEF InsertSubmission, IsNext, SubmissionExists
  <2>2. x # s => submission'[s] = submission[s]
    BY <1>t, <1>3 DEF InsertSubmission
  <2>3. NoSubmission.answers = {}
    BY DEF NoSubmission
  <2> QED
    BY <2>1, <2>2, <2>3
<1>4. ASSUME NEW w \in Workers, InsertAnswers(w) PROVE Goal
  BY <1>t, <1>4 DEF InsertAnswers, SubmissionRows
<1>5. ASSUME NEW w \in Workers, InsertVisit(w) PROVE Goal
  <2>1. PICK x, n, linked :
          submission' = [submission EXCEPT ![x].made = n, ![x].linked = linked]
    BY <1>5 DEF InsertVisit
  <2> QED
    BY <1>t, <2>1 DEF SubmissionRows
<1>6. ASSUME NEW w \in Workers, SaveSubmission(w) PROVE Goal
  <2>1. PICK t : t = task[w]
    OBVIOUS
  <2>2. submission[t.submission].answers \subseteq t.answers
    BY <1>6, <2>1 DEF SaveSubmission, MaySaveAnswers
  <2>3. PICK linked :
          submission' = [submission EXCEPT ![t.submission].status = t.status,
                                           ![t.submission].answers = t.answers,
                                           ![t.submission].linked = linked]
    BY <1>6, <2>1 DEF SaveSubmission
  <2>4. t.submission # s => submission'[s] = submission[s]
    BY <1>t, <2>3
  <2>5. t.submission = s => submission'[s].answers = t.answers
    BY <1>t, <2>3 DEF SubmissionRows
  <2> QED
    BY <2>2, <2>4, <2>5
<1>7. ASSUME FormNext PROVE Goal
  <2>1. \/ UNCHANGED submission
        \/ \E w \in Workers :
             \/ DeleteFields(w) \/ InsertAnswers(w) \/ InsertVisit(w) \/ SaveSubmission(w)
             \/ \E x \in Submissions, status \in {"pending", "approved"} :
                  InsertSubmission(w, x, status)
    <3> DEFINE Changing ==
          \E w \in Workers :
             \/ DeleteFields(w) \/ InsertAnswers(w) \/ InsertVisit(w) \/ SaveSubmission(w)
             \/ \E x \in Submissions, status \in {"pending", "approved"} :
                  InsertSubmission(w, x, status)
    <3>1. ASSUME NEW w \in Workers, CreateForm(w) PROVE UNCHANGED submission
      BY <3>1 DEF CreateForm, forms
    <3>2. ASSUME NEW w \in Workers, NEW f \in FormIds, InsertForm(w, f) \/ Deactivate(w, f)
          PROVE  UNCHANGED submission
      BY <3>2 DEF InsertForm, Deactivate, forms
    <3>3. ASSUME NEW w \in Workers, InsertFields(w) \/ PickSlug(w) \/ SaveForm(w)
          PROVE  UNCHANGED submission
      BY <3>3 DEF InsertFields, PickSlug, SaveForm, forms
    <3>4. ASSUME NEW w \in Workers, NEW f \in FormIds, NEW renamed \in BOOLEAN,
                 NEW replaced \in BOOLEAN, UpdateForm(w, f, renamed, replaced)
          PROVE  UNCHANGED submission
      BY <3>4 DEF UpdateForm, forms
    <3>5. ASSUME NEW w \in Workers, NEW f \in FormIds, NEW answers, Submit(w, f, answers)
          PROVE  UNCHANGED submission
      BY <3>5 DEF Submit, forms
    <3>6. ASSUME NEW w \in Workers, NEW x \in Submissions, NEW status,
                 UpdateStatus(w, x, status) \/ CreateVisit(w, x)
          PROVE  UNCHANGED submission
      BY <3>6 DEF UpdateStatus, CreateVisit, forms
    <3>7. ASSUME NEW w \in Workers, FindVisitor(w) \/ InsertVisitor(w) \/ Refused(w)
          PROVE  UNCHANGED submission
      BY <3>7 DEF FindVisitor, InsertVisitor, Refused, forms
    <3> QED
      BY <1>7, <3>1, <3>2, <3>3, <3>4, <3>5, <3>6, <3>7 DEF FormNext
  <2> QED
    BY <1>1, <1>2, <1>3, <1>4, <1>5, <1>6, <2>1
<1>8. FormNext \/ UNCHANGED submission
  BY NextSteps DEF StepsOfServices, forms
<1> QED
  BY <1>1, <1>7, <1>8

\* With the tables of the entities no edit of a form takes an answer from a
\* submission (Forms.AnswersKept), whatever the requests and however they
\* overlap.
THEOREM AnswersAreKept == Spec => AnswersKept
<1>1. TypeInv /\ [Next]_vars =>
        [Synchronized => \A s \in Submissions : submission[s].answers \subseteq submission'[s].answers
          ]_<<forms, workload>>
  BY AnswersStay
<1>2. Spec => []TypeInv
  BY TypesAlways, PTL
<1> QED
  BY <1>1, <1>2, PTL DEF Spec, AnswersKept

-----------------------------------------------------------------------------
(* Preferences.                                                            *)

LEMMA PreferenceInductive ==
  ASSUME TypeInv, PreferenceInv, [Next]_vars
  PROVE  PreferenceInv'
<1> DEFINE Row(t) == t \in PreferenceTasks => t.row.id <= lastId
<1>0. SavedPreferences \cup Removals \subseteq PreferenceTasks
  BY DEF PreferenceTasks
<1>d. DeskTypes /\ UNCHANGED workload /\ workload.size \in Nat
  BY NextDesk, WorkloadsAssumption DEF TypeInv, DeskTypes
<1>p. lastId \in 0..workload.size /\ \A w \in Workers : Row(task[w])
  BY DEF PreferenceInv, PreferenceTypeOK
<1>r. \A t \in PreferenceTasks : t.row.id \in Nat
  BY DEF PreferenceTasks, SavedPreferences, Removals, AnyPreferences
<1>i. Idle \notin PreferenceTasks
  BY TasksApart
<1>1. ASSUME UNCHANGED settings, \A w \in Workers : Row(task'[w]) PROVE PreferenceInv'
  BY <1>d, <1>1 DEF settings, PreferenceInv, PreferenceTypeOK
<1>2. ASSUME UNCHANGED settings, NEW w \in Workers, NEW t, Become(w, t), Row(t)
      PROVE  PreferenceInv'
  <2>1. \A u \in Workers : Row(task'[u])
    BY <1>d, <1>p, <1>2 DEF Become, DeskTypes
  <2> QED
    BY <1>1, <1>2, <2>1
<1>3. ASSUME UNCHANGED settings, Kept(PreferenceTasks) PROVE PreferenceInv'
  <2>1. \A u \in Workers : Row(task'[u])
    BY <1>p, <1>3 DEF Kept
  <2> QED
    BY <1>1, <1>3, <2>1
<1>v. ASSUME NEW k, NEW p \in Preferred(k), NEW v \in Values
      PROVE  [p EXCEPT !.value = v].id <= lastId /\ p.id <= lastId
  <2>1. p \in [id : 1..lastId, kind : Kinds, value : Values]
    BY DEF Preferred, PreferenceInv, PreferenceTypeOK
  <2> QED
    BY <1>p, <2>1
<1>s. ASSUME NEW w \in Workers, NEW op, NEW row, Save(w, op, row), row.id <= lastId,
             UNCHANGED settings
      PROVE  PreferenceInv'
  <2>1. PICK t : t = [op |-> op, pc |-> "savePreference", row |-> row]
    OBVIOUS
  <2>2. Become(w, t) /\ Row(t)
    BY <1>s, <2>1 DEF Save
  <2> QED
    BY <1>2, <1>s, <2>2
<1>4. ASSUME NEW w \in Workers, NEW k \in Kinds, RemovalOf(w, k) PROVE PreferenceInv'
  <2>1. PICK p \in Preferred(k) :
          Become(w, [op |-> "RemovePreference", pc |-> "removePreference", row |-> p])
    BY <1>4 DEF RemovalOf
  <2>2. PICK t : t = [op |-> "RemovePreference", pc |-> "removePreference", row |-> p]
    OBVIOUS
  <2>3. Become(w, t) /\ t.row = p
    BY <2>1, <2>2
  <2>4. p.id <= lastId
    <3>1. p \in [id : 1..lastId, kind : Kinds, value : Values]
      BY DEF Preferred, PreferenceInv, PreferenceTypeOK
    <3> QED
      BY <1>p, <3>1
  <2> QED
    BY <1>2, <1>4, <2>3, <2>4 DEF RemovalOf
<1>5. ASSUME NEW w \in Workers, NEW k \in Kinds, NEW v \in Values, CreatePreference(w, k, v)
      PROVE  PreferenceInv'
  <2>1. UNCHANGED settings
    BY <1>5 DEF CreatePreference
  <2>2. ASSUME NEW p \in Preferred(k), Save(w, "CreatePreference", [p EXCEPT !.value = v])
        PROVE  PreferenceInv'
    <3>1. PICK row : row = [p EXCEPT !.value = v]
      OBVIOUS
    <3>2. row.id <= lastId
      BY <1>v, <3>1
    <3> QED
      BY <1>s, <2>1, <2>2, <3>1, <3>2
  <2>3. ASSUME Save(w, "CreatePreference", [id |-> Unsaved, kind |-> k, value |-> v])
        PROVE  PreferenceInv'
    <3>1. PICK row : row = [id |-> Unsaved, kind |-> k, value |-> v]
      OBVIOUS
    <3>2. row.id <= lastId
      BY <1>p, <1>d, <3>1 DEF Unsaved
    <3> QED
      BY <1>s, <2>1, <2>3, <3>1, <3>2
  <2> QED
    BY <1>5, <2>2, <2>3 DEF CreatePreference
<1>6. ASSUME NEW w \in Workers, NEW k \in Kinds, NEW v \in Values, UpdatePreference(w, k, v)
      PROVE  PreferenceInv'
  <2>1. PICK p \in Preferred(k) : Save(w, "UpdatePreference", [p EXCEPT !.value = v])
    BY <1>6 DEF UpdatePreference
  <2>2. PICK row : row = [p EXCEPT !.value = v]
    OBVIOUS
  <2>3. row.id <= lastId
    BY <1>v, <2>2
  <2> QED
    BY <1>6, <1>s, <2>1, <2>2, <2>3 DEF UpdatePreference
<1>7. ASSUME NEW w \in Workers, SavePreference(w) PROVE PreferenceInv'
  <2>1. task[w] \in SavedPreferences
    BY <1>7, <1>d, PreferencePlace DEF SavePreference, At, PreferencePlaces
  <2>2. PICK r \in AnyPreferences : r = task[w].row
    BY <2>1 DEF SavedPreferences
  <2>3. r.id <= lastId
    BY <1>0, <1>p, <2>1, <2>2
  <2>4. PICK id : id = IF r.id = Unsaved THEN lastId + 1 ELSE r.id
    OBVIOUS
  <2>5. id \in 1..workload.size /\ Become(w, Idle)
    BY <1>7, <1>d, <1>p, <2>2, <2>4 DEF SavePreference, Finish, AnyPreferences, Unsaved
  <2>6. ASSUME UNCHANGED settings PROVE PreferenceInv'
    BY <1>2, <1>i, <2>5, <2>6
  <2>7. ASSUME \A p \in Preferred(r.kind) : p.id = id,
               preferences' = {p \in preferences : p.id # id} \cup {[r EXCEPT !.id = id]},
               lastId' = IF id > lastId THEN id ELSE lastId
        PROVE  PreferenceInv'
    <3>1. lastId' \in 0..workload'.size /\ lastId <= lastId' /\ id <= lastId'
      BY <1>d, <1>p, <2>5, <2>7
    <3>2. PICK row : row = [r EXCEPT !.id = id]
      OBVIOUS
    <3>3. row \in [id : 1..lastId', kind : Kinds, value : Values] /\ row.id = id
          /\ row.kind = r.kind
      BY <1>d, <2>5, <3>1, <3>2 DEF AnyPreferences
    <3>4. ASSUME NEW p \in preferences
          PROVE  p \in [id : 1..lastId', kind : Kinds, value : Values]
      <4>1. p \in [id : 1..lastId, kind : Kinds, value : Values]
        BY DEF PreferenceInv, PreferenceTypeOK
      <4> QED
        BY <1>d, <1>p, <3>1, <4>1
    <3>5. preferences' = {p \in preferences : p.id # id} \cup {row}
      BY <2>7, <3>2
    <3>6. ASSUME NEW p \in preferences', NEW q \in preferences', p.kind = q.kind \/ p.id = q.id
          PROVE  p = q
      <4>1. \A x \in preferences : x.id # id => x.kind # row.kind
        BY <2>7, <3>3 DEF Preferred
      <4>2. CASE p = row \/ q = row
        BY <3>3, <3>5, <3>6, <4>1, <4>2
      <4>3. CASE p \in preferences /\ q \in preferences
        BY <3>6, <4>3 DEF PreferenceInv, PreferenceTypeOK
      <4> QED
        BY <3>5, <4>2, <4>3
    <3>7. PreferenceTypeOK'
      BY <3>1, <3>3, <3>4, <3>5, <3>6 DEF PreferenceTypeOK
    <3>8. ASSUME NEW u \in Workers, task'[u] \in PreferenceTasks
          PROVE  task'[u].row.id <= lastId'
      <4>1. task'[u] = task[u]
        BY <1>d, <1>i, <2>5, <3>8 DEF Become, DeskTypes
      <4>2. task[u].row.id <= lastId /\ task[u].row.id \in Nat
        BY <1>p, <1>r, <3>8, <4>1
      <4> QED
        BY <1>d, <1>p, <3>1, <4>1, <4>2
    <3> QED
      BY <3>7, <3>8 DEF PreferenceInv
  <2> QED
    BY <1>7, <2>2, <2>4, <2>6, <2>7 DEF SavePreference
<1>8. ASSUME NEW w \in Workers, RemovePreference(w) PROVE PreferenceInv'
  <2>1. Become(w, Idle) /\ UNCHANGED lastId /\ preferences' \subseteq preferences
    BY <1>8 DEF RemovePreference, Finish
  <2>2. \A u \in Workers : Row(task'[u])
    BY <1>d, <1>i, <1>p, <2>1 DEF Become, DeskTypes
  <2>3. PreferenceTypeOK'
    BY <1>d, <2>1 DEF PreferenceInv, PreferenceTypeOK
  <2> QED
    BY <2>1, <2>2, <2>3 DEF PreferenceInv
<1>9. PreferenceNext => PreferenceInv'
  BY <1>4, <1>5, <1>6, <1>7, <1>8 DEF PreferenceNext
<1> QED
  BY <1>3, <1>9, NextSteps DEF StepsOfServices

-----------------------------------------------------------------------------
(* Images.                                                                 *)

\* What a request about images may carry.
FileOK(t) ==
  /\ t \in Uploads => t.file \in 1..uploads
  /\ t \in NewImages => t.url \in stored
  /\ t \in SupplierEdits => t.image \in stored \cup {NoImage}

LEMMA ImagePcs ==
  ASSUME NEW t
  PROVE  /\ t \in Uploads => t.pc \in UploadPlaces /\ t.op = "Upload" /\ t.owner \in Owners
         /\ t \in NewImages => t.pc = "saveImage"
         /\ t \in SupplierEdits => t.pc = "saveRow"
BY DEF Uploads, UploadPlaces, NewImages, SupplierEdits

FilesOK ==
  /\ stored \subseteq Urls
  /\ \A o \in Owners : image[o] \in stored \cup {NoImage}
  /\ \A w \in Workers : FileOK(task[w])

LEMMA UploadsInvIs == DeskTypes => (UploadsInv <=> FilesOK)
<1> SUFFICES ASSUME DeskTypes PROVE UploadsInv <=> FilesOK
  OBVIOUS
<1>1. ASSUME NEW w \in Workers
      PROVE  /\ At(w, "saveImage") <=> task[w] \in NewImages
             /\ At(w, "saveRow") <=> task[w] \in SupplierEdits
  BY ImagePlace, ImagePcs DEF ImagePlaces, At
<1> QED
  BY <1>1 DEF UploadsInv, FilesOK, FileOK

LEMMA UploadsInvNext == DeskTypes' => (UploadsInv' <=> FilesOK')
BY UploadsInvIs, PTL

\* The request that goes on carries what it may, the others do as before.
LEMMA UploadsStep ==
  ASSUME DeskTypes, DeskTypes', UploadsInv, ImageTypes, uploads' \in Nat, uploads <= uploads',
         stored \subseteq stored', stored' \subseteq Urls',
         \A o \in Owners : image'[o] \in stored' \cup {NoImage},
         NEW w \in Workers, NEW t, Become(w, t), FileOK(t)'
  PROVE  UploadsInv'
<1>1. ASSUME NEW u \in Workers, u # w PROVE FileOK(task[u])'
  <2>1. task'[u] = task[u]
    BY <1>1 DEF Become, DeskTypes
  <2>2. PICK v : v = task[u]
    OBVIOUS
  <2>3. FileOK(v)
    BY <2>2, UploadsInvIs DEF FilesOK
  <2>4. uploads \in Nat
    BY WorkloadsAssumption DEF ImageTypes, DeskTypes
  <2>5. FileOK(v)'
    BY <2>3, <2>4 DEF FileOK
  <2> QED
    BY <2>1, <2>2, <2>5 DEF FileOK
<1>2. FileOK(task[w])'
  <2>1. task'[w] = t
    BY DEF Become, DeskTypes
  <2> QED
    BY <2>1 DEF FileOK
<1>3. \A u \in Workers : FileOK(task[u])'
  BY <1>1, <1>2
<1> QED
  BY <1>3, UploadsInvNext DEF FilesOK

LEMMA UploadsInductive ==
  ASSUME TypeInv, UploadsInv, [Next]_vars
  PROVE  UploadsInv'
<1>d. DeskTypes /\ DeskTypes' /\ ImageTypes
  BY NextDesk DEF TypeInv
<1>i. /\ stored \subseteq Urls /\ \A o \in Owners : image[o] \in stored \cup {NoImage}
      /\ \A w \in Workers : FileOK(task[w])
  BY <1>d, UploadsInvIs DEF FilesOK
<1>n. uploads \in Nat
  BY <1>d, WorkloadsAssumption DEF ImageTypes, DeskTypes
<1>z. Idle \notin Uploads \cup NewImages \cup SupplierEdits
  BY TasksApart DEF ImageTasks
<1>u. ASSUME UNCHANGED files, NEW w \in Workers, NEW t, Become(w, t), FileOK(t) PROVE UploadsInv'
  <2>1. FileOK(t)' /\ Urls' = Urls
    BY <1>u DEF files, FileOK, Urls
  <2> QED
    BY <1>d, <1>i, <1>n, <1>u, <2>1, UploadsStep DEF files
<1>g. ASSUME NEW w \in Workers, task[w] \in Uploads, NEW pc \in UploadPlaces, Goto(w, pc)
      PROVE  \E t : Become(w, t) /\ t \in Uploads /\ t.file = task[w].file /\ FileOK(t)
  <2>1. PICK t : t = [task[w] EXCEPT !.pc = pc]
    OBVIOUS
  <2>2. Become(w, t) /\ t \in Uploads /\ t.file = task[w].file /\ t.pc = pc
    BY <1>g, <2>1, UploadMoves DEF Goto, Uploads
  <2>3. task[w].file \in 1..uploads
    BY <1>g, <1>i DEF FileOK
  <2>4. FileOK(t)
    BY <2>2, <2>3, ImagePcs DEF FileOK, UploadPlaces
  <2> QED
    BY <2>2, <2>4
<1>1. ASSUME UNCHANGED files, \A w \in Workers : task'[w] \in ImageTasks => task'[w] = task[w]
      PROVE  UploadsInv'
  <2>1. ASSUME NEW w \in Workers PROVE FileOK(task[w])'
    BY <1>1, <1>i DEF files, FileOK, ImageTasks
  <2>2. (stored \subseteq Urls)' /\ (\A o \in Owners : image[o] \in stored \cup {NoImage})'
    BY <1>1, <1>i DEF files, Urls
  <2> QED
    BY <1>d, <2>1, <2>2, UploadsInvNext DEF FilesOK
<1>2. ASSUME Restart PROVE UploadsInv'
  <2>1. task' = [w \in Workers |-> Idle] /\ UNCHANGED <<buckets, stored, image, uploads>>
    BY <1>2 DEF Restart
  <2>2. ASSUME NEW w \in Workers PROVE FileOK(task[w])'
    BY <1>z, <2>1 DEF FileOK
  <2>3. (stored \subseteq Urls)' /\ (\A o \in Owners : image[o] \in stored \cup {NoImage})'
    BY <1>i, <2>1 DEF Urls
  <2> QED
    BY <1>d, <2>2, <2>3, UploadsInvNext DEF FilesOK
<1>3. ASSUME NEW w \in Workers, NEW o \in Owners, Upload(w, o) PROVE UploadsInv'
  <2>1. PICK t : t = [op |-> "Upload", pc |-> IF usesS3 THEN "headBucket" ELSE "writeDisk",
                      owner |-> o, file |-> uploads + 1]
    OBVIOUS
  <2>2. /\ Become(w, t) /\ t.file = uploads + 1 /\ uploads' = uploads + 1
        /\ UNCHANGED <<usesS3, buckets, stored, image>>
    BY <1>3, <2>1 DEF Upload
  <2>3. t.pc \in UploadPlaces
    BY <2>1 DEF UploadPlaces
  <2>4. FileOK(t)'
    BY <1>n, <2>2, <2>3, ImagePcs DEF FileOK, UploadPlaces
  <2>5. stored' \subseteq Urls'
    BY <1>i, <1>n, <2>2 DEF Urls
  <2> QED
    BY <1>d, <1>i, <1>n, <2>2, <2>4, <2>5, UploadsStep
<1>4. ASSUME NEW w \in Workers, UNCHANGED files, task[w] \in Uploads, NEW pc \in UploadPlaces,
             Goto(w, pc)
      PROVE  UploadsInv'
  BY <1>4, <1>g, <1>u
<1>5. ASSUME NEW w \in Workers, HeadBucket(w) \/ CreateBucketRefused(w) \/ FallsBack(w)
      PROVE  UploadsInv'
  <2>1. task[w] \in Uploads
    BY <1>5, <1>d, ImagePlace DEF HeadBucket, CreateBucketRefused, FallsBack, At, ImagePlaces
  <2>2. \E pc \in UploadPlaces : Goto(w, pc)
    BY <1>5 DEF HeadBucket, CreateBucketRefused, FallsBack, UploadPlaces
  <2> QED
    BY <1>4, <1>5, <2>1, <2>2 DEF HeadBucket, CreateBucketRefused, FallsBack
<1>6. ASSUME NEW w \in Workers, CreateBucket(w) PROVE UploadsInv'
  <2>1. task[w] \in Uploads /\ Goto(w, "putObject") /\ UNCHANGED <<usesS3, stored, image, uploads>>
    BY <1>6, <1>d, ImagePlace DEF CreateBucket, At, ImagePlaces
  <2>2. PICK t : Become(w, t) /\ FileOK(t)
    BY <2>1, <1>g DEF UploadPlaces
  <2>3. FileOK(t)' /\ Urls' = Urls
    BY <2>1, <2>2 DEF FileOK, Urls
  <2> QED
    BY <1>d, <1>i, <1>n, <2>1, <2>2, <2>3, UploadsStep
<1>7. ASSUME NEW w \in Workers, task[w] \in Uploads, NEW at \in {"s3", "disk"},
             NEW known \in BOOLEAN, Store(w, at, known)
      PROVE  UploadsInv'
  <2>1. PICK url : url = [at |-> at, file |-> task[w].file]
    OBVIOUS
  <2>2. stored' = stored \cup {url} /\ UNCHANGED <<usesS3, buckets, image, uploads>>
    BY <1>7, <2>1 DEF Store
  <2>3. task[w].file \in 1..uploads
    BY <1>7, <1>i DEF FileOK
  <2>4. stored' \subseteq Urls' /\ stored \subseteq stored' /\ url \in stored'
    BY <1>i, <2>1, <2>2, <2>3 DEF Urls
  <2>5. ASSUME NEW t, Become(w, t), FileOK(t)' PROVE UploadsInv'
    BY <1>d, <1>i, <1>n, <2>2, <2>4, <2>5, UploadsStep
  <2>6. ASSUME known PROVE UploadsInv'
    <3>1. PICK t : t = [op |-> "Upload", pc |-> "saveImage", owner |-> task[w].owner, url |-> url]
      OBVIOUS
    <3>2. Become(w, t) /\ t.pc = "saveImage" /\ t.url = url
      BY <1>7, <2>1, <2>6, <3>1 DEF Store
    <3>3. FileOK(t)'
      BY <2>4, <3>2, ImagePcs DEF FileOK, UploadPlaces
    <3> QED
      BY <2>5, <3>2, <3>3
  <2>7. ASSUME ~known PROVE UploadsInv'
    <3>1. Goto(w, "writeDisk")
      BY <1>7, <2>7 DEF Store
    <3>2. PICK t : Become(w, t) /\ FileOK(t) /\ t \in Uploads
      BY <1>7, <3>1, <1>g DEF UploadPlaces
    <3>3. FileOK(t)'
      BY <2>2, <3>2, ImagePcs DEF FileOK, UploadPlaces
    <3> QED
      BY <2>5, <3>2, <3>3
  <2> QED
    BY <2>6, <2>7
<1>8. ASSUME NEW w \in Workers, PutObject(w) \/ WriteDisk(w) PROVE UploadsInv'
  <2>1. task[w] \in Uploads
    BY <1>8, <1>d, ImagePlace DEF PutObject, WriteDisk, At, ImagePlaces
  <2>2. Store(w, "s3", TRUE) \/ Store(w, "s3", FALSE) \/ Store(w, "disk", TRUE)
    BY <1>8 DEF PutObject, WriteDisk
  <2> QED
    BY <1>7, <2>1, <2>2
<1>9. ASSUME NEW w \in Workers, NEW o \in Owners, NEW url \in stored \cup {NoImage},
             image' = [image EXCEPT ![o] = url], Finish(w),
             UNCHANGED <<usesS3, buckets, stored, uploads>>
      PROVE  UploadsInv'
  <2>1. FileOK(Idle)' /\ Urls' = Urls
    BY <1>9, <1>z DEF FileOK, Urls
  <2>2. \A x \in Owners : image'[x] \in stored' \cup {NoImage}
    BY <1>d, <1>i, <1>9 DEF ImageTypes
  <2> QED
    BY <1>d, <1>i, <1>n, <1>9, <2>1, <2>2, UploadsStep DEF Finish
<1>10. ASSUME NEW w \in Workers, NEW o \in Owners, SaveImage(w, o) PROVE UploadsInv'
  <2>1. task[w] \in NewImages
    BY <1>10, <1>d, ImagePlace DEF SaveImage, At, ImagePlaces
  <2>2. task[w].url \in stored
    BY <1>i, <2>1 DEF FileOK
  <2> QED
    BY <1>9, <1>10, <2>2 DEF SaveImage
<1>11. ASSUME NEW w \in Workers, SaveSupplier(w) PROVE UploadsInv'
  <2>1. task[w] \in SupplierEdits
    BY <1>11, <1>d, ImagePlace DEF SaveSupplier, At, ImagePlaces
  <2>2. task[w].image \in stored \cup {NoImage} /\ "supplier" \in Owners
    BY <1>i, <2>1 DEF FileOK, Owners
  <2> QED
    BY <1>9, <1>11, <2>2 DEF SaveSupplier
<1>12. ASSUME NEW w \in Workers, EditSupplier(w) PROVE UploadsInv'
  <2>1. PICK t : t = [op |-> "EditSupplier", pc |-> "saveRow", image |-> image["supplier"]]
    OBVIOUS
  <2>2. Become(w, t) /\ UNCHANGED files /\ t.pc = "saveRow" /\ t.image = image["supplier"]
    BY <1>12, <2>1 DEF EditSupplier
  <2>3. image["supplier"] \in stored \cup {NoImage}
    BY <1>i DEF Owners
  <2>4. FileOK(t)
    BY <2>2, <2>3, ImagePcs DEF FileOK, UploadPlaces
  <2> QED
    BY <1>u, <2>2, <2>4
<1>13. ASSUME NEW w \in Workers, UploadEmployee(w) \/ UploadVisitor(w) \/ UploadSupplier(w)
       PROVE  UploadsInv'
  BY <1>3, <1>13 DEF UploadEmployee, UploadVisitor, UploadSupplier, Owners
<1>14. ASSUME NEW w \in Workers,
              SaveEmployeeImage(w) \/ SaveVisitorImage(w) \/ SaveSupplierImage(w)
       PROVE  UploadsInv'
  BY <1>10, <1>14 DEF SaveEmployeeImage, SaveVisitorImage, SaveSupplierImage, Owners
<1>15. ImageNext => UploadsInv'
  BY <1>2, <1>5, <1>6, <1>8, <1>11, <1>12, <1>13, <1>14 DEF ImageNext
<1>16. UNCHANGED files /\ Kept(ImageTasks) => UploadsInv'
  BY <1>1 DEF Kept
<1> QED
  BY <1>15, <1>16, NextSteps DEF StepsOfServices

\* Requests that do not overlap: while one is under way, the others are idle.
LEMMA OthersIdle ==
  ASSUME DeskTypes, DeskInv, Serial, NEW w \in Workers, NEW u \in Workers, u # w,
         ~At(w, "idle") \/ \E op : Accepts(w, op)
  PROVE  task[u] = Idle /\ At(u, "idle")
<1>1. At(u, "idle")
  BY NobodyBusy DEF DeskInv, AtRest
<1> QED
  BY <1>1, TasksPlaced DEF DeskTypes, AllPlaces, At

\* One worker goes on, and the others stay where they are.
LEMMA OneGoesOn ==
  ASSUME DeskTypes, NEW w \in Workers, NEW t, Become(w, t)
  PROVE  /\ UNCHANGED workload
         /\ \A u \in Workers : task'[u] = IF u = w THEN t ELSE task[u]
BY DEF Become, DeskTypes

\* ... and they have nothing to do, if requests do not overlap.
LEMMA OneRequest ==
  ASSUME DeskTypes, DeskInv, Serial, NEW w \in Workers, NEW t, Become(w, t),
         ~At(w, "idle") \/ \E op : Accepts(w, op)
  PROVE  \A u \in Workers : task'[u] = IF u = w THEN t ELSE Idle
BY OthersIdle, OneGoesOn

LEMMA S3Inductive ==
  ASSUME TypeInv, DeskInv, S3Inv, [Next]_vars
  PROVE  S3Inv'
<1>d. DeskTypes /\ DeskTypes' /\ UNCHANGED workload /\ ImageTypes
  BY NextDesk DEF TypeInv
<1> SUFFICES ASSUME Serial, ~workload.fails, usesS3'
             PROVE  /\ \A url \in stored' : url.at = "s3"
                    /\ \A w \in Workers : /\ task'[w].pc # "writeDisk"
                                          /\ task'[w].pc = "createBucket" =>
                                               task'[w].owner \notin buckets'
  BY <1>d DEF S3Inv, Serial, At
<1> DEFINE Quiet(t) == t.pc # "writeDisk" /\ (t.pc = "createBucket" => t.owner \notin buckets')
           Goal == (\A url \in stored' : url.at = "s3") /\ \A w \in Workers : Quiet(task'[w])
<1>g. Goal => /\ \A url \in stored' : url.at = "s3"
              /\ \A w \in Workers : /\ task'[w].pc # "writeDisk"
                                    /\ task'[w].pc = "createBucket" =>
                                         task'[w].owner \notin buckets'
  OBVIOUS
<1>z. Quiet(Idle)
  BY DEF Idle
<1>i. usesS3 => /\ \A url \in stored : url.at = "s3"
                /\ \A w \in Workers : ~At(w, "writeDisk")
                /\ \A w \in Workers : At(w, "createBucket") => task[w].owner \notin buckets
  BY DEF S3Inv
<1>1. ASSUME NEW w \in Workers, NEW t, Become(w, t), Quiet(t),
             ~At(w, "idle") \/ (\E op : Accepts(w, op)), usesS3,
             \A url \in stored' : url.at = "s3"
      PROVE  Goal
  <2>1. ASSUME NEW u \in Workers, u # w PROVE Quiet(task'[u])
    <3>1. task[u] = Idle
      BY <1>1, <1>d, <2>1, OthersIdle
    <3>2. task'[u] = task[u]
      BY <1>1, <1>d, <2>1 DEF Become, DeskTypes
    <3> QED
      BY <1>z, <3>1, <3>2
  <2>2. task'[w] = t
    BY <1>1, <1>d DEF Become, DeskTypes
  <2> QED
    BY <1>1, <2>1, <2>2
<1>2. ASSUME UNCHANGED files, Kept(ImageTasks) PROVE Goal
  <2>1. ASSUME NEW w \in Workers PROVE Quiet(task'[w])
    <3>1. CASE task'[w] \in ImageTasks
      BY <1>2, <1>i, <3>1 DEF files, Kept, At
    <3>2. CASE task'[w] \notin ImageTasks
      BY <1>d, <3>2, TasksPlaced DEF DeskTypes, AllPlaces, ImagePlaces, ImageTasks
    <3> QED
      BY <3>1, <3>2
  <2> QED
    BY <1>2, <1>i, <2>1 DEF files
<1>3. ASSUME NEW w \in Workers, NEW o \in Owners, Upload(w, o) PROVE Goal
  <2>1. usesS3 /\ stored' = stored /\ Accepts(w, "Upload")
    BY <1>3 DEF Upload
  <2>2. PICK t : t = [op |-> "Upload", pc |-> "headBucket", owner |-> o, file |-> uploads + 1]
    OBVIOUS
  <2>3. Become(w, t)
    BY <1>3, <2>1, <2>2 DEF Upload
  <2>4. Quiet(t)
    BY <2>2
  <2> QED
    BY <1>1, <1>i, <2>1, <2>3, <2>4
<1>4. ASSUME NEW w \in Workers, HeadBucket(w) PROVE Goal
  <2>1. task[w] \in Uploads /\ ~At(w, "idle") /\ UNCHANGED files
    BY <1>4, <1>d, ImagePlace DEF HeadBucket, At, ImagePlaces
  <2>2. PICK t : t = [task[w] EXCEPT !.pc = IF task[w].owner \in buckets THEN "putObject"
                                            ELSE "createBucket"]
    OBVIOUS
  <2>3. Become(w, t)
    BY <1>4, <2>2 DEF HeadBucket, Goto
  <2>4. t.owner = task[w].owner
        /\ t.pc = IF task[w].owner \in buckets THEN "putObject" ELSE "createBucket"
    BY <2>1, <2>2 DEF Uploads
  <2>5. Quiet(t)
    BY <2>1, <2>4 DEF files
  <2> QED
    BY <1>1, <1>i, <2>1, <2>3, <2>5 DEF files
<1>5. ASSUME NEW w \in Workers, CreateBucket(w) PROVE Goal
  <2>1. task[w] \in Uploads /\ ~At(w, "idle") /\ UNCHANGED <<usesS3, stored, image, uploads>>
    BY <1>5, <1>d, ImagePlace DEF CreateBucket, At, ImagePlaces
  <2>2. PICK t : t = [task[w] EXCEPT !.pc = "putObject"]
    OBVIOUS
  <2>3. Become(w, t)
    BY <1>5, <2>2 DEF CreateBucket, Goto
  <2>4. t.pc = "putObject"
    BY <2>1, <2>2 DEF Uploads
  <2>5. Quiet(t)
    BY <2>4
  <2> QED
    BY <1>1, <1>i, <2>1, <2>3, <2>5
<1>6. ASSUME NEW w \in Workers, CreateBucketRefused(w) PROVE FALSE
  BY <1>6, <1>i DEF CreateBucketRefused, files
<1>7. ASSUME NEW w \in Workers, PutObject(w) PROVE Goal
  <2>1. At(w, "putObject") /\ Store(w, "s3", TRUE)
    BY <1>7 DEF PutObject
  <2>2. PICK url : url = [at |-> "s3", file |-> task[w].file]
    OBVIOUS
  <2>3. PICK t : t = [op |-> "Upload", pc |-> "saveImage", owner |-> task[w].owner, url |-> url]
    OBVIOUS
  <2>4. stored' = stored \cup {url} /\ Become(w, t) /\ UNCHANGED <<usesS3, buckets, image, uploads>>
    BY <2>1, <2>2, <2>3 DEF Store
  <2>5. Quiet(t) /\ url.at = "s3"
    BY <2>2, <2>3
  <2>6. ~At(w, "idle")
    BY <2>1 DEF At
  <2> QED
    BY <1>1, <1>i, <2>4, <2>5, <2>6
<1>8. ASSUME NEW w \in Workers, WriteDisk(w) PROVE FALSE
  BY <1>8, <1>i DEF WriteDisk, Store
<1>9. ASSUME NEW w \in Workers, Finish(w), ~At(w, "idle"), UNCHANGED <<usesS3, buckets, stored, uploads>>
      PROVE  Goal
  BY <1>1, <1>9, <1>i, <1>z DEF Finish
<1>10. ASSUME NEW w \in Workers, NEW o, SaveImage(w, o) PROVE Goal
  BY <1>9, <1>10 DEF SaveImage, At
<1>11. ASSUME NEW w \in Workers, SaveSupplier(w) PROVE Goal
  BY <1>9, <1>11 DEF SaveSupplier, At
<1>12. ASSUME NEW w \in Workers, EditSupplier(w) PROVE Goal
  <2>1. PICK t : t = [op |-> "EditSupplier", pc |-> "saveRow", image |-> image["supplier"]]
    OBVIOUS
  <2>2. Become(w, t) /\ UNCHANGED files /\ Accepts(w, "EditSupplier")
    BY <1>12, <2>1 DEF EditSupplier
  <2>3. Quiet(t)
    BY <2>1
  <2> QED
    BY <1>1, <1>i, <2>2, <2>3 DEF files
<1> HIDE DEF Goal
<1>13. ASSUME NEW w \in Workers, UploadEmployee(w) \/ UploadVisitor(w) \/ UploadSupplier(w)
       PROVE  Goal
  BY <1>3, <1>13 DEF UploadEmployee, UploadVisitor, UploadSupplier, Owners
<1>14. ASSUME NEW w \in Workers,
              SaveEmployeeImage(w) \/ SaveVisitorImage(w) \/ SaveSupplierImage(w)
       PROVE  Goal
  BY <1>10, <1>14 DEF SaveEmployeeImage, SaveVisitorImage, SaveSupplierImage
<1>15. ImageNext => Goal
  BY <1>4, <1>5, <1>6, <1>7, <1>8, <1>11, <1>12, <1>13, <1>14 DEF ImageNext, Restart, FallsBack
<1>16. Goal
  BY <1>2, <1>15, NextSteps DEF StepsOfServices
<1> QED
  BY <1>16, <1>g

LEMMA UploadsInitially == Init => UploadsInv
<1>1. Idle \notin Uploads \cup NewImages \cup SupplierEdits
  BY TasksApart DEF ImageTasks
<1> QED
  BY <1>1, IdlePlaced DEF Init, ImageInit, UploadsInv, At, Idle

\* Every image URL in a row names a file that is stored, and a service that
\* found S3 leaves nothing on the disk if no call fails and requests do not
\* overlap (ProfileImages.ImagesExist).
THEOREM ImagesAreStored == Spec => []ImagesExist
<1>1. Init => ImageInv
  <2>1. Init => S3Inv
    BY DEF Init, ImageInit, S3Inv, At, Idle
  <2> QED
    BY <2>1, UploadsInitially DEF ImageInv
<1>2. TypeInv /\ DeskInv /\ ImageInv /\ [Next]_vars => ImageInv'
  BY UploadsInductive, S3Inductive DEF ImageInv
<1>3. ImageInv => ImagesExist
  BY DEF ImageInv, UploadsInv, S3Inv, ImagesExist
<1> QED
  BY <1>1, <1>2, <1>3, TypesAlways, PTL DEF Spec

-----------------------------------------------------------------------------
(* The cache of the chat keeps what is listed, and no more than it should.  *)

Listing == ~Asked({"Expire"}) /\ (Serial \/ ~Asked({"FlushChat"}))

LEMMA ListedInductive ==
  ASSUME TypeInv, DeskInv, ListedInv, [Next]_vars
  PROVE  ListedInv'
<1>d. DeskTypes /\ DeskTypes' /\ UNCHANGED workload /\ CacheTypes
  BY NextDesk DEF TypeInv
<1> SUFFICES ASSUME Listing
             PROVE  /\ \A i \in 1..Len(list') : body'[list'[i]] # "none"
                    /\ \A w \in Workers : task'[w].pc = "push" => body'[task'[w].text] # "none"
  BY <1>d DEF ListedInv, Listing, Asked, Serial, At
<1> DEFINE Pushed(t) == t.pc = "push" => body'[t.text] # "none"
           Listed == \A i \in 1..Len(list') : body'[list'[i]] # "none"
           Goal == Listed /\ \A w \in Workers : Pushed(task'[w])
<1>g. Goal => /\ \A i \in 1..Len(list') : body'[list'[i]] # "none"
              /\ \A w \in Workers : task'[w].pc = "push" => body'[task'[w].text] # "none"
  OBVIOUS
<1>i. /\ \A i \in 1..Len(list) : list[i] \in Texts /\ body[list[i]] # "none"
      /\ \A w \in Workers : task[w].pc = "push" =>
           task[w].text \in Texts /\ body[task[w].text] # "none"
  <2>1. \A w \in Workers : task[w].pc = "push" => task[w].text \in Texts
    BY <1>d, CachePlace DEF CachePlaces, Messages
  <2> QED
    BY <1>d, <2>1 DEF ListedInv, Listing, At, CacheTypes
<1>z. Pushed(Idle)
  BY DEF Idle
<1>1. ASSUME NEW w \in Workers, NEW t, Become(w, t), Pushed(t), Listed,
             \A m \in Texts : body[m] # "none" => body'[m] # "none"
      PROVE  Goal
  BY <1>d, <1>i, <1>1, OneGoesOn
<1>2. ASSUME NEW w \in Workers, NEW m \in Texts, NEW ttl \in BOOLEAN, SaveBody(w, m, ttl)
      PROVE  Goal
  <2>1. PICK t : t = [op |-> "SaveMessage", pc |-> "push", text |-> m, ttl |-> ttl]
    OBVIOUS
  <2>2. Become(w, t) /\ body' = [body EXCEPT ![m] = Lifetime(ttl)] /\ list' = list
    BY <1>2, <2>1 DEF SaveBody
  <2>3. body'[m] # "none" /\ \A k \in Texts : body[k] # "none" => body'[k] # "none"
    BY <1>d, <2>2 DEF CacheTypes, Lifetime
  <2>4. Pushed(t) /\ Listed
    BY <1>i, <2>1, <2>2, <2>3
  <2> QED
    BY <1>1, <2>2, <2>3, <2>4
<1>3. ASSUME NEW w \in Workers, Push(w) PROVE Goal
  <2>1. task[w] \in Messages /\ task[w].pc = "push"
    BY <1>3, <1>d, CachePlace DEF Push, At, CachePlaces
  <2>2. PICK t : t = [task[w] EXCEPT !.pc = "trim"]
    OBVIOUS
  <2>3. Become(w, t) /\ body' = body /\ list' = <<task[w].text>> \o list /\ t.pc = "trim"
    BY <1>3, <2>1, <2>2 DEF Push, Goto, Messages
  <2>4. PICK m \in Texts : m = task[w].text /\ body[m] # "none"
    BY <1>i, <2>1
  <2>5. ASSUME NEW i \in 1..Len(list') PROVE body[list'[i]] # "none"
    <3>1. list' = <<m>> \o list /\ list \in Seq(Texts)
      BY <1>d, <2>3, <2>4 DEF CacheTypes
    <3>2. list'[i] = IF i = 1 THEN m ELSE list[i - 1]
      BY <2>5, <3>1
    <3>3. i # 1 => i - 1 \in 1..Len(list)
      BY <2>5, <3>1
    <3> QED
      BY <1>i, <2>4, <3>2, <3>3
  <2> QED
    BY <1>1, <2>3, <2>5
<1>4. ASSUME NEW w \in Workers, Trim(w) PROVE Goal
  <2>1. task[w] \in Messages /\ list' = Trimmed(list) /\ body' = body
    BY <1>4, <1>d, CachePlace DEF Trim, At, CachePlaces
  <2>2. PICK t : Become(w, t) /\ t.pc \in {"idle", "expireList"}
    <3>1. PICK t : t = [task[w] EXCEPT !.pc = "expireList"]
      OBVIOUS
    <3>2. t.pc = "expireList"
      BY <2>1, <3>1 DEF Messages
    <3> QED
      <4>1. CASE task[w].ttl
        BY <1>4, <3>1, <3>2, <4>1 DEF Trim, Goto
      <4>2. CASE ~task[w].ttl
        BY <1>4, <4>2 DEF Trim, Finish, Idle
      <4> QED
        BY <4>1, <4>2
  <2>3. Listed
    BY <1>d, <1>i, <2>1, TrimmedList DEF CacheTypes
  <2> QED
    BY <1>1, <2>1, <2>2, <2>3
<1>5. ASSUME NEW w \in Workers, ExpireList(w) \/ ExpireKey(w) PROVE Goal
  <2>1. Become(w, Idle) /\ list' = list /\ body' = body
    BY <1>5 DEF ExpireList, ExpireKey, Finish, lists
  <2> QED
    BY <1>1, <1>i, <1>z, <2>1
<1>6. ASSUME NEW w \in Workers, NEW k \in Keys, SetKey(w, k) PROVE Goal
  <2>1. PICK t : t = [op |-> "SaveKey", pc |-> "expireKey", key |-> k]
    OBVIOUS
  <2>2. Become(w, t) /\ list' = list /\ body' = body /\ t.pc = "expireKey"
    BY <1>6, <2>1 DEF SetKey, lists
  <2> QED
    BY <1>1, <1>i, <2>2
<1>7. ~Drop
  BY DEF Drop, Listing, Asked
<1>8. ASSUME NEW w \in Workers, FlushChat(w) PROVE Goal
  <2>1. Serial
    BY <1>8 DEF FlushChat, Accepts, Listing, Asked
  <2>2. AtRest /\ UNCHANGED desk /\ list' = <<>>
    BY <1>8, <2>1, NobodyBusy DEF FlushChat
  <2> QED
    BY <2>2 DEF AtRest, At, desk
<1>9. ASSUME UNCHANGED chatCache, Kept(CacheTasks) PROVE Goal
  <2>1. ASSUME NEW w \in Workers, task'[w].pc = "push" PROVE task'[w] = task[w]
    BY <1>9, <1>d, <2>1, TasksPlaced DEF DeskTypes, AllPlaces, Kept, CachePlaces, CacheTasks
  <2> QED
    BY <1>9, <1>i, <2>1 DEF chatCache
<1> HIDE DEF Goal
<1>10. CacheNext => Goal
  BY <1>2, <1>3, <1>4, <1>5, <1>6, <1>7, <1>8 DEF CacheNext
<1>11. Goal
  BY <1>9, <1>10, NextSteps DEF StepsOfServices
<1> QED
  BY <1>11, <1>g

\* Who trims: the steps add and remove one worker.
LEMMA TrimmingSteps ==
  ASSUME DeskTypes, NEW w \in Workers, NEW t, Become(w, t)
  PROVE  /\ Trimming' = IF t.pc = "trim" THEN Trimming \cup {w} ELSE Trimming \ {w}
         /\ IsFiniteSet(Trimming) /\ Cardinality(Trimming) \in Nat
         /\ t.pc = "trim" /\ ~At(w, "trim") =>
              Cardinality(Trimming') = Cardinality(Trimming) + 1
         /\ t.pc # "trim" /\ ~At(w, "trim") => Trimming' = Trimming
<1>1. Trimming' = IF t.pc = "trim" THEN Trimming \cup {w} ELSE Trimming \ {w}
  BY OneGoesOn DEF Trimming, At
<1>2. IsFiniteSet(Trimming) /\ Cardinality(Trimming) \in Nat
  BY WorkersAssumption, FS_Subset, FS_CardinalityType DEF Trimming
<1>3. ~At(w, "trim") => w \notin Trimming
  BY DEF Trimming
<1>4. w \notin Trimming => Cardinality(Trimming \cup {w}) = Cardinality(Trimming) + 1
  BY <1>2, FS_AddElement
<1> QED
  BY <1>1, <1>2, <1>3, <1>4

LEMMA BoundInductive ==
  ASSUME TypeInv, BoundInv, [Next]_vars
  PROVE  BoundInv'
<1>d. DeskTypes /\ DeskTypes' /\ UNCHANGED workload /\ CacheTypes
  BY NextDesk DEF TypeInv
<1> DEFINE Short == Len(list) <= ListSize + Cardinality(Trimming)
           Timing(k) == \E w \in Workers : At(w, "expireKey") /\ task[w].key = k
           Timed == \A k \in Keys : key[k] = "kept" => Timing(k)
           Goal == Short' /\ Timed'
<1> SUFFICES ASSUME ~workload.fails
             PROVE  Goal
  BY <1>d DEF BoundInv
<1>i. Short /\ Timed
  BY DEF BoundInv
<1>n. ListSize \in Nat /\ Len(list) \in Nat /\ Cardinality(Trimming) \in Nat
  BY <1>d, ListSizeAssumption, WorkersAssumption, FS_Subset, FS_CardinalityType
    DEF CacheTypes, Trimming
<1>1. ASSUME NEW w \in Workers, NEW t, Become(w, t), ~At(w, "expireKey"), UNCHANGED key
      PROVE  Timed'
  <2>1. ASSUME NEW k \in Keys, key'[k] = "kept" PROVE Timing(k)'
    <3>1. PICK u \in Workers : At(u, "expireKey") /\ task[u].key = k
      BY <1>1, <1>i, <2>1
    <3>2. task'[u] = task[u]
      BY <1>1, <1>d, <3>1, OneGoesOn
    <3> QED
      BY <3>1, <3>2 DEF At
  <2> QED
    BY <2>1
<1>2. ASSUME NEW w \in Workers, NEW m \in Texts, NEW ttl \in BOOLEAN, SaveBody(w, m, ttl)
      PROVE  Goal
  <2>1. PICK t : t = [op |-> "SaveMessage", pc |-> "push", text |-> m, ttl |-> ttl]
    OBVIOUS
  <2>2. Become(w, t) /\ UNCHANGED <<list, key>> /\ t.pc = "push" /\ At(w, "idle")
    BY <1>2, <2>1 DEF SaveBody, Accepts
  <2>3. Trimming' = Trimming
    BY <1>d, <2>2, TrimmingSteps DEF At
  <2> QED
    BY <1>1, <1>i, <2>2, <2>3 DEF At
<1>3. ASSUME NEW w \in Workers, Push(w) PROVE Goal
  <2>1. task[w] \in Messages /\ At(w, "push")
    BY <1>3, <1>d, CachePlace DEF Push, At, CachePlaces
  <2>2. PICK t : t = [task[w] EXCEPT !.pc = "trim"]
    OBVIOUS
  <2>3. Become(w, t) /\ UNCHANGED key /\ list' = <<task[w].text>> \o list /\ t.pc = "trim"
    BY <1>3, <2>1, <2>2 DEF Push, Goto, Messages
  <2>4. Cardinality(Trimming') = Cardinality(Trimming) + 1
    BY <1>d, <2>1, <2>3, TrimmingSteps DEF At
  <2>5. Len(list') = Len(list) + 1
    <3>1. task[w].text \in Texts /\ list \in Seq(Texts)
      BY <1>d, <2>1 DEF CacheTypes, Messages
    <3> QED
      BY <2>3, <3>1
  <2>6. Short'
    BY <1>i, <1>n, <2>4, <2>5
  <2> QED
    BY <1>1, <2>1, <2>3, <2>6 DEF At
<1>4. ASSUME NEW w \in Workers, Trim(w) PROVE Goal
  <2>1. task[w] \in Messages /\ list' = Trimmed(list) /\ UNCHANGED key /\ At(w, "trim")
    BY <1>4, <1>d, CachePlace DEF Trim, At, CachePlaces
  <2>2. \E t : Become(w, t)
    BY <1>4 DEF Trim, Goto, Finish
  <2>3. Cardinality(Trimming') \in Nat
    BY WorkersAssumption, FS_Subset, FS_CardinalityType DEF Trimming
  <2>4. Len(list') <= ListSize
    BY <1>d, <1>n, <2>1, TrimmedList DEF CacheTypes
  <2>5. Len(list') \in Nat
    BY <1>d, <2>1, TrimmedList DEF CacheTypes
  <2>6. Short'
    BY <1>n, <2>3, <2>4, <2>5
  <2> QED
    BY <1>1, <2>1, <2>2, <2>6 DEF At
<1>5. ASSUME NEW w \in Workers, ExpireList(w) PROVE Goal
  <2>1. Become(w, Idle) /\ UNCHANGED <<list, key>> /\ At(w, "expireList")
    BY <1>5 DEF ExpireList, Finish
  <2>2. Trimming' = Trimming
    BY <1>d, <2>1, TrimmingSteps DEF At, Idle
  <2> QED
    BY <1>1, <1>i, <2>1, <2>2 DEF At
<1>6. ASSUME NEW w \in Workers, NEW k \in Keys, SetKey(w, k) PROVE Goal
  <2>1. PICK t : t = [op |-> "SaveKey", pc |-> "expireKey", key |-> k]
    OBVIOUS
  <2>2. /\ Become(w, t) /\ UNCHANGED list /\ key' = [key EXCEPT ![k] = "kept"]
        /\ t.pc = "expireKey" /\ t.key = k /\ At(w, "idle")
    BY <1>6, <2>1 DEF SetKey, lists, Accepts
  <2>3. Trimming' = Trimming
    BY <1>d, <2>2, TrimmingSteps DEF At
  <2>4. ASSUME NEW j \in Keys, key'[j] = "kept" PROVE Timing(j)'
    <3>1. CASE j = k
      <4>1. task'[w] = t
        BY <1>d, <2>2, OneGoesOn
      <4> QED
        BY <2>2, <3>1, <4>1 DEF At
    <3>2. CASE j # k
      <4>1. PICK u \in Workers : At(u, "expireKey") /\ task[u].key = j
        BY <1>d, <1>i, <2>2, <2>4, <3>2 DEF CacheTypes
      <4>2. task'[u] = task[u]
        BY <1>d, <2>2, <4>1, OneGoesOn DEF At
      <4> QED
        BY <4>1, <4>2 DEF At
    <3> QED
      BY <3>1, <3>2
  <2> QED
    BY <1>i, <2>2, <2>3, <2>4
<1>7. ASSUME NEW w \in Workers, ExpireKey(w) PROVE Goal
  <2>1. task[w] \in NewKeys /\ At(w, "expireKey") /\ Become(w, Idle) /\ UNCHANGED list
    BY <1>7, <1>d, CachePlace DEF ExpireKey, At, CachePlaces, Finish, lists
  <2>2. Trimming' = Trimming
    BY <1>d, <2>1, TrimmingSteps DEF At, Idle
  <2>3. PICK k \in Keys : k = task[w].key
    BY <2>1 DEF NewKeys
  <2>4. key' = [key EXCEPT ![k] = IF @ = "none" THEN "none" ELSE "timed"]
    BY <1>7, <2>3 DEF ExpireKey
  <2>5. ASSUME NEW j \in Keys, key'[j] = "kept" PROVE Timing(j)'
    <3>1. j # k /\ key[j] = "kept"
      BY <1>d, <2>4, <2>5 DEF CacheTypes
    <3>2. PICK u \in Workers : At(u, "expireKey") /\ task[u].key = j
      BY <1>i, <3>1
    <3>3. task'[u] = task[u]
      BY <1>d, <2>1, <2>3, <3>1, <3>2, OneGoesOn
    <3> QED
      BY <3>2, <3>3 DEF At
  <2> QED
    BY <1>i, <2>1, <2>2, <2>5
<1>8. ASSUME UNCHANGED desk, list' = list \/ list' = <<>>,
             \A k \in Keys : key'[k] = "kept" => key[k] = "kept"
      PROVE  Goal
  <2>1. Trimming' = Trimming
    BY <1>8 DEF desk, Trimming, At
  <2>2. Short'
    <3>1. Len(<<>>) = 0
      OBVIOUS
    <3> QED
      BY <1>8, <1>i, <1>n, <2>1, <3>1
  <2>3. ASSUME NEW k \in Keys, key'[k] = "kept" PROVE Timing(k)'
    BY <1>8, <1>i, <2>3 DEF desk, At
  <2> QED
    BY <2>2, <2>3
<1>9. ASSUME Drop PROVE Goal
  <2>1. UNCHANGED desk /\ (list' = list \/ list' = <<>>)
    BY <1>9 DEF Drop, lists
  <2>2. \A k \in Keys : key'[k] = "kept" => key[k] = "kept"
    BY <1>9, <1>d DEF Drop, CacheTypes
  <2> QED
    BY <1>8, <2>1, <2>2
<1>10. ASSUME NEW w \in Workers, FlushChat(w) PROVE Goal
  BY <1>8, <1>10 DEF FlushChat
<1>11. ASSUME UNCHANGED chatCache, Kept(CacheTasks) PROVE Goal
  <2>1. \A w \in Workers :
           task'[w].pc \in {"trim", "expireKey"} \/ task[w].pc \in {"trim", "expireKey"} =>
             task'[w] = task[w]
    BY <1>11, <1>d, TasksPlaced DEF DeskTypes, AllPlaces, Kept, CachePlaces, CacheTasks
  <2>2. Trimming' = Trimming
    BY <2>1 DEF Trimming, At
  <2>3. ASSUME NEW k \in Keys, key'[k] = "kept" PROVE Timing(k)'
    <3>1. PICK u \in Workers : At(u, "expireKey") /\ task[u].key = k
      BY <1>11, <1>i, <2>3 DEF chatCache
    <3> QED
      BY <2>1, <3>1 DEF At
  <2> QED
    BY <1>11, <1>i, <2>2, <2>3 DEF chatCache
<1> HIDE DEF Goal
<1>12. CacheNext => Goal
  BY <1>2, <1>3, <1>4, <1>5, <1>6, <1>7, <1>9, <1>10 DEF CacheNext
<1> QED
  BY <1>11, <1>12, NextSteps DEF StepsOfServices

LEMMA BoundInitially == Init => BoundInv
<1>1. Cardinality(Trimming) \in Nat
  BY WorkersAssumption, FS_Subset, FS_CardinalityType DEF Trimming
<1>2. Init => Len(list) = 0 /\ \A k \in Keys : key[k] = "none"
  BY DEF Init, CacheInit
<1> QED
  BY <1>1, <1>2, ListSizeAssumption DEF BoundInv

\* While neither an expiry nor a flush that overlaps takes bodies away, a reader
\* gets as many messages as the list holds; a list keeps no more than ListSize
\* ids, and a room that is found has a time to live, once the calls have ended and
\* none failed (CachedChat.ChatCacheAgrees).
THEOREM CacheAgreesWithChat == Spec => []ChatCacheAgrees
<1>1. Init => CacheInv
  <2>1. Init => ListedInv
    BY DEF Init, CacheInit, ListedInv, At, Idle
  <2> QED
    BY <2>1, BoundInitially DEF CacheInv
<1>2. TypeInv /\ DeskInv /\ CacheInv /\ [Next]_vars => CacheInv'
  BY ListedInductive, BoundInductive DEF CacheInv
<1>3. TypeInv /\ CacheInv => ChatCacheAgrees
  <2> SUFFICES ASSUME TypeInv, CacheInv
               PROVE  ListedHasBody /\ CacheBounded
    BY DEF ChatCacheAgrees
  <2>t. list \in Seq(Texts) /\ key \in [Keys -> Lifetimes] /\ ListSize \in Nat
    BY ListSizeAssumption DEF TypeInv, CacheTypes
  <2>1. ListedHasBody
    <3>1. SUFFICES ASSUME Listing
                   PROVE  ChatMessages(ListSize) = DOMAIN Trimmed(list)
      BY DEF ListedHasBody, Listing
    <3>2. \A i \in 1..Len(list) : body[list[i]] # "none"
      BY <3>1 DEF CacheInv, ListedInv, Listing
    <3>3. DOMAIN Trimmed(list) = 1..(IF Len(list) > ListSize THEN ListSize ELSE Len(list))
      BY <2>t, TrimmedList
    <3>4. ChatMessages(ListSize) =
            {i \in 1..(IF ListSize < Len(list) THEN ListSize ELSE Len(list)) : body[list[i]] # "none"}
      BY DEF ChatMessages
    <3>5. \A i \in 1..(IF ListSize < Len(list) THEN ListSize ELSE Len(list)) : i \in 1..Len(list)
      BY <2>t
    <3> QED
      BY <2>t, <3>2, <3>3, <3>4, <3>5
  <2>2. CacheBounded
    <3>1. SUFFICES ASSUME AtRest, ~workload.fails
                   PROVE  /\ Len(list) <= ListSize
                          /\ \A k \in Keys : key[k] # "kept"
      BY <2>t DEF CacheBounded, RoomFound, UserRoomsFound, Keys, Lifetimes
    <3>2. Trimming = {} /\ \A w \in Workers : ~At(w, "expireKey")
      BY <3>1 DEF Trimming, AtRest, At
    <3>3. Cardinality(Trimming) = 0
      BY <3>2, FS_EmptySet
    <3> QED
      BY <2>t, <3>1, <3>2, <3>3 DEF CacheInv, BoundInv
  <2> QED
    BY <2>1, <2>2
<1> QED
  BY <1>1, <1>2, <1>3, TypesAlways, PTL DEF Spec

-----------------------------------------------------------------------------
(* Cards stay within the limit, and their locations agree.                  *)

Roomy(t) ==
  /\ t.pc = "insertCard" => Cardinality(cards) < limit
  /\ t.pc \in {"saveCard", "saveLocation"} => t.card \in cards

LEMMA LimitInductive ==
  ASSUME TypeInv, DeskInv, LimitInv, [Next]_vars
  PROVE  LimitInv'
<1>d. DeskTypes /\ DeskTypes' /\ UNCHANGED workload /\ CardTypeOK
  BY NextDesk DEF TypeInv
<1> DEFINE Goal == IsFiniteSet(cards') /\ (Serial => \A w \in Workers : Roomy(task[w])')
<1>i. IsFiniteSet(cards) /\ (Serial => \A w \in Workers : Roomy(task[w]))
  BY DEF LimitInv, Roomy, At
<1>g. Goal => LimitInv'
  BY <1>d DEF LimitInv, Roomy, At, Serial
<1>z. Roomy(Idle)'
  BY DEF Roomy, Idle
<1>1. ASSUME NEW w \in Workers, NEW t, Become(w, t), Roomy(t)', IsFiniteSet(cards'),
             ~At(w, "idle") \/ \E op : Accepts(w, op)
      PROVE  Goal
  <2>1. ASSUME Serial, NEW u \in Workers PROVE Roomy(task[u])'
    <3>1. task'[u] = IF u = w THEN t ELSE Idle
      BY <1>d, <1>1, <2>1, OneRequest
    <3> QED
      BY <1>1, <1>z, <3>1 DEF Roomy
  <2> QED
    BY <1>1, <2>1
<1>2. ASSUME UNCHANGED <<cards, limit>>,
             \A w \in Workers : task'[w] \in CardTasks => task'[w] = task[w]
      PROVE  Goal
  <2>1. ASSUME Serial, NEW u \in Workers PROVE Roomy(task[u])'
    <3>1. CASE task'[u] \in CardTasks
      BY <1>2, <1>i, <2>1, <3>1 DEF Roomy
    <3>2. CASE task'[u] \notin CardTasks
      BY <1>d, <3>2, TasksPlaced DEF DeskTypes, AllPlaces, CardPlaces, CardTasks, Roomy
    <3> QED
      BY <3>1, <3>2
  <2> QED
    BY <1>2, <1>i, <2>1
<1>3. ASSUME NEW w \in Workers, NEW op, Accepts(w, op), UNCHANGED desk, IsFiniteSet(cards')
      PROVE  Goal
  <2>1. ASSUME Serial, NEW u \in Workers PROVE Roomy(task[u])'
    <3>1. At(u, "idle")
      BY <1>3, <2>1, NobodyBusy DEF AtRest
    <3> QED
      BY <1>3, <3>1 DEF desk, At, Roomy
  <2> QED
    BY <1>3, <2>1
<1>4. ASSUME NEW w \in Workers, CreateCard(w) PROVE Goal
  <2>1. PICK t : t = [op |-> "CreateCard", pc |-> "insertCard"]
    OBVIOUS
  <2>2. Become(w, t) /\ UNCHANGED locating /\ Accepts(w, "CreateCard")
    BY <1>4, <2>1 DEF CreateCard
  <2>3. Roomy(t)'
    BY <1>4, <2>1, <2>2 DEF CreateCard, HasRoom, locating, Roomy
  <2> QED
    BY <1>1, <1>i, <2>2, <2>3 DEF locating
<1>5. ASSUME NEW w \in Workers, NEW c \in Cards, InsertCard(w, c) PROVE Goal
  <2>1. IsFiniteSet(cards')
    BY <1>5, <1>i, FS_AddElement DEF InsertCard
  <2> QED
    BY <1>1, <1>5, <1>z, <2>1 DEF InsertCard, Finish, At
<1>6. ASSUME NEW w \in Workers, NEW c \in Cards, RemoveCard(w, c) PROVE Goal
  <2>1. IsFiniteSet(cards')
    BY <1>6, <1>i, FS_Subset DEF RemoveCard
  <2> QED
    BY <1>3, <1>6, <2>1 DEF RemoveCard
<1>7. ASSUME NEW w \in Workers, NEW c \in Cards, LastLocation(w, c) PROVE Goal
  <2>1. PICK t : t = [op |-> "LastLocation", pc |-> "cacheBody", card |-> c,
                      place |-> Latest(c).place]
    OBVIOUS
  <2>2. Become(w, t) /\ UNCHANGED locating /\ Accepts(w, "LastLocation")
    BY <1>7, <2>1 DEF LastLocation
  <2>3. Roomy(t)'
    BY <2>1 DEF Roomy
  <2> QED
    BY <1>1, <1>i, <2>2, <2>3 DEF locating
<1>8. ASSUME NEW w \in Workers, NEW c \in Cards, ReportUnknown(w, c) PROVE Goal
  <2>1. PICK t : t = [op |-> "ReportUnknown", pc |-> "insertUnknown", card |-> c]
    OBVIOUS
  <2>2. Become(w, t) /\ UNCHANGED locating /\ Accepts(w, "ReportUnknown")
    BY <1>8, <2>1 DEF ReportUnknown
  <2>3. Roomy(t)'
    BY <2>1 DEF Roomy
  <2> QED
    BY <1>1, <1>i, <2>2, <2>3 DEF locating
<1>9. ASSUME NEW w \in Workers, InsertUnknown(w) PROVE Goal
  <2>1. IsFiniteSet(cards')
    BY <1>9, <1>i, FS_AddElement DEF InsertUnknown
  <2> QED
    BY <1>1, <1>9, <1>z, <2>1 DEF InsertUnknown, Finish, At
<1>10. ASSUME NEW w \in Workers, NEW n \in Limits, ChangeLimit(w, n) PROVE Goal
  BY <1>3, <1>10, <1>i DEF ChangeLimit
<1>11. ASSUME NEW w \in Workers, NEW c \in Cards, NEW p \in Places, RecordLocation(w, c, p)
       PROVE  Goal
  <2>1. PICK t : t = Report(c, p)
    OBVIOUS
  <2>2. Become(w, t) /\ UNCHANGED <<cards, limit>> /\ Accepts(w, "Report") /\ c \in cards
    BY <1>11, <2>1 DEF RecordLocation
  <2>3. Roomy(t)'
    BY <2>1, <2>2 DEF Roomy, Report
  <2> QED
    BY <1>1, <1>i, <2>2, <2>3
<1>12. ASSUME NEW w \in Workers, SavePosition(w) PROVE Goal
  <2>1. task[w] \in Reports /\ At(w, "saveCard") /\ cards' = cards \cup {task[w].card}
    BY <1>12, <1>d, CardPlace DEF SavePosition, At, CardPlaces
  <2>2. PICK t : t = [task[w] EXCEPT !.pc = "saveLocation"]
    OBVIOUS
  <2>3. Become(w, t) /\ t.card = task[w].card /\ t.pc = "saveLocation"
    BY <1>12, <2>1, <2>2 DEF SavePosition, Goto, Reports
  <2>4. Roomy(t)' /\ IsFiniteSet(cards')
    BY <1>i, <2>1, <2>3, FS_AddElement DEF Roomy
  <2> QED
    BY <1>1, <2>1, <2>3, <2>4 DEF At
<1>13. ASSUME NEW w \in Workers, SaveLocation(w) PROVE Goal
  <2>1. task[w] \in Reports /\ At(w, "saveLocation") /\ UNCHANGED cards
    BY <1>13, <1>d, CardPlace DEF SaveLocation, At, CardPlaces
  <2>2. PICK t : t = [task[w] EXCEPT !.pc = "cacheBody"]
    OBVIOUS
  <2>3. Become(w, t) /\ t.pc = "cacheBody"
    BY <1>13, <2>1, <2>2 DEF SaveLocation, Goto, Reports
  <2>4. Roomy(t)'
    BY <2>3 DEF Roomy
  <2> QED
    BY <1>1, <1>i, <2>1, <2>3, <2>4 DEF At
<1>14. ASSUME NEW w \in Workers, CacheBody(w) PROVE Goal
  <2>1. task[w] \in Reports \cup Questions /\ At(w, "cacheBody") /\ UNCHANGED cards
    BY <1>14, <1>d, CardPlace DEF CacheBody, At, CardPlaces, cardRows
  <2>2. PICK t : t = [task[w] EXCEPT !.pc = "cacheIndex"]
    OBVIOUS
  <2>3. t.pc = "cacheIndex"
    BY <2>1, <2>2 DEF Reports, Questions
  <2>4. Become(w, t) \/ Become(w, Idle)
    BY <1>14, <2>2 DEF CacheBody, Goto, Finish
  <2>5. Roomy(t)'
    BY <2>3 DEF Roomy
  <2> QED
    BY <1>1, <1>i, <1>z, <2>1, <2>4, <2>5 DEF At
<1>15. ASSUME NEW w \in Workers, ReportRefused(w) \/ CacheIndex(w) \/ CacheFails(w) PROVE Goal
  <2>1. Become(w, Idle) /\ UNCHANGED cards /\ ~At(w, "idle")
    BY <1>15 DEF ReportRefused, CacheIndex, CacheFails, Finish, At, locating, cardRows
  <2> QED
    BY <1>1, <1>i, <1>z, <2>1
<1>16. ASSUME NEW w \in Workers, FlushLocations(w) PROVE Goal
  BY <1>3, <1>16, <1>i DEF FlushLocations, cardRows
<1>17. ASSUME NEW c \in Cards, KeyExpires(c) PROVE Goal
  BY <1>2, <1>17 DEF KeyExpires, cardRows, desk
<1>18. ASSUME UNCHANGED locating, Kept(CardTasks) PROVE Goal
  BY <1>2, <1>18 DEF locating, Kept
<1> HIDE DEF Goal
<1>19. CardNext => Goal
  BY <1>4, <1>5, <1>6, <1>7, <1>8, <1>9, <1>10, <1>11, <1>12, <1>13, <1>14, <1>15, <1>16, <1>17
    DEF CardNext
<1> QED
  BY <1>18, <1>19, <1>g, NextSteps DEF StepsOfServices

LEMMA LimitInitially == Init => LimitInv
<1>1. IsFiniteSet({})
  BY FS_EmptySet
<1> QED
  BY <1>1 DEF Init, CardInit, LimitInv, At, Idle

\* Unless readers report unknown cards, requests that do not overlap never add a
\* card beyond the limit of the subscription (CardLocations.LimitKept).
THEOREM LimitIsKept == Spec => LimitKept
<1> DEFINE Step == Serial /\ ~Asked({"ReportUnknown"}) /\ ~(cards' \subseteq cards)
                     => Cardinality(cards') <= limit
<1>1. TypeInv /\ DeskInv /\ LimitInv /\ [Next]_vars => [Step]_<<cards, limit, workload>>
  <2> SUFFICES ASSUME TypeInv, DeskInv, LimitInv, [Next]_vars, Serial,
                      ~Asked({"ReportUnknown"}), ~(cards' \subseteq cards)
               PROVE  Cardinality(cards') <= limit
    BY Zenon
  <2>d. DeskTypes /\ CardTypeOK /\ limit \in Nat
    BY LimitsAssumption DEF TypeInv, CardTypeOK
  <2>1. CardNext
    BY NextSteps DEF StepsOfServices, locating
  <2>2. ASSUME NEW w \in Workers, NEW c \in Cards, InsertCard(w, c)
        PROVE  Cardinality(cards') <= limit
    <3>1. cards' = cards \cup {c} /\ c \notin cards /\ Cardinality(cards) < limit
      BY <2>2 DEF InsertCard, IsNew, LimitInv
    <3>2. Cardinality(cards') = Cardinality(cards) + 1 /\ Cardinality(cards) \in Nat
      BY <3>1, FS_AddElement, FS_CardinalityType DEF LimitInv
    <3> QED
      BY <2>d, <3>1, <3>2
  <2>3. ASSUME NEW w \in Workers, InsertUnknown(w) PROVE FALSE
    <3>1. task[w] \in UnknownCards
      BY <2>3, <2>d, CardPlace DEF InsertUnknown, At, CardPlaces
    <3> QED
      BY <3>1 DEF DeskInv, UnknownCards, Asked
  <2>4. ASSUME NEW w \in Workers, SavePosition(w) PROVE FALSE
    BY <2>4 DEF SavePosition, LimitInv
  <2> QED
    BY <2>1, <2>2, <2>3, <2>4 DEF CardNext, CreateCard, RemoveCard, LastLocation, ReportUnknown,
      ChangeLimit, RecordLocation, ReportRefused, SaveLocation, CacheBody, CacheIndex, CacheFails,
      FlushLocations, KeyExpires, locating, cardRows
<1>2. TypeInv /\ DeskInv /\ LimitInv /\ [Next]_vars => LimitInv'
  BY LimitInductive
<1> QED
  BY <1>1, <1>2, LimitInitially, TypesAlways, PTL DEF Spec, LimitKept

\* A request is about to write what the card lacks.
Doing(t, c, pcs) == t \in Reports \cup Questions /\ t.pc \in pcs /\ t.card = c

AgreesFor(t, c) ==
  AgreesBut(c, Doing(t, c, {"cacheBody"}), Doing(t, c, {"cacheBody", "cacheIndex"}),
            Doing(t, c, {"saveLocation"}))

Reporting(t) ==
  /\ t.pc \in {"saveCard", "saveLocation"} => Newest(t)
  /\ t.pc \in {"cacheBody", "cacheIndex"} => Caching(t)

\* The only request under way is the one whose writes are missing.
LEMMA UndoneIsDoing ==
  ASSUME NEW w \in Workers, NEW t, \A u \in Workers : task[u] = IF u = w THEN t ELSE Idle,
         NEW c, NEW pcs
  PROVE  Undone(c, pcs) <=> Doing(t, c, pcs)
<1>1. Idle \notin Reports \cup Questions
  BY TasksApart DEF CardTasks
<1> QED
  BY <1>1 DEF Undone, Doing

LEMMA UndoneIsDoingNext ==
  ASSUME NEW w \in Workers, NEW t, \A u \in Workers : task'[u] = IF u = w THEN t ELSE Idle,
         NEW c, NEW pcs
  PROVE  Undone(c, pcs)' <=> Doing(t, c, pcs)
<1>1. Idle \notin Reports \cup Questions
  BY TasksApart DEF CardTasks
<1> QED
  BY <1>1 DEF Undone, Doing

\* Nothing is taken away but what Redis drops, and what was missing still is.
LEMMA AgreesStays ==
  ASSUME NEW c \in Cards, CardTypeOK, NEW a, NEW b, NEW e, NEW aa, NEW bb, NEW ee,
         AgreesBut(c, a, b, e), a => aa, b => bb, e => ee,
         UNCHANGED <<locations, index>>, reports \in Nat, reports' \in Nat, reports <= reports',
         cached'[c] \in {cached[c], NoPlace},
         position'[c] = position[c] \/ locations[c] = {}
  PROVE  AgreesBut(c, aa, bb, ee)'
<1>1. Latest(c)' = Latest(c) /\ ZeroReported' = ZeroReported
  BY DEF Latest, ZeroReported
<1>2. RowsInOrder(c)'
  <2>1. \A l \in locations[c] : l.at \in Nat
    BY LimitsAssumption DEF CardTypeOK
  <2> QED
    BY <2>1 DEF AgreesBut, RowsInOrder
<1> QED
  BY <1>1, <1>2 DEF AgreesBut

\* The row a report inserts is the newest of its card.
LEMMA InsertedIsLatest ==
  ASSUME CardTypeOK, CardTypeOK', NEW t \in Reports, RowsInOrder(t.card), Newest(t),
         reports' = reports,
         locations' = [locations EXCEPT ![t.card] = @ \cup {[place |-> t.place, at |-> t.at]}]
  PROVE  /\ RowsInOrder(t.card)' /\ locations'[t.card] # {}
         /\ Latest(t.card)'.place = t.place
<1>0. PICK c \in Cards : c = t.card
  BY DEF Reports
<1>1. PICK row : row = [place |-> t.place, at |-> t.at]
  OBVIOUS
<1>2. locations'[c] = locations[c] \cup {row} /\ locations'[c] \subseteq LocationRows
  BY <1>0, <1>1 DEF CardTypeOK, LocationRows
<1>3. \A l \in locations[c] : l.at < row.at /\ l.at <= reports /\ l.at \in Nat
  BY <1>0, <1>1, <1>2, LimitsAssumption DEF Newest, RowsInOrder, LocationRows
<1>4. row.at <= reports /\ row.at \in Nat
  BY <1>0, <1>1, LimitsAssumption DEF Newest, Reports
<1>5. RowsInOrder(c)'
  <2>1. ASSUME NEW l \in locations'[c] PROVE l.at <= reports'
    BY <1>2, <1>3, <1>4, <2>1
  <2>2. ASSUME NEW l \in locations'[c], NEW k \in locations'[c], k.at = l.at PROVE k = l
    BY <1>0, <1>2, <1>3, <1>4, <2>2 DEF RowsInOrder
  <2> QED
    BY <2>1, <2>2 DEF RowsInOrder
<1>6. PICK S : S = locations'[c]
  OBVIOUS
<1>7. NewestOf(S) \in S /\ \A k \in S : NewestOf(S).at >= k.at
  BY <1>2, <1>6, NewestOfRows
<1>8. NewestOf(S) = row
  BY <1>2, <1>3, <1>4, <1>6, <1>7
<1>9. Latest(c)' = NewestOf(S)
  BY <1>6 DEF Latest, NewestOf
<1> QED
  BY <1>0, <1>1, <1>2, <1>5, <1>8, <1>9

LEMMA LocationsInductive ==
  ASSUME TypeInv, DeskInv, LimitInv, LocationsInv, [Next]_vars
  PROVE  LocationsInv'
<1>d. DeskTypes /\ DeskTypes' /\ UNCHANGED workload /\ CardTypeOK /\ CardTypeOK'
  BY NextDesk, TypesInductive DEF TypeInv
<1>n. reports \in Nat /\ reports' \in Nat
  BY <1>d, LimitsAssumption DEF CardTypeOK
<1> SUFFICES ASSUME Serial, ~workload.fails
             PROVE  (\A c \in Cards : Agrees(c)') /\ \A w \in Workers : Reporting(task[w])'
  BY <1>d DEF LocationsInv, Serial, Reporting, At
<1> DEFINE Goal == (\A c \in Cards : Agrees(c)') /\ \A w \in Workers : Reporting(task[w])'
<1>i. (\A c \in Cards : Agrees(c)) /\ \A w \in Workers : Reporting(task[w])
  BY DEF LocationsInv, Reporting, At
<1>z. Reporting(Idle)' /\ \A c, pcs : ~Doing(Idle, c, pcs)
  BY TasksApart DEF Reporting, Idle, Doing, CardTasks
<1>0. ASSUME NEW w \in Workers, ~At(w, "idle") \/ \E op : Accepts(w, op)
      PROVE  \A c \in Cards : AgreesFor(task[w], c)
  <2>1. \A u \in Workers : task[u] = IF u = w THEN task[w] ELSE Idle
    BY <1>0, <1>d, OthersIdle
  <2>2. PICK t : t = task[w]
    OBVIOUS
  <2>3. \A c, pcs : Undone(c, pcs) <=> Doing(t, c, pcs)
    BY <2>1, <2>2, UndoneIsDoing
  <2> QED
    BY <1>i, <2>2, <2>3 DEF Agrees, AgreesFor, AgreesBut
<1>1. ASSUME NEW w \in Workers, NEW t, Become(w, t), ~At(w, "idle") \/ \E op : Accepts(w, op),
             Reporting(t)', \A c \in Cards : AgreesFor(t, c)'
      PROVE  Goal
  <2>1. \A u \in Workers : task'[u] = IF u = w THEN t ELSE Idle
    BY <1>1, <1>d, OneRequest
  <2>2. \A c, pcs : Undone(c, pcs)' <=> Doing(t, c, pcs)
    BY <2>1, UndoneIsDoingNext
  <2>3. \A c \in Cards : Agrees(c)'
    BY <1>1, <2>2 DEF Agrees, AgreesFor, AgreesBut
  <2>4. \A u \in Workers : Reporting(task[u])'
    BY <1>1, <1>z, <2>1 DEF Reporting, Newest, Caching, Latest
  <2> QED
    BY <2>3, <2>4
<1>2. ASSUME NEW w \in Workers, NEW t, Become(w, t), ~At(w, "idle") \/ \E op : Accepts(w, op),
             Reporting(t)', UNCHANGED <<locations, index, cached>>, reports <= reports',
             \A c \in Cards : position'[c] = position[c] \/ locations[c] = {},
             task[w].pc \notin {"cacheBody", "cacheIndex", "saveLocation"}
      PROVE  Goal
  <2>1. ASSUME NEW c \in Cards PROVE AgreesFor(t, c)'
    <3>1. PICK u : u = task[w]
      OBVIOUS
    <3>2. /\ ~Doing(u, c, {"cacheBody"}) /\ ~Doing(u, c, {"cacheBody", "cacheIndex"})
          /\ ~Doing(u, c, {"saveLocation"})
      BY <1>2, <3>1 DEF Doing
    <3>3. AgreesFor(u, c)
      BY <1>0, <1>2, <3>1
    <3>4. AgreesBut(c, FALSE, FALSE, FALSE)
      BY <3>2, <3>3 DEF AgreesFor, AgreesBut
    <3> QED
      BY <1>2, <1>d, <1>n, <3>4, AgreesStays DEF AgreesFor
  <2> QED
    BY <1>1, <1>2, <2>1
<1>3. ASSUME UNCHANGED <<locations, index, reports, workload>>,
             \A w \in Workers :
               task[w] \in CardTasks \/ task'[w] \in CardTasks => task'[w] = task[w],
             \A c \in Cards : cached'[c] \in {cached[c], NoPlace},
             \A c \in Cards : position'[c] = position[c] \/ locations[c] = {},
             position' = position \/ AtRest
      PROVE  Goal
  <2>1. ASSUME NEW c \in Cards PROVE Agrees(c)'
    <3>1. \A pcs : Undone(c, pcs) => Undone(c, pcs)'
      BY <1>3 DEF Undone, CardTasks
    <3>2. AgreesBut(c, Undone(c, {"cacheBody"}), Undone(c, {"cacheBody", "cacheIndex"}),
                    Undone(c, {"saveLocation"}))
      BY <1>i DEF Agrees
    <3>3. PICK a, b, e, aa, bb, ee :
            /\ a = Undone(c, {"cacheBody"}) /\ aa = Undone(c, {"cacheBody"})'
            /\ b = Undone(c, {"cacheBody", "cacheIndex"})
            /\ bb = Undone(c, {"cacheBody", "cacheIndex"})'
            /\ e = Undone(c, {"saveLocation"}) /\ ee = Undone(c, {"saveLocation"})'
      OBVIOUS
    <3>4. (a => aa) /\ (b => bb) /\ (e => ee) /\ AgreesBut(c, a, b, e)
      BY <3>1, <3>2, <3>3, Zenon
    <3>5. AgreesBut(c, aa, bb, ee)'
      BY <1>3, <1>d, <1>n, <3>4, AgreesStays
    <3> QED
      BY <3>3, <3>5 DEF Agrees
  <2>2. ASSUME NEW w \in Workers PROVE Reporting(task[w])'
    <3>1. CASE task'[w] \in CardTasks
      <4>1. task'[w] = task[w] /\ Reporting(task[w]) /\ task[w] \in CardTasks
        BY <1>3, <1>i, <3>1
      <4>2. position' = position
        BY <1>3, <4>1, TasksApart, TasksPlaced, <1>d DEF AtRest, At, AllPlaces, DeskTypes
      <4> QED
        BY <1>3, <4>1, <4>2 DEF Reporting, Newest, Caching, Latest
    <3>2. CASE task'[w] \notin CardTasks
      BY <1>d, <3>2, TasksPlaced DEF DeskTypes, AllPlaces, CardPlaces, CardTasks, Reporting
    <3> QED
      BY <3>1, <3>2
  <2> QED
    BY <2>1, <2>2
<1>4. ASSUME NEW w \in Workers, CreateCard(w) PROVE Goal
  <2>1. PICK t : t = [op |-> "CreateCard", pc |-> "insertCard"]
    OBVIOUS
  <2>2. Become(w, t) /\ UNCHANGED locating /\ Accepts(w, "CreateCard") /\ At(w, "idle")
    BY <1>4, <2>1 DEF CreateCard, Accepts
  <2>3. Reporting(t)'
    BY <2>1 DEF Reporting
  <2> QED
    BY <1>2, <1>n, <2>2, <2>3 DEF locating, At
<1>5. ASSUME NEW w \in Workers, (\E c \in Cards : InsertCard(w, c)) \/ InsertUnknown(w) PROVE Goal
  <2>1. /\ Become(w, Idle) /\ ~At(w, "idle")
        /\ UNCHANGED <<locations, position, reports, cached, index>>
    BY <1>5 DEF InsertCard, InsertUnknown, Finish, At, cardCache
  <2>2. task[w].pc \notin {"cacheBody", "cacheIndex", "saveLocation"}
    BY <1>5 DEF InsertCard, InsertUnknown, At
  <2> QED
    BY <1>2, <1>n, <1>z, <2>1, <2>2
<1>6. ASSUME NEW w \in Workers, NEW c \in Cards, ReportUnknown(w, c) PROVE Goal
  <2>1. PICK t : t = [op |-> "ReportUnknown", pc |-> "insertUnknown", card |-> c]
    OBVIOUS
  <2>2. Become(w, t) /\ UNCHANGED locating /\ Accepts(w, "ReportUnknown") /\ At(w, "idle")
    BY <1>6, <2>1 DEF ReportUnknown, Accepts
  <2>3. Reporting(t)'
    BY <2>1 DEF Reporting
  <2> QED
    BY <1>2, <1>n, <2>2, <2>3 DEF locating, At
<1>7. ASSUME NEW w \in Workers, NEW c \in Cards, NEW p \in Places, RecordLocation(w, c, p)
      PROVE  Goal
  <2>1. PICK t : t = Report(c, p)
    OBVIOUS
  <2>2. /\ Become(w, t) /\ reports' = reports + 1 /\ UNCHANGED <<locations, position, cached, index>>
        /\ Accepts(w, "Report") /\ At(w, "idle")
    BY <1>7, <2>1 DEF RecordLocation, Accepts, cardCache
  <2>3. /\ t.pc = "saveCard" /\ t.card = c /\ t.at = reports + 1 /\ t.rows = locations[c]
    BY <2>1 DEF Report
  <2>4. \A l \in locations[c] : l.at <= reports /\ l.at \in Nat
    BY <1>d, <1>i, LimitsAssumption DEF Agrees, AgreesBut, RowsInOrder, CardTypeOK
  <2>5. Newest(t)'
    BY <1>n, <2>2, <2>3, <2>4 DEF Newest
  <2>6. Reporting(t)'
    BY <2>3, <2>5 DEF Reporting
  <2> QED
    BY <1>2, <1>n, <2>2, <2>6 DEF At
<1>8. ASSUME NEW w \in Workers, NEW c \in Cards, LastLocation(w, c) PROVE Goal
  <2>1. PICK t : t = [op |-> "LastLocation", pc |-> "cacheBody", card |-> c,
                      place |-> Latest(c).place]
    OBVIOUS
  <2>2. /\ Become(w, t) /\ UNCHANGED locating /\ Accepts(w, "LastLocation") /\ At(w, "idle")
        /\ locations[c] # {}
    BY <1>8, <2>1 DEF LastLocation, Accepts
  <2>3. Caching(t)'
    BY <2>1, <2>2 DEF Caching, Latest, locating
  <2>4. Reporting(t)'
    BY <2>1, <2>3 DEF Reporting
  <2> QED
    BY <1>2, <1>n, <2>2, <2>4 DEF locating, At
<1>9. ASSUME NEW w \in Workers, SavePosition(w) PROVE Goal
  <2>1. task[w] \in Reports /\ At(w, "saveCard")
    BY <1>9, <1>d, CardPlace DEF SavePosition, At, CardPlaces
  <2>2. PICK u \in Reports : u = task[w] /\ u.pc = "saveCard" /\ Newest(u)
    BY <1>i, <2>1 DEF At, Reporting
  <2>3. PICK t : t = [u EXCEPT !.pc = "saveLocation"]
    OBVIOUS
  <2>4. /\ Become(w, t) /\ UNCHANGED <<locations, reports, cached, index>>
        /\ position' = [position EXCEPT ![u.card] = u.place]
    BY <1>9, <2>2, <2>3 DEF SavePosition, Goto, cardCache
  <2>5. /\ t \in Reports /\ t.pc = "saveLocation" /\ t.card = u.card /\ t.place = u.place
        /\ t.at = u.at
    BY <2>2, <2>3 DEF Reports
  <2>6. PICK c \in Cards : c = u.card
    BY <2>2 DEF Reports
  <2>7. Newest(t)'
    BY <1>d, <2>2, <2>4, <2>5, <2>6 DEF Newest, CardTypeOK
  <2>8. Reporting(t)'
    BY <2>5, <2>7 DEF Reporting
  <2>9. ASSUME NEW b \in Cards PROVE AgreesFor(t, b)'
    <3>1. AgreesBut(b, FALSE, FALSE, FALSE)
      <4>1. AgreesFor(u, b)
        BY <1>0, <2>1, <2>2 DEF At
      <4> QED
        BY <2>2, <4>1 DEF AgreesFor, AgreesBut, Doing
    <3>2. CASE b = c
      <4>1. Doing(t, b, {"saveLocation"})
        BY <2>5, <2>6, <3>2 DEF Doing
      <4> QED
        BY <1>n, <2>4, <3>1, <4>1 DEF AgreesFor, AgreesBut, RowsInOrder, Latest, ZeroReported
    <3>3. CASE b # c
      <4>1. position'[b] = position[b] /\ cached'[b] = cached[b] /\ reports <= reports'
        BY <1>d, <1>n, <2>4, <2>6, <3>3 DEF CardTypeOK
      <4> QED
        BY <1>d, <1>n, <2>4, <3>1, <4>1, AgreesStays DEF AgreesFor
    <3> QED
      BY <3>2, <3>3
  <2> QED
    BY <1>1, <2>1, <2>4, <2>8, <2>9 DEF At
<1>10. ASSUME NEW w \in Workers, ReportRefused(w) PROVE FALSE
  <2>1. ASSUME At(w, "saveCard"), ~MaySaveCard(task[w]) PROVE FALSE
    BY <1>i, <2>1 DEF At, Reporting, Newest, MaySaveCard
  <2>2. ASSUME At(w, "saveLocation"), task[w].card \notin cards PROVE FALSE
    BY <2>2 DEF LimitInv
  <2> QED
    BY <1>10, <2>1, <2>2 DEF ReportRefused
<1>11. ASSUME NEW w \in Workers, SaveLocation(w) PROVE Goal
  <2>1. task[w] \in Reports /\ At(w, "saveLocation")
    BY <1>11, <1>d, CardPlace DEF SaveLocation, At, CardPlaces
  <2>2. PICK u \in Reports : u = task[w] /\ u.pc = "saveLocation" /\ Newest(u)
    BY <1>i, <2>1 DEF At, Reporting
  <2>3. PICK t : t = [u EXCEPT !.pc = "cacheBody"]
    OBVIOUS
  <2>4. /\ Become(w, t) /\ UNCHANGED <<position, reports, cached, index>>
        /\ locations' = [locations EXCEPT ![u.card] = @ \cup {[place |-> u.place, at |-> u.at]}]
    BY <1>11, <2>2, <2>3 DEF SaveLocation, Goto, cardCache
  <2>5. t \in Reports /\ t.pc = "cacheBody" /\ t.card = u.card /\ t.place = u.place
    BY <2>2, <2>3 DEF Reports
  <2>6. PICK c \in Cards : c = u.card
    BY <2>2 DEF Reports
  <2>7. RowsInOrder(c)' /\ locations'[c] # {} /\ Latest(c)'.place = u.place
    BY <1>d, <1>i, <2>2, <2>4, <2>6, InsertedIsLatest DEF Agrees, AgreesBut
  <2>8. Reporting(t)'
    BY <2>5, <2>6, <2>7 DEF Reporting, Caching
  <2>9. ASSUME NEW b \in Cards PROVE AgreesFor(t, b)'
    <3>1. AgreesFor(u, b)
      BY <1>0, <2>1, <2>2 DEF At
    <3>2. CASE b = c
      <4>1. Doing(t, b, {"cacheBody"}) /\ Doing(t, b, {"cacheBody", "cacheIndex"})
        BY <2>5, <2>6, <3>2 DEF Doing
      <4>2. position'[c] = u.place
        BY <2>2, <2>4, <2>6 DEF Newest
      <4> QED
        BY <2>7, <3>2, <4>1, <4>2 DEF AgreesFor, AgreesBut
    <3>3. CASE b # c
      <4>1. locations'[b] = locations[b]
        BY <1>d, <2>4, <2>6, <3>3 DEF CardTypeOK
      <4>2. AgreesBut(b, FALSE, FALSE, FALSE)
        BY <2>2, <2>6, <3>1, <3>3 DEF AgreesFor, AgreesBut, Doing
      <4>3. Latest(b)' = Latest(b)
        BY <4>1 DEF Latest
      <4>4. ZeroReported => ZeroReported'
        BY <1>d, <2>4, <2>6 DEF ZeroReported, CardTypeOK
      <4>5. AgreesBut(b, FALSE, FALSE, FALSE)'
        BY <2>4, <4>1, <4>2, <4>3, <4>4 DEF AgreesBut, RowsInOrder
      <4> QED
        BY <4>5 DEF AgreesFor, AgreesBut
    <3> QED
      BY <3>2, <3>3
  <2> QED
    BY <1>1, <2>1, <2>4, <2>8, <2>9 DEF At
<1>12. ASSUME NEW w \in Workers, CacheBody(w) PROVE Goal
  <2>1. task[w] \in Reports \cup Questions /\ At(w, "cacheBody")
    BY <1>12, <1>d, CardPlace DEF CacheBody, At, CardPlaces
  <2>2. PICK u \in Reports \cup Questions : u = task[w] /\ u.pc = "cacheBody" /\ Caching(u)
    BY <1>i, <2>1 DEF At, Reporting
  <2>3. PICK c \in Cards : c = u.card /\ u.place \in Places
    BY <2>2 DEF Reports, Questions
  <2>4. cached' = [cached EXCEPT ![c] = u.place] /\ UNCHANGED <<locations, position, reports, index>>
    BY <1>12, <2>2, <2>3 DEF CacheBody, cardRows
  <2>5. PICK t : /\ Become(w, t)
                 /\ \/ t = Idle /\ u.place \in Equator
                    \/ /\ t \in Reports \cup Questions /\ t.pc = "cacheIndex"
                       /\ t.card = u.card /\ t.place = u.place
    <3>1. PICK t : t = [u EXCEPT !.pc = "cacheIndex"]
      OBVIOUS
    <3>2. t \in Reports \cup Questions
      BY <2>2, <3>1, ReportMoves, QuestionMoves
    <3>3. t.pc = "cacheIndex" /\ t.card = u.card /\ t.place = u.place
      BY <2>2, <3>1 DEF Reports, Questions
    <3>4. Become(w, t) \/ (Become(w, Idle) /\ u.place \in Equator)
      BY <1>12, <2>2, <3>1 DEF CacheBody, Goto, Finish
    <3> QED
      BY <3>2, <3>3, <3>4
  <2>6. Latest(c)' = Latest(c) /\ Latest(c).place = u.place /\ locations[c] # {}
    BY <2>2, <2>3, <2>4 DEF Latest, Caching
  <2>7. Reporting(t)'
    <3>1. CASE t = Idle
      BY <1>z, <3>1
    <3>2. CASE t # Idle
      BY <2>3, <2>4, <2>5, <2>6, <3>2 DEF Reporting, Caching
    <3> QED
      BY <3>1, <3>2
  <2>8. ASSUME NEW b \in Cards PROVE AgreesFor(t, b)'
    <3>1. AgreesFor(u, b)
      BY <1>0, <2>1, <2>2 DEF At
    <3>2. CASE b = c
      <4>1. RowsInOrder(b)' /\ cached'[c] = u.place
        BY <1>d, <2>3, <2>4, <3>1 DEF AgreesFor, AgreesBut, RowsInOrder, CardTypeOK
      <4>2. position'[c] = Latest(c).place
        BY <2>2, <2>4, <2>6, <3>1, <3>2 DEF AgreesFor, AgreesBut, Doing
      <4>3. ZeroReported' \/ Doing(t, b, {"cacheBody", "cacheIndex"})
        <5>1. CASE t = Idle
          <6>1. Latest(c) \in locations[c] /\ u.place \in Equator
            BY <1>d, <2>5, <2>6, <5>1, LatestRow, <1>z, TasksApart DEF CardTasks
          <6> QED
            BY <2>4, <2>6, <6>1 DEF ZeroReported
        <5>2. CASE t # Idle
          BY <2>3, <2>5, <3>2, <5>2 DEF Doing
        <5> QED
          BY <5>1, <5>2
      <4> QED
        BY <2>4, <2>6, <3>2, <4>1, <4>2, <4>3 DEF AgreesFor, AgreesBut
    <3>3. CASE b # c
      <4>1. AgreesBut(b, FALSE, FALSE, FALSE)
        BY <2>2, <2>3, <3>1, <3>3 DEF AgreesFor, AgreesBut, Doing
      <4>2. cached'[b] = cached[b] /\ position'[b] = position[b] /\ reports <= reports'
        BY <1>d, <1>n, <2>4, <3>3 DEF CardTypeOK
      <4> QED
        BY <1>d, <1>n, <2>4, <4>1, <4>2, AgreesStays DEF AgreesFor
    <3> QED
      BY <3>2, <3>3
  <2> QED
    BY <1>1, <2>1, <2>5, <2>7, <2>8 DEF At
<1>13. ASSUME NEW w \in Workers, CacheIndex(w) PROVE Goal
  <2>1. task[w] \in Reports \cup Questions /\ At(w, "cacheIndex")
    BY <1>13, <1>d, CardPlace DEF CacheIndex, At, CardPlaces
  <2>2. PICK u \in Reports \cup Questions : u = task[w] /\ u.pc = "cacheIndex" /\ Caching(u)
    BY <1>i, <2>1 DEF At, Reporting
  <2>3. PICK c \in Cards : c = u.card
    BY <2>2 DEF Reports, Questions
  <2>4. /\ index' = [index EXCEPT ![c] = u.place] /\ UNCHANGED <<locations, position, reports, cached>>
        /\ Become(w, Idle)
    BY <1>13, <2>2, <2>3 DEF CacheIndex, cardRows, Finish
  <2>5. ASSUME NEW b \in Cards PROVE AgreesFor(Idle, b)'
    <3>1. AgreesFor(u, b)
      BY <1>0, <2>1, <2>2 DEF At
    <3>2. Latest(b)' = Latest(b) /\ ZeroReported' = ZeroReported /\ RowsInOrder(b)'
      BY <2>4, <3>1 DEF Latest, ZeroReported, AgreesFor, AgreesBut, RowsInOrder
    <3>3. CASE b = c
      <4>1. index'[c] = Latest(c).place /\ locations[c] # {}
        BY <1>d, <2>2, <2>3, <2>4 DEF Caching, CardTypeOK
      <4>2. AgreesBut(b, FALSE, FALSE, FALSE)'
        BY <2>2, <2>4, <3>1, <3>2, <3>3, <4>1 DEF AgreesFor, AgreesBut, Doing
      <4> QED
        BY <4>2 DEF AgreesFor, AgreesBut
    <3>4. CASE b # c
      <4>1. index'[b] = index[b]
        BY <1>d, <2>4, <3>4 DEF CardTypeOK
      <4>2. AgreesBut(b, FALSE, FALSE, FALSE)'
        BY <2>2, <2>3, <2>4, <3>1, <3>2, <3>4, <4>1 DEF AgreesFor, AgreesBut, Doing
      <4> QED
        BY <4>2 DEF AgreesFor, AgreesBut
    <3> QED
      BY <3>3, <3>4
  <2> QED
    BY <1>1, <1>z, <2>1, <2>4, <2>5 DEF At
<1>14. ASSUME NEW w \in Workers, NEW c \in Cards, RemoveCard(w, c) PROVE Goal
  <2>1. AtRest /\ UNCHANGED desk
    BY <1>14, NobodyBusy DEF RemoveCard
  <2>2. \A b \in Cards : position'[b] = position[b] \/ locations[b] = {}
    BY <1>14, <1>d DEF RemoveCard, CardTypeOK
  <2> QED
    BY <1>3, <1>14, <2>1, <2>2 DEF RemoveCard, desk, cardCache
<1>15. ASSUME NEW w \in Workers, NEW n \in Limits, ChangeLimit(w, n) PROVE Goal
  BY <1>3, <1>15 DEF ChangeLimit, desk, cardCache
<1>16. ASSUME NEW c \in Cards, KeyExpires(c) PROVE Goal
  <2>1. \A b \in Cards : cached'[b] \in {cached[b], NoPlace}
    BY <1>16, <1>d DEF KeyExpires, CardTypeOK
  <2> QED
    BY <1>3, <1>16, <2>1 DEF KeyExpires, desk, cardRows
<1>17. ASSUME NEW w \in Workers, FlushLocations(w) PROVE Goal
  <2>1. AtRest /\ UNCHANGED <<desk, locations, position, reports>>
        /\ \A c \in Cards : cached'[c] = NoPlace /\ index'[c] = NoPlace
    BY <1>17, NobodyBusy DEF FlushLocations, cardRows
  <2>2. ASSUME NEW c \in Cards PROVE Agrees(c)'
    <3>1. AgreesFor(Idle, c)
      <4>1. task[w] = Idle
        BY <1>d, <2>1, TasksPlaced DEF AtRest, At, DeskTypes, AllPlaces
      <4> QED
        BY <1>0, <1>17, <4>1 DEF FlushLocations
    <3>2. Latest(c)' = Latest(c)
      BY <2>1 DEF Latest
    <3> QED
      BY <1>z, <2>1, <3>1, <3>2 DEF Agrees, AgreesFor, AgreesBut, RowsInOrder
  <2>3. ASSUME NEW u \in Workers PROVE Reporting(task[u])'
    BY <2>1 DEF AtRest, At, desk, Reporting
  <2> QED
    BY <2>2, <2>3
<1>18. ASSUME NEW w \in Workers, CacheFails(w) PROVE FALSE
  BY <1>18 DEF CacheFails
<1>19. ASSUME UNCHANGED locating, Kept(CardTasks) PROVE Goal
  BY <1>3, <1>19 DEF locating, Kept
<1> HIDE DEF Goal
<1>20. CardNext => Goal
  BY <1>4, <1>5, <1>6, <1>7, <1>8, <1>9, <1>10, <1>11, <1>12, <1>13, <1>14, <1>15, <1>16, <1>17,
     <1>18 DEF CardNext
<1>21. Goal
  BY <1>19, <1>20, NextSteps DEF StepsOfServices
<1> QED
  BY <1>21 DEF Goal

LEMMA LocationsInitially == Init => LocationsInv
<1>1. ASSUME Init, NEW c \in Cards PROVE Agrees(c)
  <2>1. locations[c] = {} /\ cached[c] = NoPlace /\ index[c] = NoPlace
    BY <1>1 DEF Init, CardInit
  <2> QED
    BY <2>1 DEF Agrees, AgreesBut, RowsInOrder
<1>2. ASSUME Init, NEW w \in Workers PROVE task[w].pc = "idle"
  BY <1>2 DEF Init, Idle
<1> QED
  BY <1>1, <1>2 DEF LocationsInv, At

\* Between requests that do not overlap and do not fail, the location Redis has of
\* a card is the last one reported, and who asks for cards near a place finds only
\* cards that are there, unless a report had a zero (CardLocations.LocationsAgree).
THEOREM LocationsOfCardsAgree == Spec => []LocationsAgree
<1>1. TypeInv /\ DeskInv /\ LimitInv /\ LocationsInv /\ [Next]_vars => LocationsInv'
  BY LocationsInductive
<1>2. TypeInv /\ DeskInv /\ LimitInv /\ [Next]_vars => LimitInv'
  BY LimitInductive
<1>3. TypeInv /\ LocationsInv => LocationsAgree
  <2> SUFFICES ASSUME TypeInv, LocationsInv, Serial, AtRest, ~workload.fails
               PROVE  CachedIsLatest /\ (~ZeroReported => NearbyIsThere)
    BY DEF LocationsAgree
  <2>d. CardTypeOK
    BY DEF TypeInv
  <2>1. ASSUME NEW c \in Cards PROVE AgreesBut(c, FALSE, FALSE, FALSE)
    <3>1. \A pcs : "idle" \notin pcs => ~Undone(c, pcs)
      BY DEF AtRest, At, Undone
    <3>2. /\ ~Undone(c, {"cacheBody"}) /\ ~Undone(c, {"cacheBody", "cacheIndex"})
          /\ ~Undone(c, {"saveLocation"})
      BY <3>1
    <3> QED
      BY <3>2 DEF LocationsInv, Agrees, AgreesBut
  <2>2. CachedIsLatest
    BY <2>1 DEF CachedIsLatest, CardLocation, AgreesBut
  <2>3. ASSUME ~ZeroReported, NEW p \in Places, NEW c \in Nearby(p), locations[c] # {}
        PROVE  Latest(c).place = p
    <3>1. c \in Cards /\ (index[c] = p \/ position[c] = p)
      BY <2>3 DEF Nearby, Indexed
    <3>2. p # NoPlace
      BY PlacesAssumption
    <3> QED
      BY <2>1, <2>3, <3>1, <3>2 DEF AgreesBut
  <2> QED
    BY <2>2, <2>3 DEF NearbyIsThere
<1> QED
  BY <1>1, <1>2, <1>3, LimitInitially, LocationsInitially, TypesAlways, PTL DEF Spec

-----------------------------------------------------------------------------
(* Roles keep their names apart, and system roles their mark.               *)

Unique == \A r \in Live : NameFree(r, role[r].name, role[r].office)

Naming(t) ==
  /\ t.pc = "insertRole" /\ t.copy.office # NoOffice => Namesakes(t.copy.name, t.copy.office) = {}
  /\ t.pc = "updateRole" =>
       /\ t.office = NoOffice
       /\ t.name # "none" => NameFree(t.role, t.name, role[t.role].office)
  /\ t.pc = "saveRole" => NameFree(t.role, t.copy.name, t.copy.office)

Known(t) ==
  /\ t \in Changes \cup RoleDeletions => role[t.role].state # "unused"
  /\ t.pc \in {"insertRole", "saveRole"} => t.copy.state = "live"

Marked(t) ==
  /\ t.pc = "saveRole" =>
       /\ role[t.role].system => t.copy.system
       /\ ~Asked({"UpdateRole"}) => t.copy.system = role[t.role].system
  /\ t.pc = "removeRow" => ~role[t.role].system

NamesKept == Serial /\ ~Asked({"GiveOffice"})

MarksKept == Serial \/ ~Asked({"UpdateRole"})

\* A row becomes a copy whose name is free.
LEMMA UniqueStep ==
  ASSUME Unique, NEW r \in RoleIds, NEW copy \in RoleRows, role \in [RoleIds -> RoleRows],
         role' = [role EXCEPT ![r] = copy], NameFree(r, copy.name, copy.office)
  PROVE  Unique'
<1>1. \A q \in RoleIds : role'[q] = IF q = r THEN copy ELSE role[q]
  OBVIOUS
<1>2. \A q \in Live' : q = r \/ (q \in Live /\ role'[q] = role[q])
  BY <1>1 DEF Live
<1>3. ASSUME NEW q \in Live', NEW p \in Live' \ {q}, role'[q].office # NoOffice,
             role'[p].name = role'[q].name, role'[p].office = role'[q].office
      PROVE  FALSE
  BY <1>1, <1>2, <1>3 DEF Unique, NameFree
<1> QED
  BY <1>3 DEF Unique, NameFree

\* The names, suppliers, marks and states of the roles stay.
LEMMA NamesStay ==
  ASSUME \A r \in RoleIds : /\ role'[r].state = role[r].state /\ role'[r].name = role[r].name
                            /\ role'[r].office = role[r].office,
         Unique
  PROVE  Unique'
<1>1. Live' = Live
  BY DEF Live
<1> QED
  BY <1>1 DEF Unique, NameFree, Live

LEMMA RolesInductive ==
  ASSUME TypeInv, DeskInv, NamesInv, SystemInv, [Next]_vars
  PROVE  NamesInv' /\ SystemInv'
<1>d. DeskTypes /\ DeskTypes' /\ UNCHANGED workload
  BY NextDesk DEF TypeInv
<1>t. role \in [RoleIds -> RoleRows]
  BY DEF TypeInv, RoleTypeOK, RoleRows
<1> DEFINE GoodName == NamesKept => Unique /\ \A w \in Workers : Naming(task[w])
           GoodMark == \A w \in Workers : Known(task[w]) /\ (MarksKept => Marked(task[w]))
           Goal == GoodName' /\ GoodMark'
<1>i. GoodName /\ GoodMark
  BY DEF NamesInv, SystemInv, NamesKept, Unique, Naming, Known, MarksKept, Marked, At, Changes
<1>g. Goal => NamesInv' /\ SystemInv'
  BY DEF NamesInv, SystemInv, NamesKept, Unique, Naming, Known, MarksKept, Marked, At, Changes
<1>z. Idle \notin Changes \cup RoleDeletions \cup NewPermissions
  BY TasksApart DEF Changes, RoleTasks
<1>q. ASSUME NEW t \in {Idle} \cup NewPermissions PROVE Naming(t)' /\ Known(t)' /\ Marked(t)'
  <2>1. /\ t.pc \notin {"insertRole", "updateRole", "saveRole", "removeRow"}
        /\ t \notin Changes \cup RoleDeletions
    BY <1>z, <1>q DEF Idle, NewPermissions, Changes, PermissionChanges, RoleEdits, RoleDeletions
  <2> QED
    BY <2>1 DEF Naming, Known, Marked
<1>1. ASSUME NEW w \in Workers, NEW t, Become(w, t), ~At(w, "idle") \/ (\E op : Accepts(w, op)),
             NamesKept => Unique' /\ Naming(t)', Known(t)', MarksKept => Marked(t)',
             \A r \in RoleIds : role[r].state # "unused" =>
               /\ role'[r].state # "unused"
               /\ ~Asked({"UpdateRole"}) => role'[r].system = role[r].system
      PROVE  Goal
  <2>1. ASSUME Serial, NEW u \in Workers PROVE task'[u] = IF u = w THEN t ELSE Idle
    BY <1>1, <1>d, <2>1, OneRequest
  <2>2. GoodName'
    <3>1. ASSUME NamesKept, NEW u \in Workers PROVE Naming(task[u])'
      BY <1>1, <1>q, <2>1, <3>1 DEF Naming, NamesKept
    <3> QED
      BY <1>1, <1>d, <3>1 DEF NamesKept, Serial, Asked
  <2>3. ASSUME NEW u \in Workers PROVE Known(task[u])' /\ (MarksKept => Marked(task[u])')
    <3>1. CASE u = w
      BY <1>1, <1>d, <3>1, OneGoesOn DEF Known, Marked
    <3>2. CASE u # w
      <4>1. task'[u] = task[u]
        BY <1>1, <1>d, <3>2, OneGoesOn
      <4>2. PICK s : s = task[u]
        OBVIOUS
      <4>3. s \in Changes \cup RoleDeletions => s.role \in RoleIds
        BY ChangeFields DEF RoleDeletions
      <4>4. Known(s) /\ (MarksKept => Marked(s))
        BY <1>i, <4>2
      <4>5. Known(s)'
        BY <1>1, <4>3, <4>4 DEF Known
      <4>6. ASSUME Serial PROVE Marked(s)'
        BY <1>q, <2>1, <3>2, <4>1, <4>2, <4>6
      <4>7. ASSUME ~Asked({"UpdateRole"}) PROVE Marked(s)'
        <5>1. s.pc \in {"saveRole", "removeRow"} => s \in Changes \cup RoleDeletions
          BY <1>d, <4>2, RolePlace DEF RolePlaces, Changes
        <5>2. s.pc \in {"saveRole", "removeRow"} => role'[s.role].system = role[s.role].system
          BY <1>1, <4>3, <4>4, <4>7, <5>1 DEF Known
        <5> QED
          BY <1>d, <4>4, <4>7, <5>2 DEF Marked, MarksKept, Asked
      <4> QED
        BY <4>1, <4>2, <4>5, <4>6, <4>7 DEF Known, Marked, MarksKept
    <3> QED
      BY <3>1, <3>2
  <2> QED
    BY <1>d, <2>2, <2>3 DEF MarksKept, Serial, Asked
<1>u. ASSUME UNCHANGED role PROVE NamesKept => Unique'
  BY <1>i, <1>u DEF Unique, NameFree, Live
<1>2. ASSUME NEW w \in Workers, NEW t, Become(w, t), ~At(w, "idle") \/ (\E op : Accepts(w, op)),
             UNCHANGED role, NamesKept => Naming(t)', Known(t)', MarksKept => Marked(t)'
      PROVE  Goal
  BY <1>1, <1>2, <1>u
<1>3. ASSUME NEW w \in Workers, NEW t, Become(w, t), ~At(w, "idle") \/ (\E op : Accepts(w, op)),
             UNCHANGED role, t.role \in Live,
             t.pc \in {"remove", "assign", "deleteRole"}
      PROVE  Goal
  <2>1. Naming(t)' /\ Known(t)' /\ Marked(t)'
    BY <1>3 DEF Naming, Known, Marked, Live
  <2> QED
    BY <1>2, <1>3, <2>1
<1>4. ASSUME NEW w \in Workers, SaveRole(w) PROVE Goal
  <2>1. task[w] \in Changes /\ At(w, "saveRole")
    BY <1>4, <1>d, RolePlace DEF SaveRole, At, RolePlaces, Changes
  <2>2. PICK u \in Changes : u = task[w] /\ u.pc = "saveRole"
    BY <2>1 DEF At
  <2>3. PICK r \in RoleIds : r = u.role /\ u.copy \in RoleRows /\ u.then \in Nexts
    BY ChangeFields DEF Nexts
  <2>4. /\ NamesKept => NameFree(r, u.copy.name, u.copy.office)
        /\ u.copy.state = "live"
        /\ MarksKept => Marked(u)
    BY <1>i, <2>2, <2>3 DEF Naming, Known
  <2>5. role' = [role EXCEPT ![r] = u.copy]
    BY <1>4, <2>2, <2>3 DEF SaveRole
  <2>6. NamesKept => Unique'
    BY <1>i, <1>t, <2>3, <2>4, <2>5, UniqueStep
  <2>7. ASSUME NEW q \in RoleIds, role[q].state # "unused"
        PROVE  role'[q].state # "unused"
    <3>1. role'[q] = IF q = r THEN u.copy ELSE role[q]
      BY <1>t, <2>5
    <3>2. u.copy.state = "live"
      BY <2>4
    <3> QED
      BY <2>7, <3>1, <3>2
  <2>8. ASSUME ~Asked({"UpdateRole"}), NEW q \in RoleIds
        PROVE  role'[q].system = role[q].system
    <3>1. u.copy.system = role[r].system
      BY <2>2, <2>3, <2>4, <2>8 DEF Marked, MarksKept
    <3> QED
      BY <1>t, <2>5, <3>1
  <2>9. PICK t : Become(w, t) /\ Naming(t)' /\ Known(t)' /\ Marked(t)'
    <3>1. ASSUME Finish(w) PROVE \E t : Become(w, t) /\ Naming(t)' /\ Known(t)' /\ Marked(t)'
      BY <1>q, <3>1 DEF Finish
    <3>2. ASSUME Goto(w, u.then), u.then # "idle"
          PROVE  \E t : Become(w, t) /\ Naming(t)' /\ Known(t)' /\ Marked(t)'
      <4>1. PICK t : t = [u EXCEPT !.pc = u.then]
        OBVIOUS
      <4>2. Become(w, t) /\ t.role = r /\ t.pc \in {"remove", "assign"}
        BY <2>2, <2>3, <3>2, <4>1 DEF Goto, Changes, PermissionChanges, RoleEdits, Nexts
      <4>3. Known(t)'
        BY <1>t, <2>4, <2>5, <4>2 DEF Known
      <4>4. Naming(t)' /\ Marked(t)'
        BY <4>2 DEF Naming, Marked
      <4> QED
        BY <4>2, <4>3, <4>4
    <3> QED
      BY <1>4, <2>2, <3>1, <3>2 DEF SaveRole
  <2> QED
    BY <1>1, <2>1, <2>6, <2>7, <2>8, <2>9 DEF At
<1>5. ASSUME NEW w \in Workers, RoleRefused(w) \/ NotFound(w) PROVE Goal
  <2>1. Become(w, Idle) /\ ~At(w, "idle") /\ UNCHANGED role
    BY <1>5 DEF RoleRefused, NotFound, Finish, At, roles
  <2> QED
    BY <1>2, <1>q, <2>1
<1>6. ASSUME NEW w \in Workers, NEW t \in Changes, Become(w, t), ~At(w, "idle"), UNCHANGED role,
             t.pc = "saveRole", t.role \in Live, t.copy.state = "live",
             t.copy.name = role[t.role].name, t.copy.office = role[t.role].office,
             t.copy.system = role[t.role].system
      PROVE  Goal
  <2>1. NamesKept => Naming(t)'
    BY <1>i, <1>6 DEF Naming, Unique, NameFree, Live
  <2>2. Known(t)' /\ Marked(t)'
    BY <1>6 DEF Known, Marked, Live
  <2> QED
    BY <1>2, <1>6, <2>1, <2>2
<1>7. ASSUME NEW w \in Workers, RemoveRead(w) PROVE Goal
  <2>1. task[w] \in Changes /\ ~At(w, "idle") /\ UNCHANGED role /\ task[w].role \in Live
    BY <1>7, <1>d, RolePlace DEF RemoveRead, At, RolePlaces, Changes, roles
  <2>2. PICK u \in Changes : u = task[w]
    BY <2>1
  <2>3. PICK copy : copy = [role[u.role] EXCEPT !.permissions = @ \ u.remove]
    OBVIOUS
  <2>4. PICK next \in Nexts : next = Remaining({}, u.assign)
    BY DEF Remaining, Nexts
  <2>5. PICK t : t = [u EXCEPT !.pc = "saveRole", !.then = next, !.copy = copy]
    OBVIOUS
  <2>6. Become(w, t)
    BY <1>7, <2>2, <2>3, <2>4, <2>5 DEF RemoveRead
  <2>7. role[u.role] \in RoleRows /\ role[u.role].state = "live"
    BY <1>t, <2>1, <2>2 DEF Live
  <2>8. /\ copy.state = "live" /\ copy.name = role[u.role].name /\ copy.office = role[u.role].office
        /\ copy.system = role[u.role].system /\ copy \in RoleRows
    BY <2>3, <2>7 DEF RoleRows
  <2>9. t \in Changes
    BY <2>5, <2>8, ChangeCopies
  <2>10. t.pc = "saveRole" /\ t.role = u.role /\ t.copy = copy
    BY <2>5 DEF Changes, PermissionChanges, RoleEdits
  <2> QED
    BY <1>6, <2>1, <2>2, <2>6, <2>8, <2>9, <2>10
<1>8. ASSUME NEW w \in Workers, AssignRead(w) PROVE Goal
  <2>1. task[w] \in Changes /\ ~At(w, "idle") /\ UNCHANGED role /\ task[w].role \in Live
    BY <1>8, <1>d, RolePlace DEF AssignRead, At, RolePlaces, Changes, roles
  <2>2. PICK u \in Changes : u = task[w]
    BY <2>1
  <2>3. PICK copy : copy = [role[u.role] EXCEPT !.permissions = @ \cup u.assign]
    OBVIOUS
  <2>4. PICK t : t = [u EXCEPT !.pc = "saveRole", !.then = "idle", !.copy = copy]
    OBVIOUS
  <2>5. Become(w, t)
    BY <1>8, <2>2, <2>3, <2>4 DEF AssignRead
  <2>6. role[u.role] \in RoleRows /\ role[u.role].state = "live" /\ u.assign \in SUBSET Permissions
    BY <1>t, <2>1, <2>2, ChangeFields DEF Live
  <2>7. /\ copy.state = "live" /\ copy.name = role[u.role].name /\ copy.office = role[u.role].office
        /\ copy.system = role[u.role].system /\ copy \in RoleRows
    BY <2>3, <2>6 DEF RoleRows
  <2>8. t \in Changes
    BY <2>4, <2>7, ChangeCopies DEF Nexts
  <2>9. t.pc = "saveRole" /\ t.role = u.role /\ t.copy = copy
    BY <2>4 DEF Changes, PermissionChanges, RoleEdits
  <2> QED
    BY <1>6, <2>1, <2>2, <2>5, <2>7, <2>8, <2>9
<1>9. ASSUME NEW w \in Workers, NEW office \in Offices \cup {NoOffice},
             NEW assign \in SUBSET Permissions, NEW n \in Names, NEW system \in BOOLEAN,
             CreateRole(w, n, office, system, assign)
      PROVE  Goal
  <2>1. PICK copy : copy = [NoRole EXCEPT !.state = "live", !.name = n, !.office = office,
                                          !.system = system]
    OBVIOUS
  <2>2. copy.state = "live" /\ copy.name = n /\ copy.office = office
    BY <2>1 DEF NoRole
  <2>3. PICK t : t = [op |-> "CreateRole", pc |-> "insertRole", assign |-> assign, copy |-> copy]
    OBVIOUS
  <2>4. /\ Accepts(w, "CreateRole") /\ Become(w, t) /\ UNCHANGED role
        /\ office # NoOffice => Namesakes(n, office) = {}
    BY <1>9, <2>1, <2>3 DEF CreateRole, roles
  <2>5. Naming(t)' /\ Marked(t)'
    BY <2>2, <2>3, <2>4 DEF Naming, Marked, Namesakes, Live
  <2>6. Known(t)'
    <3>1. t \notin Changes \cup RoleDeletions
      BY <2>3 DEF Changes, PermissionChanges, RoleEdits, RoleDeletions
    <3> QED
      BY <2>2, <2>3, <3>1 DEF Known
  <2> QED
    BY <1>2, <2>4, <2>5, <2>6
<1>10. ASSUME NEW w \in Workers, NEW office \in Offices \cup {NoOffice},
              NEW assign \in SUBSET Permissions, NEW r \in RoleIds, NEW n \in Names \cup {"none"},
              NEW replaced \in BOOLEAN, NEW mark \in {"kept", "set", "cleared"},
              UpdateRole(w, r, n, office, mark, replaced, assign)
       PROVE  Goal
  <2>1. PICK t : t = [op |-> "UpdateRole", pc |-> "updateRole", role |-> r, name |-> n,
                office |-> office, mark |-> mark, copy |-> NoRole,
                then |-> IF replaced THEN Remaining(role[r].permissions, assign) ELSE "idle",
                remove |-> role[r].permissions, assign |-> assign]
    OBVIOUS
  <2>2. /\ Accepts(w, "UpdateRole") /\ Become(w, t) /\ UNCHANGED role /\ r \in Live
        /\ office # NoOffice => Asked({"GiveOffice"})
        /\ n \notin {role[r].name, "none"} => Namesakes(n, role[r].office) \subseteq {r}
    BY <1>10, <2>1 DEF UpdateRole, roles
  <2>3. t.pc = "updateRole" /\ t.role = r /\ t.name = n /\ t.office = office
    BY <2>1
  <2>4. ASSUME NamesKept, n # "none" PROVE NameFree(r, n, role[r].office)
    <3>1. CASE n = role[r].name
      BY <1>i, <2>2, <2>4, <3>1 DEF Unique
    <3>2. CASE n # role[r].name
      BY <2>2, <2>4, <3>2 DEF NameFree, Namesakes
    <3> QED
      BY <3>1, <3>2
  <2>5. NamesKept => Naming(t)'
    BY <2>2, <2>3, <2>4 DEF Naming, NamesKept, NameFree, Live
  <2>6. Known(t)' /\ Marked(t)'
    BY <2>2, <2>3 DEF Known, Marked, Live
  <2> QED
    BY <1>2, <2>2, <2>5, <2>6
<1>11. ASSUME NEW w \in Workers, NEW r \in RoleIds, InsertRole(w, r) PROVE Goal
  <2>1. task[w] \in NewRoles /\ At(w, "insertRole")
    BY <1>11, <1>d, RolePlace DEF InsertRole, At, RolePlaces
  <2>2. PICK copy \in RoleRows : copy = task[w].copy
    BY <2>1 DEF NewRoles
  <2>3. role[r].state = "unused" /\ role' = [role EXCEPT ![r] = copy]
    BY <1>11, <2>2 DEF InsertRole, IsNext
  <2>4. /\ NamesKept /\ copy.office # NoOffice => Namesakes(copy.name, copy.office) = {}
        /\ copy.state = "live"
    BY <1>i, <2>1, <2>2 DEF At, Naming, Known
  <2>5. NamesKept => NameFree(r, copy.name, copy.office)
    BY <2>4 DEF NameFree, Namesakes
  <2>6. NamesKept => Unique'
    BY <1>i, <1>t, <2>2, <2>3, <2>5, UniqueStep
  <2>7. \A q \in RoleIds : role[q].state # "unused" => role'[q] = role[q]
    BY <1>t, <2>3
  <2>8. PICK t : Become(w, t) /\ Naming(t)' /\ Known(t)' /\ Marked(t)'
    <3>1. ASSUME Finish(w) PROVE \E t : Become(w, t) /\ Naming(t)' /\ Known(t)' /\ Marked(t)'
      BY <1>q, <3>1 DEF Finish
    <3>2. PICK t : t = [op |-> "CreateRole", pc |-> "assign", role |-> r, remove |-> {},
                        assign |-> task[w].assign, copy |-> NoRole, then |-> "idle"]
      OBVIOUS
    <3>3. Naming(t)' /\ Known(t)' /\ Marked(t)'
      <4>1. role'[r].state = "live"
        BY <1>t, <2>3, <2>4
      <4> QED
        BY <3>2, <4>1 DEF Naming, Known, Marked
    <3> QED
      BY <1>11, <3>1, <3>2, <3>3 DEF InsertRole
  <2> QED
    BY <1>1, <2>1, <2>6, <2>7, <2>8 DEF At
<1>12. ASSUME NEW w \in Workers, NEW r \in RoleIds, DeleteRole(w, r) PROVE Goal
  <2>1. PICK t : t = [op |-> "DeleteRole", pc |-> "deleteRole", role |-> r]
    OBVIOUS
  <2> QED
    BY <1>3, <1>12, <2>1 DEF DeleteRole, roles
<1>13. ASSUME NEW w \in Workers, NEW r \in RoleIds, NEW remove \in SUBSET Permissions,
              NEW assign \in SUBSET Permissions, ChangePermissions(w, r, remove, assign)
       PROVE  Goal
  <2>1. PICK t : t = [op |-> "ChangePermissions", pc |-> Remaining(remove, assign), role |-> r,
                remove |-> remove, assign |-> assign, copy |-> NoRole, then |-> "idle"]
    OBVIOUS
  <2>2. Become(w, t) /\ Accepts(w, "ChangePermissions") /\ UNCHANGED role /\ r \in Live
    BY <1>13, <2>1 DEF ChangePermissions, roles
  <2>3. t.role = r /\ t.pc \in {"remove", "assign", "deleteRole"}
    BY <1>13, <2>1 DEF ChangePermissions, Remaining
  <2> QED
    BY <1>3, <2>2, <2>3
<1>14. ASSUME NEW w \in Workers, UpdateRead(w) PROVE Goal
  <2>1. task[w] \in RoleEdits /\ At(w, "updateRole")
    BY <1>14, <1>d, RolePlace DEF UpdateRead, At, RolePlaces
  <2>2. PICK u \in RoleEdits : u = task[w] /\ u.pc = "updateRole"
    BY <2>1 DEF At
  <2>3. PICK r \in RoleIds : r = u.role
    BY DEF RoleEdits
  <2>4. PICK old \in RoleRows : old = role[r]
    BY <1>t
  <2>5. PICK t : t = [u EXCEPT !.pc = "saveRole",
           !.copy = [old EXCEPT !.name = IF u.name = "none" THEN @ ELSE u.name,
                                !.system = CASE u.mark = "kept" -> @
                                             [] u.mark = "set" -> TRUE
                                             [] u.mark = "cleared" -> FALSE,
                                !.office = IF old.office = NoOffice THEN u.office ELSE @]]
    OBVIOUS
  <2>6. /\ Become(w, t) /\ UNCHANGED role /\ r \in Live /\ ~(old.system /\ u.mark = "cleared")
    BY <1>14, <2>2, <2>3, <2>4, <2>5 DEF UpdateRead, MayUpdate, roles
  <2>7. /\ t.pc = "saveRole" /\ t.role = r /\ t.copy.state = old.state
        /\ t.copy.name = IF u.name = "none" THEN old.name ELSE u.name
        /\ t.copy.office = IF old.office = NoOffice THEN u.office ELSE old.office
    BY <2>3, <2>5 DEF RoleEdits, RoleRows
  <2>8. old.system => t.copy.system
    <3>1. u.mark \in {"kept", "set", "cleared"}
      BY DEF RoleEdits
    <3>2. t.copy.system = CASE u.mark = "kept" -> old.system
                            [] u.mark = "set" -> TRUE
                            [] u.mark = "cleared" -> FALSE
      BY <2>5 DEF RoleEdits, RoleRows
    <3> QED
      BY <2>6, <3>1, <3>2
  <2>9. old.state = "live"
    BY <2>4, <2>6 DEF Live
  <2>10. Asked({"UpdateRole"})
    <3>1. u.op = "UpdateRole" /\ u.op \in workload.ops \cup {"none"}
      BY <2>2 DEF RoleEdits, DeskInv
    <3> QED
      BY <3>1 DEF Asked
  <2>11. Known(t)'
    BY <2>6, <2>7, <2>9, <2>4 DEF Known, Changes, RoleDeletions
  <2>12. Marked(t)'
    BY <1>d, <2>4, <2>6, <2>7, <2>8, <2>10 DEF Marked, Asked
  <2>13. ASSUME NamesKept PROVE Naming(t)'
    <3>1. /\ u.office = NoOffice
          /\ u.name # "none" => NameFree(r, u.name, old.office)
      BY <1>i, <2>2, <2>3, <2>4, <2>13 DEF Naming
    <3>2. NameFree(r, old.name, old.office)
      BY <1>i, <2>4, <2>6, <2>13 DEF Unique
    <3>3. t.copy.office = old.office
      BY <2>7, <3>1
    <3>4. NameFree(r, t.copy.name, t.copy.office)
      BY <2>7, <3>1, <3>2, <3>3
    <3> QED
      BY <2>6, <2>7, <3>4 DEF Naming, NameFree, Live
  <2> QED
    BY <1>2, <2>1, <2>6, <2>11, <2>12, <2>13 DEF At
<1>15. ASSUME NEW w \in Workers, DeleteRead(w) PROVE Goal
  <2>1. task[w] \in RoleDeletions /\ At(w, "deleteRole")
    BY <1>15, <1>d, RolePlace DEF DeleteRead, At, RolePlaces
  <2>2. PICK t : t = [task[w] EXCEPT !.pc = "removeRow"]
    OBVIOUS
  <2>3. t.pc = "removeRow" /\ t.role = task[w].role
    BY <2>1, <2>2 DEF RoleDeletions
  <2>4. Become(w, t) /\ UNCHANGED role /\ t.role \in Live /\ ~role[t.role].system
    BY <1>15, <2>2, <2>3 DEF DeleteRead, Goto, MayDelete, roles
  <2>5. Naming(t)' /\ Known(t)' /\ Marked(t)'
    BY <2>3, <2>4 DEF Naming, Known, Marked, Live
  <2> QED
    BY <1>2, <2>1, <2>4, <2>5 DEF At
<1>16. ASSUME NEW w \in Workers, DeleteRow(w) PROVE Goal
  <2>1. task[w] \in RoleDeletions /\ At(w, "removeRow") /\ Become(w, Idle)
    BY <1>16, <1>d, RolePlace DEF DeleteRow, At, RolePlaces, Finish
  <2>2. PICK r \in RoleIds : r = task[w].role
    BY <2>1 DEF RoleDeletions
  <2>3. PICK row : row = [role[r] EXCEPT !.state = "deleted", !.permissions = {}]
    OBVIOUS
  <2>4. /\ row \in RoleRows /\ row.state = "deleted" /\ row.system = role[r].system
    BY <1>t, <2>3 DEF RoleRows
  <2>5. role' = [role EXCEPT ![r] = row]
    BY <1>16, <1>t, <2>2, <2>3 DEF DeleteRow
  <2>6. \A q \in RoleIds : role'[q] = IF q = r THEN row ELSE role[q]
    BY <1>t, <2>5
  <2>7. NamesKept => Unique'
    <3>1. \A q \in Live' : q \in Live /\ role'[q] = role[q]
      BY <2>4, <2>6 DEF Live
    <3> QED
      BY <1>i, <3>1 DEF Unique, NameFree
  <2>8. \A q \in RoleIds : role[q].state # "unused" =>
          role'[q].state # "unused" /\ role'[q].system = role[q].system
    BY <2>4, <2>6
  <2> QED
    BY <1>1, <1>q, <2>1, <2>7, <2>8 DEF At
<1>17. ASSUME NEW w \in Workers, NEW p \in Permissions, SavePermission(w, p) PROVE Goal
  <2>1. PICK t : t = [op |-> "SavePermission", pc |-> "savePermission", permission |-> p]
    OBVIOUS
  <2>2. t \in NewPermissions
    BY <2>1 DEF NewPermissions
  <2>3. Become(w, t) /\ Accepts(w, "SavePermission") /\ UNCHANGED role
    BY <1>17, <2>1 DEF SavePermission, roles
  <2> QED
    BY <1>2, <1>q, <2>2, <2>3
<1>18. ASSUME NEW w \in Workers, InsertPermission(w) PROVE Goal
  <2>1. Become(w, Idle) /\ ~At(w, "idle") /\ UNCHANGED role
    BY <1>18 DEF InsertPermission, Finish, At
  <2> QED
    BY <1>2, <1>q, <2>1
<1>19. ASSUME \A r \in RoleIds :
                /\ role'[r].state = role[r].state /\ role'[r].name = role[r].name
                /\ role'[r].office = role[r].office /\ role'[r].system = role[r].system,
              \A w \in Workers : task'[w] \in RoleTasks => task'[w] = task[w]
       PROVE  Goal
  <2>1. NamesKept => Unique'
    BY <1>i, <1>19, NamesStay
  <2>2. Live' = Live
    BY <1>19 DEF Live
  <2>3. ASSUME NEW w \in Workers
        PROVE  /\ NamesKept => Naming(task[w])'
               /\ Known(task[w])' /\ (MarksKept => Marked(task[w])')
    <3>1. PICK t : t = task'[w]
      OBVIOUS
    <3>2. CASE t \in RoleTasks
      <4>1. /\ NamesKept => Naming(t)
            /\ Known(t) /\ (MarksKept => Marked(t)) /\ RolePlaces(t)
        BY <1>19, <1>i, <1>d, <3>1, <3>2, RolePlace
      <4>2. /\ t \in Changes \cup RoleDeletions => t.role \in RoleIds
            /\ t.pc = "updateRole" => t.role \in RoleIds
            /\ t.pc \in {"saveRole", "removeRow"} => t.role \in RoleIds
        BY <4>1, ChangeFields DEF RoleDeletions, RolePlaces, Changes
      <4>3. NamesKept => Naming(t)'
        BY <1>19, <2>2, <4>1, <4>2 DEF Naming, NameFree, Namesakes, Live
      <4>4. Known(t)' /\ (MarksKept => Marked(t)')
        BY <1>19, <1>d, <4>1, <4>2 DEF Known, Marked, Asked
      <4> QED
        BY <3>1, <4>3, <4>4 DEF Naming, Known, Marked, NameFree, Namesakes, Live
    <3>3. CASE t \notin RoleTasks
      <4>1. /\ t.pc \notin {"insertRole", "updateRole", "saveRole", "removeRow"}
            /\ t \notin Changes \cup RoleDeletions
        BY <1>d, <3>1, <3>3, TasksPlaced DEF DeskTypes, AllPlaces, RolePlaces, RoleTasks, Changes
      <4> QED
        BY <3>1, <4>1 DEF Naming, Known, Marked
    <3> QED
      BY <3>2, <3>3
  <2> QED
    BY <1>d, <2>1, <2>3 DEF NamesKept, MarksKept, Serial, Asked
<1>20. ASSUME NEW w \in Workers, NEW p \in Permissions, DeletePermission(w, p) PROVE Goal
  <2>1. /\ role' = [r \in RoleIds |-> [role[r] EXCEPT !.permissions = @ \ {p}]]
        /\ UNCHANGED desk
    BY <1>20 DEF DeletePermission
  <2>2. \A r \in RoleIds : /\ role'[r].state = role[r].state /\ role'[r].name = role[r].name
                           /\ role'[r].office = role[r].office /\ role'[r].system = role[r].system
    BY <1>t, <2>1 DEF RoleRows
  <2> QED
    BY <1>19, <2>1, <2>2 DEF desk
<1>21. ASSUME UNCHANGED roles, Kept(RoleTasks) PROVE Goal
  BY <1>19, <1>21 DEF roles, Kept
<1> HIDE DEF Goal
<1>22. RoleNext => Goal
  BY <1>4, <1>5, <1>7, <1>8, <1>9, <1>10, <1>11, <1>12, <1>13, <1>14, <1>15, <1>16, <1>17, <1>18,
     <1>20 DEF RoleNext
<1>23. Goal
  BY <1>21, <1>22, NextSteps DEF StepsOfServices
<1> QED
  BY <1>23, <1>g

LEMMA RolesInitially == Init => NamesInv /\ SystemInv
<1>1. ASSUME Init PROVE Live = {} /\ \A w \in Workers : task[w] = Idle
  BY <1>1 DEF Init, RoleInit, Live, NoRole
<1>2. Idle \notin PermissionChanges \cup RoleEdits \cup RoleDeletions
  BY TasksApart DEF RoleTasks
<1>3. ASSUME NEW w \in Workers, task[w] = Idle
      PROVE  /\ ~At(w, "insertRole") /\ ~At(w, "updateRole") /\ ~At(w, "saveRole")
             /\ ~At(w, "removeRow")
  BY <1>3 DEF At, Idle
<1> QED
  BY <1>1, <1>2, <1>3 DEF NamesInv, SystemInv

\* Requests that do not overlap leave no two roles of a supplier with one name,
\* unless a role without supplier is given one (Roles.RoleNamesUnique).
THEOREM RoleNamesAreUnique == Spec => []RoleNamesUnique
<1>1. TypeInv /\ DeskInv /\ NamesInv /\ SystemInv /\ [Next]_vars => NamesInv' /\ SystemInv'
  BY RolesInductive
<1>2. NamesInv => RoleNamesUnique
  BY DEF NamesInv, NameFree, RoleNamesUnique
<1> QED
  BY <1>1, <1>2, RolesInitially, TypesAlways, PTL DEF Spec

\* If requests do not overlap or none updates roles, a system role stays, and
\* stays one: neither a stale copy that is saved takes its mark off nor does a
\* deletion that passed the check remove it (Roles.SystemRolesStay).
THEOREM SystemRolesAreKept == Spec => SystemRolesStay
<1> DEFINE Step == Serial \/ ~Asked({"UpdateRole"}) =>
       \A r \in Live : role[r].system => role'[r].state = "live" /\ role'[r].system
<1>1. TypeInv /\ DeskInv /\ NamesInv /\ SystemInv /\ [Next]_vars => NamesInv' /\ SystemInv'
  BY RolesInductive
<1>2. TypeInv /\ DeskInv /\ SystemInv /\ [Next]_vars => [Step]_<<roles, workload>>
  <2> SUFFICES ASSUME TypeInv, DeskInv, SystemInv, [Next]_vars,
                      Serial \/ ~Asked({"UpdateRole"}), NEW r \in Live, role[r].system
               PROVE  role'[r].state = "live" /\ role'[r].system
    BY Zenon
  <2> DEFINE Goal == role'[r].state = "live" /\ role'[r].system
  <2>d. DeskTypes /\ role \in [RoleIds -> RoleRows] /\ r \in RoleIds /\ role[r].state = "live"
    BY DEF TypeInv, RoleTypeOK, RoleRows, Live
  <2>u. ASSUME UNCHANGED role PROVE Goal
    BY <2>d, <2>u
  <2>1. ASSUME NEW w \in Workers, SaveRole(w) PROVE Goal
    <3>1. PICK u \in Changes : u = task[w] /\ At(w, "saveRole")
      BY <2>1, <2>d, RolePlace DEF SaveRole, At, RolePlaces, Changes
    <3>2. role' = [role EXCEPT ![u.role] = u.copy]
      BY <2>1, <3>1 DEF SaveRole
    <3>3. u.copy.state = "live" /\ (role[u.role].system => u.copy.system)
      BY <3>1 DEF SystemInv
    <3>4. CASE u.role = r
      BY <2>d, <3>2, <3>3, <3>4
    <3>5. CASE u.role # r
      BY <2>d, <3>2, <3>5
    <3> QED
      BY <3>4, <3>5
  <2>2. ASSUME NEW w \in Workers, NEW q \in RoleIds, InsertRole(w, q) PROVE Goal
    <3>1. q # r /\ role' = [role EXCEPT ![q] = task[w].copy]
      BY <2>2, <2>d DEF InsertRole, IsNext
    <3> QED
      BY <2>d, <3>1
  <2>3. ASSUME NEW w \in Workers, DeleteRow(w) PROVE Goal
    <3>1. At(w, "removeRow")
      BY <2>3 DEF DeleteRow
    <3>2. task[w].role # r
      BY <3>1 DEF SystemInv
    <3> QED
      BY <2>3, <2>d, <3>2 DEF DeleteRow
  <2>4. ASSUME NEW w \in Workers, NEW p \in Permissions, DeletePermission(w, p) PROVE Goal
    <3>1. role'[r] = [role[r] EXCEPT !.permissions = @ \ {p}]
      BY <2>4, <2>d DEF DeletePermission
    <3> QED
      BY <2>d, <3>1 DEF RoleRows
  <2> HIDE DEF Goal
  <2>5. ASSUME NEW w \in Workers,
               RoleRefused(w) \/ RemoveRead(w) \/ AssignRead(w) \/ NotFound(w) \/ UpdateRead(w)
                 \/ DeleteRead(w) \/ InsertPermission(w)
        PROVE  Goal
    BY <2>5, <2>u DEF RoleRefused, RemoveRead, AssignRead, NotFound, UpdateRead, DeleteRead,
      InsertPermission, roles
  <2>6. ASSUME NEW w \in Workers, NEW office, NEW assign, NEW n, NEW system,
               CreateRole(w, n, office, system, assign)
        PROVE  Goal
    BY <2>6, <2>u DEF CreateRole, roles
  <2>7. ASSUME NEW w \in Workers, NEW office, NEW assign, NEW q, NEW n, NEW replaced, NEW mark,
               UpdateRole(w, q, n, office, mark, replaced, assign)
        PROVE  Goal
    BY <2>7, <2>u DEF UpdateRole, roles
  <2>8. ASSUME NEW w \in Workers, NEW q, DeleteRole(w, q) PROVE Goal
    BY <2>8, <2>u DEF DeleteRole, roles
  <2>9. ASSUME NEW w \in Workers, NEW q, NEW remove, NEW assign,
               ChangePermissions(w, q, remove, assign)
        PROVE  Goal
    BY <2>9, <2>u DEF ChangePermissions, roles
  <2>10. ASSUME NEW w \in Workers, NEW p, SavePermission(w, p) PROVE Goal
    BY <2>10, <2>u DEF SavePermission, roles
  <2>11. RoleNext => Goal
    BY <2>1, <2>2, <2>3, <2>4, <2>5, <2>6, <2>7, <2>8, <2>9, <2>10 DEF RoleNext
  <2>12. Goal
    BY <2>11, <2>u, NextSteps DEF StepsOfServices, roles
  <2> QED
    BY <2>12 DEF Goal
<1> QED
  BY <1>1, <1>2, RolesInitially, TypesAlways, PTL DEF Spec, SystemRolesStay

-----------------------------------------------------------------------------
(* What visitors submit is answered.                                        *)

\* The same for a submission, and the one request there is.
AnsweredFor(t, s) ==
  SubmissionExists(s) =>
    /\ submission[s].form \in FormIds /\ FormExists(submission[s].form)
    /\ \/ form[submission[s].form].fields = {}
       \/ submission[s].answers # {}
       \/ t.pc = "insertAnswers" /\ t.submission = s

\* Where a request that makes an appointment may be.
VisitPlaces == {"findVisitor", "insertVisitor", "insertVisit", "saveSubmission"}

LEMMA AnsweredInductive ==
  ASSUME TypeInv, DeskInv, AnsweredInv, [Next]_vars
  PROVE  AnsweredInv'
<1>d. DeskTypes /\ DeskTypes' /\ UNCHANGED workload /\ FormTypes
  BY NextDesk DEF TypeInv
<1>t. /\ form \in [FormIds -> FormRows] /\ submission \in [Submissions -> SubmissionRows]
  BY <1>d DEF FormTypes, FormTypeOK, FormRows, SubmissionRows
<1> DEFINE Answers == \A s \in Submissions : SubmissionExists(s) =>
                        /\ submission[s].form \in FormIds /\ FormExists(submission[s].form)
                        /\ Answering(s)
           Goal == Answers' /\ \A w \in Workers : Current(task[w])'
<1> SUFFICES ASSUME Serial, ~workload.fails, ~Asked({"UpdateForm"})
             PROVE  Goal
  BY <1>d DEF AnsweredInv, Serial, Asked
<1>i. Answers /\ \A w \in Workers : Current(task[w])
  BY DEF AnsweredInv
<1>z. Current(Idle)'
  BY DEF Current, Idle
<1>o. \A w \in Workers : task[w].op # "UpdateForm"
  BY DEF DeskInv, Asked
<1>0. ASSUME NEW w \in Workers, ~At(w, "idle") \/ \E op : Accepts(w, op)
      PROVE  \A s \in Submissions : AnsweredFor(task[w], s)
  <2>1. \A u \in Workers : u # w => task[u] = Idle
    BY <1>0, <1>d, OthersIdle
  <2>2. \A u \in Workers : At(u, "insertAnswers") => u = w
    BY <2>1 DEF At, Idle
  <2> QED
    BY <1>i, <2>2 DEF AnsweredFor, Answering, At
<1>1. ASSUME NEW w \in Workers, NEW t, Become(w, t), ~At(w, "idle") \/ (\E op : Accepts(w, op)),
             Current(t)', \A s \in Submissions : AnsweredFor(t, s)'
      PROVE  Goal
  <2>1. \A u \in Workers : task'[u] = IF u = w THEN t ELSE Idle
    BY <1>1, <1>d, OneRequest
  <2>2. \A u \in Workers : Current(task[u])'
    BY <1>1, <1>z, <2>1 DEF Current
  <2>3. Answers'
    BY <1>1, <2>1 DEF AnsweredFor, Answering, At
  <2> QED
    BY <2>2, <2>3
<1>2. ASSUME NEW w \in Workers, NEW t, Become(w, t), ~At(w, "idle") \/ (\E op : Accepts(w, op)),
             Current(t)', UNCHANGED <<form, submission>>, task[w].pc # "insertAnswers"
      PROVE  Goal
  <2>1. ASSUME NEW s \in Submissions PROVE AnsweredFor(t, s)'
    <3>1. AnsweredFor(task[w], s)
      BY <1>0, <1>2
    <3> QED
      BY <1>2, <3>1 DEF AnsweredFor, SubmissionExists, FormExists
  <2> QED
    BY <1>1, <1>2, <2>1
<1>3. ASSUME NEW w \in Workers, CreateForm(w) PROVE Goal
  <2>1. PICK t : t = [op |-> "CreateForm", pc |-> "insertForm", slug |-> FreeSlug(0)]
    OBVIOUS
  <2>2. Accepts(w, "CreateForm") /\ Become(w, t) /\ UNCHANGED forms /\ At(w, "idle")
    BY <1>3, <2>1 DEF CreateForm, Accepts
  <2>3. Current(t)'
    BY <2>1 DEF Current
  <2> QED
    BY <1>2, <2>2, <2>3 DEF forms, At
<1>4. ASSUME NEW w \in Workers, NEW f \in FormIds, InsertForm(w, f) PROVE Goal
  <2>1. task[w] \in NewForms /\ At(w, "insertForm")
    BY <1>4, <1>d, FormPlace DEF InsertForm, At, FormPlaces
  <2>2. PICK t : t = [op |-> "CreateForm", pc |-> "insertFields", form |-> f]
    OBVIOUS
  <2>3. Become(w, t) /\ UNCHANGED submission /\ ~FormExists(f)
    BY <1>4, <2>2 DEF InsertForm, IsNext
  <2>4. \A g \in FormIds : g # f => form'[g] = form[g]
    BY <1>4, <1>t DEF InsertForm
  <2>5. ASSUME NEW s \in Submissions
        PROVE  SubmissionExists(s) => submission[s].form \in FormIds \ {f}
                                      /\ FormExists(submission[s].form)
    BY <1>i, <2>3
  <2>6. Current(t)'
    <3>1. \A s \in Submissions : ~OfForm(s, f)'
      BY <2>3, <2>5 DEF OfForm, SubmissionExists
    <3> QED
      BY <2>2, <3>1 DEF Current
  <2>7. ASSUME NEW s \in Submissions PROVE AnsweredFor(t, s)'
    <3>1. AnsweredFor(task[w], s) /\ task[w].pc # "insertAnswers"
      BY <1>0, <2>1 DEF At
    <3> QED
      BY <2>3, <2>4, <2>5, <3>1 DEF AnsweredFor, SubmissionExists, FormExists
  <2> QED
    BY <1>1, <2>1, <2>3, <2>6, <2>7 DEF At
<1>5. ASSUME NEW w \in Workers, NEW f \in FormIds, Deactivate(w, f) PROVE Goal
  <2>1. PICK copy : copy = [form[f] EXCEPT !.active = FALSE]
    OBVIOUS
  <2>2. copy.fields = form[f].fields
    BY <1>t, <2>1 DEF FormRows
  <2>3. PICK t : t = [op |-> "Deactivate", pc |-> "saveForm", form |-> f, copy |-> copy,
                      replaced |-> FALSE]
    OBVIOUS
  <2>4. Accepts(w, "Deactivate") /\ Become(w, t) /\ UNCHANGED forms /\ At(w, "idle")
    BY <1>5, <2>1, <2>3 DEF Deactivate, Accepts
  <2>5. t.pc = "saveForm" /\ t.form = f /\ t.copy = copy
    BY <2>3
  <2>6. Current(t)'
    BY <2>2, <2>4, <2>5 DEF Current, forms
  <2> QED
    BY <1>2, <2>4, <2>6 DEF forms, At
<1>6. ASSUME NEW w \in Workers, InsertFields(w) PROVE Goal
  <2>1. task[w] \in NewFields \cup FormEdits /\ At(w, "insertFields")
    BY <1>6, <1>d, FormPlace DEF InsertFields, At, FormPlaces
  <2>2. PICK f \in FormIds : f = task[w].form
    BY <2>1 DEF NewFields, FormEdits
  <2>3. Become(w, Idle) /\ UNCHANGED submission /\ \A s \in Submissions : ~OfForm(s, f)
    BY <1>6, <1>i, <2>1, <2>2 DEF InsertFields, Finish, Current, At
  <2>4. \A g \in FormIds : g # f => form'[g] = form[g]
    BY <1>6, <1>t, <2>2 DEF InsertFields
  <2>5. ASSUME NEW s \in Submissions PROVE AnsweredFor(Idle, s)'
    <3>1. AnsweredFor(task[w], s) /\ task[w].pc # "insertAnswers"
      BY <1>0, <2>1 DEF At
    <3>2. SubmissionExists(s) => submission[s].form # f
      BY <2>3 DEF OfForm
    <3> QED
      BY <2>3, <2>4, <3>1, <3>2 DEF AnsweredFor, SubmissionExists, FormExists
  <2> QED
    BY <1>1, <1>z, <2>1, <2>3, <2>5 DEF At
<1>7. ASSUME NEW w \in Workers, NEW f, NEW renamed, NEW replaced, UpdateForm(w, f, renamed, replaced)
      PROVE  FALSE
  BY <1>7 DEF UpdateForm, Accepts, Asked
<1>8. ASSUME NEW w \in Workers, PickSlug(w) \/ DeleteFields(w) PROVE FALSE
  BY <1>8, <1>d, <1>o, FormPlace DEF PickSlug, DeleteFields, At, FormPlaces, FormEdits
<1>9. ASSUME NEW w \in Workers, SaveForm(w) PROVE Goal
  <2>1. task[w] \in Deactivations /\ At(w, "saveForm")
    BY <1>9, <1>d, <1>o, FormPlace DEF SaveForm, At, FormPlaces, FormEdits
  <2>2. PICK f \in FormIds : f = task[w].form
    BY <2>1 DEF Deactivations
  <2>3. PICK copy \in SavedForms : copy = task[w].copy /\ copy.fields = form[f].fields
    BY <1>i, <2>1, <2>2 DEF Deactivations, Current, At
  <2>4. form' = [form EXCEPT ![f] = copy] /\ UNCHANGED submission
    BY <1>9, <2>2, <2>3 DEF SaveForm
  <2>5. ~task[w].replaced
    BY <2>1, Zenon DEF Deactivations
  <2>6. Become(w, Idle)
    BY <1>9, <2>5 DEF SaveForm, Finish
  <2>7. copy # NoForm
    BY SlugsAssumption DEF SavedForms, NoForm
  <2>8. \A g \in FormIds : form'[g] = IF g = f THEN copy ELSE form[g]
    BY <1>t, <2>4
  <2>9. ASSUME NEW s \in Submissions PROVE AnsweredFor(Idle, s)'
    <3>1. AnsweredFor(task[w], s) /\ task[w].pc # "insertAnswers"
      BY <1>0, <2>1 DEF At
    <3> QED
      BY <2>3, <2>4, <2>7, <2>8, <3>1 DEF AnsweredFor, SubmissionExists, FormExists
  <2> QED
    BY <1>1, <1>z, <2>1, <2>6, <2>9 DEF At
<1>10. ASSUME NEW w \in Workers, NEW f \in FormIds, NEW answers, Submit(w, f, answers) PROVE Goal
  <2>1. PICK t : t = [op |-> "Submit", pc |-> "insertSubmission", form |-> f, answers |-> answers]
    OBVIOUS
  <2>2. /\ Accepts(w, "Submit") /\ Become(w, t) /\ UNCHANGED forms /\ At(w, "idle")
        /\ FormExists(f) /\ answers = form[f].fields
    BY <1>10, <2>1 DEF Submit, Accepts, Complete
  <2>3. Current(t)'
    BY <2>1, <2>2 DEF Current, forms, FormExists
  <2> QED
    BY <1>2, <2>2, <2>3 DEF forms, At
<1>11. ASSUME NEW w \in Workers, NEW s \in Submissions, NEW status \in {"pending", "approved"},
              InsertSubmission(w, s, status)
       PROVE  Goal
  <2>1. task[w] \in NewSubmissions /\ At(w, "insertSubmission")
    BY <1>11, <1>d, FormPlace DEF InsertSubmission, At, FormPlaces
  <2>2. PICK f \in FormIds : /\ f = task[w].form
                             /\ FormExists(f) /\ task[w].answers = form[f].fields
    BY <1>i, <2>1 DEF NewSubmissions, Current, At
  <2>3. PICK t : t = [op |-> "Submit", pc |-> "insertAnswers", submission |-> s,
                      answers |-> task[w].answers]
    OBVIOUS
  <2>4. PICK row : row = [NoSubmission EXCEPT !.form = f, !.status = status]
    OBVIOUS
  <2>5. row.form = f /\ row # NoSubmission
    BY <2>4 DEF NoSubmission
  <2>6. Become(w, t) /\ UNCHANGED form /\ submission' = [submission EXCEPT ![s] = row]
    BY <1>11, <2>2, <2>3, <2>4 DEF InsertSubmission, formRows
  <2>7. \A x \in Submissions : submission'[x] = IF x = s THEN row ELSE submission[x]
    BY <1>t, <2>6
  <2>8. t.pc = "insertAnswers" /\ t.submission = s /\ t.answers = form[f].fields
    BY <2>2, <2>3
  <2>9. Current(t)'
    BY <2>5, <2>6, <2>7, <2>8 DEF Current, SubmissionExists
  <2>10. ASSUME NEW x \in Submissions PROVE AnsweredFor(t, x)'
    <3>1. AnsweredFor(task[w], x) /\ task[w].pc # "insertAnswers"
      BY <1>0, <2>1 DEF At
    <3> QED
      BY <2>2, <2>5, <2>6, <2>7, <2>8, <3>1 DEF AnsweredFor, SubmissionExists, FormExists
  <2> QED
    BY <1>1, <2>1, <2>6, <2>9, <2>10 DEF At
<1>12. ASSUME NEW w \in Workers, InsertAnswers(w) PROVE Goal
  <2>1. task[w] \in NewAnswers /\ At(w, "insertAnswers")
    BY <1>12, <1>d, FormPlace DEF InsertAnswers, At, FormPlaces
  <2>2. PICK s \in Submissions : s = task[w].submission
    BY <2>1 DEF NewAnswers
  <2>3. SubmissionExists(s) /\ task[w].answers = form[submission[s].form].fields
    BY <1>i, <2>1, <2>2 DEF Current, At
  <2>4. PICK row : row = [submission[s] EXCEPT !.answers = @ \cup task[w].answers]
    OBVIOUS
  <2>5. row.form = submission[s].form /\ row.answers = submission[s].answers \cup task[w].answers
    BY <1>t, <2>4 DEF SubmissionRows
  <2>6. Become(w, Idle) /\ UNCHANGED form /\ submission' = [submission EXCEPT ![s] = row]
    BY <1>12, <1>t, <2>2, <2>4 DEF InsertAnswers, Finish, formRows
  <2>7. \A x \in Submissions : submission'[x] = IF x = s THEN row ELSE submission[x]
    BY <1>t, <2>6
  <2>8. ASSUME NEW x \in Submissions PROVE AnsweredFor(Idle, x)'
    <3>1. AnsweredFor(task[w], x)
      BY <1>0, <2>1 DEF At
    <3>2. CASE x = s
      <4>1. submission[s].form \in FormIds /\ FormExists(submission[s].form)
        BY <2>3, <3>1, <3>2 DEF AnsweredFor
      <4>2. form[submission[s].form].fields = {} \/ row.answers # {}
        BY <2>3, <2>5
      <4>3. submission'[x] = row
        BY <2>7, <3>2
      <4> QED
        BY <2>5, <2>6, <4>1, <4>2, <4>3 DEF AnsweredFor, FormExists
    <3>3. CASE x # s
      BY <2>2, <2>6, <2>7, <3>1, <3>3 DEF AnsweredFor, SubmissionExists, FormExists
    <3> QED
      BY <3>2, <3>3
  <2> QED
    BY <1>1, <1>z, <2>1, <2>6, <2>8 DEF At
<1>13. ASSUME NEW w \in Workers, NEW s \in Submissions, NEW status, UpdateStatus(w, s, status)
       PROVE  Goal
  <2>1. PICK link : Become(w, [op |-> "UpdateStatus", pc |-> "saveSubmission", submission |-> s,
                               status |-> status, answers |-> submission[s].answers,
                               link |-> link])
    BY <1>13 DEF UpdateStatus
  <2>2. PICK t : t = [op |-> "UpdateStatus", pc |-> "saveSubmission", submission |-> s,
                      status |-> status, answers |-> submission[s].answers, link |-> link]
    OBVIOUS
  <2>3. /\ Accepts(w, "UpdateStatus") /\ SubmissionExists(s) /\ UNCHANGED forms
        /\ Become(w, t) /\ At(w, "idle")
    BY <1>13, <2>1, <2>2 DEF UpdateStatus, Accepts
  <2>4. Current(t)'
    BY <2>2, <2>3 DEF Current, forms, SubmissionExists
  <2> QED
    BY <1>2, <2>3, <2>4 DEF forms, At
<1>14. ASSUME NEW w \in Workers, NEW s \in Submissions, CreateVisit(w, s) PROVE Goal
  <2>1. PICK t : t = [op |-> "CreateVisit", pc |-> "findVisitor", submission |-> s,
                      status |-> "approved", answers |-> submission[s].answers, link |-> 0]
    OBVIOUS
  <2>2. /\ Accepts(w, "CreateVisit") /\ SubmissionExists(s) /\ UNCHANGED forms
        /\ Become(w, t) /\ At(w, "idle")
    BY <1>14, <2>1 DEF CreateVisit, Accepts
  <2>3. Current(t)'
    BY <2>1, <2>2 DEF Current, forms, SubmissionExists
  <2> QED
    BY <1>2, <2>2, <2>3 DEF forms, At
<1>15. ASSUME NEW w \in Workers, NEW pc \in VisitPlaces, task[w] \in FormVisits, Goto(w, pc)
       PROVE  \E u \in FormVisits :
                /\ Become(w, u) /\ u.pc = pc /\ u.submission = task[w].submission
                /\ u.answers = task[w].answers
  <2>1. PICK u : u = [task[w] EXCEPT !.pc = pc]
    OBVIOUS
  <2>2. u.pc = pc /\ u.submission = task[w].submission /\ u.answers = task[w].answers
    BY <1>15, <2>1 DEF FormVisits
  <2>3. u \in FormVisits /\ Become(w, u)
    BY <1>15, <2>1, FormVisitMoves DEF VisitPlaces, Goto
  <2> QED
    BY <2>2, <2>3
<1>16. ASSUME NEW w \in Workers, FindVisitor(w) \/ InsertVisitor(w) PROVE Goal
  <2>1. task[w] \in FormVisits /\ task[w].pc \in {"findVisitor", "insertVisitor"}
    BY <1>16, <1>d, FormPlace DEF FindVisitor, InsertVisitor, At, FormPlaces
  <2>2. PICK pc \in VisitPlaces : Goto(w, pc) /\ UNCHANGED <<form, submission>>
    BY <1>16 DEF FindVisitor, InsertVisitor, VisitPlaces, forms, formRows
  <2>3. PICK u \in FormVisits : /\ Become(w, u) /\ u.pc = pc
                                /\ u.submission = task[w].submission
                                /\ u.answers = task[w].answers
    BY <1>15, <2>1, <2>2
  <2>4. SubmissionExists(u.submission) /\ u.answers = submission[u.submission].answers
    BY <1>i, <2>1, <2>3 DEF Current
  <2>5. Current(u)'
    BY <2>2, <2>3, <2>4 DEF Current, VisitPlaces, SubmissionExists
  <2> QED
    BY <1>2, <2>1, <2>2, <2>3, <2>5 DEF At
<1>17. ASSUME NEW w \in Workers, InsertVisit(w) PROVE Goal
  <2>1. task[w] \in FormVisits /\ At(w, "insertVisit")
    BY <1>17, <1>d, FormPlace DEF InsertVisit, At, FormPlaces
  <2>2. PICK u \in FormVisits : /\ Become(w, u) /\ u.pc = "saveSubmission"
                                /\ u.submission = task[w].submission
                                /\ u.answers = task[w].answers
    BY <1>15, <1>17, <2>1 DEF InsertVisit, VisitPlaces
  <2>3. PICK s \in Submissions : s = task[w].submission
    BY <2>1 DEF FormVisits
  <2>4. SubmissionExists(s) /\ u.answers = submission[s].answers /\ u.submission = s
    BY <1>i, <2>1, <2>2, <2>3 DEF Current, At
  <2>5. submission[s] \in SubmissionRows
    BY <1>t
  <2>6. PICK n \in Nat \ {0} : n = submission[s].made + 1
    BY <2>5, FormsAssumption DEF SubmissionRows
  <2>7. PICK row : row = [submission[s] EXCEPT !.made = n, !.linked = @ \cup {n}]
    OBVIOUS
  <2>8. /\ row.made = n /\ row.form = submission[s].form /\ row.answers = submission[s].answers
        /\ row # NoSubmission
    BY <2>5, <2>7 DEF SubmissionRows, NoSubmission
  <2>9. submission' = [submission EXCEPT ![s] = row] /\ UNCHANGED form
    BY <1>17, <1>t, <2>3, <2>6, <2>7 DEF InsertVisit, formRows
  <2>10. \A x \in Submissions : submission'[x] = IF x = s THEN row ELSE submission[x]
    BY <1>t, <2>9
  <2>11. Current(u)'
    BY <2>2, <2>4, <2>8, <2>10 DEF Current, SubmissionExists
  <2>12. ASSUME NEW x \in Submissions PROVE AnsweredFor(u, x)'
    <3>1. AnsweredFor(task[w], x) /\ task[w].pc # "insertAnswers"
      BY <1>0, <2>1 DEF At
    <3> QED
      BY <2>3, <2>4, <2>8, <2>9, <2>10, <3>1 DEF AnsweredFor, SubmissionExists, FormExists
  <2> QED
    BY <1>1, <2>1, <2>2, <2>11, <2>12 DEF At
<1>18. ASSUME NEW w \in Workers, SaveSubmission(w) PROVE Goal
  <2>1. task[w] \in SubmissionEdits \cup FormVisits /\ At(w, "saveSubmission")
    BY <1>18, <1>d, FormPlace DEF SaveSubmission, At, FormPlaces
  <2>2. PICK t : t = task[w]
    OBVIOUS
  <2>3. PICK s \in Submissions : s = t.submission
    BY <2>1, <2>2 DEF SubmissionEdits, FormVisits
  <2>4. SubmissionExists(s) /\ t.answers = submission[s].answers
    BY <1>i, <2>1, <2>2, <2>3 DEF Current, At
  <2>5. \E linked : submission' = [submission EXCEPT ![s].status = t.status,
                                                     ![s].answers = t.answers,
                                                     ![s].linked = linked]
    BY <1>18, <2>2, <2>3 DEF SaveSubmission
  <2>6. PICK linked : submission' = [submission EXCEPT ![s].status = t.status,
                                                       ![s].answers = t.answers,
                                                       ![s].linked = linked]
    BY <2>5
  <2>7. PICK row : row = [submission[s] EXCEPT !.status = t.status, !.answers = t.answers,
                                               !.linked = linked]
    OBVIOUS
  <2>8. row.form = submission[s].form /\ row.answers = submission[s].answers
    BY <1>t, <2>4, <2>7 DEF SubmissionRows
  <2>9. submission' = [submission EXCEPT ![s] = row]
    BY <1>t, <2>6, <2>7
  <2>10. \A x \in Submissions : submission'[x] = IF x = s THEN row ELSE submission[x]
    BY <1>t, <2>9
  <2>11. Become(w, Idle) /\ UNCHANGED form
    BY <1>18 DEF SaveSubmission, Finish, formRows
  <2>12. ASSUME NEW x \in Submissions PROVE AnsweredFor(Idle, x)'
    <3>1. AnsweredFor(task[w], x) /\ task[w].pc # "insertAnswers"
      BY <1>0, <2>1 DEF At
    <3> QED
      BY <2>3, <2>4, <2>8, <2>10, <2>11, <3>1 DEF AnsweredFor, SubmissionExists, FormExists
  <2> QED
    BY <1>1, <1>z, <2>1, <2>11, <2>12 DEF At
<1>19. ASSUME NEW w \in Workers, Refused(w) PROVE Goal
  <2>1. Become(w, Idle) /\ UNCHANGED <<form, submission>> /\ ~At(w, "idle")
    BY <1>19 DEF Refused, FormRefused, SubmissionRefused, Finish, forms, At
  <2>2. ASSUME At(w, "insertAnswers") PROVE FALSE
    <3>1. task[w] \in NewAnswers
      BY <1>d, <2>2, FormPlace DEF At, FormPlaces
    <3>2. PICK s \in Submissions : s = task[w].submission
      BY <3>1 DEF NewAnswers
    <3>3. SubmissionExists(s) /\ task[w].answers = form[submission[s].form].fields
      BY <1>i, <2>2, <3>2 DEF Current, At
    <3>4. submission[s].form \in FormIds
      BY <1>i, <3>3
    <3>5. FieldsExist(task[w].answers)
      BY <3>3, <3>4 DEF FieldsExist
    <3> QED
      BY <1>19, <2>2, <3>5 DEF Refused, FormRefused, SubmissionRefused, At
  <2> QED
    BY <1>2, <1>z, <2>1, <2>2 DEF At
<1>20. ASSUME UNCHANGED forms, Kept(FormTasks) PROVE Goal
  <2>1. ASSUME NEW w \in Workers PROVE Current(task[w])'
    <3>1. PICK t : t = task'[w]
      OBVIOUS
    <3>2. CASE t \in FormTasks
      <4>1. Current(t)
        BY <1>i, <1>20, <3>1, <3>2 DEF Kept
      <4>2. Current(t)'
        BY <1>20, <4>1 DEF Current, forms, SubmissionExists, FormExists, OfForm
      <4> QED
        BY <3>1, <4>2 DEF Current
    <3>3. CASE t \notin FormTasks
      <4>1. t.pc \notin {"insertFields", "saveForm", "insertSubmission", "insertAnswers"}
                          \cup VisitPlaces
        BY <1>d, <3>1, <3>3, TasksPlaced
          DEF DeskTypes, AllPlaces, FormPlaces, FormTasks, VisitPlaces
      <4> QED
        BY <3>1, <4>1 DEF Current, VisitPlaces
    <3> QED
      BY <3>2, <3>3
  <2>2. \A u \in Workers : At(u, "insertAnswers") => task'[u] = task[u]
    BY <1>20, <1>d, TasksPlaced DEF DeskTypes, AllPlaces, FormPlaces, FormTasks, Kept, At
  <2>3. Answers'
    BY <1>20, <1>i, <2>2 DEF Answering, At, SubmissionExists, FormExists, forms
  <2> QED
    BY <2>1, <2>3
<1> HIDE DEF Goal
<1>21. FormNext => Goal
  BY <1>3, <1>4, <1>5, <1>6, <1>7, <1>8, <1>9, <1>10, <1>11, <1>12, <1>13, <1>14, <1>16, <1>17,
     <1>18, <1>19 DEF FormNext
<1> QED
  BY <1>20, <1>21, NextSteps DEF StepsOfServices

LEMMA AnsweredInitially == Init => AnsweredInv
BY DEF Init, FormInit, AnsweredInv, SubmissionExists, Current, Idle

\* Visitors who submit a form leave no submission without answers, as long as
\* requests do not overlap, none is cut short and the fields of a form are not
\* replaced (Forms.SubmissionsAnswered).
THEOREM SubmissionsAreAnswered == Spec => []SubmissionsAnswered
<1>1. TypeInv /\ DeskInv /\ AnsweredInv /\ [Next]_vars => AnsweredInv'
  BY AnsweredInductive
<1>2. AnsweredInv => SubmissionsAnswered
  BY DEF AnsweredInv, Answering, SubmissionsAnswered, AtRest, At
<1> QED
  BY <1>1, <1>2, AnsweredInitially, TypesAlways, PTL DEF Spec

-----------------------------------------------------------------------------
(* Types, as the services state them.                                       *)

LEMMA PreferencesInitially == Init => PreferenceInv
<1>1. ASSUME Init PROVE workload.size \in Nat
  BY <1>1, WorkloadsAssumption DEF Init
<1>2. Idle \notin PreferenceTasks
  BY TasksApart
<1> QED
  BY <1>1, <1>2 DEF Init, PreferenceInit, PreferenceInv, PreferenceTypeOK

\* Rows, caches, files and requests have the types their comments give: among
\* them, ids are given once, images are files that were uploaded, a preference
\* has one row, and a list that calls do not cut short exceeds its length by no
\* more than the trims under way (Office.TypeOK).
THEOREM TypesAreRight == Spec => []TypeOK
<1>1. TypeInv /\ DeskInv /\ UploadsInv /\ [Next]_vars => UploadsInv'
  BY UploadsInductive
<1>2. TypeInv /\ DeskInv /\ BoundInv /\ [Next]_vars => BoundInv'
  BY BoundInductive
<1>3. TypeInv /\ PreferenceInv /\ [Next]_vars => PreferenceInv'
  BY PreferenceInductive
<1>4. TypeInv /\ UploadsInv /\ BoundInv /\ PreferenceInv => TypeOK
  <2> SUFFICES ASSUME TypeInv, UploadsInv, BoundInv, PreferenceInv
               PROVE  TypeOK
    OBVIOUS
  <2>1. workload \in Workloads /\ \A w \in Workers : At(w, "idle") <=> task[w] = Idle
    BY TasksPlaced DEF TypeInv, DeskTypes, AllPlaces, At
  <2>2. CardTypeOK /\ FormTypeOK /\ RoleTypeOK
    BY DEF TypeInv, FormTypes
  <2>3. CacheTypeOK
    BY DEF TypeInv, CacheTypes, BoundInv, Trimming, CacheTypeOK
  <2>4. ImageTypeOK
    <3>1. image \in [Owners -> Urls \cup {NoImage}]
      BY DEF TypeInv, ImageTypes, UploadsInv
    <3> QED
      BY <3>1 DEF TypeInv, ImageTypes, UploadsInv, ImageTypeOK
  <2>5. PreferenceTypeOK
    BY DEF PreferenceInv
  <2> QED
    BY <2>1, <2>2, <2>3, <2>4, <2>5 DEF TypeOK
<1> QED
  BY <1>1, <1>2, <1>3, <1>4, UploadsInitially, BoundInitially, PreferencesInitially, TypesAlways,
     PTL DEF Spec

=============================================================================
