--------------------------- MODULE ProfileImages ----------------------------
(***************************************************************************)
(* FileStorageService and the three controllers that upload through it: an *)
(* image goes to the bucket of its owner's kind in S3, or to the disk when *)
(* S3 cannot be used, and its URL to the owner's row.                      *)
(***************************************************************************)
EXTENDS Desk

CONSTANT NoImage

Owners == {"employee", "visitor", "supplier"}

VARIABLES
  usesS3,    \* the start found S3, and the disk is not asked for
  buckets,   \* owners' kinds that have a bucket
  stored,    \* files there are: [at, file]
  image,     \* URL in each owner's row
  uploads    \* uploads so far: the unique file names

files == <<usesS3, buckets, stored, image, uploads>>

ImageInit ==
  /\ usesS3 \in (IF Asked({"Upload"}) THEN BOOLEAN ELSE {FALSE})
  /\ buckets = {} /\ stored = {}
  /\ image = [o \in Owners |-> NoImage]
  /\ uploads = 0

Urls == [at : {"s3", "disk"}, file : 1..uploads]

ImageTypeOK ==
  /\ usesS3 \in BOOLEAN /\ buckets \subseteq Owners
  /\ uploads \in 0..workload.size /\ stored \subseteq Urls
  /\ image \in [Owners -> Urls \cup {NoImage}]

\* uploadFile: S3 first if it was there at the start.
Upload(w, o) ==
  /\ Accepts(w, "Upload") /\ uploads < workload.size
  /\ uploads' = uploads + 1
  /\ Become(w, [op |-> "Upload", pc |-> IF usesS3 THEN "headBucket" ELSE "writeDisk",
                owner |-> o, file |-> uploads + 1])
  /\ UNCHANGED <<usesS3, buckets, stored, image>>

\* The three handlers; the owner is found before the upload.
UploadEmployee(w) == Upload(w, "employee")

UploadVisitor(w) == Upload(w, "visitor")

UploadSupplier(w) == Upload(w, "supplier")

\* ensureBucketExists: HeadBucket ...
HeadBucket(w) ==
  /\ At(w, "headBucket")
  /\ Goto(w, IF task[w].owner \in buckets THEN "putObject" ELSE "createBucket")
  /\ UNCHANGED files

\* ... and CreateBucket, which may accept one that is there (in us-east-1).
CreateBucket(w) ==
  /\ At(w, "createBucket")
  /\ buckets' = buckets \cup {task[w].owner}
  /\ Goto(w, "putObject")
  /\ UNCHANGED <<usesS3, stored, image, uploads>>

CreateBucketRefused(w) ==
  /\ At(w, "createBucket") /\ task[w].owner \in buckets
  /\ Goto(w, "writeDisk")
  /\ UNCHANGED files

\* A failure on the way to S3 sends the file to the disk.
FallsBack(w) ==
  /\ workload.fails
  /\ At(w, "headBucket") \/ At(w, "createBucket") \/ At(w, "putObject")
  /\ Goto(w, "writeDisk")
  /\ UNCHANGED files

Store(w, at, known) ==
  LET url == [at |-> at, file |-> task[w].file]
  IN  /\ stored' = stored \cup {url}
      /\ IF known THEN Become(w, [op |-> "Upload", pc |-> "saveImage", owner |-> task[w].owner,
                                  url |-> url])
                  ELSE Goto(w, "writeDisk")
      /\ UNCHANGED <<usesS3, buckets, image, uploads>>

\* Mutant of PutObject: the URL is answered though the call failed.
PutObject_Unchecked(w) ==
  /\ At(w, "putObject")
  /\ \/ Store(w, "s3", TRUE)
     \/ /\ workload.fails
        /\ Become(w, [op |-> "Upload", pc |-> "saveImage", owner |-> task[w].owner,
                      url |-> [at |-> "s3", file |-> task[w].file]])
        /\ UNCHANGED files

\* uploadToS3; the answer of a call that stored the object may be lost.
PutObject(w) ==
  /\ At(w, "putObject")
  /\ \/ Store(w, "s3", TRUE)
     \/ workload.fails /\ Store(w, "s3", FALSE)

\* uploadToLocalStorage; a directory or file that cannot be written ends the
\* request (Abort).
WriteDisk(w) == At(w, "writeDisk") /\ Store(w, "disk", TRUE)

\* The URL goes to the row of its owner.
SaveImage(w, o) ==
  /\ At(w, "saveImage") /\ task[w].owner = o
  /\ image' = [image EXCEPT ![o] = task[w].url]
  /\ Finish(w)
  /\ UNCHANGED <<usesS3, buckets, stored, uploads>>

\* updateProfileImageUrl: one column.
SaveEmployeeImage(w) == SaveImage(w, "employee")

\* The use case, which reads the visitor again.
SaveVisitorImage(w) == SaveImage(w, "visitor")

\* update with nothing but the URL.
SaveSupplierImage(w) == SaveImage(w, "supplier")

\* SupplierService.update of something else: the row is read ...
EditSupplier(w) ==
  /\ Accepts(w, "EditSupplier")
  /\ Become(w, [op |-> "EditSupplier", pc |-> "saveRow", image |-> image["supplier"]])
  /\ UNCHANGED files

\* ... and saved as it was read.
SaveSupplier(w) ==
  /\ At(w, "saveRow")
  /\ image' = [image EXCEPT !["supplier"] = task[w].image]
  /\ Finish(w)
  /\ UNCHANGED <<usesS3, buckets, stored, uploads>>

\* The process starts again and asks S3 for its buckets (onModuleInit).
Restart ==
  /\ workload.fails /\ Asked({"Upload"})
  /\ usesS3' \in BOOLEAN
  /\ task' = [w \in Workers |-> Idle]
  /\ UNCHANGED <<buckets, stored, image, uploads, workload>>

ImageNext ==
  \/ Restart
  \/ \E w \in Workers :
       \/ UploadEmployee(w)
       \/ UploadVisitor(w)
       \/ UploadSupplier(w)
       \/ HeadBucket(w)
       \/ CreateBucket(w)
       \/ CreateBucketRefused(w)
       \/ FallsBack(w)
       \/ PutObject(w)
       \/ WriteDisk(w)
       \/ SaveEmployeeImage(w)
       \/ SaveVisitorImage(w)
       \/ SaveSupplierImage(w)
       \/ EditSupplier(w)
       \/ SaveSupplier(w)

-----------------------------------------------------------------------------

\* Every image URL in a row names a file that was stored, wherever the upload
\* ended, whatever failed and whichever requests overlapped; and without
\* failures or overlapping requests a service that found S3 leaves nothing on
\* the disk, also for the first image of a bucket.
ImagesExist ==
  /\ \A o \in Owners : image[o] # NoImage => image[o] \in stored
  /\ Serial /\ ~workload.fails /\ usesS3 => \A url \in stored : url.at = "s3"
=============================================================================
