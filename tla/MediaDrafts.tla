------------------------------ MODULE MediaDrafts ------------------------------
(***************************************************************************)
(* One media draft (MediaService and the routes /api/media/...): prepared   *)
(* with a kind and a size, filled by uploads, finished by polling a video   *)
(* job, read by the publication of a post.  Every await is a step; the      *)
(* encrypted columns are read in one call and written in another.           *)
(***************************************************************************)
EXTENDS ServiceConstants

VARIABLES mediaDraft,      \* the row of media_draft
          jobs,       \* the video service's jobs, in order
          mediaRequest,    \* request[r]: a request in flight
          ready,      \* a client was told "ready" and which blob it is
          misused     \* a client cut the file into parts or named another job

mediaVars == <<mediaDraft, jobs, mediaRequest, ready, misused>>

Blobs == {"none", "whole", "part", "foreign"}   \* none: no blob_enc
JobIds == 0..MaxJobs                            \* 0: no job noted
IdleUpload == [pc |-> "idle", blob |-> "none", job |-> 0]

MediaTypeOK ==
    /\ mediaDraft \in [state : {"none", "live", "expired"}, kind : {"image", "video"},
                  blob : Blobs, job : JobIds]
    /\ jobs \in [JobIds \ {0} -> [state : {"none", "running", "completed", "failed"},
                                  blob : Blobs]]
    /\ mediaRequest \in [Requests -> [pc : {"idle", "image", "video", "store", "note", "poll"},
                                 blob : Blobs, job : JobIds]]
    /\ ready \in BOOLEAN
    /\ misused \in BOOLEAN

(* Job 1 may be one of another upload of the actor.                        *)
MediaInit ==
    /\ mediaDraft = [state |-> "none", kind |-> "image", blob |-> "none", job |-> 0]
    /\ \E old \in {"none", "completed"} :
         jobs = [j \in JobIds \ {0} |->
                   IF j = 1 /\ old # "none" THEN [state |-> old, blob |-> "foreign"]
                   ELSE [state |-> "none", blob |-> "none"]]
    /\ mediaRequest = [r \in Requests |-> IdleUpload]
    /\ ready = FALSE
    /\ misused = FALSE

Step(r, pc, blob, job) ==
    mediaRequest' = [mediaRequest EXCEPT ![r] = [pc |-> pc, blob |-> blob, job |-> job]]
Stop(r) == Step(r, "idle", "none", 0)
Loaded(r) == mediaRequest[r].pc = "idle" /\ mediaDraft.state = "live"

(* insertDraft, after the checks of prepareImage or prepareVideo.          *)
PrepareMedia(kind) ==
    /\ mediaDraft.state = "none"
    /\ mediaDraft' = [mediaDraft EXCEPT !.state = "live", !.kind = kind]
    /\ UNCHANGED <<jobs, mediaRequest, ready, misused>>

(* Ten minutes pass: loadDraft no longer finds the row.                    *)
ExpireMedia ==
    /\ mediaDraft.state = "live"
    /\ mediaDraft' = [mediaDraft EXCEPT !.state = "expired"]
    /\ UNCHANGED <<jobs, mediaRequest, ready, misused>>

\* Mutant: the size of the bytes is not compared with the prepared size.
UploadImageUnsized(r) ==
    /\ Loaded(r) /\ mediaDraft.kind = "image"
    /\ \E bytes \in {"whole", "part"} : Step(r, "image", bytes, 0)
    /\ UNCHANGED <<mediaDraft, jobs, ready, misused>>

(* Bytes of another size than prepared are refused (400).                  *)
UploadImage(r) ==
    /\ Loaded(r) /\ mediaDraft.kind = "image"
    /\ Step(r, "image", "whole", 0)
    /\ UNCHANGED <<mediaDraft, jobs, ready, misused>>

(* uploadBlob to the actor's PDS succeeds or the answer is 502.            *)
PutImage(r) ==
    /\ mediaRequest[r].pc = "image"
    /\ Step(r, "store", mediaRequest[r].blob, 0) \/ Stop(r)
    /\ UNCHANGED <<mediaDraft, jobs, ready, misused>>

(* uploadVideoChunk: only the last part, or a file sent as one, goes to    *)
(* uploadVideo; earlier parts are dropped.                                 *)
UploadVideo(r) ==
    /\ Loaded(r) /\ mediaDraft.kind = "video"
    /\ \/ Step(r, "video", "whole", 0) /\ UNCHANGED misused
       \/ Step(r, "video", "part", 0) /\ misused' = TRUE
    /\ UNCHANGED <<mediaDraft, jobs, ready>>

DropChunk(r) ==
    /\ Loaded(r) /\ mediaDraft.kind = "video"
    /\ misused' = TRUE
    /\ UNCHANGED <<mediaDraft, jobs, mediaRequest, ready>>

(* uploadVideo: the video service answers with a job, or with the blob if  *)
(* it has the bytes already; a job of a lost answer goes on unnoticed; if  *)
(* the service does not help, the PDS stores the blob or refuses (502).    *)
PutVideo(r) ==
    LET new == {j \in JobIds \ {0} : jobs[j].state = "none"
                                        /\ \A i \in 1..(j - 1) : jobs[i].state # "none"}
    IN /\ mediaRequest[r].pc = "video"
       /\ \/ /\ \E j \in new :
                  /\ jobs' = [jobs EXCEPT ![j] = [state |-> "running",
                                                  blob |-> mediaRequest[r].blob]]
                  /\ Step(r, "note", "none", j) \/ Step(r, "store", mediaRequest[r].blob, 0)
          \/ /\ Step(r, "store", mediaRequest[r].blob, 0) \/ Stop(r)
             /\ UNCHANGED jobs
       /\ UNCHANGED <<mediaDraft, ready, misused>>

(* The job is noted in payload_enc, beside a blob of an earlier upload.    *)
NoteJob(r) ==
    /\ mediaRequest[r].pc = "note"
    /\ mediaDraft' = [mediaDraft EXCEPT !.job = mediaRequest[r].job]
    /\ Stop(r)
    /\ UNCHANGED <<jobs, ready, misused>>

(* UPDATE media_draft SET blob_enc: the row is not checked for expiry.     *)
StoreBlob(r) ==
    /\ mediaRequest[r].pc = "store"
    /\ mediaDraft' = [mediaDraft EXCEPT !.blob = mediaRequest[r].blob]
    /\ ready' = TRUE
    /\ Stop(r)
    /\ UNCHANGED <<jobs, misused>>

JobEnds(j, state) ==
    /\ jobs[j].state = "running"
    /\ jobs' = [jobs EXCEPT ![j].state = state]
    /\ UNCHANGED <<mediaDraft, mediaRequest, ready, misused>>

(* completeVideo with the noted job or the one the client names: a blob    *)
(* that is there already is the answer, whatever job is asked for.         *)
CompleteVideo(r, named) ==
    LET j == IF named # 0 THEN named ELSE mediaDraft.job
    IN /\ Loaded(r)
       /\ IF mediaDraft.blob # "none" THEN ready' = TRUE /\ UNCHANGED <<mediaRequest, misused>>
          ELSE /\ j # 0 /\ jobs[j].state # "none"
               /\ Step(r, "poll", "none", j)
               /\ misused' = (misused \/ (named # 0 /\ jobs[j].blob # "whole"))
               /\ UNCHANGED ready
       /\ UNCHANGED <<mediaDraft, jobs>>

(* A completed job has its blob; otherwise the answer is "processing" or   *)
(* 502, as when the video service does not answer.                         *)
GetJobStatus(r) ==
    LET j == jobs[mediaRequest[r].job]
    IN /\ mediaRequest[r].pc = "poll"
       /\ \/ j.state = "completed" /\ Step(r, "store", j.blob, 0)
          \/ Stop(r)
       /\ UNCHANGED <<mediaDraft, jobs, ready, misused>>

(* A call of D1 fails or the isolate stops.                                *)
Die(r) ==
    /\ mediaRequest[r].pc # "idle"
    /\ Stop(r)
    /\ UNCHANGED <<mediaDraft, jobs, ready, misused>>

MediaNext ==
    \/ \E kind \in {"image", "video"} : PrepareMedia(kind)
    \/ ExpireMedia
    \/ \E r \in Requests :
         \/ UploadImage(r) \/ PutImage(r) \/ UploadVideo(r) \/ DropChunk(r) \/ PutVideo(r)
         \/ NoteJob(r) \/ StoreBlob(r) \/ GetJobStatus(r) \/ Die(r)
         \/ \E named \in JobIds : CompleteVideo(r, named)
    \/ \E j \in JobIds \ {0} : \E state \in {"completed", "failed"} : JobEnds(j, state)

MediaSpec == MediaInit /\ [][MediaNext]_mediaVars

(* What MediaService.mediaBlobRef gives a publication: its post is refused *)
(* (404) unless the draft is alive and has a blob.                         *)
Attachable == mediaDraft.state = "live" /\ mediaDraft.blob # "none"

(***************************************************************************)
(* Once a client has been told "ready", a publication finds the blob as    *)
(* long as the draft lives, and it is the whole file that was prepared,    *)
(* over re-uploads, lost answers and overlapping polls, unless a client    *)
(* sent the video in parts (the service keeps the last part only) or named *)
(* a job of another upload.                                                *)
(***************************************************************************)
ReadyIsWhole ==
    /\ ready /\ mediaDraft.state = "live" => Attachable
    /\ mediaDraft.blob \in {"none", "whole"} \/ misused
===============================================================================
