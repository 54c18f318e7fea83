------------------------------- MODULE VideoJobs -------------------------------
(***************************************************************************)
(* The transcoding of one video: POST /<sha256>/transcode starts a job in  *)
(* the background that fetches the blob into a work directory, runs ffmpeg *)
(* for each quality, writes the master playlist, and puts every file of    *)
(* the directory into the storage backend.  Jobs are kept in the memory of *)
(* the replica and copied to a cache; the files and objects outlive it.    *)
(* ffmpeg is external: it succeeds or fails.  (No code calls               *)
(* DeleteTranscodedFiles.)                                                 *)
(***************************************************************************)
EXTENDS Integers, Sequences

CONSTANTS
    Starts,      \* requests that start a job, each a job: the bound on their number
    Qualities,   \* the names of the qualities, in the order of their file names
    VideoFaults  \* what may fail, a subset of VideoFaultNames

VideoFaultNames == {"ffmpeg", "storage", "crash"}
QualityNames == {Qualities[i] : i \in DOMAIN Qualities}

VideoAssumption ==
    /\ Qualities \in Seq(STRING) /\ Len(Qualities) > 0
    /\ QualityNames \cap {"input", "dash", "master"} = {}
    /\ VideoFaults \subseteq VideoFaultNames

VARIABLES
    job,          \* s.jobs: the job of the blob, {} where there is none
    videoCached,  \* the status in the cache, "none" where there is none
    videoFiles,   \* the files of the work directory: none, torn or whole
    objects,      \* the objects by their keys
    \* each job: its status, the step it makes next, how far it is, and
    \* whether the input it reads is as it was when ffmpeg opened it
    jstatus, jpc, step, videoSteady

videoVars == <<job, videoCached, videoFiles, objects, jstatus, jpc, step, videoSteady>>

FileNames == QualityNames \cup {"input", "dash", "master"}
VideoContents == {"none", "torn", "whole"}

\* Walk visits the directory in lexical order: the qualities' names begin with
\* a digit.  (dash is a directory, visited under its name.)
MutantMasterFirst == <<"master">> \o Qualities \o <<"dash", "input">>
WalkOrder == Qualities \o <<"dash", "input", "master">>

\* The key a file is stored under, and the keys that streams are served from.
StorageKey(f) == <<"hls", f>>
ManifestKey == <<"dash", "dash">>
VideoKeys == {StorageKey(f) : f \in FileNames} \cup {ManifestKey}

VideoInit ==
    /\ job = {} /\ videoCached = "none"
    /\ videoFiles = [f \in FileNames |-> "none"] /\ objects = [k \in VideoKeys |-> "none"]
    /\ jstatus = [j \in Starts |-> "none"] /\ jpc = [j \in Starts |-> "idle"]
    /\ step = [j \in Starts |-> 1] /\ videoSteady = [j \in Starts |-> FALSE]

------------------------------------------------------------------------------
VideoAt(j, l) == jpc[j] = l
VideoGoto(j, l) == jpc' = [jpc EXCEPT ![j] = l]
Same == UNCHANGED <<job, videoCached, videoFiles, objects, jstatus, step, videoSteady>>

\* updateJobStatus: the job's status, and its copy in the cache.
VideoSetStatus(j, s, l) ==
    /\ jstatus' = [jstatus EXCEPT ![j] = s]
    /\ videoCached' = s
    /\ VideoGoto(j, l)

VideoFail(j) == VideoSetStatus(j, "failed", "remove") /\ UNCHANGED <<job, videoFiles, objects, step, videoSteady>>

\* StartTranscode: a job that is processing refuses another.
InProgress == \E j \in job : jstatus[j] = "processing"
CheckRunning(j) ==
    VideoAt(j, "idle") /\ VideoGoto(j, IF InProgress THEN "refused" ELSE "store") /\ Same

\* The job is stored, in place of whatever is there by now, and its goroutine
\* started.
StoreJob(j) ==
    /\ VideoAt(j, "store")
    /\ job' = {j}
    /\ jstatus' = [jstatus EXCEPT ![j] = "pending"]
    /\ VideoGoto(j, "begin")
    /\ UNCHANGED <<videoCached, videoFiles, objects, step, videoSteady>>

\* runTranscode.
VideoBegin(j) ==
    VideoAt(j, "begin") /\ VideoSetStatus(j, "processing", "create")
    /\ UNCHANGED <<job, videoFiles, objects, step, videoSteady>>

\* The blob is read and the input file created, which empties the one there is.
CreateInput(j) ==
    /\ VideoAt(j, "create")
    /\ \/ /\ videoFiles' = [videoFiles EXCEPT !["input"] = "torn"]
          /\ videoSteady' = [i \in Starts |-> FALSE]
          /\ VideoGoto(j, "write")
          /\ UNCHANGED <<job, videoCached, objects, jstatus, step>>
       \/ /\ "storage" \in VideoFaults
          /\ VideoSetStatus(j, "failed", "ended")
          /\ UNCHANGED <<job, videoFiles, objects, step, videoSteady>>

\* The copy into it may stop half-way; the file then stays.
WriteInput(j) ==
    /\ VideoAt(j, "write")
    /\ \/ /\ videoFiles' = [videoFiles EXCEPT !["input"] = IF @ = "none" THEN "none" ELSE "whole"]
          /\ VideoGoto(j, "hls")
          /\ UNCHANGED <<job, videoCached, objects, jstatus, step, videoSteady>>
       \/ /\ "storage" \in VideoFaults
          /\ VideoSetStatus(j, "failed", "ended")
          /\ UNCHANGED <<job, videoFiles, objects, step, videoSteady>>

\* transcodeToHLS: ffmpeg opens the input, and writes the files of a quality.
RunFFmpeg(j) ==
    /\ VideoAt(j, "hls")
    /\ IF step[j] > Len(Qualities) THEN VideoGoto(j, "master") /\ Same
       ELSE IF videoFiles["input"] = "none" THEN VideoFail(j)
       ELSE /\ videoFiles' = [videoFiles EXCEPT ![Qualities[step[j]]] = "torn"]
            /\ videoSteady' = [videoSteady EXCEPT ![j] = videoFiles["input"] = "whole"]
            /\ VideoSetStatus(j, "processing", "encode")
            /\ UNCHANGED <<job, objects, step>>

\* Another job that writes the same files, or has rewritten the input, spoils them.
Spoilt(j) == ~videoSteady[j] \/ \E i \in Starts \ {j} : VideoAt(i, "encode") /\ step[i] = step[j]

EndFFmpeg(j) ==
    /\ VideoAt(j, "encode")
    /\ \/ /\ videoFiles' \in {[videoFiles EXCEPT ![Qualities[step[j]]] = c] :
                           c \in IF Spoilt(j) THEN {"torn", "whole"} ELSE {"whole"}}
          /\ step' = [step EXCEPT ![j] = @ + 1]
          /\ VideoGoto(j, "hls")
          /\ UNCHANGED <<job, videoCached, objects, jstatus, videoSteady>>
       \/ (Spoilt(j) \/ "ffmpeg" \in VideoFaults) /\ VideoFail(j)

\* generateMasterPlaylist, then transcodeToDASH, whose failure is only logged.
WriteMaster(j) ==
    /\ VideoAt(j, "master")
    /\ videoFiles' = [videoFiles EXCEPT !["master"] = "whole"]
    /\ VideoGoto(j, "dash")
    /\ UNCHANGED <<job, videoCached, objects, jstatus, step, videoSteady>>

RunDASH(j) ==
    /\ VideoAt(j, "dash")
    /\ \/ videoFiles["input"] # "none" /\ videoFiles' = [videoFiles EXCEPT !["dash"] = "whole"]
       \/ (videoFiles["input"] = "none" \/ "ffmpeg" \in VideoFaults) /\ UNCHANGED videoFiles
    /\ VideoSetStatus(j, "processing", "upload")
    /\ step' = [step EXCEPT ![j] = 1]
    /\ UNCHANGED <<job, objects, videoSteady>>

\* uploadTranscodedFiles: what the walk finds is stored, but for the input; a
\* file that goes while it walks is an error.
Visit(j) ==
    /\ VideoAt(j, "upload") /\ step[j] <= Len(WalkOrder)
    /\ LET f == WalkOrder[step[j]] IN
       \/ /\ objects' = IF f = "input" \/ videoFiles[f] = "none" THEN objects
                        ELSE [objects EXCEPT ![StorageKey(f)] = videoFiles[f]]
          /\ step' = [step EXCEPT ![j] = @ + 1]
          /\ UNCHANGED <<job, videoCached, videoFiles, jstatus, jpc, videoSteady>>
       \/ videoFiles[f] = "none" /\ VideoFail(j)
       \/ "storage" \in VideoFaults /\ VideoFail(j)

MutantSaysProcessing == "processing"
Completed == "complete"

VideoComplete(j) ==
    /\ VideoAt(j, "upload") /\ step[j] > Len(WalkOrder)
    /\ VideoSetStatus(j, Completed, "remove")
    /\ UNCHANGED <<job, videoFiles, objects, step, videoSteady>>

\* The deferred removal of the input.
RemoveInput(j) ==
    /\ VideoAt(j, "remove")
    /\ videoFiles' = [videoFiles EXCEPT !["input"] = "none"]
    /\ VideoGoto(j, "ended")
    /\ UNCHANGED <<job, videoCached, objects, jstatus, step, videoSteady>>

------------------------------------------------------------------------------
\* The replica dies and comes up without its jobs.
VideoRestart ==
    /\ "crash" \in VideoFaults /\ job # {}
    /\ job' = {}
    /\ jpc' = [j \in Starts |-> IF VideoAt(j, "idle") THEN "idle" ELSE "ended"]
    /\ UNCHANGED <<videoCached, videoFiles, objects, jstatus, step, videoSteady>>

\* jobCacheTTL passes.
VideoLapseCache ==
    /\ videoCached # "none" /\ videoCached' = "none"
    /\ UNCHANGED <<job, videoFiles, objects, jstatus, jpc, step, videoSteady>>

VideoRun(j) ==
         \/ StoreJob(j) \/ VideoBegin(j) \/ CreateInput(j) \/ WriteInput(j) \/ RunFFmpeg(j) \/ EndFFmpeg(j)
         \/ WriteMaster(j) \/ RunDASH(j) \/ Visit(j) \/ VideoComplete(j) \/ RemoveInput(j)

VideoNext == (\E j \in Starts : CheckRunning(j) \/ VideoRun(j)) \/ VideoRestart \/ VideoLapseCache

VideoSpec == VideoInit /\ [][VideoNext]_videoVars

\* A job's goroutine runs to its end, and time passes.
VideoFairness == (\A j \in Starts : WF_videoVars(VideoRun(j))) /\ WF_videoVars(VideoLapseCache)

VideoFairSpec == VideoSpec /\ VideoFairness

------------------------------------------------------------------------------
\* A stream is served when its object is there.
Served(k) == objects[k] # "none"

\* GetTranscodeStatus: the job, else the cache, else the master playlist.
GetTranscodeStatus ==
    CASE job # {} -> jstatus[CHOOSE j \in job : TRUE]
      [] job = {} /\ videoCached # "none" -> videoCached
      [] job = {} /\ videoCached = "none" /\ Served(StorageKey("master")) -> "complete"
      [] OTHER -> "none"

\* The state's types.
VideoTypeOK ==
    /\ job \subseteq Starts
    /\ videoCached \in {"none", "processing", "complete", "failed"}
    /\ videoFiles \in [FileNames -> VideoContents] /\ objects \in [VideoKeys -> VideoContents]
    /\ jstatus \in [Starts -> {"none", "pending", "processing", "complete", "failed"}]
    /\ videoSteady \in [Starts -> BOOLEAN]

\* A video that is reported complete has the streams of every quality and the
\* master playlist that names them in the storage backend: by the job, by the
\* cache after a restart, and by the master playlist when both are gone, though
\* the replica may have died in the middle of an upload.
CompleteHasAll ==
    GetTranscodeStatus = "complete" =>
        \A f \in QualityNames \cup {"master"} : Served(StorageKey(f))

\* Who polls sees the job end, or be forgotten, whatever happens to the replica.
TranscodeEnds == (GetTranscodeStatus = "processing") ~> (GetTranscodeStatus # "processing")

\* core/video.go: ErrTranscodeInProgress "is returned when transcoding is
\* already in progress": a video is not transcoded twice at a time.
OneAtATime ==
    \A i, j \in Starts : ~VideoAt(i, "idle") /\ ~VideoAt(j, "idle") /\ jstatus[i] = "processing"
        /\ jstatus[j] = "processing" /\ {jpc[i], jpc[j]} \cap {"ended"} = {} => i = j

\* docs/reference.md: "Stream via HLS or DASH": when a job that wrote the DASH
\* files is complete, its manifest is served.
DASHServed ==
    \A j \in Starts : jstatus[j] = "complete" /\ Served(StorageKey("dash"))
        => Served(ManifestKey)
==============================================================================
