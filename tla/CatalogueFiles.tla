---------------------------- MODULE CatalogueFiles ----------------------------
(***************************************************************************)
(* The files of the catalogue and the rows that name them: a download with *)
(* its attempts and its conversion (src/app/ytdlp.py, download_video),     *)
(* adoption of a file that is there already, renames, the sweep of         *)
(* leftovers (src/app/scheduler.py) and retention (src/app/retention.py).  *)
(*                                                                         *)
(* One coroutine touches the files; handlers in threads change the rows at *)
(* any moment, and the process may end between any two steps.  There is no *)
(* transaction over a file and its row.                                    *)
(*                                                                         *)
(* The names of a video's files all hold its id, so videos do not meet.    *)
(* Directories are left out: a file is found in any of them.               *)
(***************************************************************************)
EXTENDS Integers, FiniteSets

CONSTANTS
    Videos, NoVideo,
    Library,        \* videos that an older version downloaded
    Candidates,     \* addresses that a download tries, FlareSolverr included
    MaxCrashes      \* bound: ends of the process

ASSUME FilesAssumption ==
    /\ NoVideo \notin Videos
    /\ Library \subseteq Videos
    /\ Candidates \in Nat \ {0}
    /\ MaxCrashes \in Nat

VARIABLES
    status,       \* video -> videos.status, or "GONE" without a row
    local_path,   \* video -> a name, or "none"
    past,         \* videos whose retention is over
    disk,         \* video -> name -> content
    pc, job, file, tries,   \* the coroutine: step, video, name, candidates left
    new_path,     \* the name that a rename gave
    chosen,       \* the videos that a session has read for the next step
    settled,      \* _rename_settled
    crashes

rows      == <<status, local_path, past>>
coroutine == <<pc, job, file, tries, new_path, chosen, settled>>
vars      == <<rows, disk, coroutine, crashes>>

(* In a directory there may be parts and streams of yt-dlp, the bare       *)
(* "[id].mp4", "[id].temp.mp4" that yt-dlp's ffmpeg writes in a merge or a *)
(* fixup, "{title} [id].mp4" without and with the date, and ".compat.mp4"  *)
(* of the conversion.  The code counts the second among the named ones.    *)
Titled   == {"undated", "dated"}
Named    == Titled \union {"temp"}
Finished == Named \union {"bare"}
Names    == Finished \union {"part", "compat"}

(* A file is 0 bytes, a video as it was sent or one for the TV, cut short, *)
(* or what yt-dlp's ffmpeg had written of a video when it was stopped.  By *)
(* a finished name the last one counts as a video: only the size is asked. *)
Whole    == {"raw", "tv"}
Taken    == Whole \union {"halfway"}
Contents == Taken \union {"absent", "empty", "cut"}

Runnable  == {"QUEUED", "FAILED_TEMPORARY"}
Protected == Runnable \union {"DOWNLOADING", "PAUSED"}
Statuses  == Protected \union {"IGNORED_MANUAL", "COMPLETED", "EXPIRED", "GONE"}

(* Steps that do not work on a video; that do, with its file at hand.      *)
Between  == {"start", "pick", "rename", "sweep", "sweeping", "retention", "expire"}
WithFile == {"adopt", "place", "convert", "converting", "done", "renaming", "renamed"}
Steps    == Between \union WithFile \union {"claim", "attempt", "failed"}

NoFiles == [n \in Names |-> "absent"]

Init ==
    /\ status = [v \in Videos |-> IF v \in Library THEN "COMPLETED" ELSE "QUEUED"]
    /\ local_path = [v \in Videos |-> IF v \in Library THEN "undated" ELSE "none"]
    /\ past = {}
    /\ disk = [v \in Videos |->
                  IF v \in Library THEN [NoFiles EXCEPT !["undated"] = "tv"] ELSE NoFiles]
    /\ pc = "pick" /\ job = NoVideo /\ file = "none" /\ tries = 0
    /\ new_path = "none" /\ chosen = {} /\ settled = {}
    /\ crashes = 0

-----------------------------------------------------------------------------
(* Files.                                                                  *)

(* Faulty variant: what ffmpeg writes is a finished file, too.             *)
SavedWithCompat(v) ==
    {n \in Finished \union {"compat"} : disk[v][n] \in Taken \union {"cut"}}

(* is_saved_media                                                          *)
Saved(v) == {n \in Finished : disk[v][n] \in Taken}

(* The best named files: a dated one, else the largest, which may be any   *)
(* (find_existing_video_files).                                            *)
Best(names) == IF "dated" \in names THEN {"dated"} ELSE names \ {"bare"}

(* Faulty variant: a source that is the destination is removed as well.    *)
PlacedOverItself(d, src, dest) ==
    IF d[dest] \in Taken
    THEN {[disk |-> [d EXCEPT ![src] = "absent"], name |-> dest]}
    ELSE {[disk |-> [d EXCEPT ![dest] = d[src], ![src] = "absent"], name |-> dest],
          [disk |-> [d EXCEPT ![dest] = "absent"], name |-> src]}

(* place_downloaded_file: a destination with content is kept, and a bare   *)
(* source goes; a 0-byte one is replaced; a move may fail.                 *)
Placed(d, src, dest) ==
    IF src = dest THEN {[disk |-> d, name |-> src]}
    ELSE IF d[dest] \in Taken
    THEN {[disk |-> IF src = "bare" THEN [d EXCEPT !["bare"] = "absent"] ELSE d,
           name |-> dest]}
    ELSE {[disk |-> [d EXCEPT ![dest] = d[src], ![src] = "absent"], name |-> dest],
          [disk |-> [d EXCEPT ![dest] = "absent"], name |-> src]}

(* What remove_stale_download_parts may make of a directory before yt-dlp  *)
(* starts: small parts and an empty bare file go.                          *)
Tidied(d) ==
    {[d EXCEPT !["part"] = left,
               !["bare"] = IF d["bare"] = "empty" THEN "absent" ELSE d["bare"]] :
        left \in {"absent", d["part"]}}

-----------------------------------------------------------------------------
(* A download.                                                             *)

GoTo(step) == pc' = step /\ UNCHANGED <<job, file, tries, new_path, chosen, settled>>

(* The coroutine has job and file in hand for its next step.               *)
GoWith(step, v, name) ==
    /\ pc' = step /\ job' = v /\ file' = name
    /\ UNCHANGED <<tries, new_path, chosen, settled>>

(* Nothing is due, or the row is not runnable any more.                    *)
PickNothing == pc = "pick" /\ GoTo("rename") /\ UNCHANGED <<rows, disk, crashes>>

(* adopt_existing_download with a named file: a bare one beside it goes.   *)
AdoptNamed(v) ==
    /\ pc = "pick" /\ status[v] \in Runnable
    /\ Saved(v) \ {"bare"} # {}
    /\ disk' = [disk EXCEPT ![v]["bare"] = IF "bare" \in Saved(v) THEN "absent" ELSE @]
    /\ \E best \in Best(Saved(v)) : GoWith("adopt", v, best)
    /\ UNCHANGED <<rows, crashes>>

(* And with a bare one only, which is adopted when it can be renamed.      *)
AdoptBare(v) ==
    /\ pc = "pick" /\ status[v] \in Runnable
    /\ Saved(v) = {"bare"}
    /\ \E dest \in Titled : \E placed \in Placed(disk[v], "bare", dest) :
          /\ disk' = [disk EXCEPT ![v] = placed.disk]
          /\ IF placed.name = "bare" THEN GoWith("claim", v, "none")
             ELSE GoWith("adopt", v, placed.name)
    /\ UNCHANGED <<rows, crashes>>

FindNothing(v) ==
    /\ pc = "pick" /\ status[v] \in Runnable
    /\ Saved(v) = {}
    /\ GoWith("claim", v, "none")
    /\ UNCHANGED <<rows, disk, crashes>>

Complete(v, name) ==
    /\ status' = [status EXCEPT ![v] = "COMPLETED"]
    /\ local_path' = [local_path EXCEPT ![v] = name]
    /\ past' = past \ {v}

AdoptCommit ==
    /\ pc = "adopt"
    /\ IF status[job] \in Runnable
       THEN Complete(job, file) /\ GoTo("sweep")
       ELSE UNCHANGED rows /\ GoTo("rename")
    /\ UNCHANGED <<disk, crashes>>

(* claim_download, then the start of download_video.                       *)
Claim ==
    /\ pc = "claim"
    /\ IF status[job] \in Runnable
       THEN /\ status' = [status EXCEPT ![job] = "DOWNLOADING"]
            /\ \E d \in Tidied(disk[job]) : disk' = [disk EXCEPT ![job] = d]
            /\ pc' = "attempt" /\ tries' = Candidates
            /\ UNCHANGED <<local_path, past, job, file, new_path, chosen, settled>>
       ELSE UNCHANGED <<rows, disk>> /\ GoTo("rename")
    /\ UNCHANGED crashes

(* Faulty variant: the candidates are not counted right.                   *)
TryOneMore ==
    /\ tries' = tries - 1
    /\ pc' \in IF tries > 0 THEN {"attempt", "failed"} ELSE {"failed"}
    /\ UNCHANGED <<job, file, new_path, chosen, settled>>

(* The next candidate, unless it was the last or there is no point.        *)
TryNext ==
    /\ tries' = IF tries > 0 THEN tries - 1 ELSE 0
    /\ pc' \in IF tries > 1 THEN {"attempt", "failed"} ELSE {"failed"}
    /\ UNCHANGED <<job, file, new_path, chosen, settled>>

(* yt-dlp fails, times out or is slow, and leaves parts, or an empty file, *)
(* or nothing: without data blocks the parts are thrown away.  One that is *)
(* stopped while its ffmpeg merges or fixes up leaves the temp file, the   *)
(* bare one whole if it was there before; one stopped in a remux leaves    *)
(* the bare one halfway.  With a crash after it, this is also what the end *)
(* of the process leaves.                                                  *)
AttemptFails ==
    /\ pc = "attempt"
    /\ \E part \in {"absent", "cut"}, temp \in {"absent", "halfway"},
          bare \in IF "bare" \in Saved(job) THEN {disk[job]["bare"]}
                  ELSE {disk[job]["bare"], "empty"} \union Taken :
          disk' = [disk EXCEPT ![job]["part"] = part, ![job]["temp"] = temp,
                               ![job]["bare"] = bare]
    /\ TryNext
    /\ UNCHANGED <<rows, crashes>>

(* It moves its output to the bare name and reports that: no other         *)
(* candidate is tried.                                                     *)
AttemptSucceeds ==
    /\ pc = "attempt" /\ "bare" \notin Saved(job)
    /\ \E content \in Whole, temp \in {"absent", disk[job]["temp"]} :
          disk' = [disk EXCEPT ![job]["part"] = "absent", ![job]["temp"] = temp,
                               ![job]["bare"] = content]
    /\ pc' = "place" /\ file' = "bare" /\ tries' = 0
    /\ UNCHANGED <<rows, job, new_path, chosen, settled, crashes>>

(* It says that the file is there already, with or without success.  If it *)
(* names none, resolve_on_disk_download takes the largest.                 *)
AttemptFindsFile ==
    /\ pc = "attempt" /\ "bare" \in Saved(job)
    /\ pc' = "place" /\ file' \in Saved(job) \intersect {"bare", "temp"}
    /\ tries' \in {0, tries}
    /\ UNCHANGED <<rows, disk, job, new_path, chosen, settled, crashes>>

(* _finish: place_downloaded_file.                                         *)
Place ==
    /\ pc = "place"
    /\ \E dest \in Titled : \E placed \in Placed(disk[job], file, dest) :
          /\ disk' = [disk EXCEPT ![job] = placed.disk]
          /\ GoWith("convert", job, placed.name)
    /\ UNCHANGED <<rows, crashes>>

(* ensure_tv_compatible: the file is fit for the TV as it is.  A halfway   *)
(* one may pass for it, or be converted: it stays what it is.              *)
NeedNotConvert ==
    /\ pc = "convert" /\ disk[job][file] # "raw"
    /\ GoTo("done")
    /\ UNCHANGED <<rows, disk, crashes>>

Convert ==
    /\ pc = "convert" /\ disk[job][file] # "tv"
    /\ disk' = [disk EXCEPT ![job]["compat"] = "cut"]
    /\ GoTo("converting")
    /\ UNCHANGED <<rows, crashes>>

(* ffmpeg's output replaces the file.                                      *)
Converted ==
    /\ pc = "converting"
    /\ disk' = [disk EXCEPT ![job][file] = IF @ = "raw" THEN "tv" ELSE @,
                            ![job]["compat"] = "absent"]
    /\ GoTo("done")
    /\ UNCHANGED <<rows, crashes>>

(* The probe fails, or ffmpeg does, whose output then goes, or it times    *)
(* out and its output stays.                                               *)
ConvertFails ==
    /\ \/ pc = "convert" /\ UNCHANGED disk
       \/ pc = "converting" /\ \E left \in {"absent", "cut"} :
                                  disk' = [disk EXCEPT ![job]["compat"] = left]
    /\ TryNext
    /\ UNCHANGED <<rows, crashes>>

(* The outcome is written to whatever the row has become, if it is there.  *)
Finish ==
    /\ pc \in {"done", "failed"}
    /\ CASE status[job] = "GONE" -> UNCHANGED rows
         [] status[job] # "GONE" /\ pc = "done" -> Complete(job, file)
         [] OTHER -> /\ status' = [status EXCEPT ![job] = "FAILED_TEMPORARY"]
                     /\ UNCHANGED <<local_path, past>>
    /\ GoTo("sweep")
    /\ UNCHANGED <<disk, crashes>>

-----------------------------------------------------------------------------
(* Renames, the sweep and retention.                                       *)

Tracked(v) == status[v] = "COMPLETED" /\ local_path[v] # "none"

Renameable(v) ==
    local_path[v] # "dated" /\ local_path[v] \in Names /\ disk[v][local_path[v]] # "absent"

RenameNothing ==
    /\ pc = "rename"
    /\ \A v \in Videos : Tracked(v) /\ v \notin settled => ~Renameable(v)
    /\ settled' = settled \union {v \in Videos : Tracked(v)}
    /\ pc' = "sweep"
    /\ UNCHANGED <<rows, disk, job, file, tries, new_path, chosen, crashes>>

(* The rows with lower ids that are passed over are settled.               *)
RenamePick ==
    /\ pc = "rename"
    /\ \E v \in Videos :
          /\ Tracked(v) /\ v \notin settled /\ Renameable(v)
          /\ \E passed \in SUBSET {w \in Videos : Tracked(w) /\ ~Renameable(w)} :
                settled' = settled \union passed
          /\ job' = v /\ file' = local_path[v]
    /\ pc' = "renaming"
    /\ UNCHANGED <<rows, disk, tries, new_path, chosen, crashes>>

(* After the metadata: the file, by the name that was read before.         *)
RenameFile ==
    /\ pc = "renaming"
    /\ \E dest \in Titled : \E placed \in Placed(disk[job], file, dest) :
          /\ disk' = [disk EXCEPT ![job] = placed.disk]
          /\ IF placed.name = file
             THEN pc' = "sweep" /\ settled' = settled \union {job} /\ UNCHANGED new_path
             ELSE pc' = "renamed" /\ new_path' = placed.name /\ UNCHANGED settled
    /\ UNCHANGED <<rows, job, file, tries, chosen, crashes>>

(* Then its row, if that still names it.                                   *)
RenameCommit ==
    /\ pc = "renamed"
    /\ IF status[job] = "COMPLETED" /\ local_path[job] = file
       THEN local_path' = [local_path EXCEPT ![job] = new_path]
       ELSE UNCHANGED local_path
    /\ settled' = settled \union {job}
    /\ pc' = "sweep" /\ new_path' = "none"
    /\ UNCHANGED <<status, past, disk, job, file, tries, chosen, crashes>>

(* Faulty variant: every video with a row is protected.                    *)
SweepReadAllRows ==
    /\ pc = "sweep"
    /\ IF \E v \in Videos : status[v] = "DOWNLOADING"
       THEN pc' = "retention" /\ UNCHANGED chosen
       ELSE pc' = "sweeping" /\ chosen' = {v \in Videos : status[v] # "GONE"}
    /\ UNCHANGED <<rows, disk, job, file, tries, new_path, settled, crashes>>

(* What may be resumed is protected.                                       *)
SweepRead ==
    /\ pc = "sweep"
    /\ IF \E v \in Videos : status[v] = "DOWNLOADING"
       THEN pc' = "retention" /\ UNCHANGED chosen
       ELSE pc' = "sweeping" /\ chosen' = {v \in Videos : status[v] \in Protected}
    /\ UNCHANGED <<rows, disk, job, file, tries, new_path, settled, crashes>>

SweepParts ==
    /\ pc = "sweeping"
    /\ disk' = [v \in Videos |->
                   IF v \in chosen THEN disk[v] ELSE [disk[v] EXCEPT !["part"] = "absent"]]
    /\ pc' = "retention" /\ chosen' = {}
    /\ UNCHANGED <<rows, job, file, tries, new_path, settled, crashes>>

(* Faulty variant: the time of completion is not looked at.                *)
RetentionReleasesAll ==
    /\ pc = "retention"
    /\ \E released \in SUBSET {v \in Videos : status[v] = "COMPLETED"} :
          /\ chosen' = released
          /\ disk' = [v \in Videos |->
                 IF v \in released /\ local_path[v] \in Names
                 THEN [disk[v] EXCEPT ![local_path[v]] = "absent"] ELSE disk[v]]
    /\ pc' = "expire"
    /\ UNCHANGED <<rows, job, file, tries, new_path, settled, crashes>>

(* release_recorded_file: gone already will do, and unlink may fail.       *)
RetentionReleases ==
    /\ pc = "retention"
    /\ \E released \in SUBSET {v \in past : status[v] = "COMPLETED"} :
          /\ chosen' = released
          /\ disk' = [v \in Videos |->
                 IF v \in released /\ local_path[v] \in Names
                 THEN [disk[v] EXCEPT ![local_path[v]] = "absent"] ELSE disk[v]]
    /\ pc' = "expire"
    /\ UNCHANGED <<rows, job, file, tries, new_path, settled, crashes>>

(* One commit for all of them: it fails when a row is gone.                *)
RetentionCommit ==
    /\ pc = "expire"
    /\ IF \E v \in chosen : status[v] = "GONE" THEN UNCHANGED rows
       ELSE /\ status' = [v \in Videos |-> IF v \in chosen THEN "EXPIRED" ELSE status[v]]
            /\ local_path' = [v \in Videos |-> IF v \in chosen THEN "none" ELSE local_path[v]]
            /\ UNCHANGED past
    /\ pc' = "pick" /\ chosen' = {}
    /\ UNCHANGED <<disk, job, file, tries, new_path, settled, crashes>>

(* recover_interrupted_downloads                                           *)
Recover ==
    /\ pc = "start"
    /\ status' = [v \in Videos |->
                     IF status[v] = "DOWNLOADING" THEN "FAILED_TEMPORARY" ELSE status[v]]
    /\ GoTo("pick")
    /\ UNCHANGED <<local_path, past, disk, crashes>>

SchedulerStep ==
    \/ Recover \/ PickNothing
    \/ \E v \in Videos : AdoptNamed(v) \/ AdoptBare(v) \/ FindNothing(v)
    \/ AdoptCommit \/ Claim \/ AttemptFails \/ AttemptSucceeds \/ AttemptFindsFile \/ Place
    \/ NeedNotConvert \/ Convert \/ Converted \/ ConvertFails \/ Finish
    \/ RenameNothing \/ RenamePick \/ RenameFile \/ RenameCommit
    \/ SweepRead \/ SweepParts \/ RetentionReleases \/ RetentionCommit

-----------------------------------------------------------------------------
(* What else happens.                                                      *)

(* A user's request on a row; PAUSE and REMOVE leave a download alone, and *)
(* IGNORE does not.                                                        *)
ChangeRow(v) ==
    /\ \/ /\ status[v] \notin {"DOWNLOADING", "GONE"}
          /\ status' = [status EXCEPT ![v] = "QUEUED"]
       \/ /\ status[v] \in Runnable
          /\ status' = [status EXCEPT ![v] = "PAUSED"]
       \/ /\ status[v] # "GONE"
          /\ status' = [status EXCEPT ![v] = "IGNORED_MANUAL"]
    /\ UNCHANGED <<local_path, past, disk, coroutine, crashes>>

(* With its subscription; the files stay.                                  *)
DeleteRow(v) ==
    /\ status[v] # "GONE"
    /\ status' = [status EXCEPT ![v] = "GONE"]
    /\ local_path' = [local_path EXCEPT ![v] = "none"]
    /\ past' = past \ {v}
    /\ UNCHANGED <<disk, coroutine, crashes>>

(* A scan or a one-off adds the video again, as another row.  What the     *)
(* coroutine does with the old one does not concern it.                    *)
AddRow(v) ==
    /\ status[v] = "GONE" /\ v \notin chosen
    /\ job = v => pc \in Between
    /\ status' = [status EXCEPT ![v] = "QUEUED"]
    /\ settled' = settled \ {v}
    /\ UNCHANGED <<local_path, past, disk, pc, job, file, tries, new_path, chosen, crashes>>

(* A retention period passes.  A policy that is made longer meanwhile is   *)
(* left out.                                                               *)
Age(v) ==
    /\ status[v] = "COMPLETED" /\ v \notin past
    /\ past' = past \union {v}
    /\ UNCHANGED <<status, local_path, disk, coroutine, crashes>>

Crash ==
    /\ crashes < MaxCrashes
    /\ crashes' = crashes + 1
    /\ pc' = "start" /\ job' = NoVideo /\ file' = "none" /\ tries' = 0
    /\ new_path' = "none" /\ chosen' = {} /\ settled' = {}
    /\ UNCHANGED <<rows, disk>>

Next ==
    \/ SchedulerStep
    \/ \E v \in Videos : ChangeRow(v) \/ DeleteRow(v) \/ AddRow(v) \/ Age(v)
    \/ Crash

Spec == Init /\ [][Next]_vars

(* The coroutine goes on: every subprocess it waits for has a timeout.     *)
FairSpec == Spec /\ WF_vars(SchedulerStep)

-----------------------------------------------------------------------------
(* Properties.                                                             *)

(* Every variable has its type, and a step that works on a video has one.  *)
TypeOK ==
    /\ status \in [Videos -> Statuses]
    /\ local_path \in [Videos -> Finished \union {"none"}]
    /\ past \subseteq Videos /\ settled \subseteq Videos
    /\ disk \in [Videos -> [Names -> Contents]]
    /\ pc \in Steps
    /\ job \in Videos \union {NoVideo}
    /\ job = NoVideo => pc \in Between
    /\ file \in Finished \union {"none"}
    /\ pc \in WithFile => file # "none"
    /\ tries \in 0..Candidates
    /\ new_path \in Titled \union {"none"} /\ chosen \subseteq Videos
    /\ crashes \in Nat

(* The file of a completed row is never empty, a part, or what a stopped   *)
(* conversion left, wherever a download or the process ended; it is not    *)
(* whole only if yt-dlp was stopped while its ffmpeg wrote it.             *)
CompletedIsWholeOrHalfway ==
    \A v \in Videos : Tracked(v) =>
        disk[v][local_path[v]] \in Taken \union {"absent"}

(* "A non-empty finished media file, not a temp" (ytdlp.py:626) is what    *)
(* adoption completes a row with: the file of a completed row is whole.    *)
CompletedIsWhole ==
    \A v \in Videos : Tracked(v) =>
        disk[v][local_path[v]] \in Whole \union {"absent"}

(* A completed row whose file is missing is past its retention, or else    *)
(* the video is there by another name: a crash between a file and its row  *)
(* loses no video.                                                         *)
MissingIsExplained ==
    \A v \in Videos : Tracked(v) /\ disk[v][local_path[v]] = "absent" =>
        v \in past \/ Saved(v) # {}

HasVideo(v)   == \E n \in Finished : disk[v][n] \in Whole
HasHalfway(v) == \E n \in Finished : disk[v][n] = "halfway"

(* Only retention takes the last whole file of a video away, or a halfway  *)
(* one beside it that is taken for the better file: neither placing,       *)
(* adopting, converting, renaming nor sweeping does it otherwise.          *)
VideoIsKept ==
    [][\A v \in Videos : HasVideo(v) =>
          HasVideo(v)' \/ HasHalfway(v) \/ (pc = "retention" /\ v \in past)]_vars

(* Parts that nothing will resume are swept in the end.                    *)
PartsAreSwept ==
    \A v \in Videos :
        disk[v]["part"] # "absent" ~> disk[v]["part"] = "absent" \/ status[v] \in Protected

(* The inductive invariant.  A file by a title is whole or halfway, for    *)
(* yt-dlp downloads, and the conversion writes, to other names; so is what *)
(* the coroutine has in hand.  The temp file is never more than halfway:   *)
(* yt-dlp renames it when it is done.  A row whose download goes on is not *)
(* completed, and a completed one has its file or is past its retention.   *)
NamedAreTaken ==
    \A v \in Videos :
        /\ \A n \in Titled : disk[v][n] \in Taken \union {"absent"}
        /\ disk[v]["temp"] \in {"halfway", "absent"}

InHandIsTaken == pc \in WithFile \ {"renamed"} => disk[job][file] \in Taken

DownloadIsOpen ==
    pc \in {"attempt", "place", "convert", "converting", "done", "failed"} =>
        status[job] # "COMPLETED"

CompletedIsThere == \A v \in Videos : Tracked(v) => v \in past \/ Saved(v) # {}

FilesInv == NamedAreTaken /\ InHandIsTaken /\ DownloadIsOpen
            /\ CompletedIsWholeOrHalfway /\ CompletedIsThere

(* "Files are remuxed or transcoded to a Samsung-safe MP4" (README.md:31): *)
(* what a completed row names is fit for the TV.                           *)
CompletedIsForTheTV ==
    \A v \in Videos : Tracked(v) => disk[v][local_path[v]] # "raw"
=============================================================================
