------------------------- MODULE CatalogueFilesProofs -------------------------
(* What holds of the files for any videos, candidates and crashes.         *)
EXTENDS CatalogueFiles, TLAPS

-----------------------------------------------------------------------------
(* Types.                                                                  *)

(* Where the bare file, or another one, may end up.                        *)
LEMMA PlacedTypes ==
    ASSUME NEW d \in [Names -> Contents], NEW src \in Finished, NEW dest \in Titled,
           NEW placed \in Placed(d, src, dest)
    PROVE  /\ placed.disk \in [Names -> Contents]
           /\ placed.name \in {src, dest}
BY DEF Placed, Names, Finished, Named, Titled, Contents, Taken, Whole

(* And what the tidying before a download leaves.                          *)
LEMMA TidiedTypes ==
    ASSUME NEW d \in [Names -> Contents], NEW left \in Tidied(d)
    PROVE  left \in [Names -> Contents]
BY DEF Tidied, Names, Finished, Named, Titled, Contents, Taken, Whole

(* What adopt_existing_download prefers is there, and has a name.          *)
LEMMA BestIsNamed ==
    ASSUME NEW v \in Videos, NEW best \in Best(Saved(v))
    PROVE  best \in Saved(v) \intersect Named
BY DEF Best, Saved, Finished, Named, Titled

(* Every step keeps the types.                                             *)
LEMMA TypesStep ==
    ASSUME TypeOK, [Next]_vars
    PROVE  TypeOK'
<1> USE FilesAssumption DEF TypeOK, vars, rows, coroutine, Steps, Between, WithFile, Statuses,
                            Protected, Runnable, Names, Finished, Named, Titled, Contents, Taken, Whole
<1>1. ASSUME NEW v \in Videos, AdoptNamed(v)
      PROVE  TypeOK'
  BY <1>1, BestIsNamed DEF AdoptNamed, GoWith
<1>2. ASSUME NEW v \in Videos, AdoptBare(v)
      PROVE  TypeOK'
  <2>1. PICK dest \in Titled : \E placed \in Placed(disk[v], "bare", dest) :
           /\ disk' = [disk EXCEPT ![v] = placed.disk]
           /\ IF placed.name = "bare" THEN GoWith("claim", v, "none")
              ELSE GoWith("adopt", v, placed.name)
    BY <1>2 DEF AdoptBare
  <2>2. PICK placed \in Placed(disk[v], "bare", dest) :
           /\ disk' = [disk EXCEPT ![v] = placed.disk]
           /\ IF placed.name = "bare" THEN GoWith("claim", v, "none")
              ELSE GoWith("adopt", v, placed.name)
    BY <2>1
  <2>3. placed.disk \in [Names -> Contents] /\ placed.name \in {"bare", dest}
    BY PlacedTypes
  <2> QED
    BY <1>2, <2>2, <2>3 DEF AdoptBare, GoWith
<1>3. ASSUME NEW v \in Videos, FindNothing(v)
      PROVE  TypeOK'
  BY <1>3 DEF FindNothing, GoTo, GoWith
<1>4. ASSUME NEW v \in Videos, ChangeRow(v)
      PROVE  TypeOK'
  BY <1>4 DEF ChangeRow
<1>5. ASSUME NEW v \in Videos, DeleteRow(v)
      PROVE  TypeOK'
  BY <1>5 DEF DeleteRow
<1>6. ASSUME NEW v \in Videos, AddRow(v)
      PROVE  TypeOK'
  BY <1>6 DEF AddRow
<1>7. ASSUME NEW v \in Videos, Age(v)
      PROVE  TypeOK'
  BY <1>7 DEF Age
<1>8. CASE Recover
  BY <1>8 DEF Recover, GoTo
<1>9. CASE PickNothing
  BY <1>9 DEF PickNothing, GoTo
<1>10. CASE AdoptCommit
  BY <1>10 DEF AdoptCommit, GoTo, Complete
<1>11. CASE Claim
  <2>1. CASE status[job] \in Runnable
    <3>1. PICK d \in Tidied(disk[job]) : disk' = [disk EXCEPT ![job] = d]
      BY <1>11, <2>1 DEF Claim
    <3>2. d \in [Names -> Contents]
      BY <1>11, TidiedTypes DEF Claim
    <3> QED
      BY <1>11, <2>1, <3>1, <3>2 DEF Claim
  <2>2. CASE status[job] \notin Runnable
    BY <1>11, <2>2 DEF Claim, GoTo
  <2> QED
    BY <2>1, <2>2
<1>12. CASE AttemptFails
  <2>1. PICK part \in {"absent", "cut"}, temp \in {"absent", "halfway"},
             bare \in {disk[job]["bare"], "empty"} \union Taken :
           disk' = [disk EXCEPT ![job]["part"] = part, ![job]["temp"] = temp,
                                ![job]["bare"] = bare]
    BY <1>12 DEF AttemptFails
  <2>2. job \in Videos /\ disk[job] \in [Names -> Contents]
    BY <1>12 DEF AttemptFails
  <2>3. part \in Contents /\ temp \in Contents /\ bare \in Contents
    BY <2>2
  <2>4. disk' \in [Videos -> [Names -> Contents]]
    BY <2>1, <2>2, <2>3
  <2>5. /\ UNCHANGED <<rows, job, file, new_path, chosen, settled, crashes>>
        /\ tries' \in 0..Candidates /\ pc' \in {"attempt", "failed"}
    BY <1>12 DEF AttemptFails, TryNext
  <2> QED
    BY <1>12, <2>4, <2>5 DEF AttemptFails
<1>13. CASE AttemptSucceeds
  BY <1>13 DEF AttemptSucceeds
<1>14. CASE AttemptFindsFile
  BY <1>14 DEF AttemptFindsFile
<1>15. CASE Place
  <2>1. PICK dest \in Titled : \E placed \in Placed(disk[job], file, dest) :
           /\ disk' = [disk EXCEPT ![job] = placed.disk]
           /\ GoWith("convert", job, placed.name)
    BY <1>15 DEF Place
  <2>2. PICK placed \in Placed(disk[job], file, dest) :
           /\ disk' = [disk EXCEPT ![job] = placed.disk]
           /\ GoWith("convert", job, placed.name)
    BY <2>1
  <2>3. placed.disk \in [Names -> Contents] /\ placed.name \in {file, dest}
    BY <1>15, PlacedTypes DEF Place
  <2> QED
    BY <1>15, <2>2, <2>3 DEF Place, GoWith
<1>16. CASE NeedNotConvert
  BY <1>16 DEF NeedNotConvert, GoTo
<1>17. CASE Convert
  BY <1>17 DEF Convert, GoTo
<1>18. CASE Converted
  BY <1>18 DEF Converted, GoTo
<1>19. CASE ConvertFails
  BY SMTT(60), <1>19 DEF ConvertFails, TryNext
<1>20. CASE Finish
  BY <1>20 DEF Finish, GoTo, Complete
<1>21. CASE RenameNothing
  BY <1>21 DEF RenameNothing
<1>22. CASE RenamePick
  <2>1. PICK v \in Videos :
           /\ Tracked(v)
           /\ \E passed \in SUBSET {w \in Videos : Tracked(w) /\ ~Renameable(w)} :
                 settled' = settled \union passed
           /\ job' = v /\ file' = local_path[v]
    BY <1>22 DEF RenamePick
  <2>2. settled' \subseteq Videos
    BY <2>1
  <2> QED
    BY <1>22, <2>1, <2>2 DEF RenamePick, Tracked
<1>23. CASE RenameFile
  <2>1. PICK dest \in Titled : \E placed \in Placed(disk[job], file, dest) :
           /\ disk' = [disk EXCEPT ![job] = placed.disk]
           /\ IF placed.name = file
              THEN pc' = "sweep" /\ UNCHANGED new_path
              ELSE pc' = "renamed" /\ new_path' = placed.name
    BY <1>23 DEF RenameFile
  <2>2. PICK placed \in Placed(disk[job], file, dest) :
           /\ disk' = [disk EXCEPT ![job] = placed.disk]
           /\ IF placed.name = file
              THEN pc' = "sweep" /\ UNCHANGED new_path
              ELSE pc' = "renamed" /\ new_path' = placed.name
    BY <2>1
  <2>3. job \in Videos /\ file \in Finished
    BY <1>23 DEF RenameFile
  <2>4. placed.disk \in [Names -> Contents] /\ placed.name \in {file, dest}
    BY <2>3, PlacedTypes
  <2> QED
    BY <1>23, <2>2, <2>3, <2>4 DEF RenameFile
<1>24. CASE RenameCommit
  BY <1>24 DEF RenameCommit
<1>25. CASE SweepRead
  BY <1>25 DEF SweepRead
<1>26. CASE SweepParts
  BY <1>26 DEF SweepParts
<1>27. CASE RetentionReleases
  BY <1>27 DEF RetentionReleases
<1>28. CASE RetentionCommit
  BY <1>28 DEF RetentionCommit
<1>29. CASE Crash
  BY <1>29 DEF Crash
<1>30. CASE UNCHANGED vars
  BY <1>30
<1> QED
  BY <1>1, <1>2, <1>3, <1>4, <1>5, <1>6, <1>7, <1>8, <1>9, <1>10, <1>11, <1>12, <1>13,
     <1>14, <1>15, <1>16, <1>17, <1>18, <1>19, <1>20, <1>21, <1>22, <1>23, <1>24, <1>25,
     <1>26, <1>27, <1>28, <1>29, <1>30
  DEF Next, SchedulerStep

(* TypeOK holds of every behaviour.                                        *)
THEOREM FilesTypeCorrect == Spec => []TypeOK
<1>1. Init => TypeOK
  BY FilesAssumption DEF Init, TypeOK, Steps, Between, WithFile, Statuses,
                         Protected, Runnable, NoFiles, Names, Finished, Named, Titled,
                         Contents, Taken, Whole
<1>2. TypeOK /\ [Next]_vars => TypeOK'
  BY TypesStep
<1> QED
  BY <1>1, <1>2, PTL DEF Spec

-----------------------------------------------------------------------------
(* Files.                                                                  *)

(* A finished file that is placed has content where it ends up, what is    *)
(* there under titles has content, and a whole file stays, unless one that *)
(* was stopped halfway is where it should go.                              *)
LEMMA PlacedIsTaken ==
    ASSUME NEW d \in [Names -> Contents], NEW src \in Finished, NEW dest \in Titled,
           d[src] \in Taken, \A n \in Titled : d[n] \in Taken \union {"absent"},
           NEW placed \in Placed(d, src, dest)
    PROVE  /\ placed.disk \in [Names -> Contents]
           /\ placed.name \in {src, dest}
           /\ placed.disk[placed.name] \in Taken
           /\ \A n \in Titled : placed.disk[n] \in Taken \union {"absent"}
           /\ placed.disk["temp"] \in {d["temp"], "absent"}
           /\ placed.disk["bare"] \in {d["bare"], "absent"}
           /\ (\E n \in Finished : d[n] \in Whole)
                 => \/ \E n \in Finished : placed.disk[n] \in Whole
                    \/ \E n \in Finished : d[n] = "halfway"
BY DEF Placed, Names, Finished, Named, Titled, Contents, Taken, Whole

(* What a placing does to the share.                                       *)
PlacedAs(v, src, dest, name) ==
    /\ name \in {src, dest} /\ disk'[v][name] \in Taken
    /\ \A n \in Titled : disk'[v][n] \in Taken \union {"absent"}
    /\ disk'[v]["temp"] \in {disk[v]["temp"], "absent"}
    /\ disk'[v]["bare"] \in {disk[v]["bare"], "absent"}
    /\ HasVideo(v) => HasVideo(v)' \/ HasHalfway(v)
    /\ \A w \in Videos : w # v => disk'[w] = disk[w]

LEMMA PlacingKeepsIt ==
    ASSUME TypeOK, NamedAreTaken,
           NEW v \in Videos, NEW src \in Finished, NEW dest \in Titled,
           disk[v][src] \in Taken,
           NEW placed \in Placed(disk[v], src, dest),
           disk' = [disk EXCEPT ![v] = placed.disk]
    PROVE  PlacedAs(v, src, dest, placed.name)
<1>1. disk[v] \in [Names -> Contents] /\ disk'[v] = placed.disk
  BY DEF TypeOK
<1>2. \A n \in Titled : disk[v][n] \in Taken \union {"absent"}
  BY DEF NamedAreTaken
<1>3. \A w \in Videos : w # v => disk'[w] = disk[w]
  BY DEF TypeOK
<1> QED
  BY <1>1, <1>2, <1>3, PlacedIsTaken DEF PlacedAs, HasVideo, HasHalfway

(* The step of VideoIsKept; and a file that can be adopted stays, but the  *)
(* temp file of a download at work.                                        *)
Kept ==
    \A w \in Videos :
        \/ pc = "retention" /\ w \in past
        \/ /\ HasVideo(w) => HasVideo(w)' \/ HasHalfway(w)
           /\ Saved(w) # {} => Saved(w)' # {} \/ (pc = "attempt" /\ w = job)

(* So placing loses nothing, and completed rows keep what they have.       *)
LEMMA PlacingLosesNothing ==
    ASSUME NamedAreTaken, NEW v \in Videos, NEW src \in Finished, NEW dest \in Titled,
           NEW name, PlacedAs(v, src, dest, name)
    PROVE  /\ Kept /\ NamedAreTaken'
           /\ \A w \in Videos : Saved(w) # {} => Saved(w)' # {}
           /\ \A w \in Videos, n \in Finished :
                 disk[w][n] \in Taken \union {"absent"}
                    => disk'[w][n] \in Taken \union {"absent"}
<1>1. \A w \in Videos : w # v => /\ HasVideo(w)' = HasVideo(w)
                                 /\ Saved(w)' = Saved(w)
  BY DEF PlacedAs, HasVideo, Saved
<1>2. name \in Saved(v)'
  BY DEF PlacedAs, Saved, Finished, Named
<1>3. NamedAreTaken'
  BY DEF PlacedAs, NamedAreTaken
<1>4. \A w \in Videos, n \in Finished :
         disk[w][n] \in Taken \union {"absent"} => disk'[w][n] \in Taken \union {"absent"}
  BY DEF PlacedAs, Finished, Named, Titled
<1>5. HasVideo(v) => HasVideo(v)' \/ HasHalfway(v)
  BY DEF PlacedAs
<1>6. \A w \in Videos : Saved(w) # {} => Saved(w)' # {}
  BY <1>1, <1>2
<1>7. Kept
  BY <1>1, <1>5, <1>6 DEF Kept
<1> QED
  BY <1>3, <1>4, <1>6, <1>7

(* What a placing leaves of the invariant to its step.                     *)
LEMMA PlacingKeepsCompleted ==
    ASSUME TypeOK, FilesInv, NEW v \in Videos, NEW src \in Finished, NEW dest \in Titled,
           NEW name, PlacedAs(v, src, dest, name), UNCHANGED rows
    PROVE  NamedAreTaken' /\ CompletedIsWholeOrHalfway' /\ CompletedIsThere'
<1>1. \A w \in Videos : /\ Tracked(w)' = Tracked(w) /\ local_path'[w] = local_path[w]
                        /\ Tracked(w) => local_path[w] \in Finished
  BY DEF Tracked, TypeOK, rows
<1>2. /\ NamedAreTaken'
      /\ \A w \in Videos : Saved(w) # {} => Saved(w)' # {}
      /\ \A w \in Videos, n \in Finished :
            disk[w][n] \in Taken \union {"absent"} => disk'[w][n] \in Taken \union {"absent"}
  BY PlacingLosesNothing DEF FilesInv
<1>3. CompletedIsWholeOrHalfway'
  BY <1>1, <1>2 DEF FilesInv, CompletedIsWholeOrHalfway
<1>4. CompletedIsThere'
  BY <1>1, <1>2 DEF FilesInv, CompletedIsThere, rows
<1> QED
  BY <1>2, <1>3, <1>4

(* The steps that place a file keep the invariant, and lose none.          *)
LEMMA PlacingStep ==
    ASSUME TypeOK, FilesInv, (\E v \in Videos : AdoptBare(v)) \/ Place \/ RenameFile
    PROVE  Kept /\ FilesInv'
<1>n. NamedAreTaken /\ "bare" \in Finished /\ \A x \in Titled : x # "bare"
  BY DEF FilesInv, Finished, Titled
<1>1. ASSUME NEW v \in Videos, AdoptBare(v)
      PROVE  Kept /\ FilesInv'
  <2>1. PICK dest \in Titled : \E placed \in Placed(disk[v], "bare", dest) :
           /\ disk' = [disk EXCEPT ![v] = placed.disk]
           /\ IF placed.name = "bare" THEN GoWith("claim", v, "none")
              ELSE GoWith("adopt", v, placed.name)
    BY <1>1 DEF AdoptBare
  <2>2. PICK placed \in Placed(disk[v], "bare", dest) :
           /\ disk' = [disk EXCEPT ![v] = placed.disk]
           /\ IF placed.name = "bare" THEN GoWith("claim", v, "none")
              ELSE GoWith("adopt", v, placed.name)
    BY <2>1
  <2> DEFINE name == placed.name
  <2>3. disk[v]["bare"] \in Taken /\ UNCHANGED rows
    BY <1>1 DEF AdoptBare, Saved
  <2>4. PlacedAs(v, "bare", dest, name)
    BY <1>n, <2>2, <2>3, PlacingKeepsIt
  <2>5. disk'[v][name] \in Taken
    BY <2>4 DEF PlacedAs
  <2>6. \/ pc' = "claim"
        \/ pc' = "adopt" /\ job' = v /\ file' = name
    BY <2>2 DEF GoWith
  <2> HIDE DEF name
  <2>7. InHandIsTaken' /\ DownloadIsOpen'
    BY <2>5, <2>6 DEF InHandIsTaken, DownloadIsOpen, WithFile
  <2> QED
    BY <1>n, <2>3, <2>4, <2>7, PlacingLosesNothing, PlacingKeepsCompleted DEF FilesInv
<1>2. CASE Place
  <2>1. PICK dest \in Titled : \E placed \in Placed(disk[job], file, dest) :
           /\ disk' = [disk EXCEPT ![job] = placed.disk]
           /\ GoWith("convert", job, placed.name)
    BY <1>2 DEF Place
  <2>2. PICK placed \in Placed(disk[job], file, dest) :
           /\ disk' = [disk EXCEPT ![job] = placed.disk]
           /\ GoWith("convert", job, placed.name)
    BY <2>1
  <2> DEFINE name == placed.name
  <2>3. /\ job \in Videos /\ file \in Finished /\ disk[job][file] \in Taken
        /\ status[job] # "COMPLETED" /\ UNCHANGED rows
    BY <1>2 DEF Place, FilesInv, InHandIsTaken, DownloadIsOpen, TypeOK, WithFile, Between
  <2>4. PlacedAs(job, file, dest, name)
    BY <1>n, <2>2, <2>3, PlacingKeepsIt
  <2>5. disk'[job][name] \in Taken
    BY <2>4 DEF PlacedAs
  <2>6. pc' = "convert" /\ job' = job /\ file' = name
    BY <2>2 DEF GoWith
  <2> HIDE DEF name
  <2>7. InHandIsTaken' /\ DownloadIsOpen'
    BY <2>3, <2>5, <2>6 DEF InHandIsTaken, DownloadIsOpen, rows
  <2> QED
    BY <1>n, <2>3, <2>4, <2>7, PlacingLosesNothing, PlacingKeepsCompleted DEF FilesInv
<1>3. CASE RenameFile
  <2>1. PICK dest \in Titled : \E placed \in Placed(disk[job], file, dest) :
           disk' = [disk EXCEPT ![job] = placed.disk]
    BY <1>3 DEF RenameFile
  <2>2. PICK placed \in Placed(disk[job], file, dest) :
           disk' = [disk EXCEPT ![job] = placed.disk]
    BY <2>1
  <2> DEFINE name == placed.name
  <2>3. /\ job \in Videos /\ file \in Finished /\ disk[job][file] \in Taken
        /\ pc' \in {"sweep", "renamed"} /\ UNCHANGED rows
    BY <1>3 DEF RenameFile, FilesInv, InHandIsTaken, TypeOK, WithFile, Between
  <2>4. PlacedAs(job, file, dest, name)
    BY <1>n, <2>2, <2>3, PlacingKeepsIt
  <2> HIDE DEF name
  <2>5. InHandIsTaken' /\ DownloadIsOpen'
    BY <2>3 DEF InHandIsTaken, DownloadIsOpen, WithFile
  <2> QED
    BY <1>n, <2>3, <2>4, <2>5, PlacingLosesNothing, PlacingKeepsCompleted DEF FilesInv
<1> QED
  BY <1>1, <1>2, <1>3

(* Only retention takes a last file away.                                  *)
LEMMA KeepsVideos ==
    ASSUME TypeOK, FilesInv, [Next]_vars
    PROVE  Kept
<1> USE FilesAssumption DEF Kept, Saved, HasVideo, HasHalfway, FilesInv, NamedAreTaken,
      InHandIsTaken, TypeOK, vars, rows, coroutine, Steps, Between, WithFile, Names,
      Finished, Named, Titled, Contents, Taken, Whole
<1>1. ASSUME NEW v \in Videos, AdoptNamed(v)
      PROVE  Kept
  BY <1>1 DEF AdoptNamed, GoWith
<1>2. ASSUME NEW v \in Videos, AdoptBare(v)
      PROVE  Kept
  BY <1>2, PlacingStep
<1>3. ASSUME NEW v \in Videos, FindNothing(v)
      PROVE  Kept
  BY <1>3 DEF FindNothing, GoTo, GoWith
<1>4. ASSUME NEW v \in Videos, ChangeRow(v)
      PROVE  Kept
  BY <1>4 DEF ChangeRow
<1>5. ASSUME NEW v \in Videos, DeleteRow(v)
      PROVE  Kept
  BY <1>5 DEF DeleteRow
<1>6. ASSUME NEW v \in Videos, AddRow(v)
      PROVE  Kept
  BY <1>6 DEF AddRow
<1>7. ASSUME NEW v \in Videos, Age(v)
      PROVE  Kept
  BY <1>7 DEF Age
<1>8. CASE Recover
  BY <1>8 DEF Recover, GoTo
<1>9. CASE PickNothing
  BY <1>9 DEF PickNothing, GoTo
<1>10. CASE AdoptCommit
  BY <1>10 DEF AdoptCommit, GoTo, Complete
<1>11. CASE Claim
  <2>1. CASE status[job] \in Runnable
    <3>1. PICK d \in Tidied(disk[job]) : disk' = [disk EXCEPT ![job] = d]
      BY <1>11, <2>1 DEF Claim
    <3>2. /\ \A n \in Named : disk'[job][n] = disk[job][n]
          /\ disk[job]["bare"] \in Taken \union {"absent"} =>
                 disk'[job]["bare"] = disk[job]["bare"]
          /\ \A w \in Videos : w # job => disk'[w] = disk[w]
      BY <1>11, <3>1 DEF Tidied, Claim
    <3> QED
      BY <1>11, <2>1, <3>2 DEF Claim
  <2>2. CASE status[job] \notin Runnable
    BY <1>11, <2>2 DEF Claim, GoTo
  <2> QED
    BY <2>1, <2>2
<1>12. CASE AttemptFails
  BY <1>12 DEF AttemptFails, TryNext
<1>13. CASE AttemptSucceeds
  BY <1>13 DEF AttemptSucceeds
<1>14. CASE AttemptFindsFile
  BY <1>14 DEF AttemptFindsFile
<1>15. CASE Place
  BY <1>15, PlacingStep
<1>16. CASE NeedNotConvert
  BY <1>16 DEF NeedNotConvert, GoTo
<1>17. CASE Convert
  BY <1>17 DEF Convert, GoTo
<1>18. CASE Converted
  BY <1>18 DEF Converted, GoTo
<1>19. CASE ConvertFails
  BY <1>19 DEF ConvertFails, TryNext
<1>20. CASE Finish
  BY <1>20 DEF Finish, GoTo, Complete
<1>21. CASE RenameNothing
  BY <1>21 DEF RenameNothing
<1>22. CASE RenamePick
  BY <1>22 DEF RenamePick, Renameable
<1>23. CASE RenameFile
  BY <1>23, PlacingStep
<1>24. CASE RenameCommit
  BY <1>24 DEF RenameCommit
<1>25. CASE SweepRead
  BY <1>25 DEF SweepRead
<1>26. CASE SweepParts
  BY <1>26 DEF SweepParts
<1>27. CASE RetentionReleases
  BY <1>27 DEF RetentionReleases
<1>28. CASE RetentionCommit
  BY <1>28 DEF RetentionCommit
<1>29. CASE Crash
  BY <1>29 DEF Crash
<1>30. CASE UNCHANGED vars
  BY <1>30
<1> QED
  BY <1>1, <1>2, <1>3, <1>4, <1>5, <1>6, <1>7, <1>8, <1>9, <1>10, <1>11, <1>12, <1>13,
     <1>14, <1>15, <1>16, <1>17, <1>18, <1>19, <1>20, <1>21, <1>22, <1>23, <1>24, <1>25,
     <1>26, <1>27, <1>28, <1>29, <1>30
  DEF Next, SchedulerStep

(* Every step keeps the invariant.                                         *)
LEMMA FilesStep ==
    ASSUME TypeOK, FilesInv, [Next]_vars
    PROVE  FilesInv'
<1> USE FilesAssumption DEF FilesInv, NamedAreTaken, InHandIsTaken, DownloadIsOpen, Kept,
      CompletedIsWholeOrHalfway, CompletedIsThere, Tracked, TypeOK, vars, rows, coroutine,
      Steps, Between, WithFile, Runnable, Protected, Statuses, Names, Finished,
      Named, Titled, Contents, Taken, Whole
<1>1. ASSUME NEW v \in Videos, AdoptNamed(v)
      PROVE  FilesInv'
  <2>1. PICK best \in Best(Saved(v)) : GoWith("adopt", v, best)
    BY <1>1 DEF AdoptNamed
  <2>2. best \in Named /\ disk[v][best] \in Taken
    BY BestIsNamed DEF Saved
  <2> QED
    BY <1>1, <2>1, <2>2, TypesStep, KeepsVideos DEF AdoptNamed, GoWith
<1>2. ASSUME NEW v \in Videos, AdoptBare(v)
      PROVE  FilesInv'
  BY <1>2, PlacingStep
<1>3. ASSUME NEW v \in Videos, FindNothing(v)
      PROVE  FilesInv'
  BY <1>3, TypesStep, KeepsVideos DEF FindNothing, GoTo, GoWith
<1>4. ASSUME NEW v \in Videos, ChangeRow(v)
      PROVE  FilesInv'
  BY <1>4, TypesStep, KeepsVideos DEF ChangeRow
<1>5. ASSUME NEW v \in Videos, DeleteRow(v)
      PROVE  FilesInv'
  BY <1>5, TypesStep, KeepsVideos DEF DeleteRow
<1>6. ASSUME NEW v \in Videos, AddRow(v)
      PROVE  FilesInv'
  BY <1>6, TypesStep, KeepsVideos DEF AddRow
<1>7. ASSUME NEW v \in Videos, Age(v)
      PROVE  FilesInv'
  BY <1>7, TypesStep, KeepsVideos DEF Age
<1>8. CASE Recover
  BY <1>8, TypesStep, KeepsVideos DEF Recover, GoTo
<1>9. CASE PickNothing
  BY <1>9, TypesStep, KeepsVideos DEF PickNothing, GoTo
<1>10. CASE AdoptCommit
  <2>1. CASE status[job] \in Runnable
    <3>1. job \in Videos /\ disk[job][file] \in Taken /\ file \in Saved(job)
      BY <1>10, <2>1 DEF AdoptCommit, Saved
    <3>2. Saved(job)' # {}
      BY <1>10, <3>1 DEF AdoptCommit, GoTo, Saved
    <3>3. CompletedIsThere'
      BY <1>10, <2>1, <3>2, KeepsVideos DEF AdoptCommit, Complete, GoTo
    <3>4. CompletedIsWholeOrHalfway'
      BY <1>10, <2>1, <3>1 DEF AdoptCommit, Complete, GoTo
    <3> QED
      BY <1>10, <2>1, <3>3, <3>4 DEF AdoptCommit, Complete, GoTo
  <2>2. CASE ~(status[job] \in Runnable)
    BY <1>10, <2>2, TypesStep, KeepsVideos DEF AdoptCommit, GoTo
  <2> QED
    BY <2>1, <2>2
<1>11. CASE Claim
  <2>1. CASE status[job] \in Runnable
    <3>1. PICK d \in Tidied(disk[job]) : disk' = [disk EXCEPT ![job] = d]
      BY <1>11, <2>1 DEF Claim
    <3>2. /\ \A n \in Named : disk'[job][n] = disk[job][n]
          /\ disk[job]["bare"] \in Taken \union {"absent"} =>
                 disk'[job]["bare"] = disk[job]["bare"]
          /\ \A w \in Videos : w # job => disk'[w] = disk[w]
      BY <1>11, <3>1 DEF Tidied, Claim
    <3>3. /\ job \in Videos /\ status' = [status EXCEPT ![job] = "DOWNLOADING"]
          /\ UNCHANGED <<local_path, past, job, file>> /\ pc' = "attempt"
      BY <1>11, <2>1 DEF Claim
    <3>4. CompletedIsThere'
      BY <3>3, <1>11, KeepsVideos
    <3>5. NamedAreTaken' /\ CompletedIsWholeOrHalfway'
      BY <3>2, <3>3
    <3> QED
      BY <3>3, <3>4, <3>5
  <2>2. CASE status[job] \notin Runnable
    BY <1>11, <2>2, TypesStep, KeepsVideos DEF Claim, GoTo
  <2> QED
    BY <2>1, <2>2
<1>12. CASE AttemptFails
  <2>1. /\ job \in Videos /\ status[job] # "COMPLETED" /\ UNCHANGED rows
        /\ pc' \in {"attempt", "failed"} /\ UNCHANGED <<job, file>>
    BY <1>12 DEF AttemptFails, TryNext
  <2>2. /\ disk'[job]["temp"] \in {"absent", "halfway"}
        /\ \A n \in Titled : disk'[job][n] = disk[job][n]
        /\ \A w \in Videos : w # job => disk'[w] = disk[w]
    BY <1>12, <2>1 DEF AttemptFails
  <2>3. NamedAreTaken'
    BY <2>1, <2>2
  <2>4. CompletedIsThere'
    BY <2>1, <2>2 DEF Saved
  <2> QED
    BY <2>1, <2>2, <2>3, <2>4
<1>13. CASE AttemptSucceeds
  <2>1. PICK content \in Whole, temp \in {"absent", disk[job]["temp"]} :
           disk' = [disk EXCEPT ![job]["part"] = "absent", ![job]["temp"] = temp,
                                ![job]["bare"] = content]
    BY <1>13 DEF AttemptSucceeds
  <2>2. /\ job \in Videos /\ pc' = "place" /\ job' = job /\ file' = "bare"
        /\ status[job] # "COMPLETED" /\ UNCHANGED rows
    BY <1>13 DEF AttemptSucceeds
  <2>3. /\ disk'[job]["bare"] = content
        /\ disk'[job]["temp"] \in {"absent", disk[job]["temp"]}
        /\ \A n \in Titled : disk'[job][n] = disk[job][n]
        /\ \A w \in Videos : w # job => disk'[w] = disk[w]
    BY <2>1, <2>2
  <2>4. NamedAreTaken' /\ InHandIsTaken'
    BY <2>2, <2>3
  <2>5. CompletedIsThere'
    BY <2>2, <2>3 DEF Saved
  <2> QED
    BY <2>2, <2>3, <2>4, <2>5
<1>14. CASE AttemptFindsFile
  <2>1. /\ job \in Videos /\ file' \in Saved(job) /\ pc' = "place"
        /\ UNCHANGED <<rows, disk, job>>
    BY <1>14 DEF AttemptFindsFile
  <2>2. disk[job][file'] \in Taken
    BY <2>1 DEF Saved
  <2>3. CompletedIsThere'
    BY <2>1 DEF Saved
  <2> QED
    BY <1>14, <2>1, <2>2, <2>3 DEF AttemptFindsFile
<1>15. CASE Place
  BY <1>15, PlacingStep
<1>16. CASE NeedNotConvert
  BY <1>16, TypesStep, KeepsVideos DEF NeedNotConvert, GoTo
<1>17. CASE Convert
  BY <1>17, TypesStep, KeepsVideos DEF Convert, GoTo
<1>18. CASE Converted
  BY <1>18, TypesStep, KeepsVideos DEF Converted, GoTo
<1>19. CASE ConvertFails
  <2>1. /\ job \in Videos /\ status[job] # "COMPLETED" /\ UNCHANGED rows
        /\ pc' \in {"attempt", "failed"} /\ UNCHANGED <<job, file>>
    BY <1>19 DEF ConvertFails, TryNext
  <2>2. \A w \in Videos, n \in Finished : disk'[w][n] = disk[w][n]
    BY <1>19 DEF ConvertFails
  <2>3. CompletedIsThere'
    BY <2>1, <2>2 DEF Saved
  <2> QED
    BY <2>1, <2>2, <2>3
<1>20. CASE Finish
  <2>1. CASE status[job] # "GONE" /\ pc = "done"
    <3>1. job \in Videos /\ disk[job][file] \in Taken /\ file \in Saved(job)
      BY <1>20, <2>1 DEF Finish, Saved
    <3>2. Saved(job)' # {}
      BY <1>20, <3>1 DEF Finish, GoTo, Saved
    <3> QED
      BY <1>20, <2>1, <3>1, <3>2, TypesStep, KeepsVideos DEF Finish, Complete, GoTo
  <2>2. CASE ~(status[job] # "GONE" /\ pc = "done")
    BY <1>20, <2>2, TypesStep, KeepsVideos DEF Finish, GoTo
  <2> QED
    BY <2>1, <2>2
<1>21. CASE RenameNothing
  BY <1>21, TypesStep, KeepsVideos DEF RenameNothing
<1>22. CASE RenamePick
  BY <1>22, TypesStep, KeepsVideos DEF RenamePick, Renameable
<1>23. CASE RenameFile
  BY <1>23, PlacingStep
<1>24. CASE RenameCommit
  BY <1>24, TypesStep, KeepsVideos DEF RenameCommit
<1>25. CASE SweepRead
  BY <1>25, TypesStep, KeepsVideos DEF SweepRead
<1>26. CASE SweepParts
  BY <1>26, TypesStep, KeepsVideos DEF SweepParts
<1>27. CASE RetentionReleases
  BY <1>27, TypesStep, KeepsVideos DEF RetentionReleases
<1>28. CASE RetentionCommit
  BY <1>28, TypesStep, KeepsVideos DEF RetentionCommit
<1>29. CASE Crash
  BY <1>29, TypesStep, KeepsVideos DEF Crash
<1>30. CASE UNCHANGED vars
  BY <1>30 DEF Saved
<1> QED
  BY <1>1, <1>2, <1>3, <1>4, <1>5, <1>6, <1>7, <1>8, <1>9, <1>10, <1>11, <1>12, <1>13,
     <1>14, <1>15, <1>16, <1>17, <1>18, <1>19, <1>20, <1>21, <1>22, <1>23, <1>24, <1>25,
     <1>26, <1>27, <1>28, <1>29, <1>30
  DEF Next, SchedulerStep

-----------------------------------------------------------------------------
(* The theorems.                                                           *)

(* FilesInv holds of every behaviour.                                      *)
THEOREM FilesInvariant == Spec => []FilesInv
<1>1. Init => FilesInv
  <2> SUFFICES ASSUME Init PROVE FilesInv
    OBVIOUS
  <2>1. \A v \in Videos, n \in Names :
           disk[v][n] = IF v \in Library /\ n = "undated" THEN "tv" ELSE "absent"
    BY DEF Init, NoFiles, Names, Finished, Named
  <2>2. \A v \in Videos : Tracked(v) => v \in Library /\ local_path[v] = "undated"
    BY FilesAssumption DEF Init, Tracked
  <2> QED
    BY <2>1, <2>2 DEF Init, FilesInv, NamedAreTaken, InHandIsTaken, DownloadIsOpen,
       CompletedIsWholeOrHalfway, CompletedIsThere, Saved, WithFile, Names, Finished, Named, Titled, Taken, Whole
<1>2. TypeOK /\ FilesInv /\ [Next]_vars => FilesInv'
  BY FilesStep
<1> QED
  BY <1>1, <1>2, FilesTypeCorrect, PTL DEF Spec

(* The file of a completed row is never empty, a part, or what a stopped   *)
(* conversion left, wherever a download or the process stopped: a file     *)
(* that yt-dlp's own ffmpeg left halfway is the one exception.             *)
THEOREM CompletedFilesAreFinished == Spec => []CompletedIsWholeOrHalfway
<1>1. FilesInv => CompletedIsWholeOrHalfway
  BY DEF FilesInv
<1> QED
  BY <1>1, FilesInvariant, PTL

(* A completed row without its file is past its retention, or its video    *)
(* has another name.                                                       *)
THEOREM MissingFilesAreExplained == Spec => []MissingIsExplained
<1>1. FilesInv => MissingIsExplained
  BY DEF FilesInv, CompletedIsThere, MissingIsExplained
<1> QED
  BY <1>1, FilesInvariant, PTL

(* Only retention takes the last whole file of a video away, or a file     *)
(* beside it that was left halfway and is taken for the better one.        *)
THEOREM VideosAreKept == Spec => VideoIsKept
<1>1. TypeOK /\ FilesInv /\ [Next]_vars =>
         [\A v \in Videos : HasVideo(v) =>
             HasVideo(v)' \/ HasHalfway(v) \/ (pc = "retention" /\ v \in past)]_vars
  BY KeepsVideos DEF Kept
<1> QED
  BY <1>1, FilesTypeCorrect, FilesInvariant, PTL DEF Spec, VideoIsKept
=============================================================================
