------------------------ MODULE DownloadServiceProofs ------------------------
(***************************************************************************)
(* DownloadQueue implements DownloadService, for every value of its        *)
(* constants, as long as no exception ends an iteration of the scheduler.  *)
(***************************************************************************)
EXTENDS DownloadQueueSafetyProofs

-----------------------------------------------------------------------------
(* Phases of rows.                                                         *)

LEMMA PhaseValues ==
    /\ \A s : PhaseOf(s) \in Service!Phases
    /\ \A s : /\ PhaseOf(s) = "active" <=> s = "DOWNLOADING"
              /\ PhaseOf(s) = "gone" <=> s = "DELETED"
              /\ PhaseOf(s) = "none" <=> s = "ABSENT"
              /\ PhaseOf(s) = "waiting" <=> s \in RunnableStatuses
BY DEF PhaseOf, Service!Phases, RunnableStatuses

(* A row's phase is active exactly when it is DOWNLOADING.                 *)
LEMMA NoneDownloading ==
    Rows({"DOWNLOADING"}) = {} <=> Service!NoneActive(Phase)
BY PhaseValues DEF Phase, Rows, Service!NoneActive

LEMMA NoneDownloadingNext ==
    ASSUME Rows({"DOWNLOADING"})' = {}
    PROVE  Service!NoneActive(Phase')
BY PhaseValues DEF Phase, Rows, Service!NoneActive

LEMMA ServiceInit == Init => Service!Init
<1> SUFFICES ASSUME Init PROVE Service!Init
  OBVIOUS
<1>1. \A v \in Videos : Phase[v] \in Service!Phases \ {"active", "gone"}
  BY PhaseValues DEF Init, Phase
<1>2. Phase \in [Videos -> Service!Phases \ {"active", "gone"}]
  BY <1>1 DEF Phase
<1>3. Current = NoVideo
  BY DEF Init, Current, Holding
<1>4. Running = FALSE
  BY DEF Init, Running
<1> QED
  BY <1>2, <1>3, <1>4 DEF Service!Init

-----------------------------------------------------------------------------
(* Steps of the service.                                                   *)

(* A step that starts nothing makes lasting changes only.                  *)
LEMMA NothingStartsLasts ==
    ASSUME NothingStarts
    PROVE  Service!Lasting /\ \A v \in Videos : Phase'[v] = "active" => Phase[v] = "active"
<1>1. Phase' \in [Videos -> Service!Phases]
  BY PhaseValues DEF Phase
<1> QED
  BY <1>1, PhaseValues DEF Service!Lasting, NothingStarts, Phase

(* If it keeps the job and the service running, it is a step of Manage.    *)
LEMMA Manages ==
    ASSUME NothingStarts, UNCHANGED <<Current, Running>>
    PROVE  Service!Manage
BY NothingStartsLasts DEF Service!Manage

(* A claim is a Begin.                                                     *)
LEMMA ClaimBegins ==
    ASSUME TypeOK, SerialInv, Claim
    PROVE  (\E v \in Videos : Service!Begin(v)) \/ Service!Manage
<1>1. Rows({"DOWNLOADING"}) = {} /\ pc = "claim" /\ job \in Videos
  BY NothingHeld DEF Claim, Holding, TypeOK, LoopTypes, WithJob
<1>2. CASE /\ status[job] \in RunnableStatuses /\ pc' = "claimed" /\ UNCHANGED job
           /\ status' = [status EXCEPT ![job] = "DOWNLOADING"]
  <2>1. Current = NoVideo /\ Current' = job /\ Running /\ Running' = Running
    BY <1>1, <1>2 DEF Current, Running, Holding
  <2>2. Phase[job] = "waiting" /\ Service!NoneActive(Phase)
    BY <1>1, <1>2, NoneDownloading, PhaseValues DEF Phase
  <2>3. Phase' = [Phase EXCEPT ![job] = "active"]
    <3>1. \A w \in Videos :
             PhaseOf(status'[w]) = IF w = job THEN "active" ELSE PhaseOf(status[w])
      BY <1>1, <1>2, PhaseValues DEF TypeOK, StoredTypes
    <3> QED
      BY <1>1, <3>1 DEF Phase
  <2> QED
    BY <1>1, <2>1, <2>2, <2>3 DEF Service!Begin
<1>3. CASE pc' = "tidy" /\ UNCHANGED status
  <2>1. UNCHANGED <<Current, Running>>
    BY <1>1, <1>3 DEF Current, Running, Holding
  <2> QED
    BY <1>3, <2>1, SameStatus, Manages
<1> QED
  BY <1>2, <1>3 DEF Claim, GiveUpJob

(* A step that gives the held row up and leaves no row DOWNLOADING, and    *)
(* that changes no other row, is an End.                                   *)
LEMMA GivingUpEnds ==
    ASSUME TypeOK, NothingStarts, pc \in Holding, pc' \in {"gap", "tidy", "sleep"},
           Rows({"DOWNLOADING"})' = {},
           \A w \in Videos : w # job => status'[w] = status[w]
    PROVE  \E v \in Videos : Service!End(v)
<1>1. job \in Videos /\ Current = job /\ Current' = NoVideo
  BY DEF TypeOK, LoopTypes, Holding, WithJob, Current
<1>2. Running /\ Running' = Running
  BY DEF Running, Holding
<1>3. \A w \in Videos : w # job => Phase'[w] = Phase[w]
  BY DEF Phase
<1> QED
  BY <1>1, <1>2, <1>3, NothingStartsLasts, NoneDownloadingNext DEF Service!End

(* The recovery runs until nothing is DOWNLOADING, then the service runs.  *)
LEMMA RecoveryResumes ==
    ASSUME TypeOK, SerialInv, RecoverRead \/ RecoverCommit
    PROVE  [Service!Next]_<<Phase, Current, Running>>
<1>1. SerialInv' /\ NothingStarts
  <2>1. CASE Claim
    BY <2>1 DEF Claim, RecoverRead, RecoverCommit
  <2> QED
    BY <2>1, SerialInvRecover, OnlyClaimStarts DEF Next, LoopStep
<1>2. ~Running /\ UNCHANGED Current /\ pc' \in {"sleep", "recover", "boot"}
  BY DEF RecoverRead, RecoverCommit, Running, Current, Holding
<1>3. CASE pc' = "sleep"
  <2>1. Rows({"DOWNLOADING"})' = {}
    BY <1>1, <1>3 DEF SerialInv, DownloadingIsHeld, Holding
  <2> QED
    BY <1>1, <1>2, <1>3, <2>1, NothingStartsLasts, NoneDownloadingNext
    DEF Running, Service!Resume, Service!Next
<1>4. CASE pc' # "sleep"
  <2>1. UNCHANGED status
    BY <1>4 DEF RecoverRead, RecoverCommit, rows
  <2> QED
    BY <1>2, <1>4, <2>1 DEF Phase, Running
<1> QED
  BY <1>3, <1>4

(* The ways out of a download.                                             *)
LEMMA LoopStepServes ==
    ASSUME TypeOK, SerialInv, LoopStep
    PROVE  [Service!Next]_<<Phase, Current, Running>>
<1>1. CASE Claim
  BY <1>1, ClaimBegins DEF Service!Next
<1>2. CASE ConfirmClaim \/ TransferOrphaned
  <2>1. UNCHANGED status /\ pc \in Holding
    BY <1>2 DEF ConfirmClaim, TransferOrphaned, rows, Holding
  <2>2. CASE pc' = "transfer" /\ UNCHANGED job
    <3>1. UNCHANGED <<Current, Running>>
      BY <2>1, <2>2 DEF Current, Running, Holding
    <3> QED
      BY <2>1, <3>1, SameStatus, Manages DEF Service!Next
  <2>3. CASE pc' = "tidy" /\ status[job] # "DOWNLOADING"
    <3>1. Rows({"DOWNLOADING"})' = {}
      BY <2>1, <2>3 DEF SerialInv, DownloadingIsHeld, Holding, Rows
    <3> QED
      BY <2>1, <2>3, <3>1, SameStatus, GivingUpEnds DEF Service!Next
  <2> QED
    BY <1>2, <2>2, <2>3 DEF ConfirmClaim, TransferOrphaned, GiveUpJob, Exists
<1>3. CASE CompleteCommit \/ FailCommit
  <2>1. PICK from \in {"complete", "fail"}, to \in {"gap", "tidy"} : LoopCommit(from, to)
    BY <1>3 DEF CompleteCommit, FailCommit
  <2>2. NothingStarts /\ Rows({"DOWNLOADING"})' = {}
    BY <2>1, CommitLeavesNone
  <2>3. pc \in Holding /\ pc' \in {"gap", "tidy", "sleep"}
    BY <2>1 DEF LoopCommit, Holding
  <2>4. \A w \in Videos : w # job => status'[w] = status[w]
    BY <2>1
    DEF LoopCommit, SerialInv, OutcomeCoversJob, Flush, Overwritten, rows
  <2> QED
    BY <2>2, <2>3, <2>4, GivingUpEnds DEF Service!Next
<1>4. CASE TransferSucceeds \/ TransferFailsTemporarily \/ TransferIsRefused
  <2>1. UNCHANGED <<status, job>> /\ pc \in Holding /\ pc' \in Holding
    BY <1>4
    DEF TransferSucceeds, TransferFailsTemporarily, TransferIsRefused, TransferFails,
        rows, Holding
  <2> QED
    BY <2>1, SameStatus, Manages DEF Current, Running, Holding, Service!Next
<1>5. CASE \/ ReleaseRead \/ ReleaseCommit \/ PickNothing \/ StorageFails \/ PickJob
           \/ Recheck \/ FindNoFile \/ AdoptRead \/ AdoptCommit \/ StartGap
           \/ RetentionRead \/ RetentionCommit
  <2>1. /\ pc \notin Holding /\ pc \notin {"down", "boot", "recover", "claim"}
        /\ pc' \notin Holding /\ pc' \notin {"down", "boot", "recover"}
    BY <1>5
    DEF ReleaseRead, ReleaseCommit, PickNothing, StorageFails, PickJob, Recheck,
        FindNoFile, AdoptRead, AdoptCommit, StartGap, RetentionRead, RetentionCommit,
        LoopCommit, GiveUpJob, Holding
  <2>2. NothingStarts
    BY <1>1, <1>5, <2>1, OnlyClaimStarts DEF Next, Claim
  <2> QED
    BY <2>1, <2>2, Manages DEF Current, Running, Service!Next
<1>6. CASE RecoverRead \/ RecoverCommit
  BY <1>6, RecoveryResumes
<1> QED
  BY <1>1, <1>2, <1>3, <1>4, <1>5, <1>6 DEF LoopStep

LEMMA StepServes ==
    ASSUME MaxLoopErrors = 0, TypeOK, SerialInv, [Next]_vars
    PROVE  [Service!Next]_<<Phase, Current, Running>>
<1>1. CASE LoopStep
  BY <1>1, LoopStepServes
<1>2. CASE LoopError
  BY <1>2 DEF LoopError, TypeOK
<1>3. CASE Crash \/ Restart
  <2>1. UNCHANGED status /\ pc' \in {"down", "boot"} /\ (pc' = "boot" => pc = "down")
    BY <1>3 DEF Crash, Restart, rows
  <2>2. UNCHANGED Phase /\ Current' = NoVideo /\ ~Running' /\ (~Running => Current = NoVideo)
    BY <2>1 DEF Phase, Current, Running, Holding
  <2> QED
    BY <2>2 DEF Service!Next, Service!Interrupt, Running
<1>4. CASE Next /\ UNCHANGED loop
  <2>1. UNCHANGED <<Current, Running>>
    BY <1>4 DEF Current, Running, loop
  <2>2. CASE NothingStarts
    BY <2>1, <2>2, Manages DEF Service!Next
  <2> QED
    BY <1>4, <2>2, OnlyClaimStarts, ClaimBegins DEF Service!Next
<1>5. CASE UNCHANGED vars
  BY <1>5 DEF vars, rows, loop, Phase, Current, Running
<1> QED
  BY <1>1, <1>2, <1>3, <1>4, <1>5, OthersLeaveLoop

LEMMA NoLoopErrors ==
    ASSUME MaxLoopErrors = 0, TypeOK, loop_errors = 0, [Next]_vars
    PROVE  loop_errors' = 0
BY OnlyErrorsCount DEF LoopError

(* The download queue implements the serial service: a download begins     *)
(* only on a waiting video while no row is marked and none is under way,   *)
(* and the ways out of it, a crash apart, leave no row marked.             *)
THEOREM QueueIsSerialService ==
    ASSUME MaxLoopErrors = 0
    PROVE  Spec => ServiceSpec
<1>1. TypeOK /\ loop_errors = 0 /\ [Next]_vars => (loop_errors = 0)'
  BY NoLoopErrors
<1>2. Init => loop_errors = 0
  BY DEF Init
<1>3. TypeOK /\ SerialInv /\ [Next]_vars => [Service!Next]_<<Phase, Current, Running>>
  BY StepServes
<1> QED
  BY <1>1, <1>2, <1>3, ServiceInit, TypeCorrect, DownloadsAreSerial, PTL
  DEF Spec, ServiceSpec, Service!Spec
=============================================================================
