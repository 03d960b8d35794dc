-------------------------- MODULE LifecycleProofs --------------------------
(***************************************************************************)
(* The safety properties of Lifecycle, for every failure budget and any    *)
(* number of faults and requests.  None of them is inductive: each rests   *)
(* on what the other processes of the orchestrator keep to.  The inductive *)
(* invariant IInv is made of five groups, each with a lemma of its own     *)
(* that says a step preserves it:                                          *)
(*   - Calls:    the GenServer and whoever is parked in await_boot;        *)
(*   - Durable:  the copies of the disk and the dormant entries;           *)
(*   - Retries:  the record, and the copies of it that a pass and the      *)
(*               operator hold across their steps;                         *)
(*   - Permits:  who may boot a VM whose restart policy is :never;         *)
(*   - FlagType, BudgetType: the rest of the types.                        *)
(***************************************************************************)
EXTENDS Lifecycle, TLAPS

-----------------------------------------------------------------------------
(* The inductive invariant.                                                *)

\* TypeOK, split into the parts the groups below need.
VmType ==
    /\ vm \in [st : {"none", "booting", "starting", "waiting", "late",
                     "unlocking", "ready", "running", "register",
                     "forget_intent", "trash", "cleanup", "delete"},
               kind : {"none", "fresh", "wake", "resume", "attach"},
               waiter : Waiters \cup {"none"},
               snap : Freshness \cup {"none"}]
    /\ reply \in [Waiters -> {"none", "ok", "exit"}]
    /\ wake \in {"idle", "spawn", "boot"}

DiskType ==
    /\ disk \in Freshness \cup {"none"}
    /\ snaps \in SUBSET Freshness
    /\ trash \in SUBSET [n : Nat, data : Freshness, meta : BOOLEAN]
    /\ stamp \in Nat

DormType ==
    /\ dorm \in [st : {"none", "dormant", "restoring"},
                 data : Freshness \cup {"none"}]
    /\ dormDisk \in [st : {"none", "dormant", "restoring"},
                     data : Freshness \cup {"none"}]

RecType ==
    /\ rec \in Recs
    /\ pass \in [step : {"idle", "stop", "plan", "attach", "resume", "boot",
                         "fail", "finalize"}, rec : Recs]
    /\ oper \in [step : {"idle", "retire", "revive", "forget",
                         "forget_record", "reboot", "reboot_wait", "boot",
                         "repersist"}, rec : Recs]

FlagType ==
    /\ beam \in BOOLEAN
    /\ policy \in {"always", "never"}
    /\ scope \in {"active", "down"}
    /\ promised \in BOOLEAN
    /\ auth \in {"never", "granted", "spent"}

BudgetType ==
    /\ faults \in 0..MaxFaults
    /\ ops \in 0..MaxOps

\* A GenServer that is gone has left nothing behind: start_child and adopt/1
\* begin where nobody is its waiter.
VmInv == vm.st = "none" => vm = NoVm

\* Between do_snapshot/3 and DormantRegistry.register/4 the snapshot stays.
SnapInv == vm.st = "register" => vm.snap \in snaps

\* The plan-time record a pass acts on had a failure left to spend.
PassInv ==
    pass.step \notin {"idle", "stop", "plan"}
        => pass.rec.intent = "running" /\ pass.rec.fails < MaxFails

\* A revive token, in the record or in a copy of it that is still to be written
\* back, and a planned resume, come from an operator's revive.
TokenInv ==
    /\ policy = "never"
    /\ rec.token \/ pass.rec.token \/ oper.rec.token \/ pass.step = "resume"
    => auth # "never"

\* A wake in progress has a dormant entry to restore, and an orchestrator to
\* run in.
WakeInv == wake # "idle" => beam /\ dorm.st # "none"

Calls == VmType /\ VmInv /\ CallersAnswered
Durable ==
    /\ DiskType /\ DormType
    /\ SnapInv /\ WakeInv
    /\ DataKept /\ DormantHasSnapshot
Retries == RecType /\ PassInv /\ RunningHasBudget
Permits == TokenInv /\ NeverNeedsOperator

\* The inductive invariant.
IInv == Calls /\ Durable /\ Retries /\ Permits /\ FlagType /\ BudgetType

-----------------------------------------------------------------------------
(* What the operators on disks, plans and records keep to.                 *)

\* trash_subvolume/2 keeps the newest data and leaves the snapshots alone.
LEMMA MoveToTrashKeeps ==
    ASSUME DiskType, NEW meta \in BOOLEAN, MoveToTrash(meta)
    PROVE  DiskType' /\ snaps' = snaps /\ (DataKept => DataKept')
<1> DEFINE e == [n |-> stamp, data |-> disk, meta |-> meta]
<1>1. e \in [n : Nat, data : Freshness, meta : BOOLEAN]
  BY DEF DiskType, MoveToTrash
<1>2. DiskType' /\ snaps' = snaps
  BY <1>1 DEF DiskType, MoveToTrash
<1>3. ASSUME DataKept PROVE DataKept'
  <2>1. CASE disk = "new"
    <3>1. e \in trash' /\ e.data = "new"
      BY <2>1 DEF MoveToTrash
    <3>2. QED  BY <3>1 DEF DataKept
  <2>2. CASE "new" \in snaps
    BY <2>2, <1>2 DEF DataKept
  <2>3. CASE \E f \in trash : f.data = "new"
    <3>1. trash \subseteq trash'
      BY DEF MoveToTrash
    <3>2. QED  BY <3>1, <2>3 DEF DataKept
  <2>4. QED  BY <1>3, <2>1, <2>2, <2>3 DEF DataKept
<1>4. QED  BY <1>2, <1>3

\* The same when there is nothing to move, or mv fails.
LEMMA DiscardKeeps ==
    ASSUME DiskType, NEW meta \in BOOLEAN, Discard(meta)
    PROVE  DiskType' /\ snaps' = snaps /\ (DataKept => DataKept')
<1>1. CASE MoveToTrash(meta)
  BY <1>1, MoveToTrashKeeps
<1>2. CASE NotMoved
  BY <1>2 DEF NotMoved, disks, DiskType, DataKept
<1>3. QED  BY <1>1, <1>2 DEF Discard

\* decide/3 never plans anything but these four.
LEMMA DecideRange ==
    ASSUME FlagType
    PROVE  Decide \in {"attach", "finalize", "resume", "fail"}
  BY DEF FlagType, Decide

\* retire/1 writes a record, whatever it read.
LEMMA FailedIsRec ==
    ASSUME NEW r \in Recs
    PROVE  [r EXCEPT !.intent = "failed"] \in Recs
<1>1. r \in [intent : {"none", "running", "stopped", "failed"},
             fails : 0..MaxFails, token : BOOLEAN]
  <2>1. 0 \in 0..MaxFails
    BY LifecycleAssumption
  <2>2. CASE r = NoRec
    BY <2>1, <2>2 DEF NoRec
  <2>3. CASE r # NoRec
    BY <2>3 DEF Recs
  <2>4. QED  BY <2>2, <2>3
<1>2. QED  BY <1>1 DEF Recs

\* note_failure/2 on a record with a failure left to spend: the counter stays
\* within the budget, and the failure that uses it up retires the VM.
LEMMA NoteFailureIsRec ==
    ASSUME NEW r \in Recs, r.intent = "running", r.fails < MaxFails,
           NEW expired \in BOOLEAN
    PROVE  /\ NoteFailure(r, expired) \in Recs
           /\ NoteFailure(r, expired).intent = "running"
                  => NoteFailure(r, expired).fails < MaxFails
           /\ NoteFailure(r, expired).token = r.token
<1>1. /\ r \in [intent : {"running", "stopped", "failed"},
                fails : 0..MaxFails, token : BOOLEAN]
      /\ r.fails + 1 \in 0..MaxFails
  BY LifecycleAssumption DEF Recs, NoRec
<1> DEFINE i == IF r.fails + 1 >= MaxFails \/ expired
                THEN "failed" ELSE r.intent
<1>2. NoteFailure(r, expired)
          = [r EXCEPT !.fails = r.fails + 1, !.intent = i]
  BY <1>1 DEF NoteFailure
<1>3. i \in {"running", "failed"} /\ (i = "running" => r.fails + 1 < MaxFails)
  BY <1>1, LifecycleAssumption
<1>4. QED
  <2> HIDE DEF i
  <2> QED  BY <1>1, <1>2, <1>3, Zenon DEF Recs

-----------------------------------------------------------------------------
(* The GenServer and its callers.                                          *)

\* Whatever ends a boot answers its waiter, and a boot starts only where no
\* other caller is parked.
LEMMA CallsStep ==
    ASSUME RecType, DiskType, FlagType, Calls, [Next]_vars
    PROVE  Calls'
<1> USE DEF Calls, VmType, VmInv, CallersAnswered, Waiters, Freshness, NoVm,
            IdleStep, fixed, store, disks, dormancy, budget
<1>1. CASE UNCHANGED <<vm, reply, wake, pass, oper>>
  BY <1>1
<1>2. ASSUME UNCHANGED <<vm, reply, wake>>,
             pass'.step = "boot" => pass.step = "boot",
             oper'.step = "boot" => oper.step = "boot"
      PROVE  Calls'
  BY <1>2
<1>3. CASE UNCHANGED vars
  BY <1>3, <1>1 DEF vars
<1>4. CASE \/ HypervisorExits \/ ForceKill \/ Flush \/ BeamUp
  <2>1. UNCHANGED <<vm, reply, wake, pass, oper>>
    BY <1>4 DEF HypervisorExits, ForceKill, Flush, BeamUp, Discard, Fault,
      MoveToTrash, NotMoved, Request, budget, disks, dormancy, fixed, store
  <2>2. QED  BY <2>1, <1>1
<1>5. CASE PassBegins
  <2>1. UNCHANGED <<vm, reply, wake, oper>>
    BY <1>5 DEF PassBegins
  <2>2. pass'.step # "boot"
    BY <1>5 DEF PassBegins, PassTo, RecType
  <2>3. QED  BY <1>2, <2>1, <2>2
<1>6. CASE PassStopsScope
  <2>1. UNCHANGED <<vm, reply, wake, oper>>
    BY <1>6 DEF PassStopsScope
  <2>2. pass'.step # "boot"
    BY <1>6 DEF PassStopsScope, PassTo, RecType
  <2>3. QED  BY <1>2, <2>1, <2>2
<1>7. CASE PassPlans
  <2>1. UNCHANGED <<vm, reply, wake, oper>>
    BY <1>7 DEF PassPlans
  <2>2. pass'.step # "boot"
    BY <1>7, DecideRange DEF PassPlans, PassDone
  <2>3. QED  BY <1>2, <2>1, <2>2
<1>8. CASE PassRecordsFailure
  BY <1>8 DEF PassRecordsFailure, NoRec, NoteFailure, PassDone
<1>9. CASE PassFinalizes
  BY <1>9 DEF PassFinalizes, NoRec, PassDone
<1>10. CASE Retires
  BY <1>10 DEF Retires, NoRec, OperDone
<1>11. CASE Revives
  BY <1>11 DEF Revives, NoRec, OperDone
<1>12. CASE ForgetTrashes
  <2>1. UNCHANGED <<vm, reply, wake, pass>>
    BY <1>12 DEF ForgetTrashes
  <2>2. oper' = [oper EXCEPT !.step = "forget_record"] \/ OperDone
    BY <1>12, Zenon DEF ForgetTrashes
  <2>3. oper'.step # "boot"
    BY <2>2 DEF OperDone, RecType
  <2>4. QED  BY <1>2, <2>1, <2>3
<1>13. CASE ForgetDeletes
  BY <1>13 DEF ForgetDeletes, NoRec, OperDone
<1>14. CASE RebootKills
  <2>1. UNCHANGED <<vm, reply, wake, pass>>
    BY <1>14 DEF RebootKills
  <2>2. oper'.step # "boot"
    BY <1>14 DEF RebootKills, RecType
  <2>3. QED  BY <1>2, <2>1, <2>2
<1>15. CASE TrashRepersists
  BY <1>15 DEF TrashRepersists, NoRec, OperDone, Running
<1>16. ASSUME NEW op \in {"retire", "revive", "forget", "reboot"},
             OperReads(op)
      PROVE  Calls'
  BY <1>16, <1>2 DEF OperReads
<1>17. CASE TrashRestores
  BY <1>17 DEF TrashRestores, NoRec, Request
<1>18. CASE CloneRootfs
  BY <1>18 DEF CloneRootfs, VmGone
<1>19. CASE StartScope
  BY <1>19 DEF StartScope
<1>20. CASE BootFails
  BY <1>20 DEF BootFails, Discard, FailBoot, Fault, MoveToTrash, NotMoved,
    Running, VmGone
<1>21. CASE BootLate
  BY <1>21, Zenon DEF BootLate
<1>22. CASE GuestSetUp
  BY <1>22 DEF GuestSetUp
<1>23. CASE PersistRunning
  BY <1>23 DEF PersistRunning, Running
<1>24. CASE BecomeRunning
  BY <1>24, Zenon DEF BecomeRunning
<1>25. CASE SeesHypervisorExit
  BY <1>25 DEF SeesHypervisorExit, VmGone
<1>26. CASE VmCrashes
  BY <1>26 DEF VmCrashes, Fault, Registered, VmGone
<1>27. CASE TermTrash
  BY <1>27 DEF TermTrash, Discard, Fault, MoveToTrash, NoRec, NotMoved
<1>28. CASE TermCleanup
  BY <1>28 DEF TermCleanup
<1>29. CASE TermDelete
  BY <1>29 DEF TermDelete, NoRec, VmGone
<1>30. CASE Stop
  BY <1>30 DEF Stop, Request, Teardown
<1>31. CASE StopEarly
  BY <1>31 DEF StopEarly, Request, VmGone
<1>32. CASE DoneSnapshot
  <2>1. UNCHANGED <<reply, wake, pass, oper>> /\ disk \in {"old", "new"}
    BY <1>32 DEF DoneSnapshot, DiskType
  <2>2. vm' = [vm EXCEPT !.st = "register", !.snap = disk]
    BY <1>32 DEF DoneSnapshot
  <2>3. VmType'
    BY Zenon, <2>1, <2>2
  <2>4. VmInv' /\ CallersAnswered'
    BY <2>1, <2>2
  <2>5. QED  BY <2>3, <2>4
<1>33. CASE DoneRegister
  BY <1>33 DEF DoneRegister
<1>34. CASE DoneDelete
  BY <1>34 DEF DoneDelete, NoRec, Teardown
<1>35. CASE WakeBegins
  BY <1>35 DEF WakeBegins, Registered, Request
<1>36. CASE WakeSpawns
  <2>1. UNCHANGED <<reply, pass, oper>>
    BY <1>36 DEF WakeSpawns
  <2>2. CASE vm' = vm /\ wake' = "idle"
    BY <2>1, <2>2
  <2>3. CASE ~Registered /\ StartVm("wake", "wake") /\ wake' = "boot"
    <3>1. vm = NoVm
      BY <2>3 DEF Registered
    <3>2. vm' = [NoVm EXCEPT !.st = "booting", !.kind = "wake",
                            !.waiter = "wake"]
      BY <2>3 DEF StartVm
    <3>3. QED  BY Zenon, <2>1, <2>3, <3>1, <3>2
  <2>4. QED  BY <1>36, <2>2, <2>3 DEF WakeSpawns
<1>37. CASE WakeReturns
  BY <1>37 DEF WakeReturns, NoDorm
<1>38. CASE WakeTimesOut
  BY <1>38 DEF WakeTimesOut, Fault, StopsWaiting
<1>39. CASE PassAttaches
  <2>1. UNCHANGED <<reply, wake, oper>> /\ pass'.step # "boot"
    BY <1>39 DEF PassAttaches, PassDone, PassTo, RecType
  <2>2. \/ vm' = vm
        \/ /\ vm = NoVm
           /\ vm' = [NoVm EXCEPT !.st = "running", !.kind = "attach"]
    BY <1>39 DEF PassAttaches, Registered
  <2>3. CASE vm' = vm
    BY <2>1, <2>3
  <2>4. CASE /\ vm = NoVm
             /\ vm' = [NoVm EXCEPT !.st = "running", !.kind = "attach"]
    <3>1. VmType' /\ VmInv'
      BY Zenon, <2>1, <2>4
    <3>2. CallersAnswered'
      BY <2>1, <2>4
    <3>3. QED  BY <3>1, <3>2
  <2>5. QED  BY <2>2, <2>3, <2>4
<1>40. CASE PassResumes
  <2>1. UNCHANGED <<reply, wake, oper>>
    BY <1>40 DEF PassResumes
  <2>2. CASE vm' = vm /\ pass'.step # "boot"
    BY <2>1, <2>2
  <2>3. CASE /\ ~Registered /\ ~Claimed
             /\ StartVm("resume", "pass") /\ PassTo("boot")
    <3>1. vm = NoVm /\ oper.step # "boot"
      BY <2>3 DEF Registered, Claimed
    <3>2. vm' = [NoVm EXCEPT !.st = "booting", !.kind = "resume",
                            !.waiter = "pass"]
      BY <2>3 DEF StartVm
    <3>3. QED  BY Zenon, <2>1, <3>1, <3>2
  <2>4. QED  BY <1>40, <2>2, <2>3 DEF PassResumes, PassDone, PassTo, RecType
<1>41. CASE PassReturns
  <2>1. UNCHANGED <<vm, wake, oper>> /\ pass'.step # "boot"
    BY <1>41 DEF PassReturns, PassDone, PassTo, RecType
  <2>2. reply' = [reply EXCEPT !["pass"] = "none"]
    BY <1>41 DEF PassReturns
  <2>3. QED  BY <2>1, <2>2
<1>42. CASE PassTimesOut
  BY <1>42 DEF PassTimesOut, Fault, PassTo, StopsWaiting
<1>43. CASE RebootResumes
  <2>1. UNCHANGED <<reply, wake, pass>>
    BY <1>43 DEF RebootResumes
  <2>2. CASE vm' = vm /\ oper'.step # "boot"
    BY <2>1, <2>2
  <2>3. CASE ~Registered /\ ~Claimed /\ StartVm("resume", "oper")
    <3>1. vm = NoVm /\ pass.step # "boot"
      BY <2>3 DEF Registered, Claimed
    <3>2. vm' = [NoVm EXCEPT !.st = "booting", !.kind = "resume",
                            !.waiter = "oper"]
      BY <2>3 DEF StartVm
    <3>3. QED  BY Zenon, <2>1, <3>1, <3>2
  <2>4. QED  BY <1>43, <2>2, <2>3 DEF RebootResumes, OperDone
<1>44. CASE RebootReturns
  BY <1>44 DEF RebootReturns, Fault, NoRec, OperDone, StopsWaiting
<1>45. CASE GuestWrites
  BY <1>45 DEF GuestWrites, Older
<1>46. CASE BeamDown
  BY <1>46 DEF BeamDown, Fault, NoDorm, NoRec
<1> QED
  BY Zenon, <1>1, <1>2, <1>3, <1>4, <1>5, <1>6, <1>7, <1>8, <1>9, <1>10, <1>11,
     <1>12, <1>13, <1>14, <1>15, <1>16, <1>17, <1>18, <1>19, <1>20, <1>21,
     <1>22, <1>23, <1>24, <1>25, <1>26, <1>27, <1>28, <1>29, <1>30, <1>31,
     <1>32, <1>33, <1>34, <1>35, <1>36, <1>37, <1>38, <1>39, <1>40, <1>41,
     <1>42, <1>43, <1>44, <1>45, <1>46
     DEF Next, VmStep, WakeStep, PassStep, OperStep, Requests, World

-----------------------------------------------------------------------------
(* Disk copies and dormant entries.                                        *)

\* Every way a copy of the disk goes leaves the newest data in another one, and
\* no snapshot is deleted while an entry names it.
LEMMA DurableStep ==
    ASSUME VmType, Durable, [Next]_vars
    PROVE  Durable'
<1> USE DEF Durable, DiskType, DormType, SnapInv, WakeInv, DataKept,
            DormantHasSnapshot, VmType, Freshness, Waiters, NoVm, NoDorm,
            fixed, store, disks, dormancy, budget
<1>1. CASE UNCHANGED <<disks, dorm, dormDisk, wake, beam, vm>>
  BY <1>1 DEF disks
<1>2. ASSUME UNCHANGED <<disks, dorm, dormDisk, wake, beam>>,
             vm'.st = "register" =>
                 vm.st = "register" /\ vm'.snap = vm.snap
      PROVE  Durable'
  BY <1>2
<1>3. CASE UNCHANGED vars
  BY <1>3, <1>1 DEF vars, disks
<1>4. CASE \/ HypervisorExits \/ ForceKill \/ PassBegins \/ PassStopsScope
            \/ PassPlans \/ PassReturns \/ PassRecordsFailure
            \/ PassFinalizes
  <2>1. UNCHANGED <<disks, dorm, dormDisk, wake, beam, vm>>
    BY <1>4 DEF HypervisorExits, ForceKill, PassBegins, PassStopsScope,
      PassPlans, PassReturns, PassRecordsFailure, PassFinalizes, Fault,
      PassDone, PassTo, Request, budget, disks, dormancy, fixed, store
  <2>2. QED  BY <2>1, <1>1
<1>5. CASE \/ Retires \/ Revives \/ ForgetDeletes \/ RebootKills
            \/ TrashRepersists
  <2>1. UNCHANGED <<disks, dorm, dormDisk, wake, beam, vm>>
    BY <1>5 DEF Retires, Revives, ForgetDeletes, RebootKills,
      TrashRepersists, OperDone, budget, disks, dormancy, fixed, store
  <2>2. QED  BY <2>1, <1>1
<1>6. ASSUME NEW op \in {"retire", "revive", "forget", "reboot"},
             OperReads(op)
      PROVE  Durable'
  BY <1>6, <1>1 DEF OperReads, dormancy
<1>7. CASE CloneRootfs
  BY <1>7 DEF CloneRootfs, VmGone
<1>8. CASE StartScope
  BY <1>8 DEF StartScope
<1>9. CASE BootFails
  <2>1. PICK transient \in BOOLEAN : FailBoot(transient)
    BY <1>9 DEF BootFails
  <2>2. vm' = NoVm /\ UNCHANGED <<dorm, dormDisk, wake, beam>>
    BY <2>1 DEF FailBoot, VmGone, dormancy
  <2>3. CASE UNCHANGED disks
    BY <2>2, <2>3 DEF disks
  <2>4. CASE Discard(FALSE)
    <3>1. DiskType' /\ snaps' = snaps /\ DataKept'
      BY Zenon, <2>4, DiscardKeeps
    <3>2. QED  BY <2>2, <3>1
  <2>5. QED  BY <2>1, <2>3, <2>4, Zenon DEF FailBoot
<1>10. CASE BootLate
  BY <1>10 DEF BootLate
<1>11. CASE GuestSetUp
  BY <1>11 DEF GuestSetUp
<1>12. CASE PersistRunning
  BY <1>12 DEF PersistRunning, Running
<1>13. CASE BecomeRunning
  BY <1>13 DEF BecomeRunning
<1>14. CASE SeesHypervisorExit
  BY <1>14 DEF SeesHypervisorExit, VmGone
<1>15. CASE VmCrashes
  BY <1>15 DEF VmCrashes, Fault, Registered, VmGone
<1>16. CASE TermTrash
  <2>1. /\ vm' = [vm EXCEPT !.st = "cleanup"]
        /\ UNCHANGED <<dorm, dormDisk, wake, beam>>
    BY <1>16 DEF TermTrash, dormancy
  <2>2. PICK meta \in BOOLEAN : Discard(meta)
    BY <1>16, Zenon DEF TermTrash
  <2>3. DiskType' /\ snaps' = snaps /\ DataKept'
    BY <2>2, DiscardKeeps
  <2>4. QED  BY <2>1, <2>3
<1>17. CASE TermCleanup
  BY <1>17 DEF TermCleanup
<1>18. CASE TermDelete
  BY <1>18 DEF TermDelete, NoRec, VmGone
<1>19. CASE Stop
  BY <1>19 DEF Stop, Request, Teardown
<1>20. CASE StopEarly
  BY <1>20 DEF StopEarly, Request, VmGone
<1>21. CASE DoneSnapshot
  BY <1>21 DEF DoneSnapshot, Request
<1>22. CASE DoneRegister
  BY <1>22 DEF DoneRegister
<1>23. CASE DoneDelete
  BY <1>23 DEF DoneDelete, NoRec, Teardown
<1>24. CASE Flush
  BY <1>24 DEF Flush
<1>25. CASE WakeBegins
  BY <1>25 DEF WakeBegins, Registered, Request
<1>26. CASE WakeSpawns
  <2>1. UNCHANGED <<disks, dormDisk, beam>> /\ wake = "spawn"
    BY <1>26 DEF WakeSpawns
  <2>2. vm' = vm \/ vm'.st # "register"
    BY <1>26, Zenon DEF WakeSpawns, StartVm
  <2>3. dorm' = dorm \/ dorm' = [dorm EXCEPT !.st = "dormant"]
    BY <1>26 DEF WakeSpawns
  <2>4. QED  BY <2>1, <2>2, <2>3
<1>27. CASE WakeReturns
  BY <1>27 DEF WakeReturns
<1>28. CASE WakeTimesOut
  BY <1>28 DEF WakeTimesOut, Fault, StopsWaiting
<1>29. CASE PassAttaches
  <2>1. UNCHANGED <<disks, dorm, dormDisk, wake, beam>>
    BY <1>29 DEF PassAttaches
  <2>2. vm' = vm \/ vm'.st # "register"
    BY <1>29, Zenon DEF PassAttaches
  <2>3. QED  BY <1>2, <2>1, <2>2
<1>30. CASE PassResumes
  <2>1. UNCHANGED <<disks, dorm, dormDisk, wake, beam>>
    BY <1>30 DEF PassResumes
  <2>2. vm' = vm \/ vm'.st # "register"
    BY <1>30, Zenon DEF PassResumes, StartVm
  <2>3. QED  BY <1>2, <2>1, <2>2
<1>31. CASE PassTimesOut
  BY <1>31 DEF PassTimesOut, Fault, PassTo, StopsWaiting
<1>32. CASE ForgetTrashes
  <2>1. UNCHANGED <<dorm, dormDisk, wake, beam, vm>>
    BY <1>32 DEF ForgetTrashes, dormancy
  <2>2. CASE UNCHANGED disks
    BY <2>1, <2>2 DEF disks
  <2>3. CASE MoveToTrash(FALSE)
    <3>1. DiskType' /\ snaps' = snaps /\ DataKept'
      BY Zenon, <2>3, MoveToTrashKeeps
    <3>2. QED  BY <2>1, <3>1
  <2>4. QED  BY <1>32, <2>2, <2>3, Zenon DEF ForgetTrashes
<1>33. CASE RebootResumes
  <2>1. UNCHANGED <<disks, dorm, dormDisk, wake, beam>>
    BY <1>33 DEF RebootResumes
  <2>2. vm' = vm \/ vm'.st # "register"
    BY <1>33, Zenon DEF RebootResumes, StartVm
  <2>3. QED  BY <1>2, <2>1, <2>2
<1>34. CASE RebootReturns
  BY <1>34 DEF RebootReturns, Fault, IdleStep, NoRec, OperDone, StopsWaiting
<1>35. CASE TrashRestores
  BY <1>35 DEF TrashRestores, IdleStep, NoRec, Request
<1>36. CASE GuestWrites
  BY <1>36 DEF GuestWrites, Older
<1>37. CASE BeamDown
  BY <1>37 DEF BeamDown, Fault, IdleStep, NoRec, Waiters
<1>38. CASE BeamUp
  <2>1. UNCHANGED <<vm, dormDisk, wake>> /\ ~beam /\ beam'
    BY <1>38 DEF BeamUp
  <2>2. \/ dorm' = NoDorm
        \/ dormDisk.st # "none" /\ dorm' = [dormDisk EXCEPT !.st = "dormant"]
    BY <1>38 DEF BeamUp
  <2>3. CASE UNCHANGED disks
    BY <2>1, <2>2, <2>3 DEF disks
  <2>4. CASE Discard(FALSE)
    <3>1. DiskType' /\ snaps' = snaps /\ DataKept'
      BY Zenon, <2>4, DiscardKeeps
    <3>2. QED  BY <2>1, <2>2, <3>1
  <2>5. QED  BY <1>38, <2>3, <2>4, Zenon DEF BeamUp
<1> QED
  BY Zenon, <1>1, <1>2, <1>3, <1>4, <1>5, <1>6, <1>7, <1>8, <1>9, <1>10, <1>11,
     <1>12, <1>13, <1>14, <1>15, <1>16, <1>17, <1>18, <1>19, <1>20, <1>21,
     <1>22, <1>23, <1>24, <1>25, <1>26, <1>27, <1>28, <1>29, <1>30, <1>31,
     <1>32, <1>33, <1>34, <1>35, <1>36, <1>37, <1>38
     DEF Next, VmStep, WakeStep, PassStep, OperStep, Requests, World

-----------------------------------------------------------------------------
(* Records and the copies of them.                                         *)

\* A pass and the operator write back what they read steps ago; the record that
\* results has the counter and the intent the budget allows.
LEMMA RetriesStep ==
    ASSUME FlagType, Retries, [Next]_vars
    PROVE  Retries'
<1> USE LifecycleAssumption
    DEF Retries, RecType, PassInv, RunningHasBudget, Recs, Running, NoRec,
        IdleStep, fixed, store, disks, dormancy, budget
<1>1. CASE UNCHANGED <<rec, pass, oper>>
  BY <1>1
<1>2. CASE UNCHANGED vars
  BY <1>2, <1>1 DEF vars
<1>3. CASE \/ CloneRootfs \/ StartScope \/ BootLate \/ GuestSetUp
            \/ BecomeRunning \/ SeesHypervisorExit \/ TermTrash
            \/ TermCleanup \/ DoneRegister
  <2>1. UNCHANGED <<rec, pass, oper>>
    BY <1>3 DEF CloneRootfs, StartScope, BootLate, GuestSetUp, BecomeRunning,
      SeesHypervisorExit, TermTrash, TermCleanup, DoneRegister, Discard,
      Fault, MoveToTrash, NotMoved, VmGone, budget, disks, dormancy, fixed,
      store
  <2>2. QED  BY <2>1, <1>1
<1>4. CASE \/ WakeSpawns \/ WakeReturns \/ WakeTimesOut \/ Flush \/ BeamUp
  <2>1. UNCHANGED <<rec, pass, oper>>
    BY <1>4 DEF WakeSpawns, WakeReturns, WakeTimesOut, Flush, BeamUp,
      Discard, Fault, MoveToTrash, NotMoved, StartVm, StopsWaiting, budget,
      disks, fixed, store
  <2>2. QED  BY <2>1, <1>1
<1>5. CASE \/ Stop \/ StopEarly \/ ForceKill \/ DoneSnapshot \/ WakeBegins
            \/ GuestWrites \/ HypervisorExits \/ VmCrashes
  <2>1. UNCHANGED <<rec, pass, oper>>
    BY <1>5 DEF Stop, StopEarly, ForceKill, DoneSnapshot, WakeBegins,
      GuestWrites, HypervisorExits, VmCrashes, Fault, Request, VmGone,
      budget, disks, dormancy, fixed, store
  <2>2. QED  BY <2>1, <1>1
<1>6. CASE BootFails
  <2>1. UNCHANGED <<pass, oper>> /\ (rec' = Running \/ rec' = rec)
    BY <1>6 DEF BootFails, FailBoot
  <2>2. CASE rec' = Running
    BY <2>1, <2>2
  <2>3. CASE rec' = rec
    BY <2>1, <2>3
  <2>4. QED  BY <2>1, <2>2, <2>3
<1>7. CASE PersistRunning
  BY <1>7 DEF PersistRunning
<1>8. CASE TermDelete
  BY <1>8 DEF TermDelete, NoVm, VmGone
<1>9. CASE DoneDelete
  BY <1>9 DEF DoneDelete, Teardown
<1>10. CASE PassBegins
  BY <1>10 DEF PassBegins, Claimed, Fault, PassTo, Registered,
    ScopeShouldStop
<1>11. CASE PassStopsScope
  BY <1>11, Zenon DEF PassStopsScope, PassTo
<1>12. CASE PassPlans
  <2>1. UNCHANGED <<rec, oper>>
    BY <1>12 DEF PassPlans
  <2>2. \/ pass' = IdleStep
        \/ rec.intent = "running" /\ pass' = [step |-> Decide, rec |-> rec]
    BY <1>12 DEF PassPlans, PassDone, Stranded
  <2>3. QED  BY <2>1, <2>2, DecideRange
<1>13. CASE PassAttaches
  BY <1>13 DEF PassAttaches, Claimed, Fault, NoVm, PassDone, PassTo,
    Registered
<1>14. CASE PassResumes
  BY <1>14 DEF PassResumes, Claimed, Fault, NoVm, PassDone, PassTo,
    Registered, StartVm
<1>15. CASE PassReturns
  BY <1>15 DEF PassReturns, PassDone, PassTo
<1>16. CASE PassTimesOut
  BY <1>16 DEF PassTimesOut, Fault, PassTo, StopsWaiting
<1>17. CASE PassRecordsFailure
  <2>1. UNCHANGED oper /\ pass' = IdleStep
    BY <1>17 DEF PassRecordsFailure, PassDone
  <2>2. PICK expired \in BOOLEAN : rec' = NoteFailure(pass.rec, expired)
    BY <1>17 DEF PassRecordsFailure
  <2>3. /\ pass.rec \in Recs
        /\ pass.rec.intent = "running" /\ pass.rec.fails < MaxFails
    BY <1>17 DEF PassRecordsFailure
  <2>4. rec' \in Recs /\ (rec'.intent = "running" => rec'.fails < MaxFails)
    BY ONLY Zenon, <2>2, <2>3, NoteFailureIsRec
  <2>5. QED  BY <2>1, <2>4
<1>18. CASE PassFinalizes
  BY <1>18 DEF PassFinalizes, PassDone
<1>19. CASE Retires
  <2>1. UNCHANGED pass /\ oper' = IdleStep
    BY <1>19 DEF Retires, OperDone
  <2>2. rec' = [oper.rec EXCEPT !.intent = "failed"] /\ oper.rec \in Recs
    BY <1>19 DEF Retires
  <2>3. rec' \in Recs
    BY ONLY <2>2, FailedIsRec
  <2>4. rec'.intent = "failed"
    BY <2>2
  <2>5. QED  BY <2>1, <2>3, <2>4
<1>20. CASE Revives
  BY <1>20 DEF Revives, OperDone
<1>21. CASE ForgetTrashes
  BY <1>21 DEF ForgetTrashes, Fault, MoveToTrash, OperDone
<1>22. CASE ForgetDeletes
  BY <1>22 DEF ForgetDeletes, OperDone
<1>23. CASE RebootKills
  BY <1>23, Zenon DEF RebootKills
<1>24. CASE RebootResumes
  BY <1>24 DEF RebootResumes, Claimed, Fault, NoVm, OperDone, Registered,
    StartVm
<1>25. CASE RebootReturns
  BY <1>25 DEF RebootReturns, Fault, OperDone, StopsWaiting
<1>26. CASE TrashRepersists
  BY <1>26 DEF TrashRepersists, OperDone
<1>27. ASSUME NEW op \in {"retire", "revive", "forget", "reboot"},
             OperReads(op)
      PROVE  Retries'
  BY <1>27 DEF OperReads
<1>28. CASE TrashRestores
  <2>1. UNCHANGED <<rec, pass>>
    BY <1>28 DEF TrashRestores
  <2>2. \/ oper' = [IdleStep EXCEPT !.step = "repersist"]
        \/ oper' = IdleStep
    BY <1>28 DEF TrashRestores
  <2>3. QED  BY <2>1, <2>2
<1>29. CASE BeamDown
  BY <1>29, SMTT(30) DEF BeamDown, Fault, NoDorm, NoVm, Waiters
<1> QED
  BY Zenon, <1>1, <1>2, <1>3, <1>4, <1>5, <1>6, <1>7, <1>8, <1>9, <1>10, <1>11,
     <1>12, <1>13, <1>14, <1>15, <1>16, <1>17, <1>18, <1>19, <1>20, <1>21,
     <1>22, <1>23, <1>24, <1>25, <1>26, <1>27, <1>28, <1>29
     DEF Next, VmStep, WakeStep, PassStep, OperStep, Requests, World

-----------------------------------------------------------------------------
(* The restart policy.                                                     *)

\* An operator's revive is never taken back, and nothing else makes a token.
LEMMA PermitsStep ==
    ASSUME VmType, RecType, FlagType, VmInv, PassInv, Permits, [Next]_vars
    PROVE  Permits'
<1> USE LifecycleAssumption
    DEF Permits, TokenInv, NeverNeedsOperator, VmType, RecType, FlagType,
        VmInv, PassInv, Recs, Running, NoRec, NoVm, IdleStep, Waiters,
        Freshness, fixed, store, disks, dormancy, budget
<1>1. CASE UNCHANGED <<policy, auth, rec, pass, oper, vm>>
  BY <1>1
<1>2. CASE UNCHANGED vars
  BY <1>2, <1>1 DEF vars
<1>3. CASE \/ Flush \/ BeamUp \/ ForceKill \/ WakeBegins \/ WakeReturns
            \/ HypervisorExits
  <2>1. UNCHANGED <<policy, auth, rec, pass, oper, vm>>
    BY <1>3 DEF Flush, BeamUp, ForceKill, WakeBegins, WakeReturns,
      HypervisorExits, Discard, Fault, MoveToTrash, NotMoved, Request,
      budget, disks, dormancy, fixed, store
  <2>2. QED  BY <2>1, <1>1
<1>4. CASE CloneRootfs
  BY <1>4 DEF CloneRootfs, VmGone
<1>5. CASE StartScope
  BY <1>5 DEF StartScope
<1>6. CASE BootFails
  <2>1. UNCHANGED <<policy, auth, pass, oper>> /\ vm' = NoVm
    BY <1>6 DEF BootFails, FailBoot, VmGone
  <2>2. rec' = rec \/ rec' = Running
    BY <1>6 DEF BootFails, FailBoot
  <2>3. QED  BY <2>1, <2>2
<1>7. CASE BootLate
  BY <1>7 DEF BootLate
<1>8. CASE GuestSetUp
  BY <1>8 DEF GuestSetUp
<1>9. CASE PersistRunning
  BY <1>9 DEF PersistRunning
<1>10. CASE BecomeRunning
  BY <1>10 DEF BecomeRunning
<1>11. CASE SeesHypervisorExit
  BY <1>11 DEF SeesHypervisorExit, VmGone
<1>12. CASE VmCrashes
  BY <1>12 DEF VmCrashes, Fault, Registered, VmGone
<1>13. CASE TermTrash
  BY <1>13 DEF TermTrash, Discard, Fault, MoveToTrash, NotMoved
<1>14. CASE TermCleanup
  BY <1>14 DEF TermCleanup
<1>15. CASE TermDelete
  BY <1>15 DEF TermDelete, VmGone
<1>16. CASE Stop
  BY <1>16 DEF Stop, Request, Teardown
<1>17. CASE StopEarly
  BY <1>17 DEF StopEarly, Request, VmGone
<1>18. CASE DoneSnapshot
  BY <1>18 DEF DoneSnapshot, Request
<1>19. CASE DoneRegister
  BY <1>19 DEF DoneRegister
<1>20. CASE DoneDelete
  BY <1>20 DEF DoneDelete, Teardown
<1>21. CASE WakeSpawns
  <2>1. UNCHANGED <<policy, auth, rec, pass, oper>>
    BY <1>21 DEF WakeSpawns
  <2>2. vm' = vm \/ vm'.waiter = "wake"
    BY <1>21, Zenon DEF WakeSpawns, StartVm
  <2>3. QED  BY <2>1, <2>2
<1>22. CASE WakeTimesOut
  BY <1>22 DEF WakeTimesOut, Fault, StopsWaiting
<1>23. CASE PassBegins
  BY <1>23 DEF PassBegins, Claimed, Fault, PassTo, Registered,
    ScopeShouldStop
<1>24. CASE PassStopsScope
  BY <1>24 DEF PassStopsScope, PassTo
<1>25. CASE PassPlans
  BY <1>25 DEF PassPlans, Claimed, Decide, Fault, PassDone, Registered,
    Stranded
<1>26. CASE PassAttaches
  <2>1. UNCHANGED <<policy, auth, rec, oper>>
    BY <1>26 DEF PassAttaches
  <2>2. vm' = vm \/ vm' = [NoVm EXCEPT !.st = "running", !.kind = "attach"]
    BY <1>26 DEF PassAttaches
  <2>3. \/ pass' = IdleStep
        \/ pass'.rec = pass.rec /\ pass'.step = "fail"
    BY <1>26 DEF PassAttaches, PassDone, PassTo
  <2>4. TokenInv'
    BY <2>1, <2>3
  <2>5. vm' = vm \/ vm'.kind = "attach"
    BY Zenon, <2>2
  <2>6. NeverNeedsOperator'
    BY <2>1, <2>5
  <2>7. QED  BY <2>4, <2>6
<1>27. CASE PassResumes
  BY <1>27 DEF PassResumes, Claimed, Fault, PassDone, PassTo, Registered,
    StartVm
<1>28. CASE PassReturns
  BY <1>28 DEF PassReturns, PassDone, PassTo
<1>29. CASE PassTimesOut
  BY <1>29 DEF PassTimesOut, Fault, PassTo, StopsWaiting
<1>30. CASE PassRecordsFailure
  BY <1>30 DEF PassRecordsFailure, NoteFailure, PassDone
<1>31. CASE PassFinalizes
  BY <1>31 DEF PassFinalizes, PassDone
<1>32. CASE Retires
  BY <1>32 DEF Retires, OperDone
<1>33. CASE Revives
  BY <1>33 DEF Revives, OperDone
<1>34. CASE ForgetTrashes
  BY <1>34 DEF ForgetTrashes, Fault, MoveToTrash, OperDone
<1>35. CASE ForgetDeletes
  BY <1>35 DEF ForgetDeletes, OperDone
<1>36. CASE RebootKills
  BY <1>36 DEF RebootKills
<1>37. CASE RebootResumes
  <2>1. UNCHANGED <<policy, auth, rec, pass>>
    BY <1>37 DEF RebootResumes
  <2>2. vm' = vm \/ vm'.waiter = "oper"
    BY <1>37, Zenon DEF RebootResumes, StartVm
  <2>3. oper' = IdleStep \/ oper'.rec = oper.rec
    BY <1>37 DEF RebootResumes, OperDone
  <2>4. TokenInv'
    BY <2>1, <2>3
  <2>5. NeverNeedsOperator'
    BY <2>1, <2>2
  <2>6. QED  BY <2>4, <2>5
<1>38. CASE RebootReturns
  BY <1>38 DEF RebootReturns, Fault, OperDone, StopsWaiting
<1>39. CASE TrashRepersists
  BY <1>39 DEF TrashRepersists, OperDone
<1>40. ASSUME NEW op \in {"retire", "revive", "forget", "reboot"},
             OperReads(op)
      PROVE  Permits'
  BY <1>40 DEF OperReads
<1>41. CASE TrashRestores
  BY <1>41 DEF TrashRestores, Request
<1>42. CASE GuestWrites
  BY <1>42, SMTT(30) DEF GuestWrites, Older
<1>43. CASE BeamDown
  BY <1>43, SMTT(30) DEF BeamDown, Fault, NoDorm
<1> QED
  BY Zenon, <1>1, <1>2, <1>3, <1>4, <1>5, <1>6, <1>7, <1>8, <1>9, <1>10, <1>11,
     <1>12, <1>13, <1>14, <1>15, <1>16, <1>17, <1>18, <1>19, <1>20, <1>21,
     <1>22, <1>23, <1>24, <1>25, <1>26, <1>27, <1>28, <1>29, <1>30, <1>31,
     <1>32, <1>33, <1>34, <1>35, <1>36, <1>37, <1>38, <1>39, <1>40, <1>41,
     <1>42, <1>43
     DEF Next, VmStep, WakeStep, PassStep, OperStep, Requests, World

-----------------------------------------------------------------------------
(* The rest of the types.                                                  *)

\* Flags keep their values.
LEMMA FlagsStep ==
    ASSUME FlagType, [Next]_vars
    PROVE  FlagType'
<1> USE DEF FlagType, fixed, store, disks, dormancy, budget
<1>1. CASE UNCHANGED <<beam, policy, scope, promised, auth>>
  BY <1>1
<1>2. CASE UNCHANGED vars
  BY <1>2, <1>1 DEF vars
<1>3. CASE \/ CloneRootfs \/ BootLate \/ GuestSetUp \/ BecomeRunning
            \/ SeesHypervisorExit \/ TermTrash \/ TermDelete
            \/ DoneRegister \/ DoneDelete
  <2>1. UNCHANGED <<beam, policy, scope, promised, auth>>
    BY <1>3 DEF CloneRootfs, BootLate, GuestSetUp, BecomeRunning,
      SeesHypervisorExit, TermTrash, TermDelete, DoneRegister, DoneDelete,
      Discard, Fault, MoveToTrash, NotMoved, VmGone, budget, disks, dormancy,
      fixed, store
  <2>2. QED  BY <2>1, <1>1
<1>4. CASE \/ WakeSpawns \/ WakeReturns \/ WakeTimesOut \/ WakeBegins \/ Flush
  <2>1. UNCHANGED <<beam, policy, scope, promised, auth>>
    BY <1>4 DEF WakeSpawns, WakeReturns, WakeTimesOut, WakeBegins, Flush,
      Fault, Request, StartVm, StopsWaiting, budget, disks, fixed, store
  <2>2. QED  BY <2>1, <1>1
<1>5. CASE \/ PassBegins \/ PassPlans \/ PassAttaches \/ PassResumes
            \/ PassReturns \/ PassTimesOut \/ PassRecordsFailure
            \/ PassFinalizes
  <2>1. UNCHANGED <<beam, policy, scope, promised, auth>>
    BY <1>5 DEF PassBegins, PassPlans, PassAttaches, PassResumes,
      PassReturns, PassTimesOut, PassRecordsFailure, PassFinalizes, Fault,
      PassDone, PassTo, StartVm, StopsWaiting, budget, disks, dormancy,
      fixed, store
  <2>2. QED  BY <2>1, <1>1
<1>6. CASE \/ Retires \/ ForgetDeletes \/ RebootResumes \/ RebootReturns
            \/ DoneSnapshot \/ TrashRestores \/ GuestWrites
            \/ VmCrashes
  <2>1. UNCHANGED <<beam, policy, scope, promised, auth>>
    BY <1>6 DEF Retires, ForgetDeletes, RebootResumes, RebootReturns,
      DoneSnapshot, TrashRestores, GuestWrites, VmCrashes, Fault, OperDone,
      Request, StartVm, StopsWaiting, VmGone, budget, disks, dormancy, fixed,
      store
  <2>2. QED  BY <2>1, <1>1
<1>7. ASSUME NEW op \in {"retire", "revive", "forget", "reboot"},
             OperReads(op)
      PROVE  FlagType'
  BY <1>7, <1>1 DEF OperReads
<1>8. CASE StartScope
  BY <1>8 DEF StartScope
<1>9. CASE BootFails
  <2>1. UNCHANGED <<beam, policy, auth>> /\ scope' \in {scope, "down"}
    BY <1>9 DEF BootFails, FailBoot
  <2>2. promised' \in {promised, TRUE}
    BY <1>9, Zenon DEF BootFails, FailBoot
  <2>3. QED  BY Zenon, <2>1, <2>2
<1>10. CASE PersistRunning
  BY <1>10 DEF PersistRunning
<1>11. CASE TermCleanup
  BY <1>11 DEF TermCleanup
<1>12. CASE PassStopsScope
  BY <1>12 DEF PassStopsScope
<1>13. CASE Revives
  BY <1>13 DEF Revives
<1>14. CASE ForgetTrashes
  <2>1. /\ UNCHANGED <<beam, policy, scope, auth>>
        /\ promised' \in {promised, FALSE}
    BY <1>14, Zenon DEF ForgetTrashes
  <2>2. QED  BY Zenon, <2>1
<1>15. CASE RebootKills
  BY <1>15 DEF RebootKills
<1>16. CASE TrashRepersists
  BY <1>16 DEF TrashRepersists
<1>17. CASE BeamUp
  BY <1>17 DEF BeamUp
<1>18. CASE Stop
  BY <1>18, Zenon DEF Stop
<1>19. CASE StopEarly
  BY <1>19 DEF StopEarly
<1>20. CASE ForceKill
  BY <1>20 DEF ForceKill
<1>21. CASE HypervisorExits
  BY <1>21 DEF HypervisorExits
<1>22. CASE BeamDown
  BY <1>22, Zenon DEF BeamDown
<1> QED
  BY <1>1, <1>2, <1>3, <1>4, <1>5, <1>6, <1>7, <1>8, <1>9, <1>10, <1>11,
     <1>12, <1>13, <1>14, <1>15, <1>16, <1>17, <1>18, <1>19, <1>20, <1>21,
     <1>22
     DEF Next, VmStep, WakeStep, PassStep, OperStep, Requests, World

\* The bounds on faults and requests hold.
LEMMA BudgetStep ==
    ASSUME BudgetType, [Next]_vars
    PROVE  BudgetType'
<1> DEFINE FaultsOk == \/ UNCHANGED faults
                       \/ faults < MaxFaults /\ faults' = faults + 1
<1> DEFINE OpsOk == UNCHANGED ops \/ (ops < MaxOps /\ ops' = ops + 1)
<1>1. ASSUME FaultsOk, OpsOk
      PROVE  BudgetType'
  BY <1>1, LifecycleAssumption DEF BudgetType
<1>2. \A f : Fault(f) => FaultsOk
  BY DEF Fault
<1>3. CASE UNCHANGED vars
  BY <1>3, <1>1 DEF vars
<1>4. CASE \/ CloneRootfs \/ StartScope \/ BootLate \/ GuestSetUp
           \/ PersistRunning \/ BecomeRunning \/ SeesHypervisorExit
           \/ TermCleanup \/ TermDelete \/ DoneRegister \/ DoneDelete
  <2>1. UNCHANGED <<faults, ops>>
    BY <1>4 DEF CloneRootfs, StartScope, BootLate, GuestSetUp,
       PersistRunning, BecomeRunning, SeesHypervisorExit, TermCleanup,
       TermDelete, DoneRegister, DoneDelete, budget
  <2>2. QED  BY <1>1, <2>1
<1>5. CASE \/ WakeSpawns \/ WakeReturns \/ Flush \/ PassStopsScope
           \/ PassReturns \/ PassRecordsFailure \/ PassFinalizes
           \/ Retires \/ Revives \/ ForgetDeletes \/ RebootKills
           \/ TrashRepersists \/ GuestWrites
  <2>1. UNCHANGED <<faults, ops>>
    BY <1>5 DEF WakeSpawns, WakeReturns, Flush, PassStopsScope, PassReturns,
       PassRecordsFailure, PassFinalizes, Retires, Revives, ForgetDeletes,
       RebootKills, TrashRepersists, GuestWrites, budget
  <2>2. QED  BY <1>1, <2>1
<1>6. CASE BootFails \/ TermTrash \/ BeamUp
  <2>1. FaultsOk
    BY <1>2, <1>6, Zenon DEF BootFails, FailBoot, TermTrash, BeamUp, Discard, NotMoved
  <2>2. UNCHANGED ops
    BY <1>6, Zenon DEF BootFails, FailBoot, TermTrash, BeamUp
  <2>3. QED  BY <1>1, <2>1, <2>2
<1>7. CASE WakeTimesOut \/ PassTimesOut \/ RebootReturns \/ RebootResumes
  <2>1. FaultsOk
    BY <1>2, <1>7 DEF WakeTimesOut, PassTimesOut, RebootReturns,
       RebootResumes, StopsWaiting
  <2>2. UNCHANGED ops
    BY <1>7 DEF WakeTimesOut, PassTimesOut, RebootReturns, RebootResumes
  <2>3. QED  BY <1>1, <2>1, <2>2
<1>8. CASE PassBegins \/ PassPlans \/ PassResumes
  <2>1. FaultsOk
    BY <1>2, <1>8 DEF PassBegins, PassPlans, PassResumes
  <2>2. UNCHANGED ops
    BY <1>8 DEF PassBegins, PassPlans, PassResumes
  <2>3. QED  BY <1>1, <2>1, <2>2
<1>9. CASE PassAttaches \/ ForgetTrashes
  <2>1. FaultsOk
    BY <1>2, <1>9, Zenon DEF PassAttaches, ForgetTrashes
  <2>2. UNCHANGED ops
    BY <1>9, Zenon DEF PassAttaches, ForgetTrashes
  <2>3. QED  BY <1>1, <2>1, <2>2
<1>10. CASE HypervisorExits \/ VmCrashes \/ BeamDown
  <2>1. FaultsOk
    BY <1>2, <1>10 DEF HypervisorExits, VmCrashes, BeamDown
  <2>2. UNCHANGED ops
    BY <1>10 DEF HypervisorExits, VmCrashes, BeamDown
  <2>3. QED  BY <1>1, <2>1, <2>2
<1>11. CASE \/ Stop \/ StopEarly \/ ForceKill \/ DoneSnapshot \/ WakeBegins
            \/ TrashRestores
  <2>1. OpsOk
    BY <1>11 DEF Stop, StopEarly, ForceKill, DoneSnapshot, WakeBegins,
       TrashRestores, Request
  <2>2. UNCHANGED faults
    BY <1>11 DEF Stop, StopEarly, ForceKill, DoneSnapshot, WakeBegins,
       TrashRestores
  <2>3. QED  BY <1>1, <2>1, <2>2
<1>12. ASSUME NEW op \in {"retire", "revive", "forget", "reboot"},
              OperReads(op)
       PROVE  BudgetType'
  BY <1>12, <1>1 DEF OperReads, Request
<1> QED
  BY <1>1, <1>2, <1>3, <1>4, <1>5, <1>6, <1>7, <1>8, <1>9, <1>10, <1>11,
     <1>12
     DEF Next, VmStep, WakeStep, PassStep, OperStep, Requests, World

-----------------------------------------------------------------------------
(* Theorems.                                                               *)

\* A first boot is under way and nothing was promised yet.
LEMMA InitIInv == Init => IInv
<1> SUFFICES ASSUME Init PROVE IInv
  OBVIOUS
<1> USE DEF Init
<1>1. Calls
  BY Zenon DEF Calls, VmType, VmInv, CallersAnswered, Waiters, Freshness, NoVm,
         IdleStep
<1>2. Durable
  BY DEF Durable, DiskType, DormType, SnapInv, WakeInv, DataKept,
         DormantHasSnapshot, Freshness, NoVm, NoDorm
<1>3. Retries
  BY DEF Retries, RecType, PassInv, RunningHasBudget, Recs, NoRec, IdleStep
<1>4. Permits
  BY DEF Permits, TokenInv, NeverNeedsOperator, NoRec, NoVm, IdleStep
<1>5. FlagType
  BY Zenon DEF FlagType
<1>6. BudgetType
  BY LifecycleAssumption DEF BudgetType
<1>7. QED  BY <1>1, <1>2, <1>3, <1>4, <1>5, <1>6 DEF IInv

\* Every step keeps the invariant.
LEMMA NextIInv == IInv /\ [Next]_vars => IInv'
<1> SUFFICES ASSUME IInv, [Next]_vars PROVE IInv'
  OBVIOUS
<1>1. /\ VmType /\ VmInv /\ DiskType /\ RecType /\ PassInv
      /\ Calls /\ Durable /\ Retries /\ Permits /\ FlagType /\ BudgetType
  BY DEF IInv, Calls, Durable, Retries
<1>2. Calls'
  BY <1>1, CallsStep
<1>3. Durable'
  BY <1>1, DurableStep
<1>4. Retries'
  BY <1>1, RetriesStep
<1>5. Permits'
  BY <1>1, PermitsStep
<1>6. FlagType' /\ BudgetType'
  BY <1>1, FlagsStep, BudgetStep
<1>7. QED  BY <1>2, <1>3, <1>4, <1>5, <1>6 DEF IInv

\* IInv holds in every reachable state, whatever fails and whatever is asked.
THEOREM LifecycleInvariant == Spec => []IInv
<1>1. Init => IInv
  BY InitIInv
<1>2. IInv /\ [Next]_vars => IInv'
  BY NextIInv
<1>3. QED  BY <1>1, <1>2, PTL DEF Spec

\* Every variable keeps the shape the code gives it; in particular the record
\* that record_failure/3 and retire/1 write back is one.
THEOREM LifecycleTypeCorrect == Spec => []TypeOK
<1>1. IInv => TypeOK
  BY DEF IInv, Calls, Durable, Retries, VmType, DiskType, DormType, RecType,
         FlagType, BudgetType, TypeOK
<1>2. QED  BY <1>1, LifecycleInvariant, PTL

\* The newest guest data survives in some copy that is kept, through any
\* sequence of crashes, teardowns, wakes, retirements and restores.
THEOREM DataIsKept == Spec => []DataKept
<1>1. IInv => DataKept
  BY DEF IInv, Durable
<1>2. QED  BY <1>1, LifecycleInvariant, PTL

\* A dormant entry, in memory or in registry.json, names a snapshot
\* that exists.
THEOREM DormantEntriesHaveSnapshots == Spec => []DormantHasSnapshot
<1>1. IInv => DormantHasSnapshot
  BY DEF IInv, Durable
<1>2. QED  BY <1>1, LifecycleInvariant, PTL

\* A Reconcile pass boots a :never VM only after an operator's revive.
THEOREM NeverBootsOnlyRevived == Spec => []NeverNeedsOperator
<1>1. IInv => NeverNeedsOperator
  BY DEF IInv, Permits
<1>2. QED  BY <1>1, LifecycleInvariant, PTL

\* A record that says :running has failures left to spend, though passes write
\* back the record they planned with.
THEOREM RunningRecordsHaveBudget == Spec => []RunningHasBudget
<1>1. IInv => RunningHasBudget
  BY DEF IInv, Retries
<1>2. QED  BY <1>1, LifecycleInvariant, PTL

\* Nobody is parked in await_boot on a process that is gone.
THEOREM ParkedCallersAreAnswered == Spec => []CallersAnswered
<1>1. IInv => CallersAnswered
  BY DEF IInv, Calls
<1>2. QED  BY <1>1, LifecycleInvariant, PTL
=============================================================================
