----------------------------- MODULE Lifecycle -----------------------------
(***************************************************************************)
(* The life of one VM across every process that touches it:                *)
(*   - its GenServer (lib/mjolnir/vm.ex), registered under the VM id;      *)
(*   - its intent record (StateStore, whose own module shows that a put, a *)
(*     get and a delete may be taken as single steps here);                *)
(*   - its systemd scope, which outlives the BEAM (vmm_scope.ex);          *)
(*   - its rootfs subvolume, the trash, the dormant snapshots (btrfs.ex);  *)
(*   - its entry in the DormantRegistry and the task that wakes it;        *)
(*   - the Reconcile pass (reconcile.ex), which acts on a plan it made     *)
(*     earlier;                                                            *)
(*   - the operator (stop, retire, revive, reboot, forget, trash restore). *)
(* Nothing any of them reads or writes belongs to another VM, so one VM is *)
(* the whole model.  Data is reduced to which copies of the disk hold the  *)
(* newest guest writes.                                                    *)
(***************************************************************************)
EXTENDS Integers

CONSTANTS
    MaxFails,   \* :reconcile_max_failures
    MaxFaults,  \* bound on crashes and failures of the outside world
    MaxOps,     \* bound on operator, guest and message requests
    Faults,     \* kinds of fault explored
    Ops         \* kinds of request explored

ASSUME LifecycleAssumption ==
    /\ MaxFails \in Nat \ {0}
    /\ MaxFaults \in Nat
    /\ MaxOps \in Nat

VARIABLES
    beam,       \* the orchestrator runs
    policy,     \* spawn_config["restart_policy"], fixed at spawn
    rec,        \* the StateStore record
    vm,         \* the GenServer: progress, how it was started, boot_waiter
    scope,      \* mjolnir-<id>.scope: "active" or "down"
    disk,       \* @vms/<id>: "none", or how fresh its content is
    snaps,      \* freshness of the dormant snapshots kept under @snapshots
    trash,      \* entries under @trash for this id
    stamp,      \* timestamp of the next trash entry
    dorm,       \* DormantRegistry entry in memory
    dormDisk,   \* the same in registry.json
    wake,       \* the do_restore_dormant_vm task
    pass,       \* the Reconcile pass: step and plan-time record
    oper,       \* the operator request: step and the record it read
    reply,      \* answers to await_boot callers
    promised,   \* the VM ran, and no operator disposed of it since
    auth,       \* of a pass to boot a :never VM: "never", "granted", "spent"
    faults, ops

store == <<rec, promised>>
disks == <<disk, snaps, trash, stamp>>
dormancy == <<dorm, dormDisk, wake>>
budget == <<faults, ops>>
fixed == <<beam, policy>>
vars == <<beam, policy, rec, vm, scope, disk, snaps, trash, stamp, dorm,
          dormDisk, wake, pass, oper, reply, promised, auth, faults, ops>>

NoRec == [intent |-> "none", fails |-> 0, token |-> FALSE]

\* build_running_record/1: runtime is rebuilt, so counter and token are gone.
Running == [intent |-> "running", fails |-> 0, token |-> FALSE]

Recs == {NoRec} \cup [intent : {"running", "stopped", "failed"},
                      fails : 0..MaxFails, token : BOOLEAN]

NoVm == [st |-> "none", kind |-> "none", waiter |-> "none", snap |-> "none"]
NoDorm == [st |-> "none", data |-> "none"]
IdleStep == [step |-> "idle", rec |-> NoRec]
Waiters == {"pass", "oper", "wake"}

\* The VM id's key in VMRegistry, and the {:resume, id} claim.
Registered == vm.st # "none"
Claimed == pass.step = "boot" \/ oper.step = "boot"

Fault(f) == f \in Faults /\ faults < MaxFaults /\ faults' = faults + 1
Request(op) == beam /\ op \in Ops /\ ops < MaxOps /\ ops' = ops + 1

\* do_spawn/1 has started the GenServer and clone_rootfs/3 has cloned the base
\* image.
Init ==
    /\ beam = TRUE
    /\ policy \in {"always", "never"}
    /\ rec = NoRec
    /\ vm = [NoVm EXCEPT !.st = "starting", !.kind = "fresh"]
    /\ scope = "down"
    /\ disk = "new"
    /\ snaps = {}
    /\ trash = {}
    /\ stamp = 0
    /\ dorm = NoDorm
    /\ dormDisk = NoDorm
    /\ wake = "idle"
    /\ pass = IdleStep
    /\ oper = IdleStep
    /\ reply = [w \in Waiters |-> "none"]
    /\ promised = FALSE
    /\ auth = "never"
    /\ faults = 0
    /\ ops = 0

-----------------------------------------------------------------------------
(* Disk copies.                                                            *)

\* Mutant: the subvolume is deleted outright.
MoveToTrashHard(meta) ==
    /\ disk # "none"
    /\ disk' = "none"
    /\ UNCHANGED <<snaps, trash, stamp>>

\* BTRFS.trash_subvolume/2; meta says whether a sidecar goes with it.
MoveToTrash(meta) ==
    /\ disk # "none"
    /\ trash' = trash \cup {[n |-> stamp, data |-> disk, meta |-> meta]}
    /\ stamp' = stamp + 1
    /\ disk' = "none"
    /\ UNCHANGED snaps

\* trash_subvolume/2 when there is nothing to move, or mv failed and the
\* subvolume is left in place.
NotMoved ==
    \/ disk = "none" /\ UNCHANGED <<disks, faults>>
    \/ Fault("mv") /\ UNCHANGED disks

Discard(meta) == (MoveToTrash(meta) /\ UNCHANGED faults) \/ NotMoved

Older(d) == IF d = "new" THEN "old" ELSE d

\* A running guest writes: every other copy is now behind.
GuestWrites ==
    /\ scope = "active"
    /\ disk # "none"
    /\ disk' = "new"
    /\ snaps' = {Older(d) : d \in snaps}
    /\ trash' = {[e EXCEPT !.data = Older(e.data)] : e \in trash}
    /\ vm' = [vm EXCEPT !.snap = Older(vm.snap)]
    /\ dorm' = [dorm EXCEPT !.data = Older(dorm.data)]
    /\ dormDisk' = [dormDisk EXCEPT !.data = Older(dormDisk.data)]
    /\ UNCHANGED <<fixed, store, scope, stamp, wake, pass, oper, reply,
                   auth, budget>>

-----------------------------------------------------------------------------
(* Boot: do_boot/1 .. finish_boot/2.                                       *)

\* start_child with the via-name; the caller parks in await_boot.
StartVm(kind, waiter) ==
    vm' = [NoVm EXCEPT !.st = "booting", !.kind = kind, !.waiter = waiter]

\* The GenServer is gone and a call to it exits.  A failed do_boot/1 ends this
\* way too: it runs in handle_continue/2, before the mailbox is read, so
\* boot_waiter is still nil where its error would be sent.
VmGone ==
    /\ vm' = NoVm
    /\ reply' = IF vm.waiter = "none" THEN reply
                ELSE [reply EXCEPT ![vm.waiter] = "exit"]

\* clone_rootfs/3: a resume needs the subvolume to be there, a wake clones
\* the snapshot and needs it not to be.
CloneRootfs ==
    /\ vm.st = "booting"
    /\ \/ /\ vm.kind = "resume" /\ disk # "none"
          /\ vm' = [vm EXCEPT !.st = "starting"]
          /\ UNCHANGED <<disk, reply>>
       \/ /\ vm.kind = "wake" /\ disk = "none"
          /\ vm' = [vm EXCEPT !.st = "starting"]
          /\ disk' = dorm.data
          /\ UNCHANGED reply
       \/ /\ (vm.kind = "resume") = (disk = "none")
          /\ VmGone
          /\ UNCHANGED disk
    /\ UNCHANGED <<fixed, store, scope, snaps, trash, stamp, dormancy, pass,
                   oper, auth, budget>>

\* virtiofsd, TAP, then VmmScope.start/3.
StartScope ==
    /\ vm.st = "starting"
    /\ scope = "down"
    /\ scope' = "active"
    /\ vm' = [vm EXCEPT !.st = "waiting"]
    /\ UNCHANGED <<fixed, store, disks, dormancy, pass, oper, reply, auth,
                   budget>>

\* handle_boot_failure/5 and cleanup_partial_boot/4.  Only a fresh clone is
\* tracked: kept with a :running record when the error is transient, else
\* trashed without a sidecar.
FailBoot(transient) ==
    /\ VmGone
    /\ scope' \in (IF vm.st = "starting" THEN {scope, "down"} ELSE {"down"})
    /\ IF vm.kind = "resume" \/ transient
       THEN UNCHANGED <<disks, faults>>
       ELSE Discard(FALSE)
    /\ IF vm.kind # "resume" /\ transient
       THEN rec' = Running /\ promised' = TRUE
       ELSE UNCHANGED store
    /\ UNCHANGED <<fixed, dormancy, pass, oper, auth, ops>>

\* Any step of the boot fails.  A start over an active scope is one of them:
\* systemd-run is refused, the API socket never appears (:socket_timeout),
\* and the cleanup stops the scope that was there.
BootFails ==
    /\ vm.st \in {"starting", "waiting", "late"}
    /\ \E transient \in BOOLEAN : FailBoot(transient)

\* Mutant: the caller parked in await_boot is forgotten.
BootLateSilent ==
    /\ vm.st = "waiting"
    /\ scope = "active"
    /\ vm' = [vm EXCEPT !.st = "late", !.waiter = "none"]
    /\ UNCHANGED <<fixed, store, scope, disks, dormancy, pass, oper, reply,
                   auth, budget>>

\* wait_for_boot/3: the agent missed the budget but the log still grows.
\* await_boot callers are told {:ok, :booting}.
BootLate ==
    /\ vm.st = "waiting"
    /\ scope = "active"
    /\ vm' = [vm EXCEPT !.st = "late", !.waiter = "none"]
    /\ reply' = IF vm.waiter = "none" THEN reply
                ELSE [reply EXCEPT ![vm.waiter] = "ok"]
    /\ UNCHANGED <<fixed, store, scope, disks, dormancy, pass, oper, auth,
                   budget>>

\* complete_guest_setup/1 succeeds; start_secrets_unlock/1 runs off-process.
GuestSetUp ==
    /\ vm.st \in {"waiting", "late"}
    /\ scope = "active"
    /\ vm' = [vm EXCEPT !.st = "unlocking"]
    /\ UNCHANGED <<fixed, store, scope, disks, dormancy, pass, oper, reply,
                   auth, budget>>

\* finish_boot/2 up to persist_running_state/1.
PersistRunning ==
    /\ vm.st = "unlocking"
    /\ rec' = Running
    /\ promised' = TRUE
    /\ auth' = IF auth = "granted" THEN "spent" ELSE auth
    /\ vm' = [vm EXCEPT !.st = "ready"]
    /\ UNCHANGED <<fixed, scope, disks, dormancy, pass, oper, reply, budget>>

\* finish_boot/2 after it: answer the waiter, :running.
BecomeRunning ==
    /\ vm.st = "ready"
    /\ vm' = [vm EXCEPT !.st = "running", !.waiter = "none"]
    /\ reply' = IF vm.waiter = "none" THEN reply
                ELSE [reply EXCEPT ![vm.waiter] = "ok"]
    /\ UNCHANGED <<fixed, store, scope, disks, dormancy, pass, oper, auth,
                   budget>>

-----------------------------------------------------------------------------
(* Running, and the ways a GenServer ends.                                 *)

\* The hypervisor dies: guest shutdown, OOM kill, crash.
HypervisorExits ==
    /\ scope = "active"
    /\ Fault("hypervisor")
    /\ scope' = "down"
    /\ UNCHANGED <<fixed, store, vm, disks, dormancy, pass, oper, reply,
                   auth, ops>>

\* The port's exit_status or poll_scope: terminate with {:hypervisor_exit, _}
\* preserves rootfs and record.  During do_boot/1 the mailbox is shut.
SeesHypervisorExit ==
    /\ vm.st \in {"late", "unlocking", "running"}
    /\ scope = "down"
    /\ VmGone
    /\ UNCHANGED <<fixed, store, scope, disks, dormancy, pass, oper, auth,
                   budget>>

\* The GenServer crashes: terminate detaches, the scope stays up.
VmCrashes ==
    /\ Registered
    /\ Fault("vm")
    /\ VmGone
    /\ UNCHANGED <<fixed, store, scope, disks, dormancy, pass, oper, auth,
                   ops>>

\* Where terminate_owned/2 starts for a :normal exit of a :running VM.  An
\* adopted VM has no rootfs_path, port or net_config, so it skips both the
\* trash and the cleanup.
Teardown == IF vm.kind = "attach" THEN "delete" ELSE "trash"

\* VM.stop/1 on a running VM.
Stop ==
    /\ Request("stop")
    /\ vm.st = "running"
    /\ vm' = [vm EXCEPT !.st = Teardown]
    /\ promised' = FALSE
    /\ UNCHANGED <<fixed, rec, scope, disks, dormancy, pass, oper, reply,
                   auth, faults>>

\* VM.stop/1 before :running but with the mailbox open: a preserving
\* teardown.
StopEarly ==
    /\ Request("stop")
    /\ vm.st \in {"late", "unlocking"}
    /\ scope' = "down"
    /\ VmGone
    /\ UNCHANGED <<fixed, store, disks, dormancy, pass, oper, auth, faults>>

\* VM.stop/1 when GenServer.stop times out: the scope is stopped under it.
ForceKill ==
    /\ Request("stop")
    /\ Registered
    /\ scope' = "down"
    /\ UNCHANGED <<fixed, store, vm, disks, dormancy, pass, oper, reply,
                   auth, faults>>

\* terminate_owned/2: trash with a sidecar if the record still exists.
TermTrash ==
    /\ vm.st = "trash"
    /\ Discard(rec # NoRec)
    /\ vm' = [vm EXCEPT !.st = "cleanup"]
    /\ UNCHANGED <<fixed, store, scope, dormancy, pass, oper, reply, auth,
                   ops>>

\* cleanup/2: CloudHypervisor.cleanup/1 stops the scope.
TermCleanup ==
    /\ vm.st = "cleanup"
    /\ scope' = "down"
    /\ vm' = [vm EXCEPT !.st = "delete"]
    /\ UNCHANGED <<fixed, store, disks, dormancy, pass, oper, reply, auth,
                   budget>>

\* StateStore.delete, and the process ends.
TermDelete ==
    /\ vm.st = "delete"
    /\ rec' = NoRec
    /\ VmGone
    /\ UNCHANGED <<fixed, promised, scope, disks, dormancy, pass, oper,
                   auth, budget>>

-----------------------------------------------------------------------------
(* Dormancy: do_handle_done/1, one step per call it makes.                 *)

\* Mutant: the result of the snapshot is not looked at.
DoneSnapshotUnchecked ==
    /\ Request("done")
    /\ policy # "never"
    /\ vm.st = "running"
    /\ scope = "active"
    /\ disk # "none"
    /\ vm' = [vm EXCEPT !.st = "register", !.snap = disk]
    /\ UNCHANGED <<fixed, store, scope, disks, dormancy, pass, oper, reply,
                   auth, faults>>

\* Admit.dormancy_reason/1 turns a :never VM away; then do_snapshot/3, after
\* which the guest is resumed.
DoneSnapshot ==
    /\ Request("done")
    /\ policy # "never"
    /\ vm.st = "running"
    /\ scope = "active"
    /\ disk # "none"
    /\ snaps' = snaps \cup {disk}
    /\ vm' = [vm EXCEPT !.st = "register", !.snap = disk]
    /\ UNCHANGED <<fixed, store, scope, disk, trash, stamp, dormancy, pass,
                   oper, reply, auth, faults>>

\* DormantRegistry.register/4, which only schedules a flush.
DoneRegister ==
    /\ vm.st = "register"
    /\ dorm' = [st |-> "dormant", data |-> vm.snap]
    /\ vm' = [vm EXCEPT !.st = "forget_intent"]
    /\ UNCHANGED <<fixed, store, scope, disks, dormDisk, wake, pass, oper,
                   reply, auth, budget>>

\* StateStore.delete, then {:stop, :normal}.
DoneDelete ==
    /\ vm.st = "forget_intent"
    /\ rec' = NoRec
    /\ vm' = [vm EXCEPT !.st = Teardown]
    /\ UNCHANGED <<fixed, promised, scope, disks, dormancy, pass, oper, reply,
                   auth, budget>>

\* The debounced do_flush/1.
Flush ==
    /\ beam
    /\ dormDisk # dorm
    /\ dormDisk' = dorm
    /\ UNCHANGED <<fixed, store, vm, scope, disks, dorm, wake, pass, oper,
                   reply, auth, budget>>

\* kick_consumer/1 finds the VM unregistered and dormant: begin_restore/1 and
\* a task for do_restore_dormant_vm/1.
WakeBegins ==
    /\ Request("wake")
    /\ wake = "idle"
    /\ ~Registered
    /\ dorm.st = "dormant"
    /\ dorm' = [dorm EXCEPT !.st = "restoring"]
    /\ wake' = "spawn"
    /\ UNCHANGED <<fixed, store, vm, scope, disks, dormDisk, pass, oper, reply,
                   auth, faults>>

\* spawn_with_id/1: refused (cancel_restore/1) if the id is registered by now.
WakeSpawns ==
    /\ wake = "spawn"
    /\ \/ /\ ~Registered
          /\ StartVm("wake", "wake")
          /\ wake' = "boot"
          /\ UNCHANGED dorm
       \/ /\ Registered
          /\ dorm' = [dorm EXCEPT !.st = "dormant"]
          /\ wake' = "idle"
          /\ UNCHANGED vm
    /\ UNCHANGED <<fixed, store, scope, disks, dormDisk, pass, oper, reply,
                   auth, budget>>

\* spawn_with_id/1 returned {:ok, _} (:booting included): unregister/1.  If
\* its call exits, so does the task, before cancel_restore/1.
WakeReturns ==
    /\ wake = "boot"
    /\ reply["wake"] # "none"
    /\ dorm' = IF reply["wake"] = "ok" THEN NoDorm ELSE dorm
    /\ wake' = "idle"
    /\ reply' = [reply EXCEPT !["wake"] = "none"]
    /\ UNCHANGED <<fixed, store, vm, scope, disks, dormDisk, pass, oper,
                   auth, budget>>

\* Nobody reads this await_boot's answer any more: the call timed out.
StopsWaiting(w) ==
    /\ vm.waiter = w
    /\ vm.st \in {"booting", "starting", "waiting", "unlocking", "ready"}
    /\ Fault("timeout")
    /\ vm' = [vm EXCEPT !.waiter = "none"]

\* await_boot times out in the wake task, which dies of it.
WakeTimesOut ==
    /\ wake = "boot"
    /\ StopsWaiting("wake")
    /\ wake' = "idle"
    /\ UNCHANGED <<fixed, store, scope, disks, dorm, dormDisk, pass, oper,
                   reply, auth, ops>>

-----------------------------------------------------------------------------
(* The Reconcile pass: Reconcile.run/0 at startup and on every Monitor     *)
(* tick, one at a time (acquire_pass/0).                                   *)

\* Mutant: a scope without a record is left alone.
ScopeShouldStopKnown == rec.intent \in {"stopped", "failed"}

\* scope_should_stop?/2.
ScopeShouldStop ==
    \/ rec.intent \in {"stopped", "failed"}
    \/ rec = NoRec /\ ~(Registered \/ Claimed)

PassTo(step) == pass' = [pass EXCEPT !.step = step]
PassDone == pass' = IdleStep

\* list_scopes/0 (skipped when systemd cannot be asked).
PassBegins ==
    /\ beam
    /\ pass.step = "idle"
    /\ \/ /\ PassTo(IF scope = "active" /\ ScopeShouldStop
                     THEN "stop" ELSE "plan")
          /\ UNCHANGED faults
       \/ PassTo("plan") /\ Fault("systemd")
    /\ UNCHANGED <<fixed, store, vm, scope, disks, dormancy, oper, reply,
                   auth, ops>>

\* stop_finished_or_orphan/1.
PassStopsScope ==
    /\ pass.step = "stop"
    /\ scope' = "down"
    /\ PassTo("plan")
    /\ UNCHANGED <<fixed, store, vm, disks, dormancy, oper, reply, auth,
                   budget>>

\* Stranded: a :running record with neither key registered.
Stranded == rec.intent = "running" /\ ~Registered /\ ~Claimed

\* Mutant: the restart policy is not asked.
DecideAlways ==
    CASE scope = "active" -> "attach"
      [] scope = "down" -> IF disk # "none" THEN "resume" ELSE "fail"

\* decide/3.
Decide ==
    CASE scope = "active" -> "attach"
      [] scope = "down" /\ policy = "never" /\ ~rec.token -> "finalize"
      [] scope = "down" /\ (policy # "never" \/ rec.token) ->
           IF disk # "none" THEN "resume" ELSE "fail"

\* list_by_intent, vm_registered?, liveness and build_plan/2.  An unknown
\* liveness backs off.
PassPlans ==
    /\ pass.step = "plan"
    /\ \/ /\ IF Stranded THEN pass' = [step |-> Decide, rec |-> rec]
                           ELSE PassDone
          /\ UNCHANGED faults
       \/ Stranded /\ PassDone /\ Fault("systemd")
    /\ UNCHANGED <<fixed, store, vm, scope, disks, dormancy, oper, reply,
                   auth, ops>>

\* execute({:attach, ...}): VM.adopt/1.  Already started is not a failure; an
\* init/1 that refuses is.
PassAttaches ==
    /\ pass.step = "attach"
    /\ \/ /\ ~Registered /\ ~Claimed
          /\ vm' = [NoVm EXCEPT !.st = "running", !.kind = "attach"]
          /\ PassDone
          /\ UNCHANGED faults
       \/ /\ Registered \/ Claimed
          /\ PassDone
          /\ UNCHANGED <<vm, faults>>
       \/ /\ ~Registered
          /\ Fault("refused")
          /\ PassTo("fail")
          /\ UNCHANGED vm
    /\ UNCHANGED <<fixed, store, scope, disks, dormancy, oper, reply, auth,
                   ops>>

\* execute({:resume, ...}): liveness once more, then VM.resume/1 of the
\* plan-time record.  An unknown liveness resumes.
PassResumes ==
    /\ pass.step = "resume"
    /\ \/ scope = "active" /\ PassTo("attach") /\ UNCHANGED <<vm, faults>>
       \/ /\ Registered \/ Claimed
          /\ PassDone
          /\ UNCHANGED <<vm, faults>>
       \/ /\ ~Registered /\ ~Claimed
          /\ (scope = "down" /\ UNCHANGED faults) \/ Fault("systemd")
          /\ StartVm("resume", "pass")
          /\ PassTo("boot")
    /\ UNCHANGED <<fixed, store, scope, disks, dormancy, oper, reply, auth,
                   ops>>

\* resume/1 returns (the claim is dropped), or its call exits.
PassReturns ==
    /\ pass.step = "boot"
    /\ reply["pass"] # "none"
    /\ IF reply["pass"] = "ok" THEN PassDone ELSE PassTo("fail")
    /\ reply' = [reply EXCEPT !["pass"] = "none"]
    /\ UNCHANGED <<fixed, store, vm, scope, disks, dormancy, oper, auth,
                   budget>>

PassTimesOut ==
    /\ pass.step = "boot"
    /\ StopsWaiting("pass")
    /\ PassTo("fail")
    /\ UNCHANGED <<fixed, store, scope, disks, dormancy, oper, reply, auth,
                   ops>>

\* Mutant: retires one failure too late.
NoteFailureLate(r, expired) ==
    [r EXCEPT !.fails = r.fails + 1,
              !.intent = IF r.fails + 1 > MaxFails \/ expired
                         THEN "failed" ELSE r.intent]

\* Mutant: the counter is not written back.
NoteFailureUncounted(r, expired) ==
    [r EXCEPT !.intent = IF r.fails + 1 >= MaxFails \/ expired
                         THEN "failed" ELSE r.intent]

\* note_failure/2; expired: the failure streak outlived its TTL.
NoteFailure(r, expired) ==
    [r EXCEPT !.fails = r.fails + 1,
              !.intent = IF r.fails + 1 >= MaxFails \/ expired
                         THEN "failed" ELSE r.intent]

\* record_failure/3: put of the plan-time record.
PassRecordsFailure ==
    /\ pass.step = "fail"
    /\ \E expired \in BOOLEAN : rec' = NoteFailure(pass.rec, expired)
    /\ PassDone
    /\ UNCHANGED <<fixed, promised, vm, scope, disks, dormancy, oper, reply,
                   auth, budget>>

\* execute({:finalize, ...}): put of the plan-time record, :stopped.
PassFinalizes ==
    /\ pass.step = "finalize"
    /\ rec' = [pass.rec EXCEPT !.intent = "stopped"]
    /\ PassDone
    /\ UNCHANGED <<fixed, promised, vm, scope, disks, dormancy, oper, reply,
                   auth, budget>>

-----------------------------------------------------------------------------
(* Operator requests.  Each reads first and writes what it read.           *)

OperDone == oper' = IdleStep

\* retire/1 and forget/1 refuse a registered VM; revive/1 leaves it be or turns
\* into reboot/1.  All refuse an unknown id.
OperReads(op) ==
    /\ oper.step = "idle"
    /\ Request(op)
    /\ rec # NoRec
    /\ op # "reboot" => ~Registered
    /\ oper' = [step |-> op, rec |-> rec]
    /\ UNCHANGED <<fixed, store, vm, scope, disks, dormancy, pass, reply,
                   auth, faults>>

Retires ==
    /\ oper.step = "retire"
    /\ rec' = [oper.rec EXCEPT !.intent = "failed"]
    /\ OperDone
    /\ UNCHANGED <<fixed, promised, vm, scope, disks, dormancy, pass, reply,
                   auth, budget>>

\* revive/1 clears the failure counter; a :never VM gets a one-shot token.
Revives ==
    /\ oper.step = "revive"
    /\ rec' = [intent |-> "running", fails |-> 0,
               token |-> oper.rec.token \/ policy = "never"]
    /\ auth' = "granted"
    /\ OperDone
    /\ UNCHANGED <<fixed, promised, vm, scope, disks, dormancy, pass, reply,
                   budget>>

\* forget/1: trash first; a failed trash leaves everything in place.
ForgetTrashes ==
    /\ oper.step = "forget"
    /\ \/ /\ MoveToTrash(FALSE) \/ (disk = "none" /\ UNCHANGED disks)
          /\ oper' = [oper EXCEPT !.step = "forget_record"]
          /\ promised' = FALSE
          /\ UNCHANGED faults
       \/ /\ Fault("mv")
          /\ OperDone
          /\ UNCHANGED <<disks, promised>>
    /\ UNCHANGED <<fixed, rec, vm, scope, dormancy, pass, reply, auth, ops>>

ForgetDeletes ==
    /\ oper.step = "forget_record"
    /\ rec' = NoRec
    /\ OperDone
    /\ UNCHANGED <<fixed, promised, vm, scope, disks, dormancy, pass, reply,
                   auth, budget>>

\* reboot/1: kill_hypervisor_process/1.
RebootKills ==
    /\ oper.step = "reboot"
    /\ scope' = "down"
    /\ oper' = [oper EXCEPT !.step = "reboot_wait"]
    /\ UNCHANGED <<fixed, store, vm, disks, dormancy, pass, reply, auth,
                   budget>>

\* wait_until_deregistered/2, then VM.resume/1 of the record it read.
RebootResumes ==
    /\ oper.step = "reboot_wait"
    /\ \/ /\ ~Registered /\ ~Claimed
          /\ StartVm("resume", "oper")
          /\ oper' = [oper EXCEPT !.step = "boot"]
          /\ UNCHANGED faults
       \/ ~Registered /\ Claimed /\ OperDone /\ UNCHANGED <<vm, faults>>
       \/ Registered /\ Fault("timeout") /\ OperDone /\ UNCHANGED vm
    /\ UNCHANGED <<fixed, store, scope, disks, dormancy, pass, reply, auth,
                   ops>>

RebootReturns ==
    /\ oper.step = "boot"
    /\ \/ /\ reply["oper"] # "none"
          /\ reply' = [reply EXCEPT !["oper"] = "none"]
          /\ UNCHANGED <<vm, faults>>
       \/ StopsWaiting("oper") /\ UNCHANGED reply
    /\ OperDone
    /\ UNCHANGED <<fixed, store, scope, disks, dormancy, pass, auth, ops>>

\* restore_from_trash/1: the newest entry goes back, unless @vms/<id> exists.
TrashRestores ==
    /\ oper.step = "idle"
    /\ Request("restore")
    /\ disk = "none"
    /\ \E e \in trash :
         /\ \A f \in trash : f.n <= e.n
         /\ disk' = e.data
         /\ trash' = trash \ {e}
         /\ oper' = IF e.meta THEN [IdleStep EXCEPT !.step = "repersist"]
                              ELSE IdleStep
    /\ UNCHANGED <<fixed, store, vm, scope, snaps, stamp, dormancy, pass,
                   reply, auth, faults>>

\* maybe_repersist_record/1; the kicked pass is PassBegins.
TrashRepersists ==
    /\ oper.step = "repersist"
    /\ rec' = Running
    /\ promised' = TRUE
    /\ OperDone
    /\ UNCHANGED <<fixed, vm, scope, disks, dormancy, pass, reply, auth,
                   budget>>

-----------------------------------------------------------------------------
(* The orchestrator and the host.                                          *)

\* mjolnir.service stops or dies: every process goes, scopes stay.  A host
\* reboot takes the scopes too.
BeamDown ==
    /\ beam
    /\ \/ Fault("beam") /\ UNCHANGED scope
       \/ Fault("host") /\ scope' = "down"
    /\ beam' = FALSE
    /\ vm' = NoVm
    /\ dorm' = NoDorm
    /\ wake' = "idle"
    /\ pass' = IdleStep
    /\ oper' = IdleStep
    /\ reply' = [w \in Waiters |-> "none"]
    /\ UNCHANGED <<policy, store, disks, dormDisk, auth, ops>>

\* application.ex: Cleanup.sweep/0 trashes a subvolume without a record, then
\* DormantRegistry loads registry.json, every entry :dormant.
BeamUp ==
    /\ ~beam
    /\ beam' = TRUE
    /\ IF rec = NoRec THEN Discard(FALSE) ELSE UNCHANGED <<disks, faults>>
    /\ dorm' = IF dormDisk.st = "none" THEN NoDorm
               ELSE [dormDisk EXCEPT !.st = "dormant"]
    /\ UNCHANGED <<policy, store, vm, scope, dormDisk, wake, pass, oper,
                   reply, auth, ops>>

-----------------------------------------------------------------------------
VmStep ==
    \/ CloneRootfs \/ StartScope \/ BootFails \/ BootLate \/ GuestSetUp
    \/ PersistRunning \/ BecomeRunning \/ SeesHypervisorExit
    \/ TermTrash \/ TermCleanup \/ TermDelete
    \/ DoneRegister \/ DoneDelete

WakeStep == WakeSpawns \/ WakeReturns \/ WakeTimesOut

PassStep ==
    \/ PassBegins \/ PassStopsScope \/ PassPlans \/ PassAttaches \/ PassResumes
    \/ PassReturns \/ PassTimesOut \/ PassRecordsFailure \/ PassFinalizes

OperStep ==
    \/ Retires \/ Revives \/ ForgetTrashes \/ ForgetDeletes
    \/ RebootKills \/ RebootResumes \/ RebootReturns \/ TrashRepersists

Requests ==
    \/ Stop \/ StopEarly \/ ForceKill \/ DoneSnapshot \/ WakeBegins
    \/ TrashRestores
    \/ \E op \in {"retire", "revive", "forget", "reboot"} : OperReads(op)

World ==
    \/ GuestWrites \/ HypervisorExits \/ VmCrashes \/ BeamDown

Next ==
    \/ VmStep \/ WakeStep \/ PassStep \/ OperStep \/ Flush \/ BeamUp
    \/ Requests \/ World

Spec == Init /\ [][Next]_vars

\* Processes that are running keep running; mjolnir.service has
\* Restart=always; the Monitor ticks for ever.  No request and no fault has to
\* happen, and a late boot whose log keeps growing is polled without end.
FairSpec ==
    /\ Spec
    /\ WF_vars(vm.st # "late" /\ VmStep)
    /\ WF_vars(SeesHypervisorExit)
    /\ WF_vars(WakeStep)
    /\ WF_vars(PassStep)
    /\ WF_vars(OperStep)
    /\ WF_vars(BeamUp)

-----------------------------------------------------------------------------
(* Properties.                                                             *)

Freshness == {"old", "new"}

\* Every variable has the shape the code gives it.
TypeOK ==
    /\ beam \in BOOLEAN
    /\ policy \in {"always", "never"}
    /\ rec \in Recs
    /\ vm \in [st : {"none", "booting", "starting", "waiting", "late",
                     "unlocking", "ready", "running", "register",
                     "forget_intent", "trash", "cleanup", "delete"},
               kind : {"none", "fresh", "wake", "resume", "attach"},
               waiter : Waiters \cup {"none"},
               snap : Freshness \cup {"none"}]
    /\ scope \in {"active", "down"}
    /\ disk \in Freshness \cup {"none"}
    /\ snaps \in SUBSET Freshness
    /\ trash \in SUBSET [n : Nat, data : Freshness, meta : BOOLEAN]
    /\ stamp \in Nat
    /\ dorm \in [st : {"none", "dormant", "restoring"},
                 data : Freshness \cup {"none"}]
    /\ dormDisk \in [st : {"none", "dormant", "restoring"},
                     data : Freshness \cup {"none"}]
    /\ wake \in {"idle", "spawn", "boot"}
    /\ pass \in [step : {"idle", "stop", "plan", "attach", "resume", "boot",
                         "fail", "finalize"}, rec : Recs]
    /\ oper \in [step : {"idle", "retire", "revive", "forget",
                         "forget_record", "reboot", "reboot_wait", "boot",
                         "repersist"}, rec : Recs]
    /\ reply \in [Waiters -> {"none", "ok", "exit"}]
    /\ promised \in BOOLEAN
    /\ auth \in {"never", "granted", "spent"}
    /\ faults \in 0..MaxFaults
    /\ ops \in 0..MaxOps

\* The durability invariant: whatever crashes, is killed, retired, forgotten,
\* restored or woken, and in whatever order, the newest guest data is in some
\* copy that is kept (the subvolume, the trash or a snapshot).
DataKept ==
    \/ disk = "new"
    \/ "new" \in snaps
    \/ \E e \in trash : e.data = "new"

\* A dormant entry, in memory or in registry.json after any crash, names a
\* snapshot that exists, so a wake always has something to clone.
DormantHasSnapshot ==
    /\ dorm.st # "none" => dorm.data \in snaps
    /\ dormDisk.st # "none" => dormDisk.data \in snaps

\* restart_policy: :never bars the automatic path: a Reconcile pass boots such
\* a VM only on the strength of an operator's revive, however old its plan.
NeverNeedsOperator ==
    policy = "never" /\ vm.kind = "resume" /\ vm.waiter = "pass"
        => auth # "never"

\* A record that still says :running has failures left to spend, so retirement
\* is never skipped over and a retired VM is not resumed on a stale counter.
RunningHasBudget ==
    rec.intent = "running" => rec.fails < MaxFails

\* Whoever is parked in await_boot has an answer waiting or is the waiter of
\* the process that boots, whichever way that boot ends: a Reconcile pass, which
\* holds the single-flight lock, is never parked on a process that is gone.
CallersAnswered ==
    /\ pass.step = "boot" => reply["pass"] # "none" \/ vm.waiter = "pass"
    /\ oper.step = "boot" => reply["oper"] # "none" \/ vm.waiter = "oper"
    /\ wake = "boot" => reply["wake"] # "none" \/ vm.waiter = "wake"

\* A scope without record or process is eventually stopped: no guest runs on
\* with nobody to own it.
OrphanReaped ==
    (beam /\ scope = "active" /\ rec = NoRec /\ ~Registered)
        ~> (scope = "down" \/ rec # NoRec \/ Registered \/ ~beam)

\* A VM that should run and has no process is eventually running again, or
\* retired or finalized for the operator to see, unless its boots keep being
\* late (see RetriesEnd).
StrandedResolved ==
    \/ []<>(vm.st = "late")
    \/ (beam /\ rec.intent = "running" /\ ~Registered)
          ~> (vm.st = "running" \/ rec.intent # "running" \/ ~beam)

\* What reconcile.ex says of retirement: a VM that never gets to run is not
\* booted again and again for ever.
RetriesEnd ==
    []<>(vm.st = "running") \/ <>[](vm.st # "booting")

\* What reconcile.ex says of the revive token of a :never VM: one revive pays
\* for one start, so a pass never boots it on a token already spent.
ReviveOnce ==
    [][policy = "never" /\ pass.step # "boot" /\ pass'.step = "boot"
         => auth = "granted"]_vars

\* What DormantRegistry says of :restoring: a restore is in progress, so turning
\* another wake away loses nothing.
RestoringIsRestored ==
    dorm.st = "restoring" => wake # "idle"

\* What the guest-lifetime spec says of a stop: when the teardown of a stopped
\* or dormant VM completes, its scope is down.
TeardownStopsScope ==
    [][vm.st = "delete" /\ vm'.st = "none" /\ beam' => scope' = "down"]_vars

\* What vm.ex says of its own teardown: unless the operator disposed of it, a
\* VM that ran stays known to the orchestrator (a process, a record or a
\* dormant entry), so that something can bring it back.
NeverLost ==
    beam /\ promised => Registered \/ rec # NoRec \/ dorm.st # "none"
=============================================================================
