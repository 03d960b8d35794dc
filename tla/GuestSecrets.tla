---------------------------- MODULE GuestSecrets ----------------------------
(* The encrypted secrets volume of a guest (secrets.rs): create or open,     *)
(* suspend for a memory snapshot, resume, close, and the environment kept on *)
(* it.  Requests come from the vsock task and from any number of iroh tasks, *)
(* and no lock is held between the commands they run.                        *)
EXTENDS Naturals, FiniteSets

CONSTANTS
    Actors,         \* tasks that carry a request
    EnvKeys,        \* environment keys
    Entries,        \* actor -> the entry its requests set: [key, value]
    SecretMenus     \* per behaviour: each actor's requests and how many commands fail

SecretOps == {"inject", "inject_env", "set_env", "push_env", "suspend", "resume", "close"}

ASSUME EntriesTyped == Entries \in [Actors -> [key : EnvKeys, value : {"plain", "quoted"}]]
ASSUME SecretMenusTyped ==
    SecretMenus \subseteq [requests : [Actors -> SUBSET SecretOps], faults : Nat, reboots : Nat]

VARIABLES
    luks,           \* the backing file: "none", "blank", "header" (no file system) or "good"
    loops,          \* loop devices attached to it
    mapper,         \* /dev/mapper/mjolnir-secrets: "none", "active" or "suspended"
    mounted,        \* it is mounted at /secrets
    frozen,         \* the file system is frozen
    claim,          \* SECRETS_INJECTED
    env,            \* .env on the volume: key -> "none", "plain" or "quoted"
    rendered,       \* /run/mjolnir/secrets.env: its keys; NoEnv before it is written
    target,         \* mjolnir-secrets.target: "stopped", or started with secrets.env
                    \* "current" or "stale" (not what the volume's .env says)
    spilled,        \* .env was written under /secrets with nothing mounted there
    act,            \* actor -> [op, pc, buf, out]
    confirmed,      \* keys whose set_env was answered ok, and not replaced since
    crossed,        \* which of these happened: "writers" of .env met, an "unmount"
                    \* met, or failed, or could meet, a request that had found it mounted, a "wake" met
                    \* a suspend, .env was "torn", the volume left "half" made
    secretMenu

volumeVars == <<luks, loops, mapper, mounted, frozen>>
envVars    == <<env, rendered, target, spilled, confirmed>>
secretVars == <<volumeVars, envVars, claim, act, crossed, secretMenu>>

NoEnv    == [k \in EnvKeys |-> "none"]
AtRest   == [op |-> "none", pc |-> "idle", buf |-> NoEnv, out |-> "none"]
KeyInRam == mapper = "active"

\* luks_status, and is_mounted: what the commands answer, if they can be asked.
Status(asked)    == IF asked THEN mapper ELSE "none"
Mounted(asked)   == asked /\ mounted

SpendSecret(n) == secretMenu.faults >= n /\ secretMenu' = [secretMenu EXCEPT !.faults = @ - n]
Fine     == SpendSecret(0)
Failed   == SpendSecret(1)

\* A command that can be asked, or that fails.
Asked(yes) == IF yes THEN Fine ELSE Failed

GoOn(a, from, to) == act[a].pc = from /\ act' = [act EXCEPT ![a].pc = to]
Ends(a, from, out) == act[a].pc = from /\ act' = [act EXCEPT ![a].pc = "idle", ![a].out = out]

Wakers == {"inject", "inject_env", "resume"}

\* Another request is at one of these steps.
Meets(a, pcs, what) ==
    crossed' = crossed \cup (IF \E b \in Actors \ {a} : act[b].pc \in pcs THEN {what} ELSE {})
Underway(a, ops) == \E b \in Actors \ {a} : act[b].pc # "idle" /\ act[b].op \in ops

(* ---- a request arrives ---- *)

\* close, set_env and push_env over iroh ask is_injected first.  The vsock
\* request injects and then sets the entries it carries ("inject_env").  What a
\* suspend answered is out of date once the volume may be woken again.
Request(a, op) ==
    /\ act[a].pc = "idle"
    /\ op \in {"close", "set_env", "push_env"} => claim
    /\ act' = [b \in Actors |->
                 IF b = a THEN [op |-> op, pc |-> IF op = "inject_env" THEN "inject" ELSE op,
                                buf |-> NoEnv, out |-> "none"]
                 ELSE IF op \in Wakers /\ act[b].pc = "idle" THEN [act[b] EXCEPT !.out = "none"]
                 ELSE act[b]]
    /\ crossed' = crossed \cup
                   (IF \/ op = "suspend" /\ Underway(a, Wakers)
                       \/ op \in Wakers /\ Underway(a, {"suspend"}) THEN {"wake"} ELSE {})
    /\ secretMenu' = [secretMenu EXCEPT !.requests[a] = @ \ {op}]
    /\ UNCHANGED <<volumeVars, envVars, claim>>

\* What follows an inject that worked.
Injected(a, from) ==
    IF act[a].op = "inject_env" THEN GoOn(a, from, "set_env") ELSE Ends(a, from, "ok")

(* ---- inject ---- *)

\* A suspended volume is resumed; otherwise the one-shot guard is taken.
try_claim_injection(a) ==
    /\ \E asked \in BOOLEAN :
         /\ Asked(asked)
         /\ \/ Status(asked) = "suspended" /\ GoOn(a, "inject", "resume") /\ UNCHANGED claim
            \/ Status(asked) # "suspended" /\ claim /\ Ends(a, "inject", "error") /\ UNCHANGED claim
            \/ Status(asked) # "suspended" /\ ~claim /\ claim' = TRUE /\ GoOn(a, "inject", "claimed")
    /\ UNCHANGED <<volumeVars, envVars, crossed>>

\* An empty passphrase or too small a size gives the claim back.
Refused(a) ==
    /\ Failed /\ Ends(a, "claimed", "error")
    /\ claim' = FALSE
    /\ UNCHANGED <<volumeVars, envVars, crossed>>

Chosen(a) ==
    /\ Fine
    /\ \/ luks = "none" /\ GoOn(a, "claimed", "dd")
       \/ luks # "none" /\ mounted /\ GoOn(a, "claimed", "load")
       \/ luks # "none" /\ ~mounted /\ GoOn(a, "claimed", "openLoop")
    /\ UNCHANGED <<volumeVars, envVars, claim, crossed>>

\* What each command of init_secrets_volume and of open_secrets_volume does.
Command(pc) ==
    \/ pc = "dd"     /\ luks' = "blank"  /\ UNCHANGED <<loops, mapper, mounted, frozen>>
    \/ pc = "format" /\ luks' = "header" /\ UNCHANGED <<loops, mapper, mounted, frozen>>
    \/ pc = "mkfs"   /\ luks' = "good"   /\ UNCHANGED <<loops, mapper, mounted, frozen>>
    \/ pc \in {"initLoop", "openLoop"} /\ loops' = loops + 1  /\ UNCHANGED <<luks, mapper, mounted, frozen>>
    \/ pc \in {"initOpen", "open"}     /\ mapper' = "active" /\ UNCHANGED <<luks, loops, mounted, frozen>>
    \/ pc \in {"initMount", "mount"}   /\ mounted' = TRUE    /\ UNCHANGED <<luks, loops, mapper, frozen>>
    \/ pc = "dirs" /\ UNCHANGED volumeVars

Possible(pc) ==
    /\ pc \in {"initOpen", "open"} => luks \in {"header", "good"} /\ mapper = "none" /\ loops > 0
    /\ pc = "mkfs" => mapper = "active"
    /\ pc \in {"initMount", "mount"} => mapper = "active" /\ luks = "good"

NextCommand ==
    [dd |-> "initLoop", initLoop |-> "format", format |-> "initOpen", initOpen |-> "mkfs",
     mkfs |-> "initMount", initMount |-> "dirs", dirs |-> "load",
     openLoop |-> "open", open |-> "mount", mount |-> "load"]

\* umount, luksClose and losetup -d, each whatever became of the others.  A
\* frozen file system outlives its mount point and keeps the mapper; nothing can
\* be unmounted while its device is suspended.
cleanup_luks(umounts) ==
    IF umounts
    THEN /\ mounted => frozen \/ mapper = "active"
         /\ mounted' = FALSE
         /\ mapper' = IF frozen THEN mapper ELSE "none"
         /\ loops' = IF frozen \/ loops = 0 THEN loops ELSE loops - 1
         /\ UNCHANGED frozen
    ELSE mounted /\ UNCHANGED <<loops, mapper, mounted, frozen>>

init_secrets_volume(a, pc) ==
    /\ Possible(pc) /\ Fine
    /\ GoOn(a, pc, NextCommand[pc])
    /\ Command(pc)
    /\ UNCHANGED <<envVars, claim, crossed>>

\* dd and losetup return at once, and so does luksOpen of an existing volume;
\* what fails later is undone, and a volume that was being created is removed.
\* Only a command that could have worked uses up a failure.
VolumeFails(a, pc) ==
    /\ Ends(a, pc, "error")
    /\ claim' = FALSE
    /\ LET cost == IF Possible(pc) THEN 1 ELSE 0
       IN  \/ /\ pc \in {"dd", "initLoop", "openLoop", "open"}
              /\ SpendSecret(cost)
              /\ luks' \in IF pc = "dd" THEN {"none", "blank"} ELSE {luks}
              /\ crossed' = crossed \cup (IF pc \in {"dd", "initLoop"} THEN {"half"} ELSE {})
              /\ UNCHANGED <<loops, mapper, mounted, frozen>>
           \/ /\ pc \in {"format", "initOpen", "mkfs", "initMount", "dirs", "mount"}
              /\ \E ok \in BOOLEAN :
                   /\ cleanup_luks(ok) /\ SpendSecret(IF ok THEN cost ELSE cost + 1)
                   /\ IF ok THEN Meets(a, {"read", "write", "fill", "load", "target"}, "unmount")
                            ELSE crossed' = crossed \cup {"unmount"}
              /\ luks' = IF pc = "mount" THEN luks ELSE "none"
    /\ UNCHANGED envVars

(* ---- the environment ---- *)

\* parse_env_into strips the quotes around a value.
parse_env_into(file) == [k \in EnvKeys |-> IF file[k] = "quoted" THEN "plain" ELSE file[k]]

\* A path under /secrets: the volume, or the root file system under it.
Readable == ~mounted \/ (mapper = "active" /\ ~frozen)
EnvFile  == IF mounted THEN env ELSE NoEnv

\* What exec and login shells source is the file's keys, quoted afresh.
write_secrets_env == rendered' = parse_env_into(EnvFile)

load_env_vars(a) ==
    /\ Readable /\ Fine
    /\ \/ act[a].buf # NoEnv /\ Ends(a, "load", "ok")
       \/ act[a].buf = NoEnv /\ act[a].op = "push_env" /\ Ends(a, "load", "ok")
       \/ act[a].buf = NoEnv /\ act[a].op # "push_env" /\ GoOn(a, "load", "target")
    /\ write_secrets_env
    /\ confirmed' = IF act[a].op = "push_env" THEN confirmed
                    ELSE confirmed \cup {k \in EnvKeys : act[a].buf[k] # "none"}
    /\ Meets(a, {"fill"}, "writers")
    /\ UNCHANGED <<volumeVars, env, target, spilled, claim>>

\* An inject whose environment cannot be rendered keeps the volume and the
\* claim, and leaves the gated units stopped.
LoadFails(a) ==
    /\ Failed
    /\ \/ act[a].op \in {"inject", "inject_env"} /\ act[a].buf = NoEnv /\ Injected(a, "load")
       \/ (act[a].op \in {"set_env", "push_env"} \/ act[a].buf # NoEnv) /\ Ends(a, "load", "error")
    /\ UNCHANGED <<volumeVars, envVars, claim, crossed>>

\* is_mounted is asked again at the moment the gate is lifted.
activate_secrets_target(a) ==
    /\ Injected(a, "target")
    /\ \E asked \in BOOLEAN :
         /\ Asked(asked)
         /\ target' = IF ~Mounted(asked) THEN target
                      ELSE IF mounted /\ rendered = parse_env_into(env) THEN "current" ELSE "stale"
    /\ UNCHANGED <<volumeVars, env, rendered, spilled, confirmed, claim, crossed>>

\* set_env_vars and push_env_content: nothing is written unless it is mounted.
set_env_vars(a) ==
    /\ \E asked \in BOOLEAN :
         /\ Asked(asked)
         /\ \/ ~Mounted(asked) /\ \E op \in {"set_env", "push_env"} : Ends(a, op, "error")
            \/ Mounted(asked) /\ GoOn(a, "set_env", "read")
            \/ Mounted(asked) /\ GoOn(a, "push_env", "write")
    /\ Meets(a, {"dirs"}, "unmount")
    /\ UNCHANGED <<volumeVars, envVars, claim>>

\* Mutant: the entry replaces the file.
ReadNothing(a) ==
    /\ Readable /\ Fine
    /\ act[a].pc = "read"
    /\ act' = [act EXCEPT ![a].pc = "write", ![a].buf = [NoEnv EXCEPT ![Entries[a].key] = Entries[a].value]]
    /\ Meets(a, {"fill"}, "writers")
    /\ UNCHANGED <<volumeVars, envVars, claim>>

\* The whole file is read, an entry added, and the whole file written.
ReadEnv(a) ==
    /\ Readable /\ Fine
    /\ act[a].pc = "read"
    /\ act' = [act EXCEPT ![a].pc = "write", ![a].buf =
                         [parse_env_into(EnvFile) EXCEPT ![Entries[a].key] = Entries[a].value]]
    /\ Meets(a, {"fill"}, "writers")
    /\ UNCHANGED <<volumeVars, envVars, claim>>

\* fs::write truncates, then writes.
Truncate(a) ==
    /\ Readable /\ Fine
    /\ GoOn(a, "write", "fill")
    /\ IF mounted THEN env' = NoEnv ELSE UNCHANGED env
    /\ confirmed' = IF act[a].op = "push_env" THEN {} ELSE confirmed
    /\ Meets(a, {"write", "fill", "load", "target"}, "writers")
    /\ UNCHANGED <<volumeVars, rendered, target, spilled, claim>>

Fill(a) ==
    /\ Readable /\ Fine
    /\ GoOn(a, "fill", "load")
    /\ IF mounted THEN env' = act[a].buf /\ UNCHANGED spilled
                  ELSE spilled' = TRUE /\ UNCHANGED env
    /\ UNCHANGED <<volumeVars, rendered, target, confirmed, claim, crossed>>

FillFails(a) ==
    /\ Failed
    /\ Ends(a, "fill", "error")
    /\ crossed' = crossed \cup {"torn"}
    /\ UNCHANGED <<volumeVars, envVars, claim>>

(* ---- suspend, resume, close ---- *)

\* A mapper that cannot be asked about counts as inactive.
suspend(a) ==
    /\ \E asked \in BOOLEAN :
         /\ Asked(asked)
         /\ \/ Status(asked) = "none" /\ Ends(a, "suspend", "nothing")
            \/ Status(asked) = "suspended" /\ Ends(a, "suspend", "suspended")
            \/ Status(asked) = "active" /\ GoOn(a, "suspend", "freeze")
    /\ UNCHANGED <<volumeVars, envVars, claim, crossed>>

\* fsfreeze is best effort.
fsfreeze_freeze(a) ==
    /\ GoOn(a, "freeze", "wipe")
    /\ \/ Fine /\ frozen' = (frozen \/ mounted)
       \/ Failed /\ UNCHANGED frozen
    /\ UNCHANGED <<luks, loops, mapper, mounted, envVars, claim, crossed>>

luksSuspend(a) ==
    /\ Fine
    /\ \/ mapper # "none" /\ mapper' = "suspended" /\ Ends(a, "wipe", "suspended")
       \/ mapper = "none" /\ UNCHANGED mapper /\ Ends(a, "wipe", "error")
    /\ UNCHANGED <<luks, loops, mounted, frozen, envVars, claim, crossed>>

\* No cryptsetup, or it fails: then the file system stays frozen.
SuspendFails(a) ==
    /\ Failed
    /\ Ends(a, "freeze", "error") \/ Ends(a, "wipe", "error")
    /\ UNCHANGED <<volumeVars, envVars, claim, crossed>>

resume(a) ==
    /\ \E asked \in BOOLEAN :
         /\ Asked(asked)
         /\ \/ Status(asked) = "none" /\ Ends(a, "resume", "error")
            \/ Status(asked) # "none" /\ GoOn(a, "resume", IF Status(asked) = "active" THEN "unfreeze" ELSE "luksResume")
    /\ UNCHANGED <<volumeVars, envVars, claim, crossed>>

luks_resume(a) ==
    /\ \/ Fine /\ mapper = "suspended" /\ mapper' = "active" /\ GoOn(a, "luksResume", "unfreeze")
       \/ Fine /\ mapper # "suspended" /\ UNCHANGED mapper /\ Ends(a, "luksResume", "error")
       \/ Failed /\ UNCHANGED mapper /\ Ends(a, "luksResume", "error")
    /\ UNCHANGED <<luks, loops, mounted, frozen, envVars, claim, crossed>>

fsfreeze_unfreeze(a) ==
    /\ Injected(a, "unfreeze")
    /\ \/ Fine /\ frozen' = (frozen /\ ~mounted)
       \/ Failed /\ UNCHANGED frozen
    /\ UNCHANGED <<luks, loops, mapper, mounted, envVars, claim, crossed>>

\* The claim is kept.
close_secrets_volume(a) ==
    /\ Ends(a, "close", "ok")
    /\ IF mounted \/ mapper # "none"
       THEN \E ok \in BOOLEAN : Asked(ok) /\ cleanup_luks(ok)
       ELSE Fine /\ UNCHANGED <<loops, mapper, mounted, frozen>>
    /\ Meets(a, {"read", "write", "fill", "load", "target"}, "unmount")
    /\ UNCHANGED <<luks, envVars, claim>>

\* The guest restarts: the kernel's state and the agent's are gone, the files
\* of the root file system and of the volume are there.
Reboot ==
    /\ secretMenu.reboots > 0
    /\ secretMenu' = [secretMenu EXCEPT !.reboots = @ - 1]
    /\ loops' = 0 /\ mapper' = "none" /\ mounted' = FALSE /\ frozen' = FALSE
    /\ claim' = FALSE /\ rendered' = NoEnv /\ target' = "stopped"
    /\ act' = [a \in Actors |-> AtRest]
    /\ crossed' = crossed \cup (IF \E a \in Actors : act[a].pc = "fill" THEN {"torn"} ELSE {})
                           \cup (IF luks \in {"blank", "header"} THEN {"half"} ELSE {})
    /\ UNCHANGED <<luks, env, spilled, confirmed>>

SecretInit ==
    /\ luks = "none" /\ loops = 0 /\ mapper = "none" /\ mounted = FALSE /\ frozen = FALSE
    /\ claim = FALSE /\ env = NoEnv /\ rendered = NoEnv /\ target = "stopped"
    /\ spilled = FALSE /\ confirmed = {} /\ crossed = {}
    /\ act = [a \in Actors |-> AtRest]
    /\ secretMenu \in SecretMenus

SecretStep(a) ==
    \/ \E op \in secretMenu.requests[a] : Request(a, op)
    \/ try_claim_injection(a) \/ Refused(a) \/ Chosen(a)
    \/ \E pc \in DOMAIN NextCommand : init_secrets_volume(a, pc) \/ VolumeFails(a, pc)
    \/ load_env_vars(a) \/ LoadFails(a) \/ activate_secrets_target(a)
    \/ set_env_vars(a) \/ ReadEnv(a) \/ Truncate(a) \/ Fill(a) \/ FillFails(a)
    \/ suspend(a) \/ fsfreeze_freeze(a) \/ luksSuspend(a) \/ SuspendFails(a)
    \/ resume(a) \/ luks_resume(a) \/ fsfreeze_unfreeze(a)
    \/ close_secrets_volume(a)

SecretNext == Reboot \/ \E a \in Actors : SecretStep(a)

SecretSpec == SecretInit /\ [][SecretNext]_secretVars

-----------------------------------------------------------------------------
(* Properties.                                                               *)

SecretTypeOK ==
    /\ luks \in {"none", "blank", "header", "good"} /\ loops \in Nat
    /\ mapper \in {"none", "active", "suspended"}
    /\ mounted \in BOOLEAN /\ frozen \in BOOLEAN /\ claim \in BOOLEAN /\ spilled \in BOOLEAN
    /\ env \in [EnvKeys -> {"none", "plain", "quoted"}]
    /\ rendered \in [EnvKeys -> {"none", "plain"}]
    /\ target \in {"stopped", "current", "stale"}
    /\ confirmed \subseteq EnvKeys

\* is_mounted: "if we cannot prove it is mounted, callers must not write".
\* Secrets are not written to the root file system, unless it was unmounted
\* after the request that writes them had found it mounted.
PlaintextStaysOnVolume == spilled => "unmount" \in crossed

\* activate_secrets_target runs "only once the volume is genuinely mounted and the
\* env genuinely rendered": gated units start with what .env says, unless a
\* writer or a close came between.
GateOpensOnRenderedEnv ==
    target = "stale" => crossed \cap {"writers", "unmount", "torn"} # {}

\* A key whose set_env was answered ok is still in the volume's .env when no
\* request is running, whatever opens, closes, suspends and restarts happened;
\* unless two writers of .env overlapped, the write itself was cut short, or the
\* volume was unmounted under a request that had found it mounted.
SetKeysSurvive ==
    (\A a \in Actors : act[a].pc = "idle") /\ crossed \cap {"writers", "torn", "unmount"} = {}
        => \A k \in confirmed : luks = "good" /\ env[k] # "none"

\* inject "releases the claim on failure so a transient error can be retried":
\* a creation that failed leaves no unusable volume behind, unless it failed
\* before the loop device was attached or the guest restarted in the middle.
FailedCreationLeavesNothing ==
    luks \in {"blank", "header"} /\ "half" \notin crossed =>
        \E a \in Actors : act[a].pc \in {"initLoop", "format", "initOpen", "mkfs"}

\* suspend: "the only way the dm-crypt DEK stays out of @snapshots/ is for it not
\* to exist at capture time".  After suspend answered that the key is wiped it
\* is not in memory until a request that wakes the volume.
SuspendedMeansNoKey ==
    \A a \in Actors : act[a].pc = "idle" /\ act[a].out = "suspended" /\ "wake" \notin crossed
                         => ~KeyInRam

\* The volume and what stands on it: plaintext only under the mount, gated units
\* on a rendered environment, no half-made volume, no key behind a suspend
\* (set_env_vars, activate_secrets_target, inject, suspend).
VolumeSound == /\ SecretTypeOK
               /\ PlaintextStaysOnVolume
               /\ GateOpensOnRenderedEnv
               /\ FailedCreationLeavesNothing
               /\ SuspendedMeansNoKey

\* The guest's secrets as a whole: keys that were set stay set, and the volume
\* they are kept in is opened, filled and closed whole.
SecretsSound == SetKeysSurvive /\ VolumeSound
=============================================================================
