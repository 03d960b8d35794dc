--------------------------- MODULE VmStateProofs ---------------------------
(***************************************************************************)
(* What of a VM outlives its processes: the volume with its secrets in the *)
(* guest, and its record on the host.                                      *)
(*                                                                         *)
(* Proofs about GuestSecrets, for every set of tasks and keys and every    *)
(* menu of requests, failures and reboots.                                 *)
(*                                                                         *)
(* The argument: the only lock is the claim of inject, so two creations or *)
(* openings never overlap (ClaimInv); everything else relies on what a     *)
(* request saw earlier and still holds unless another request came between *)
(* in a way `crossed` records.  VolumeInv says what "it was mounted" still *)
(* means at a later step, EnvInv what a set has read, has truncated and is *)
(* about to write, WakeInv that nobody wakes the volume beside a suspend.  *)
(* Each action is shown to keep them through the one or two of them that   *)
(* it can disturb.                                                         *)
(***************************************************************************)
EXTENDS GuestSecrets, StateStore, TLAPS

\* The steps of init_volume and of open_volume, and what a set may hold.
Creating == {"dd", "initLoop", "format", "initOpen", "mkfs", "initMount", "dirs"}
Opening  == {"openLoop", "open", "mount"}
Bufs     == [EnvKeys -> {"none", "plain", "quoted"}]

\* Which request a step belongs to, and what it holds.
Fits(r) ==
    /\ r.pc \in {"inject", "claimed"} \cup Creating \cup Opening =>
          r.op \in {"inject", "inject_env"} /\ r.buf = NoEnv
    /\ r.pc = "target" => r.op \in {"inject", "inject_env"}
    /\ r.pc \in {"resume", "luksResume", "unfreeze"} => r.op \in Wakers
    /\ r.pc \in {"set_env", "read"} => r.op \in {"set_env", "inject_env"}
    /\ r.pc = "push_env" => r.op = "push_env"
    /\ r.pc \in {"write", "fill"} => r.op = "push_env" \/ (r.op \in {"set_env", "inject_env"} /\ r.buf # NoEnv)
    /\ r.pc = "load" => \/ r.op = "push_env"
                        \/ r.op \in {"set_env", "inject_env"} /\ r.buf # NoEnv
                        \/ r.op \in {"inject", "inject_env"} /\ r.buf = NoEnv
    /\ r.pc \in {"suspend", "freeze", "wipe"} => r.op = "suspend"

\* Every request is a record at one of its own steps.
SecretShapes ==
    /\ SecretTypeOK
    /\ secretMenu \in [requests : [Actors -> SUBSET SecretOps], faults : Nat, reboots : Nat]
    /\ DOMAIN act = Actors
    /\ \A a \in Actors :
          /\ act[a] = [op |-> act[a].op, pc |-> act[a].pc, buf |-> act[a].buf, out |-> act[a].out]
          /\ act[a].buf \in Bufs
          /\ Fits(act[a])

\* An inject that holds the claim.
Claims(r) ==
    \/ r.pc \in {"claimed", "target"} \cup Creating \cup Opening
    \/ r.pc = "load" /\ r.buf = NoEnv /\ r.op # "push_env"

\* SECRETS_INJECTED is set while an inject runs, and one at most runs.
ClaimInv ==
    /\ \A a \in Actors : Claims(act[a]) => claim
    /\ \A a, b \in Actors : Claims(act[a]) /\ Claims(act[b]) => a = b

\* A suspend that runs or that has answered; a request that may wake the volume.
Suspending(r) == (r.pc # "idle" /\ r.op = "suspend") \/ (r.pc = "idle" /\ r.out = "suspended")
Waking(r)     == r.pc # "idle" /\ r.op \in Wakers

\* Unless a wake met a suspend: none is under way beside it, and the key is out of
\* memory once it has answered.
WakeInv ==
    "wake" \notin crossed =>
        /\ \A a, b \in Actors : Suspending(act[a]) => ~Waking(act[b])
        /\ \A a \in Actors : act[a].pc = "idle" /\ act[a].out = "suspended" => mapper # "active"

\* A writer of .env that has written and renders it, and one that has found it mounted.
Renders(r) == r.pc = "load" /\ ~Claims(r)
Under(r)   == r.pc \in {"read", "write", "fill"} \/ Renders(r)

\* Unless an unmount met a request: whoever found the volume mounted still has it
\* mounted, what is mounted has a file system, and a creation destroys nothing confirmed.
VolumeInv ==
    "unmount" \notin crossed =>
        /\ confirmed # {} => luks = "good"
        /\ mounted => luks = "good"
        /\ \A a \in Actors :
              /\ Under(act[a]) => mounted
              /\ act[a].pc \in Creating \ {"dirs"} => ~mounted
              /\ act[a].pc \in Creating => confirmed = {}
              /\ act[a].pc = "dirs" => \A b \in Actors : ~Under(act[b])

\* A set that has read .env and not yet truncated it.
Read(r) == r.pc = "write" /\ r.op # "push_env"
Clean   == crossed \cap {"writers", "torn", "unmount"} = {}

\* Unless writers met, one was torn or the volume went: a set holds every key of the
\* file it is about to truncate, nobody else is beside a writer that has truncated, and
\* what the gate is about to start on is what .env says.
EnvInv ==
    Clean =>
        /\ \A a \in Actors : Read(act[a]) => \A k \in EnvKeys : env[k] # "none" => act[a].buf[k] # "none"
        /\ \A a \in Actors : Renders(act[a]) => \A k \in EnvKeys : act[a].buf[k] # "none" => env[k] # "none"
        /\ \A a \in Actors : act[a].pc = "target" /\ mounted => rendered = parse_env_into(env)
        /\ \A a \in Actors : act[a].pc = "fill" =>
              /\ \A k \in confirmed : act[a].buf[k] # "none"
              /\ \A b \in Actors \ {a} :
                    act[b].pc \notin {"fill", "target"} /\ ~Read(act[b]) /\ ~Renders(act[b])
        /\ (\A a \in Actors : act[a].pc # "fill") => \A k \in confirmed : env[k] # "none"

\* The inductive invariant.
SecretInv ==
    /\ SecretShapes /\ ClaimInv /\ WakeInv /\ VolumeInv /\ EnvInv
    /\ PlaintextStaysOnVolume /\ GateOpensOnRenderedEnv /\ FailedCreationLeavesNothing

----------------------------------------------------------------------------
(* What a step of one request changes of it.                                 *)

\* A request is the record of its four fields.
Fields(r) == r = [op |-> r.op, pc |-> r.pc, buf |-> r.buf, out |-> r.out]

\* The request of a moves on, as what it was.
Step(a) ==
    /\ DOMAIN act' = Actors
    /\ \A b \in Actors : b # a => act'[b] = act[b]
    /\ Fields(act'[a]) /\ act'[a].op = act[a].op
    /\ secretMenu' \in [requests : [Actors -> SUBSET SecretOps], faults : Nat, reboots : Nat]
    /\ crossed \subseteq crossed'

\* Failures are spent from the menu.
LEMMA SpendingTyped ==
  ASSUME SecretShapes, NEW n \in Nat, SpendSecret(n)
  PROVE  secretMenu' \in [requests : [Actors -> SUBSET SecretOps], faults : Nat, reboots : Nat]
<1> DEFINE was == secretMenu
<1>1. was \in [requests : [Actors -> SUBSET SecretOps], faults : Nat, reboots : Nat] /\ was.faults - n \in Nat
  BY DEF SecretShapes, SpendSecret
<1>2. secretMenu' = [was EXCEPT !.faults = was.faults - n]
  BY Zenon DEF SpendSecret
<1> HIDE DEF was
<1> QED
  BY Zenon, <1>1, <1>2

\* Asking and failing spend what there is.
LEMMA AskingTyped ==
  ASSUME SecretShapes, Fine \/ Failed \/ (\E yes \in BOOLEAN : Asked(yes))
  PROVE  secretMenu' \in [requests : [Actors -> SUBSET SecretOps], faults : Nat, reboots : Nat]
  BY Zenon, SpendingTyped DEF Fine, Failed, Asked

\* A request goes on to its next step.
LEMMA GoesOn ==
  ASSUME SecretShapes, NEW a \in Actors, NEW from, NEW to, GoOn(a, from, to)
  PROVE  /\ DOMAIN act' = Actors /\ \A b \in Actors : b # a => act'[b] = act[b]
         /\ Fields(act'[a]) /\ act'[a].op = act[a].op /\ act'[a].buf = act[a].buf
         /\ act[a].pc = from /\ act'[a].pc = to
<1> DEFINE was == act[a]
<1>1. Fields(was)
  BY Zenon DEF SecretShapes, Fields
<1>2. DOMAIN act' = Actors /\ \A b \in Actors : b # a => act'[b] = act[b]
  BY Zenon DEF SecretShapes, GoOn
<1>3. act'[a] = [was EXCEPT !.pc = to] /\ was.pc = from
  BY Zenon DEF SecretShapes, GoOn
<1> HIDE DEF was
<1>4. [was EXCEPT !.pc = to] = [op |-> was.op, pc |-> to, buf |-> was.buf, out |-> was.out]
  BY <1>1 DEF Fields
<1>5. act'[a] = [op |-> was.op, pc |-> to, buf |-> was.buf, out |-> was.out]
  BY Zenon, <1>3, <1>4
<1> QED
  BY Zenon, <1>2, <1>3, <1>5 DEF Fields, was

\* A request is answered.
LEMMA IsAnswered ==
  ASSUME SecretShapes, NEW a \in Actors, NEW from, NEW out, Ends(a, from, out)
  PROVE  /\ DOMAIN act' = Actors /\ \A b \in Actors : b # a => act'[b] = act[b]
         /\ Fields(act'[a]) /\ act'[a].op = act[a].op /\ act'[a].buf = act[a].buf
         /\ act[a].pc = from /\ act'[a].pc = "idle" /\ act'[a].out = out
<1> DEFINE was == act[a]
<1>1. Fields(was)
  BY Zenon DEF SecretShapes, Fields
<1>2. DOMAIN act' = Actors /\ \A b \in Actors : b # a => act'[b] = act[b]
  BY Zenon DEF SecretShapes, Ends
<1>3. act'[a] = [was EXCEPT !.pc = "idle", !.out = out] /\ was.pc = from
  BY Zenon DEF SecretShapes, Ends
<1> HIDE DEF was
<1>5. act'[a] = [op |-> was.op, pc |-> "idle", buf |-> was.buf, out |-> out]
  BY <1>1, <1>3, Zenon DEF Fields
<1> QED
  BY <1>2, <1>3, <1>5, Zenon DEF Fields, was

\* An inject that worked is answered, or sets the entries it carries.
LEMMA IsInjected ==
  ASSUME SecretShapes, NEW a \in Actors, NEW from, Injected(a, from)
  PROVE  /\ DOMAIN act' = Actors /\ \A b \in Actors : b # a => act'[b] = act[b]
         /\ Fields(act'[a]) /\ act'[a].op = act[a].op /\ act'[a].buf = act[a].buf
         /\ act[a].pc = from
         /\ \/ act[a].op = "inject_env" /\ act'[a].pc = "set_env"
            \/ act'[a].pc = "idle" /\ act'[a].out = "ok"
<1>1. CASE act[a].op = "inject_env"
  BY <1>1, GoesOn DEF Injected
<1>2. CASE act[a].op # "inject_env"
  BY <1>2, IsAnswered DEF Injected
<1> QED
  BY Zenon, <1>1, <1>2

----------------------------------------------------------------------------
(* The parts of the invariant over a step of one request.                    *)

\* The shapes, where the file's entries and the volume keep theirs.
LEMMA ShapesStep ==
  ASSUME SecretShapes, NEW a \in Actors, Step(a), SecretTypeOK', act'[a].buf \in Bufs, Fits(act'[a])
  PROVE  SecretShapes'
<1>1. ASSUME NEW b \in Actors
      PROVE  /\ act'[b] = [op |-> act'[b].op, pc |-> act'[b].pc, buf |-> act'[b].buf, out |-> act'[b].out]
             /\ act'[b].buf \in Bufs
             /\ Fits(act'[b])
  BY Zenon DEF SecretShapes, Step, Fields
<1>2. \A b \in Actors : Fits(act[b])' <=> Fits(act'[b])
  BY Zenon DEF Fits, NoEnv
<1> QED
  BY Zenon, <1>1, <1>2 DEF SecretShapes, Step, Bufs

\* The claim: it is given back by its holder, and taken when nobody has it.
LEMMA ClaimStep ==
  ASSUME ClaimInv, NEW a \in Actors, Step(a),
         Claims(act'[a]) => claim' /\ (Claims(act[a]) \/ ~claim),
         claim /\ ~claim' => Claims(act[a])
  PROVE  ClaimInv'
<1>1. \A b \in Actors : Claims(act[b])' <=> Claims(act'[b])
  BY Zenon DEF Claims, NoEnv
<1>2. \A b \in Actors : b # a => act'[b] = act[b]
  BY Zenon DEF Step
<1>3. ASSUME NEW b \in Actors, Claims(act'[b]) PROVE claim'
  BY Zenon, <1>2, <1>3 DEF ClaimInv
<1>4. ASSUME NEW b \in Actors, NEW c \in Actors, Claims(act'[b]), Claims(act'[c]) PROVE b = c
  BY Zenon, <1>2, <1>4 DEF ClaimInv
<1> QED
  BY Zenon, <1>1, <1>3, <1>4 DEF ClaimInv

\* Suspends and wakers: the key comes back only by a waker.
LEMMA WakeStep ==
  ASSUME WakeInv, NEW a \in Actors, Step(a), act[a].pc # "idle",
         mapper' = "active" => mapper = "active" \/ act[a].op \in Wakers,
         act'[a].pc = "idle" /\ act'[a].out = "suspended" => act[a].op = "suspend" /\ mapper' # "active"
  PROVE  WakeInv'
<1> SUFFICES ASSUME "wake" \notin crossed'
             PROVE  /\ \A b, c \in Actors : Suspending(act'[b]) => ~Waking(act'[c])
                    /\ \A b \in Actors : act'[b].pc = "idle" /\ act'[b].out = "suspended" => mapper' # "active"
  BY Zenon DEF WakeInv, Suspending, Waking
<1>1. /\ \A b, c \in Actors : Suspending(act[b]) => ~Waking(act[c])
      /\ \A b \in Actors : act[b].pc = "idle" /\ act[b].out = "suspended" => mapper # "active"
  BY Zenon DEF WakeInv, Step
<1>2. \A b \in Actors : b # a => act'[b] = act[b]
  BY Zenon DEF Step
<1>3. (Suspending(act'[a]) => Suspending(act[a])) /\ (Waking(act'[a]) => Waking(act[a]))
  BY Zenon DEF Suspending, Waking, Step
<1>4. \A b, c \in Actors : Suspending(act'[b]) => ~Waking(act'[c])
  BY Zenon, <1>1, <1>2, <1>3
<1>5. ASSUME NEW b \in Actors, act'[b].pc = "idle", act'[b].out = "suspended" PROVE mapper' # "active"
  <2>1. CASE b = a
    BY Zenon, <1>5, <2>1
  <2>2. CASE b # a
    <3>1. Suspending(act[b]) /\ mapper # "active"
      BY Zenon, <1>1, <1>2, <1>5, <2>2 DEF Suspending
    <3>2. ~Waking(act[a])
      BY Zenon, <1>1, <3>1
    <3> QED
      BY Zenon, <3>1, <3>2 DEF Waking
  <2> QED
    BY Zenon, <2>1, <2>2
<1> QED
  BY Zenon, <1>4, <1>5

\* The steps at which the backing file has no file system yet.
Making == {"initLoop", "format", "initOpen", "mkfs"}

\* A volume in the making is some request's.
LEMMA MakingStep ==
  ASSUME FailedCreationLeavesNothing, NEW a \in Actors, Step(a),
         luks' \in {"blank", "header"} =>
            \/ "half" \in crossed' \/ act'[a].pc \in Making
            \/ luks \in {"blank", "header"} /\ act[a].pc \notin Making
  PROVE  FailedCreationLeavesNothing'
<1> SUFFICES ASSUME luks' \in {"blank", "header"}, "half" \notin crossed'
             PROVE  \E b \in Actors : act'[b].pc \in Making
  BY Zenon DEF FailedCreationLeavesNothing, Making
<1>1. CASE act'[a].pc \in Making
  BY Zenon, <1>1
<1>2. CASE luks \in {"blank", "header"} /\ act[a].pc \notin Making
  <2>1. PICK b \in Actors : act[b].pc \in Making
    BY Zenon, <1>2 DEF FailedCreationLeavesNothing, Making, Step
  <2> QED
    BY Zenon, <1>2, <2>1 DEF Step
<1> QED
  BY Zenon, <1>1, <1>2

----------------------------------------------------------------------------
(* The volume under the requests that have found it mounted.                 *)

\* Neither the backing file nor the mount changes.
LEMMA StaysStep ==
  ASSUME VolumeInv, NEW a \in Actors, Step(a), UNCHANGED <<luks, mounted>>,
         Under(act'[a]) =>
            Under(act[a]) \/ (mounted /\ ("unmount" \notin crossed' => \A b \in Actors \ {a} : act[b].pc # "dirs")),
         act'[a].pc \in Creating =>
            act'[a].pc # "dirs" /\ (luks = "none" \/ act[a].pc \in Creating \ {"dirs"}),
         confirmed' \subseteq confirmed \/ Under(act[a])
  PROVE  VolumeInv'
<1> SUFFICES ASSUME "unmount" \notin crossed' PROVE VolumeInv'
  BY Zenon DEF VolumeInv
<1>1. "unmount" \notin crossed /\ \A b \in Actors : b # a => act'[b] = act[b]
  BY Zenon DEF Step
<1>2. (confirmed # {} => luks = "good") /\ (mounted => luks = "good")
  BY Zenon, <1>1 DEF VolumeInv
<1>3. \A b \in Actors : /\ Under(act[b]) => mounted
                        /\ act[b].pc \in Creating \ {"dirs"} => ~mounted
                        /\ act[b].pc \in Creating => confirmed = {}
                        /\ act[b].pc = "dirs" => \A c \in Actors : ~Under(act[c])
  BY Zenon, <1>1 DEF VolumeInv
<1>4. confirmed' # {} => luks = "good"
  BY Zenon, <1>2, <1>3
<1>5. ASSUME NEW b \in Actors, Under(act'[b]) PROVE mounted
  BY Zenon, <1>1, <1>3, <1>5
<1>6. ASSUME NEW b \in Actors, act'[b].pc \in Creating \ {"dirs"} PROVE ~mounted
  BY Zenon, <1>1, <1>2, <1>3, <1>6
<1>7. ASSUME NEW b \in Actors, act'[b].pc \in Creating PROVE confirmed' = {}
  <2>1. confirmed = {}
    BY Zenon, <1>1, <1>2, <1>3, <1>7
  <2>2. CASE confirmed' \subseteq confirmed
    BY Zenon, <2>1, <2>2
  <2>3. CASE Under(act[a])
    <3>1. mounted /\ act[a].pc \notin Creating /\ act[b].pc \notin Creating
      BY Zenon, <1>3, <2>3 DEF Creating
    <3> QED
      BY Zenon, <1>1, <1>2, <1>7, <3>1
  <2> QED
    BY Zenon, <2>2, <2>3
<1>8. ASSUME NEW b \in Actors, NEW c \in Actors, act'[b].pc = "dirs" PROVE ~Under(act'[c])
  <2>1. b # a /\ act[b].pc = "dirs"
    BY <1>1, <1>8 DEF Creating
  <2> QED
    BY Zenon, <1>1, <1>3, <1>8, <2>1
<1>9. \A b \in Actors : Under(act[b])' <=> Under(act'[b])
  BY Zenon DEF Under, Renders, Claims, NoEnv
<1> QED
  BY Zenon, <1>2, <1>4, <1>5, <1>6, <1>7, <1>8, <1>9 DEF VolumeInv

\* A command of the creation, before the mount.
LEMMA CreateStep ==
  ASSUME VolumeInv, NEW a \in Actors, Step(a), UNCHANGED <<mounted, confirmed>>,
         act[a].pc \in Creating \ {"dirs"}, act'[a].pc \in Creating \ {"dirs"}
  PROVE  VolumeInv'
<1> SUFFICES ASSUME "unmount" \notin crossed' PROVE VolumeInv'
  BY Zenon DEF VolumeInv
<1>1. "unmount" \notin crossed /\ \A b \in Actors : b # a => act'[b] = act[b]
  BY Zenon DEF Step
<1>2. ~mounted /\ confirmed = {}
  BY Zenon, <1>1 DEF VolumeInv
<1>3. \A b \in Actors : ~Under(act[b])
  BY Zenon, <1>1, <1>2 DEF VolumeInv
<1>4. ~Under(act'[a])
  BY Zenon DEF Under, Renders, Creating
<1>5. \A b \in Actors : ~Under(act'[b])
  BY Zenon, <1>1, <1>3, <1>4
<1>6. \A b \in Actors : Under(act[b])' <=> Under(act'[b])
  BY Zenon DEF Under, Renders, Claims, NoEnv
<1> QED
  BY Zenon, <1>2, <1>5, <1>6 DEF VolumeInv

\* The volume is mounted, by the one request that has the claim.
LEMMA MountStep ==
  ASSUME VolumeInv, ClaimInv, NEW a \in Actors, Step(a), UNCHANGED <<luks, confirmed>>,
         mounted' = TRUE, luks = "good", Claims(act[a]), Claims(act'[a]),
         act'[a].pc \notin Creating \ {"dirs"},
         act'[a].pc = "dirs" => act[a].pc \in Creating \ {"dirs"}
  PROVE  VolumeInv'
<1> SUFFICES ASSUME "unmount" \notin crossed' PROVE VolumeInv'
  BY Zenon DEF VolumeInv
<1>1. "unmount" \notin crossed /\ \A b \in Actors : b # a => act'[b] = act[b]
  BY Zenon DEF Step
<1>2. \A b \in Actors : act'[b].pc \in Creating => b = a
  BY Zenon, <1>1 DEF ClaimInv, Claims
<1>3. ~Under(act'[a])
  BY Zenon DEF Under, Renders, Claims, Creating, Opening
<1>4. ASSUME act'[a].pc = "dirs" PROVE confirmed = {} /\ \A c \in Actors : ~Under(act'[c])
  <2>1. confirmed = {} /\ ~mounted
    BY Zenon, <1>1, <1>4 DEF VolumeInv
  <2> QED
    BY Zenon, <1>1, <1>3, <2>1 DEF VolumeInv
<1>5. \A b \in Actors : Under(act[b])' <=> Under(act'[b])
  BY Zenon DEF Under, Renders, Claims, NoEnv
<1>6. ASSUME NEW b \in Actors, act'[b].pc \in Creating
      PROVE  act'[b].pc = "dirs" /\ confirmed = {} /\ \A c \in Actors : ~Under(act'[c])
  BY Zenon, <1>2, <1>4, <1>6
<1> QED
  BY Zenon, <1>5, <1>6 DEF VolumeInv, Creating

\* The volume is unmounted, and whoever had found it mounted is known.
LEMMA DownStep ==
  ASSUME VolumeInv, NEW a \in Actors, Step(a), act'[a].pc = "idle", UNCHANGED confirmed,
         "unmount" \notin crossed' => ~mounted' /\ \A b \in Actors \ {a} : ~Under(act[b]),
         luks' = luks \/ act[a].pc \in Creating
  PROVE  VolumeInv'
<1> SUFFICES ASSUME "unmount" \notin crossed' PROVE VolumeInv'
  BY Zenon DEF VolumeInv
<1>1. "unmount" \notin crossed /\ \A b \in Actors : b # a => act'[b] = act[b]
  BY Zenon DEF Step
<1>2. \A b \in Actors : ~Under(act'[b])
  BY Zenon, <1>1 DEF Under, Renders
<1>3. confirmed # {} => luks' = "good"
  BY Zenon, <1>1 DEF VolumeInv
<1>4. ASSUME NEW b \in Actors, act'[b].pc \in Creating PROVE confirmed = {}
  BY Zenon, <1>1, <1>4 DEF VolumeInv, Creating
<1>5. \A b \in Actors : Under(act[b])' <=> Under(act'[b])
  BY Zenon DEF Under, Renders, Claims, NoEnv
<1> QED
  BY Zenon, <1>2, <1>3, <1>4, <1>5 DEF VolumeInv

----------------------------------------------------------------------------
(* The environment file.                                                     *)

\* EnvInv, of the requests as they are after a step.
LEMMA EnvInvAfter ==
  ASSUME Clean' =>
           /\ \A b \in Actors : Read(act'[b]) => \A k \in EnvKeys : env'[k] # "none" => act'[b].buf[k] # "none"
           /\ \A b \in Actors : Renders(act'[b]) => \A k \in EnvKeys : act'[b].buf[k] # "none" => env'[k] # "none"
           /\ \A b \in Actors : act'[b].pc = "target" /\ mounted' => rendered' = parse_env_into(env')
           /\ \A b \in Actors : act'[b].pc = "fill" =>
                 /\ \A k \in confirmed' : act'[b].buf[k] # "none"
                 /\ \A c \in Actors \ {b} :
                       act'[c].pc \notin {"fill", "target"} /\ ~Read(act'[c]) /\ ~Renders(act'[c])
           /\ (\A b \in Actors : act'[b].pc # "fill") => \A k \in confirmed' : env'[k] # "none"
  PROVE  EnvInv'
<1>1. \A b \in Actors : (Read(act[b])' <=> Read(act'[b])) /\ (Renders(act[b])' <=> Renders(act'[b]))
  BY Zenon DEF Read, Renders, Claims, NoEnv
<1>2. parse_env_into(env)' = parse_env_into(env')
  BY Zenon DEF parse_env_into
<1> QED
  BY Zenon, <1>1, <1>2 DEF EnvInv

\* A step that has nothing to do with the file.
LEMMA AsideStep ==
  ASSUME EnvInv, NEW a \in Actors, Step(a), UNCHANGED <<env, rendered, confirmed>>,
         mounted' => mounted \/ (\A b \in Actors : act'[b].pc # "target"),
         act[a].pc # "fill", act'[a].pc \notin {"fill", "target"}, ~Read(act'[a]), ~Renders(act'[a])
  PROVE  EnvInv'
<1> SUFFICES ASSUME Clean' PROVE EnvInv'
  BY Zenon DEF EnvInv
<1>1. Clean /\ \A b \in Actors : b # a => act'[b] = act[b]
  BY Zenon DEF Step, Clean
<1>2. \A b \in Actors : act'[b].pc = "fill" <=> act[b].pc = "fill"
  BY Zenon, <1>1
<1> QED
  BY <1>1, <1>2, EnvInvAfter DEF EnvInv

----------------------------------------------------------------------------
(* The steps.                                                                *)

\* A step that changes neither the file, nor what is made of it, nor the mount.
LEMMA QuietStep ==
  ASSUME SecretInv, NEW a \in Actors, Step(a), act[a].pc # "idle", act'[a].buf = act[a].buf, Fits(act'[a]),
         UNCHANGED <<luks, mounted, env, rendered, spilled, confirmed>>,
         loops' \in Nat, mapper' \in {"none", "active", "suspended"}, frozen' \in BOOLEAN, claim' \in BOOLEAN,
         target' = target \/ target' = "current" \/ (target' = "stale" /\ ~Clean),
         Claims(act'[a]) => claim' /\ (Claims(act[a]) \/ ~claim),
         claim /\ ~claim' => Claims(act[a]),
         mapper' = "active" => mapper = "active" \/ act[a].op \in Wakers,
         act'[a].pc = "idle" /\ act'[a].out = "suspended" => act[a].op = "suspend" /\ mapper' # "active",
         act[a].pc \in Making => act'[a].pc \in Making \/ "half" \in crossed',
         Under(act'[a]) =>
            mounted /\ ("unmount" \notin crossed' => \A b \in Actors \ {a} : act[b].pc # "dirs"),
         act'[a].pc \in Creating =>
            act'[a].pc # "dirs" /\ (luks = "none" \/ act[a].pc \in Creating \ {"dirs"}),
         act[a].pc # "fill", act'[a].pc \notin {"fill", "target"}, ~Read(act'[a]), ~Renders(act'[a])
  PROVE  SecretInv'
<1>1. SecretTypeOK'
  BY Zenon DEF SecretInv, SecretShapes, SecretTypeOK
<1>2. SecretShapes'
  BY Zenon, <1>1, ShapesStep DEF SecretInv, SecretShapes
<1>3. ClaimInv'
  BY Zenon, ClaimStep DEF SecretInv
<1>4. WakeInv'
  BY Zenon, WakeStep DEF SecretInv
<1>5. VolumeInv'
  BY Zenon, StaysStep DEF SecretInv
<1>6. EnvInv'
  BY Zenon, AsideStep DEF SecretInv
<1>7. PlaintextStaysOnVolume'
  BY Zenon DEF SecretInv, PlaintextStaysOnVolume, Step
<1>8. GateOpensOnRenderedEnv'
  BY Zenon DEF SecretInv, GateOpensOnRenderedEnv, Step, Clean
<1>9. FailedCreationLeavesNothing'
  BY Zenon, MakingStep DEF SecretInv
<1> QED
  BY Zenon, <1>2, <1>3, <1>4, <1>5, <1>6, <1>7, <1>8, <1>9 DEF SecretInv

\* The steps whose place in the protocol nothing else depends on.
Plain == {"inject", "resume", "luksResume", "unfreeze", "set_env", "push_env", "suspend", "freeze", "wipe"}

\* A plain step to a plain step, or to an answer.
LEMMA PlainStep ==
  ASSUME SecretInv, NEW a \in Actors, Step(a), act[a].pc \in Plain, act'[a].pc \in Plain \cup {"idle"},
         act'[a].buf = act[a].buf, Fits(act'[a]),
         UNCHANGED <<luks, loops, mounted, envVars, claim>>,
         mapper' \in {"none", "active", "suspended"}, frozen' \in BOOLEAN,
         mapper' = "active" => mapper = "active" \/ act[a].op \in Wakers,
         act'[a].pc = "idle" /\ act'[a].out = "suspended" => act[a].op = "suspend" /\ mapper' # "active"
  PROVE  SecretInv'
<1>1. /\ ~Claims(act'[a]) /\ ~Under(act'[a]) /\ ~Read(act'[a]) /\ ~Renders(act'[a])
      /\ act[a].pc \notin Making \cup {"idle", "fill"} /\ act'[a].pc \notin Creating \cup {"fill", "target"}
  BY Zenon DEF Plain, Claims, Under, Read, Renders, Making, Creating, Opening
<1>2. loops' \in Nat /\ claim' \in BOOLEAN /\ target' = target
  BY Zenon DEF SecretInv, SecretShapes, SecretTypeOK, envVars
<1> QED
  BY Zenon, <1>1, <1>2, QuietStep DEF envVars

\* Suspending: the volume is frozen and the key wiped, or it is left alone.
LEMMA SuspendStep ==
  ASSUME SecretInv, NEW a \in Actors, suspend(a) \/ fsfreeze_freeze(a) \/ luksSuspend(a) \/ SuspendFails(a)
  PROVE  SecretInv'
<1> USE DEF SecretInv
<1>1. SecretShapes /\ SecretTypeOK /\ Fits(act[a]) /\ act[a].buf = act[a].buf
  BY Zenon DEF SecretShapes
<1>2. CASE suspend(a)
  <2>1. /\ Step(a) /\ act[a].pc = "suspend" /\ act'[a].pc \in {"idle", "freeze"} /\ act'[a].buf = act[a].buf
        /\ act'[a].pc = "idle" /\ act'[a].out = "suspended" => mapper = "suspended"
    BY <1>1, <1>2, GoesOn, IsAnswered, AskingTyped DEF suspend, Step, Status
  <2>2. Fits(act'[a]) /\ act[a].op = "suspend"
    BY Zenon, <1>1, <2>1 DEF Fits, Step, Creating, Opening
  <2> QED
    BY Zenon, <1>1, <1>2, <2>1, <2>2, PlainStep DEF suspend, volumeVars, Plain, SecretTypeOK
<1>3. CASE fsfreeze_freeze(a)
  <2>1. Step(a) /\ act[a].pc = "freeze" /\ act'[a].pc = "wipe" /\ act'[a].buf = act[a].buf
    BY Zenon, <1>1, <1>3, GoesOn, AskingTyped DEF fsfreeze_freeze, Step
  <2>2. Fits(act'[a]) /\ frozen' \in BOOLEAN
    BY Zenon, <1>1, <1>3, <2>1 DEF Fits, Step, Creating, Opening, fsfreeze_freeze, SecretTypeOK
  <2> QED
    BY Zenon, <1>1, <1>3, <2>1, <2>2, PlainStep DEF fsfreeze_freeze, Plain, SecretTypeOK
<1>4. CASE luksSuspend(a)
  <2>1. /\ Step(a) /\ act[a].pc = "wipe" /\ act'[a].pc = "idle" /\ act'[a].buf = act[a].buf
        /\ mapper' = "suspended" \/ (mapper' = mapper /\ act'[a].out = "error")
    BY <1>1, <1>4, IsAnswered, AskingTyped, Zenon DEF luksSuspend, Step
  <2>2. Fits(act'[a]) /\ act[a].op = "suspend"
    BY Zenon, <1>1, <2>1 DEF Fits, Step, Creating, Opening
  <2> QED
    BY <1>1, <1>4, <2>1, <2>2, PlainStep, Zenon DEF luksSuspend, Plain, SecretTypeOK
<1>5. CASE SuspendFails(a)
  <2>1. /\ Step(a) /\ act[a].pc \in {"freeze", "wipe"} /\ act'[a].pc = "idle" /\ act'[a].buf = act[a].buf
        /\ act'[a].out = "error"
    BY <1>1, <1>5, IsAnswered, AskingTyped, Zenon DEF SuspendFails, Step
  <2>2. Fits(act'[a])
    BY Zenon, <1>1, <2>1 DEF Fits, Creating, Opening
  <2> QED
    BY <1>1, <1>5, <2>1, <2>2, PlainStep, Zenon DEF SuspendFails, volumeVars, Plain, SecretTypeOK
<1> QED
  BY Zenon, <1>2, <1>3, <1>4, <1>5

\* Resuming: the key is put back, by a request that wakes the volume.
LEMMA ResumeStep ==
  ASSUME SecretInv, NEW a \in Actors, resume(a) \/ luks_resume(a) \/ fsfreeze_unfreeze(a)
  PROVE  SecretInv'
<1> USE DEF SecretInv
<1>1. SecretShapes /\ SecretTypeOK /\ Fits(act[a])
  BY Zenon DEF SecretShapes
<1>2. CASE resume(a)
  <2>1. /\ Step(a) /\ act[a].pc = "resume" /\ act'[a].pc \in {"idle", "luksResume", "unfreeze"}
        /\ act'[a].buf = act[a].buf /\ (act'[a].pc = "idle" => act'[a].out = "error")
    BY <1>1, <1>2, GoesOn, IsAnswered, AskingTyped, SMTT(40) DEF resume, Step
  <2>2. Fits(act'[a])
    BY Zenon, <1>1, <2>1 DEF Fits, Step, Creating, Opening
  <2> QED
    BY Zenon, <1>1, <1>2, <2>1, <2>2, PlainStep DEF resume, volumeVars, Plain, SecretTypeOK
<1>3. CASE luks_resume(a)
  <2>1. /\ Step(a) /\ act[a].pc = "luksResume" /\ act'[a].pc \in {"idle", "unfreeze"}
        /\ act'[a].buf = act[a].buf /\ (act'[a].pc = "idle" => act'[a].out = "error")
        /\ mapper' \in {mapper, "active"}
    BY <1>1, <1>3, GoesOn, IsAnswered, AskingTyped, SMTT(40) DEF luks_resume, Step
  <2>2. Fits(act'[a]) /\ act[a].op \in Wakers
    BY Zenon, <1>1, <2>1 DEF Fits, Step, Creating, Opening
  <2> QED
    BY Zenon, <1>1, <1>3, <2>1, <2>2, PlainStep DEF luks_resume, Plain, SecretTypeOK
<1>4. CASE fsfreeze_unfreeze(a)
  <2>1. /\ Step(a) /\ act[a].pc = "unfreeze" /\ act'[a].buf = act[a].buf
        /\ \/ act'[a].pc = "set_env" /\ act[a].op = "inject_env"
           \/ act'[a].pc = "idle" /\ act'[a].out = "ok"
    BY <1>1, <1>4, IsInjected, AskingTyped, Zenon DEF fsfreeze_unfreeze, Step
  <2>2. Fits(act'[a]) /\ frozen' \in BOOLEAN
    BY <1>1, <1>4, <2>1, Zenon DEF Fits, Step, Creating, Opening, fsfreeze_unfreeze, SecretTypeOK
  <2> QED
    BY Zenon, <1>1, <1>4, <2>1, <2>2, PlainStep DEF fsfreeze_unfreeze, Plain, SecretTypeOK
<1> QED
  BY Zenon, <1>2, <1>3, <1>4

\* The claim is taken or refused, and what an inject has to do is chosen.
LEMMA ClaimingStep ==
  ASSUME SecretInv, NEW a \in Actors, try_claim_injection(a) \/ Refused(a) \/ Chosen(a)
  PROVE  SecretInv'
<1>1. SecretShapes /\ SecretTypeOK /\ Fits(act[a])
  BY Zenon DEF SecretInv, SecretShapes
<1>2. CASE try_claim_injection(a)
  <2>1. /\ Step(a) /\ act[a].pc = "inject" /\ act'[a].buf = act[a].buf
        /\ \/ act'[a].pc = "resume" /\ claim' = claim
           \/ act'[a].pc = "idle" /\ act'[a].out = "error" /\ claim' = claim
           \/ act'[a].pc = "claimed" /\ claim' = TRUE /\ ~claim
    BY <1>1, <1>2, GoesOn, IsAnswered, AskingTyped DEF try_claim_injection, Step
  <2>2. Fits(act'[a]) /\ act[a].op \in Wakers
    BY Zenon, <1>1, <2>1 DEF Fits, Step, Creating, Opening, Wakers
  <2>3. UNCHANGED <<volumeVars, envVars>>
    BY Zenon, <1>2 DEF try_claim_injection
  <2>4. CASE act'[a].pc # "claimed"
    BY Zenon, <1>1, <2>1, <2>2, <2>3, <2>4, PlainStep DEF volumeVars, Plain, SecretTypeOK
  <2>5. CASE act'[a].pc = "claimed"
    <3>1. ~Under(act'[a]) /\ ~Read(act'[a]) /\ ~Renders(act'[a]) /\ act'[a].pc \notin Creating
      BY Zenon, <2>5 DEF Under, Read, Renders, Creating
    <3>2. /\ loops' \in Nat /\ mapper' \in {"none", "active", "suspended"} /\ frozen' \in BOOLEAN
          /\ mapper' = mapper /\ UNCHANGED <<luks, mounted, env, rendered, spilled, confirmed, target>>
      BY Zenon, <1>1, <2>3 DEF volumeVars, envVars, SecretTypeOK
    <3> QED
      BY Zenon, <2>1, <2>2, <2>5, <3>1, <3>2, QuietStep DEF Making
  <2> QED
    BY Zenon, <2>4, <2>5
<1>3. CASE Refused(a) \/ Chosen(a)
  <2>1. /\ Step(a) /\ act[a].pc = "claimed" /\ act'[a].buf = act[a].buf
        /\ \/ act'[a].pc = "idle" /\ act'[a].out = "error" /\ claim' = FALSE
           \/ act'[a].pc = "dd" /\ luks = "none" /\ claim' = claim
           \/ act'[a].pc \in {"load", "openLoop"} /\ claim' = claim
    BY <1>1, <1>3, GoesOn, IsAnswered, AskingTyped DEF Refused, Chosen, Step
  <2>2. Fits(act'[a]) /\ act'[a].op \in {"inject", "inject_env"} /\ act'[a].buf = NoEnv
    BY Zenon, <1>1, <2>1 DEF Fits, Step, Creating, Opening
  <2>3. /\ Claims(act[a]) /\ claim /\ ~Under(act'[a]) /\ ~Read(act'[a]) /\ ~Renders(act'[a])
        /\ act'[a].pc \in Creating => act'[a].pc = "dd"
    BY Zenon, <2>1, <2>2 DEF SecretInv, ClaimInv, Claims, Under, Read, Renders, Creating
  <2>4. /\ loops' \in Nat /\ mapper' \in {"none", "active", "suspended"} /\ frozen' \in BOOLEAN
        /\ mapper' = mapper /\ UNCHANGED <<luks, mounted, env, rendered, spilled, confirmed, target>>
        /\ claim' \in BOOLEAN
    BY <1>1, <1>3, <2>1, Zenon DEF Refused, Chosen, volumeVars, envVars, SecretTypeOK
  <2>5. Claims(act'[a]) => claim'
    BY <2>1, <2>3, Zenon DEF Claims, Creating, Opening
  <2> QED
    BY <2>1, <2>2, <2>3, <2>4, <2>5, QuietStep, Zenon DEF Making
<1> QED
  BY Zenon, <1>2, <1>3

\* What every command of a creation or an opening has in common.
LEMMA CommandFacts ==
  ASSUME SecretInv, NEW a \in Actors, NEW pc \in Creating \cup Opening, init_secrets_volume(a, pc)
  PROVE  /\ Step(a) /\ act[a].pc = pc /\ act'[a].pc = NextCommand[pc] /\ act'[a].buf = NoEnv /\ act[a].buf = NoEnv
         /\ act[a].op \in {"inject", "inject_env"} /\ act'[a].op = act[a].op
         /\ Fits(act'[a]) /\ Claims(act[a]) /\ Claims(act'[a]) /\ claim /\ claim' = claim
         /\ ~Under(act'[a]) /\ ~Read(act'[a]) /\ ~Renders(act'[a])
         /\ UNCHANGED <<env, rendered, spilled, confirmed, target, crossed>>
<1>1. SecretShapes /\ Fits(act[a])
  BY Zenon DEF SecretInv, SecretShapes
<1>2. Step(a) /\ act[a].pc = pc /\ act'[a].pc = NextCommand[pc] /\ act'[a].buf = act[a].buf
  BY <1>1, GoesOn, AskingTyped, Zenon DEF init_secrets_volume, Step
<1>3. act[a].op \in {"inject", "inject_env"} /\ act'[a].op = act[a].op /\ act[a].buf = NoEnv
  BY Zenon, <1>1, <1>2 DEF Fits, Step
<1>4. NextCommand[pc] \in (Creating \ {"dd"}) \cup {"open", "mount", "load"}
  BY DEF NextCommand, Creating, Opening
<1>5. Fits(act'[a])
  BY Zenon, <1>2, <1>3, <1>4 DEF Fits, Creating, Opening
<1>6. Claims(act[a]) /\ Claims(act'[a])
  BY Zenon, <1>2, <1>3, <1>4 DEF Claims, Creating, Opening
<1>7. ~Under(act'[a]) /\ ~Read(act'[a]) /\ ~Renders(act'[a])
  BY Zenon, <1>2, <1>3, <1>4, <1>6 DEF Under, Read, Renders, Creating
<1>8. claim /\ claim' = claim /\ UNCHANGED <<env, rendered, spilled, confirmed, target, crossed>>
  BY Zenon, <1>6 DEF SecretInv, ClaimInv, init_secrets_volume, envVars
<1> QED
  BY Zenon, <1>2, <1>3, <1>5, <1>6, <1>7, <1>8

\* The commands of init_secrets_volume and of open_secrets_volume.
LEMMA CommandStep ==
  ASSUME SecretInv, NEW a \in Actors, NEW pc \in Creating \cup Opening, init_secrets_volume(a, pc)
  PROVE  SecretInv'
<1>1. /\ Step(a) /\ act[a].pc = pc /\ act'[a].pc = NextCommand[pc] /\ act'[a].buf = NoEnv /\ act[a].buf = NoEnv
      /\ act[a].op \in {"inject", "inject_env"} /\ act'[a].op = act[a].op
      /\ Fits(act'[a]) /\ Claims(act[a]) /\ Claims(act'[a]) /\ claim /\ claim' = claim
      /\ ~Under(act'[a]) /\ ~Read(act'[a]) /\ ~Renders(act'[a])
      /\ UNCHANGED <<env, rendered, spilled, confirmed, target, crossed>>
  BY Zenon, CommandFacts
<1>2. Possible(pc) /\ Command(pc) /\ SecretShapes /\ SecretTypeOK
  BY Zenon DEF SecretInv, SecretShapes, init_secrets_volume
<1>3. act[a].op \in Wakers /\ act[a].pc # "idle" /\ act'[a].pc # "idle"
  BY <1>1, SMTT(40) DEF Wakers, NextCommand, Creating, Opening
<1>4. CASE pc \in {"initLoop", "openLoop", "initOpen", "open", "dirs"}
  <2>1. /\ loops' \in Nat /\ mapper' \in {"none", "active", "suspended"} /\ frozen' \in BOOLEAN /\ claim' \in BOOLEAN
        /\ UNCHANGED <<luks, mounted>>
    BY <1>1, <1>2, <1>4 DEF Command, SecretTypeOK, volumeVars
  <2>2. /\ pc \in Making => act'[a].pc \in Making
        /\ act'[a].pc \in Creating => act'[a].pc # "dirs" /\ pc \in Creating \ {"dirs"}
        /\ pc # "fill" /\ act'[a].pc \notin {"fill", "target"}
    BY <1>1, <1>4 DEF NextCommand, Making, Creating
  <2> QED
    BY Zenon, <1>1, <1>3, <2>1, <2>2, QuietStep
<1>5. CASE pc \notin {"initLoop", "openLoop", "initOpen", "open", "dirs"}
  <2>1. pc \in {"dd", "format", "mkfs", "initMount", "mount"}
    BY Zenon, <1>5 DEF Creating, Opening
  <2>2. SecretTypeOK' /\ mapper' = mapper
    BY <1>1, <1>2, <2>1, Zenon DEF Command, SecretTypeOK
  <2>3. SecretShapes'
    <3>1. act'[a].buf \in Bufs
      BY Zenon, <1>1, <1>2 DEF SecretShapes
    <3> QED
      BY Zenon, <1>1, <1>2, <2>2, <3>1, ShapesStep
  <2>4. ClaimInv'
    BY <1>1, ClaimStep, Zenon DEF SecretInv
  <2>5. WakeInv'
    BY <1>1, <1>3, <2>2, WakeStep, Zenon DEF SecretInv
  <2>6. VolumeInv'
    <3>1. CASE pc \in {"dd", "format", "mkfs"}
      <4>1. mounted' = mounted /\ pc \in Creating \ {"dirs"} /\ act'[a].pc \in Creating \ {"dirs"}
        BY <1>1, <1>2, <3>1, SMTT(40) DEF Command, NextCommand, Creating
      <4> QED
        BY Zenon, <1>1, <4>1, CreateStep DEF SecretInv
    <3>2. CASE pc \in {"initMount", "mount"}
      <4>1. /\ mounted' = TRUE /\ luks = "good" /\ luks' = luks /\ act'[a].pc \notin Creating \ {"dirs"}
            /\ act'[a].pc = "dirs" => pc \in Creating \ {"dirs"}
        BY <1>1, <1>2, <3>2 DEF Command, Possible, NextCommand, Creating
      <4> QED
        BY <1>1, <4>1, MountStep, Zenon DEF SecretInv
    <3> QED
      BY Zenon, <2>1, <3>1, <3>2
  <2>7. EnvInv'
    <3>1. \A b \in Actors : act'[b].pc # "target"
      <4>1. act'[a].pc # "target"
        BY <1>1, <2>1, SMTT(40) DEF NextCommand
      <4>2. \A b \in Actors : b # a => act[b].pc # "target" /\ act'[b] = act[b]
        BY <1>1, Zenon DEF SecretInv, ClaimInv, Claims, Step
      <4> QED
        BY Zenon, <4>1, <4>2
    <3>2. pc # "fill" /\ act'[a].pc \notin {"fill", "target"}
      BY <1>1, <2>1, SMTT(40) DEF NextCommand
    <3> QED
      BY Zenon, <1>1, <3>1, <3>2, AsideStep DEF SecretInv
  <2>8. PlaintextStaysOnVolume' /\ GateOpensOnRenderedEnv'
    BY Zenon, <1>1 DEF SecretInv, PlaintextStaysOnVolume, GateOpensOnRenderedEnv
  <2>9. FailedCreationLeavesNothing'
    <3>1. luks' \in {"blank", "header"} =>
             act'[a].pc \in Making \/ (luks \in {"blank", "header"} /\ pc \notin Making)
      BY <1>1, <1>2, <2>1, SMTT(40) DEF Command, NextCommand, Making
    <3> QED
      BY <1>1, <3>1, MakingStep, Zenon DEF SecretInv
  <2> QED
    BY Zenon, <2>3, <2>4, <2>5, <2>6, <2>7, <2>8, <2>9 DEF SecretInv
<1> QED
  BY Zenon, <1>4, <1>5

\* What was opened or being made is taken down again, and the request answered.
LEMMA UndoneStep ==
  ASSUME SecretInv, NEW a \in Actors, Step(a), act'[a].pc = "idle", act'[a].out # "suspended",
         act[a].pc \in Creating \cup Opening \cup {"close"}, act'[a].buf = act[a].buf,
         UNCHANGED envVars, SecretTypeOK',
         claim' = claim \/ (~claim' /\ Claims(act[a])),
         mapper' = mapper \/ mapper' = "none", mounted' => mounted,
         "unmount" \notin crossed' => ~mounted' /\ \A b \in Actors \ {a} : ~Under(act[b]),
         luks' = luks \/ act[a].pc \in Creating,
         luks' \in {"blank", "header"} =>
            "half" \in crossed' \/ (luks \in {"blank", "header"} /\ act[a].pc \notin Making)
  PROVE  SecretInv'
<1>1. act[a].pc \notin {"idle", "fill"}
  BY Zenon DEF Creating, Opening
<1>2. /\ Fits(act'[a]) /\ ~Claims(act'[a]) /\ ~Read(act'[a]) /\ ~Renders(act'[a])
      /\ act'[a].pc \notin {"fill", "target"}
  BY Zenon DEF Fits, Claims, Read, Renders, Creating, Opening
<1>3. SecretShapes'
  BY <1>2, ShapesStep, Zenon DEF SecretInv, SecretShapes
<1>4. ClaimInv'
  BY <1>2, ClaimStep, SMTT(40) DEF SecretInv
<1>5. WakeInv'
  BY Zenon, <1>1, WakeStep DEF SecretInv
<1>6. VolumeInv'
  BY Zenon, DownStep DEF SecretInv, envVars
<1>7. EnvInv'
  BY Zenon, <1>1, <1>2, AsideStep DEF SecretInv, envVars
<1>8. PlaintextStaysOnVolume' /\ GateOpensOnRenderedEnv'
  BY Zenon DEF SecretInv, PlaintextStaysOnVolume, GateOpensOnRenderedEnv, Step, envVars
<1>9. FailedCreationLeavesNothing'
  BY Zenon, MakingStep DEF SecretInv
<1> QED
  BY <1>3, <1>4, <1>5, <1>6, <1>7, <1>8, <1>9, Zenon DEF SecretInv

\* What cleanup_luks does when the file system can be unmounted.
LEMMA CleanupTyped ==
  ASSUME SecretTypeOK, NEW ok \in BOOLEAN, cleanup_luks(ok)
  PROVE  /\ loops' \in Nat /\ mapper' \in {mapper, "none"} /\ mounted' \in BOOLEAN /\ frozen' = frozen
         /\ ok => mounted' = FALSE
         /\ ~ok => UNCHANGED <<loops, mapper, mounted>>
         /\ mounted' => mounted
<1>1. CASE ok
  <2>1. mounted' = FALSE /\ frozen' = frozen /\ mapper' = (IF frozen THEN mapper ELSE "none")
    BY Zenon, <1>1 DEF cleanup_luks
  <2>2. loops' = (IF frozen \/ loops = 0 THEN loops ELSE loops - 1)
    BY Zenon, <1>1 DEF cleanup_luks
  <2>3. loops' \in Nat
    BY <2>2 DEF SecretTypeOK
  <2> QED
    BY Zenon, <1>1, <2>1, <2>3
<1>2. CASE ~ok
  BY Zenon, <1>2 DEF cleanup_luks, SecretTypeOK
<1> QED
  BY Zenon, <1>1, <1>2

\* Meeting a request that has found the volume mounted is recorded.
LEMMA MeetingKnown ==
  ASSUME NEW a \in Actors, Meets(a, {"read", "write", "fill", "load", "target"}, "unmount")
  PROVE  /\ crossed \subseteq crossed'
         /\ "unmount" \notin crossed' => \A b \in Actors \ {a} : ~Under(act[b])
  BY Zenon DEF Meets, Under, Renders

\* A command of the creation or the opening fails.
LEMMA FailureStep ==
  ASSUME SecretInv, NEW a \in Actors, NEW pc \in Creating \cup Opening, VolumeFails(a, pc)
  PROVE  SecretInv'
<1>1. SecretShapes /\ SecretTypeOK /\ Fits(act[a])
  BY Zenon DEF SecretInv, SecretShapes
<1>2. /\ DOMAIN act' = Actors /\ \A b \in Actors : b # a => act'[b] = act[b]
      /\ Fields(act'[a]) /\ act'[a].op = act[a].op /\ act'[a].buf = act[a].buf
      /\ act[a].pc = pc /\ act'[a].pc = "idle" /\ act'[a].out = "error"
  BY <1>1, IsAnswered DEF VolumeFails
<1>3. Claims(act[a]) /\ ~claim' /\ claim' \in BOOLEAN /\ UNCHANGED envVars
  BY <1>2, Zenon DEF VolumeFails, Claims
<1> DEFINE cost == IF Possible(pc) THEN 1 ELSE 0
<1>4. cost \in Nat /\ cost + 1 \in Nat
  OBVIOUS
<1>5. CASE pc \in {"dd", "initLoop", "openLoop", "open"}
  <2>1. /\ SpendSecret(cost) /\ luks' \in (IF pc = "dd" THEN {"none", "blank"} ELSE {luks})
        /\ crossed' = crossed \cup (IF pc \in {"dd", "initLoop"} THEN {"half"} ELSE {})
        /\ UNCHANGED <<loops, mapper, mounted, frozen>>
    BY Zenon, <1>5 DEF VolumeFails
  <2> HIDE DEF cost
  <2>2. Step(a)
    BY Zenon, <1>1, <1>2, <1>4, <2>1, SpendingTyped DEF Step
  <2>3. SecretTypeOK'
    BY Zenon, <1>1, <1>3, <2>1 DEF SecretTypeOK, envVars
  <2>4. CASE pc \in {"dd", "initLoop"}
    <3>1. "unmount" \notin crossed' => ~mounted' /\ \A b \in Actors \ {a} : ~Under(act[b])
      <4> SUFFICES ASSUME "unmount" \notin crossed' PROVE ~mounted' /\ \A b \in Actors \ {a} : ~Under(act[b])
        BY Zenon
      <4>1. "unmount" \notin crossed /\ pc \in Creating \ {"dirs"}
        BY Zenon, <2>1, <2>4 DEF Creating
      <4>2. ~mounted
        BY Zenon, <1>2, <4>1 DEF SecretInv, VolumeInv
      <4> QED
        BY <2>1, <4>1, <4>2, Zenon DEF SecretInv, VolumeInv
    <3>2. pc \in Creating /\ "half" \in crossed'
      BY Zenon, <2>1, <2>4 DEF Creating
    <3> QED
      BY Zenon, <1>2, <1>3, <2>1, <2>2, <2>3, <3>1, <3>2, UndoneStep
  <2>5. CASE pc \notin {"dd", "initLoop"}
    <3>1. /\ Fits(act'[a]) /\ ~Claims(act'[a]) /\ ~Under(act'[a]) /\ ~Read(act'[a]) /\ ~Renders(act'[a])
          /\ pc \notin Making /\ pc \notin {"idle", "fill"} /\ act'[a].pc \notin Creating \cup {"fill", "target"}
      BY Zenon, <1>2, <1>5, <2>5 DEF Fits, Claims, Under, Read, Renders, Making, Creating, Opening
    <3> QED
      BY <1>1, <1>2, <1>3, <2>1, <2>2, <2>3, <2>5, <3>1, QuietStep, Zenon DEF SecretTypeOK, envVars
  <2> QED
    BY Zenon, <2>4, <2>5
<1>6. CASE pc \notin {"dd", "initLoop", "openLoop", "open"}
  <2>1. PICK ok \in BOOLEAN :
           /\ cleanup_luks(ok) /\ SpendSecret(IF ok THEN cost ELSE cost + 1)
           /\ IF ok THEN Meets(a, {"read", "write", "fill", "load", "target"}, "unmount")
                    ELSE crossed' = crossed \cup {"unmount"}
    BY Zenon, <1>6 DEF VolumeFails
  <2>2. luks' = IF pc = "mount" THEN luks ELSE "none"
    BY Zenon, <1>6 DEF VolumeFails
  <2> HIDE DEF cost
  <2>3. /\ crossed \subseteq crossed'
        /\ "unmount" \notin crossed' => ~mounted' /\ \A b \in Actors \ {a} : ~Under(act[b])
    BY Zenon, <1>1, <2>1, CleanupTyped, MeetingKnown
  <2>4. (IF ok THEN cost ELSE cost + 1) \in Nat
    BY Zenon, <1>4
  <2>5. Step(a)
    BY <1>1, <1>2, <2>1, <2>3, <2>4, SpendingTyped, Zenon DEF Step
  <2>6. mapper' \in {mapper, "none"} /\ (mounted' => mounted) /\ SecretTypeOK'
    BY <1>1, <1>3, <2>1, <2>2, CleanupTyped, Zenon DEF SecretTypeOK, envVars
  <2>7. luks' = luks \/ pc \in Creating
    BY Zenon, <1>6, <2>2 DEF Opening
  <2>8. luks' \in {"blank", "header"} => luks \in {"blank", "header"} /\ pc \notin Making
    BY Zenon, <2>2 DEF Making
  <2> QED
    BY Zenon, <1>2, <1>3, <2>3, <2>5, <2>6, <2>7, <2>8, UndoneStep
<1> QED
  BY Zenon, <1>5, <1>6

\* The volume is closed, and the claim kept.
LEMMA CloseStep ==
  ASSUME SecretInv, NEW a \in Actors, close_secrets_volume(a)
  PROVE  SecretInv'
<1>1. SecretShapes /\ SecretTypeOK
  BY Zenon DEF SecretInv, SecretShapes
<1>2. /\ crossed \subseteq crossed'
      /\ "unmount" \notin crossed' => \A b \in Actors \ {a} : ~Under(act[b])
  BY Zenon, MeetingKnown DEF close_secrets_volume
<1>3. /\ Step(a) /\ act[a].pc = "close" /\ act'[a].pc = "idle" /\ act'[a].out = "ok" /\ act'[a].buf = act[a].buf
  BY Zenon, <1>1, <1>2, IsAnswered, AskingTyped DEF close_secrets_volume, Step
<1>4. /\ UNCHANGED <<luks, envVars, claim>> /\ loops' \in Nat /\ mapper' \in {mapper, "none"}
      /\ mounted' \in BOOLEAN /\ frozen' = frozen /\ mounted' \in {mounted, FALSE}
  <2>1. CASE mounted \/ mapper # "none"
    <3>1. PICK ok \in BOOLEAN : cleanup_luks(ok)
      BY Zenon, <2>1 DEF close_secrets_volume
    <3> QED
      BY <1>1, <3>1, CleanupTyped, Zenon DEF close_secrets_volume, SecretTypeOK
  <2>2. CASE ~(mounted \/ mapper # "none")
    BY Zenon, <1>1, <2>2 DEF close_secrets_volume, SecretTypeOK
  <2> QED
    BY Zenon, <2>1, <2>2
<1>5. SecretTypeOK'
  BY Zenon, <1>1, <1>4 DEF SecretTypeOK, envVars
<1>6. CASE mounted' = FALSE
  BY Zenon, <1>2, <1>3, <1>4, <1>5, <1>6, UndoneStep DEF Making
<1>7. CASE mounted' = mounted
  <2>1. /\ Fits(act'[a]) /\ ~Claims(act'[a]) /\ ~Under(act'[a]) /\ ~Read(act'[a]) /\ ~Renders(act'[a])
        /\ act[a].pc \notin Making \cup {"idle", "fill"} /\ act'[a].pc \notin Creating \cup {"fill", "target"}
    BY <1>3, Zenon DEF Fits, Claims, Under, Read, Renders, Making, Creating, Opening
  <2> QED
    BY <1>1, <1>3, <1>4, <1>7, <2>1, QuietStep, Zenon DEF SecretTypeOK, envVars
<1> QED
  BY Zenon, <1>4, <1>6, <1>7

----------------------------------------------------------------------------
(* The environment: what is read, truncated, filled and rendered.            *)

\* An inject whose environment cannot be rendered, and a set whose cannot.
LEMMA LoadFailsStep ==
  ASSUME SecretInv, NEW a \in Actors, LoadFails(a)
  PROVE  SecretInv'
<1>1. SecretShapes /\ SecretTypeOK /\ Fits(act[a])
  BY Zenon DEF SecretInv, SecretShapes
<1>2. /\ Step(a) /\ act[a].pc = "load" /\ act'[a].buf = act[a].buf
      /\ \/ act'[a].pc = "set_env" /\ act[a].op = "inject_env"
         \/ act'[a].pc = "idle" /\ act'[a].out \in {"ok", "error"}
  BY <1>1, IsInjected, IsAnswered, AskingTyped DEF LoadFails, Step
<1>3. /\ Fits(act'[a]) /\ ~Claims(act'[a]) /\ ~Under(act'[a]) /\ ~Read(act'[a]) /\ ~Renders(act'[a])
      /\ act[a].pc \notin Making \cup {"idle", "fill"} /\ act'[a].pc \notin Creating \cup {"fill", "target"}
  BY <1>1, <1>2, Zenon DEF Fits, Step, Claims, Under, Read, Renders, Making, Creating, Opening
<1>4. UNCHANGED <<luks, loops, mapper, mounted, frozen, env, rendered, spilled, confirmed, target, claim>>
  BY Zenon DEF LoadFails, volumeVars, envVars
<1> QED
  BY <1>1, <1>2, <1>3, <1>4, QuietStep, Zenon DEF SecretTypeOK

\* The gate is lifted: what was rendered is what .env says, or somebody was met.
LEMMA GateStep ==
  ASSUME SecretInv, NEW a \in Actors, activate_secrets_target(a)
  PROVE  SecretInv'
<1>1. SecretShapes /\ SecretTypeOK /\ Fits(act[a])
  BY Zenon DEF SecretInv, SecretShapes
<1>2. /\ Step(a) /\ act[a].pc = "target" /\ act'[a].buf = act[a].buf
      /\ \/ act'[a].pc = "set_env" /\ act[a].op = "inject_env"
         \/ act'[a].pc = "idle" /\ act'[a].out = "ok"
  BY <1>1, IsInjected, AskingTyped, Zenon DEF activate_secrets_target, Step
<1>3. /\ Fits(act'[a]) /\ ~Claims(act'[a]) /\ ~Under(act'[a]) /\ ~Read(act'[a]) /\ ~Renders(act'[a])
      /\ act[a].pc \notin Making \cup {"idle", "fill"} /\ act'[a].pc \notin Creating \cup {"fill", "target"}
  BY <1>1, <1>2, Zenon DEF Fits, Step, Claims, Under, Read, Renders, Making, Creating, Opening
<1>4. UNCHANGED <<luks, loops, mapper, mounted, frozen, env, rendered, spilled, confirmed, claim>>
  BY Zenon DEF activate_secrets_target, volumeVars
<1>5. Clean /\ mounted => rendered = parse_env_into(env)
  BY <1>2, Zenon DEF SecretInv, EnvInv
<1>6. target' = target \/ target' = "current" \/ (target' = "stale" /\ ~Clean)
  BY Zenon, <1>5 DEF activate_secrets_target, Mounted
<1> QED
  BY <1>1, <1>2, <1>3, <1>4, <1>6, QuietStep, Zenon DEF SecretTypeOK

\* A set or a push asks whether the volume is mounted.
LEMMA FindsMountedStep ==
  ASSUME SecretInv, NEW a \in Actors, set_env_vars(a)
  PROVE  SecretInv'
<1>1. SecretShapes /\ SecretTypeOK /\ Fits(act[a])
  BY Zenon DEF SecretInv, SecretShapes
<1>2. /\ crossed \subseteq crossed'
      /\ "unmount" \notin crossed' => \A b \in Actors \ {a} : act[b].pc # "dirs"
  BY Zenon DEF set_env_vars, Meets
<1>3. /\ Step(a) /\ act'[a].buf = act[a].buf
      /\ \/ act[a].pc \in {"set_env", "push_env"} /\ act'[a].pc = "idle" /\ act'[a].out = "error"
         \/ act[a].pc = "set_env" /\ act'[a].pc = "read" /\ mounted
         \/ act[a].pc = "push_env" /\ act'[a].pc = "write" /\ mounted
  BY <1>1, <1>2, GoesOn, IsAnswered, AskingTyped DEF set_env_vars, Step, Mounted
<1>4. /\ Fits(act'[a]) /\ ~Claims(act'[a]) /\ ~Read(act'[a]) /\ ~Renders(act'[a])
      /\ act[a].pc \notin Making \cup {"idle", "fill"} /\ act'[a].pc \notin Creating \cup {"fill", "target"}
  BY <1>1, <1>3, Zenon DEF Fits, Step, Claims, Read, Renders, Making, Creating, Opening
<1>5. Under(act'[a]) => mounted
  BY Zenon, <1>3 DEF Under, Renders
<1>6. UNCHANGED <<luks, loops, mapper, mounted, frozen, env, rendered, spilled, confirmed, target, claim>>
  BY Zenon DEF set_env_vars, volumeVars, envVars
<1> QED
  BY <1>1, <1>2, <1>3, <1>4, <1>5, <1>6, QuietStep, Zenon DEF SecretTypeOK

\* What the steps on the file leave alone.
LEMMA FileStep ==
  ASSUME SecretInv, NEW a \in Actors, Step(a), SecretTypeOK', UNCHANGED <<volumeVars, target, claim>>,
         act[a].pc \in {"read", "write", "fill", "load"}, act'[a].buf \in Bufs, Fits(act'[a]),
         Claims(act'[a]) => Claims(act[a]),
         act'[a].pc = "idle" => act'[a].out # "suspended",
         act'[a].pc \notin Creating,
         Under(act'[a]) => Under(act[a]),
         confirmed' \subseteq confirmed \/ Under(act[a]),
         EnvInv',
         spilled' = spilled \/ (Under(act[a]) /\ ~mounted)
  PROVE  SecretInv'
<1>1. act[a].pc \notin Making \cup {"idle"}
  BY Zenon DEF Making
<1>2. SecretShapes'
  BY ShapesStep, Zenon DEF SecretInv
<1>3. ClaimInv'
  BY Zenon, ClaimStep DEF SecretInv, ClaimInv
<1>4. WakeInv'
  BY <1>1, WakeStep, Zenon DEF SecretInv, volumeVars
<1>5. VolumeInv'
  BY Zenon, StaysStep DEF SecretInv, volumeVars
<1>6. PlaintextStaysOnVolume'
  <2>1. Under(act[a]) /\ ~mounted => "unmount" \in crossed
    BY Zenon DEF SecretInv, VolumeInv
  <2> QED
    BY <2>1, Zenon DEF SecretInv, PlaintextStaysOnVolume, Step
<1>7. GateOpensOnRenderedEnv'
  BY Zenon DEF SecretInv, GateOpensOnRenderedEnv, Step
<1>8. FailedCreationLeavesNothing'
  BY <1>1, MakingStep, Zenon DEF SecretInv, volumeVars
<1> QED
  BY Zenon, <1>2, <1>3, <1>4, <1>5, <1>6, <1>7, <1>8 DEF SecretInv

\* What parse_env_into keeps: which keys there are.
LEMMA ParsedKeys ==
  ASSUME NEW lines \in Bufs
  PROVE  /\ parse_env_into(lines) \in [EnvKeys -> {"none", "plain"}]
         /\ \A k \in EnvKeys : parse_env_into(lines)[k] # "none" <=> lines[k] # "none"
  BY Zenon DEF Bufs, parse_env_into

\* The environment is rendered: a set has confirmed its keys, an inject goes on.
LEMMA LoadStep ==
  ASSUME SecretInv, NEW a \in Actors, load_env_vars(a)
  PROVE  SecretInv'
<1>1. SecretShapes /\ SecretTypeOK /\ Fits(act[a]) /\ act[a].buf \in Bufs
  BY Zenon DEF SecretInv, SecretShapes
<1>2. crossed \subseteq crossed' /\ ("writers" \notin crossed' => \A b \in Actors \ {a} : act[b].pc # "fill")
  BY Zenon DEF load_env_vars, Meets
<1>3. /\ Step(a) /\ act[a].pc = "load" /\ act'[a].buf = act[a].buf
      /\ \/ act'[a].pc = "idle" /\ act'[a].out = "ok"
         \/ act'[a].pc = "target" /\ act[a].buf = NoEnv /\ act[a].op # "push_env"
  BY <1>1, <1>2, GoesOn, IsAnswered, AskingTyped DEF load_env_vars, Step
<1>4. /\ UNCHANGED <<volumeVars, env, target, spilled, claim>> /\ rendered' = parse_env_into(EnvFile)
      /\ confirmed' = IF act[a].op = "push_env" THEN confirmed
                      ELSE confirmed \cup {k \in EnvKeys : act[a].buf[k] # "none"}
  BY Zenon DEF load_env_vars, write_secrets_env
<1>5. EnvFile \in Bufs /\ (mounted => EnvFile = env)
  BY Zenon, <1>1 DEF EnvFile, SecretTypeOK, Bufs, NoEnv
<1>6. SecretTypeOK'
  BY Zenon, <1>1, <1>4, <1>5, ParsedKeys DEF SecretTypeOK, volumeVars
<1>7. ASSUME NEW k \in confirmed', k \notin confirmed PROVE Renders(act[a]) /\ k \in EnvKeys /\ act[a].buf[k] # "none"
  <2>1. act[a].op # "push_env" /\ k \in EnvKeys /\ act[a].buf[k] # "none"
    BY Zenon, <1>4, <1>7
  <2>2. act[a].buf # NoEnv
    BY Zenon, <2>1 DEF NoEnv
  <2> QED
    BY Zenon, <1>3, <2>1, <2>2 DEF Renders, Claims, Creating, Opening
<1>8. EnvInv'
  <2> SUFFICES ASSUME Clean' PROVE EnvInv'
    BY Zenon DEF EnvInv
  <2>1. Clean /\ (\A b \in Actors : b # a => act'[b] = act[b]) /\ ~Read(act'[a]) /\ ~Renders(act'[a])
    BY <1>2, <1>3, Zenon DEF Step, Clean, Read, Renders
  <2>2. \A b \in Actors : act[b].pc # "fill" /\ act'[b].pc # "fill"
    BY <1>2, <1>3, <2>1, Zenon DEF Clean
  <2>3. mounted' => rendered' = parse_env_into(env')
    BY Zenon, <1>4, <1>5 DEF volumeVars
  <2>4. ASSUME NEW k \in confirmed' PROVE env'[k] # "none"
    BY <1>4, <1>7, <2>1, <2>2, Zenon DEF SecretInv, EnvInv
  <2>5. ASSUME NEW b \in Actors
        PROVE  /\ Read(act'[b]) => \A k \in EnvKeys : env'[k] # "none" => act'[b].buf[k] # "none"
               /\ Renders(act'[b]) => \A k \in EnvKeys : act'[b].buf[k] # "none" => env'[k] # "none"
    BY <1>4, <2>1, Zenon DEF SecretInv, EnvInv
  <2> QED
    BY Zenon, <2>2, <2>3, <2>4, <2>5, EnvInvAfter
<1>9. /\ Fits(act'[a]) /\ (Claims(act'[a]) => Claims(act[a])) /\ ~Under(act'[a]) /\ act'[a].pc \notin Creating
  BY <1>1, <1>3, Zenon DEF Fits, Step, Claims, Under, Renders, Creating, Opening
<1>10. confirmed' \subseteq confirmed \/ Under(act[a])
  BY Zenon, <1>7 DEF Under
<1> QED
  BY Zenon, <1>1, <1>3, <1>4, <1>6, <1>8, <1>9, <1>10, FileStep

\* The request of a goes on with what it read.
Buffers(a, pc, buf) == act' = [act EXCEPT ![a].pc = pc, ![a].buf = buf]

\* A step that leaves a request with something read.
LEMMA HasRead ==
  ASSUME SecretShapes, NEW a \in Actors, NEW pc, NEW buf, Buffers(a, pc, buf)
  PROVE  /\ DOMAIN act' = Actors /\ \A b \in Actors : b # a => act'[b] = act[b]
         /\ Fields(act'[a]) /\ act'[a].op = act[a].op /\ act'[a].buf = buf /\ act'[a].pc = pc
<1> DEFINE was == act[a]
<1>1. Fields(was)
  BY Zenon DEF SecretShapes, Fields
<1>2. DOMAIN act' = Actors /\ \A b \in Actors : b # a => act'[b] = act[b]
  BY Zenon DEF SecretShapes, Buffers
<1>3. act'[a] = [was EXCEPT !.pc = pc, !.buf = buf]
  BY Zenon DEF SecretShapes, Buffers
<1> HIDE DEF was
<1>4. act'[a] = [op |-> was.op, pc |-> pc, buf |-> buf, out |-> was.out]
  BY <1>1, <1>3, Zenon DEF Fields
<1> QED
  BY <1>2, <1>4 DEF Fields, was

\* The whole file is read, with an entry added.
LEMMA ReadStep ==
  ASSUME SecretInv, NEW a \in Actors, ReadEnv(a)
  PROVE  SecretInv'
<1> DEFINE buf == [parse_env_into(EnvFile) EXCEPT ![Entries[a].key] = Entries[a].value]
<1>1. SecretShapes /\ SecretTypeOK /\ Fits(act[a])
  BY Zenon DEF SecretInv, SecretShapes
<1>2. crossed \subseteq crossed' /\ ("writers" \notin crossed' => \A b \in Actors \ {a} : act[b].pc # "fill")
  BY Zenon DEF ReadEnv, Meets
<1>3. EnvFile \in Bufs /\ (mounted => EnvFile = env)
  BY Zenon, <1>1 DEF EnvFile, SecretTypeOK, Bufs, NoEnv
<1>4. Entries[a].key \in EnvKeys /\ Entries[a].value \in {"plain", "quoted"}
  BY Zenon, EntriesTyped
<1>5. buf \in Bufs /\ buf # NoEnv /\ \A k \in EnvKeys : EnvFile[k] # "none" => buf[k] # "none"
  <2>1. parse_env_into(EnvFile) \in [EnvKeys -> {"none", "plain"}]
    BY Zenon, <1>3, ParsedKeys
  <2>2. buf \in Bufs /\ buf[Entries[a].key] # "none"
    BY Zenon, <1>4, <2>1 DEF Bufs
  <2>3. \A k \in EnvKeys : EnvFile[k] # "none" => buf[k] # "none"
    BY Zenon, <1>3, <1>4, <2>1, ParsedKeys
  <2> QED
    BY Zenon, <1>4, <2>2, <2>3 DEF NoEnv
<1>6. Buffers(a, "write", buf) /\ act[a].pc = "read" /\ UNCHANGED <<volumeVars, envVars, claim>>
  BY Zenon DEF ReadEnv, Buffers
<1> HIDE DEF buf
<1>7. Step(a) /\ act'[a].pc = "write" /\ act'[a].buf = buf
  BY <1>1, <1>2, <1>6, HasRead, AskingTyped, Zenon DEF ReadEnv, Step
<1>8. /\ Fits(act'[a]) /\ ~Claims(act'[a]) /\ Under(act[a]) /\ ~Renders(act'[a])
  BY <1>1, <1>5, <1>6, <1>7, Zenon DEF Fits, Step, Claims, Under, Renders, Creating, Opening
<1>9. EnvInv'
  <2> SUFFICES ASSUME Clean' PROVE EnvInv'
    BY Zenon DEF EnvInv
  <2>1. Clean /\ \A b \in Actors : b # a => act'[b] = act[b]
    BY Zenon, <1>2, <1>7 DEF Step, Clean
  <2>2. \A b \in Actors : act[b].pc # "fill" /\ act'[b].pc # "fill"
    BY Zenon, <1>2, <1>6, <1>7, <2>1 DEF Clean
  <2>3. mounted
    BY Zenon, <1>8, <2>1 DEF SecretInv, VolumeInv, Clean
  <2>4. \A k \in EnvKeys : env[k] # "none" => act'[a].buf[k] # "none"
    BY Zenon, <1>3, <1>5, <1>7, <2>3
  <2>5. ASSUME NEW b \in Actors
        PROVE  /\ Read(act'[b]) => \A k \in EnvKeys : env'[k] # "none" => act'[b].buf[k] # "none"
               /\ Renders(act'[b]) => \A k \in EnvKeys : act'[b].buf[k] # "none" => env'[k] # "none"
               /\ act'[b].pc = "target" /\ mounted' => rendered' = parse_env_into(env')
    <3>1. CASE b = a
      BY <1>6, <1>7, <1>8, <2>4, <3>1, Zenon DEF envVars
    <3>2. CASE b # a
      BY <1>6, <2>1, <3>2, Zenon DEF SecretInv, EnvInv, envVars, volumeVars
    <3> QED
      BY Zenon, <3>1, <3>2
  <2>6. \A k \in confirmed' : env'[k] # "none"
    BY <1>6, <2>1, <2>2, Zenon DEF SecretInv, EnvInv, envVars
  <2> QED
    BY Zenon, <2>2, <2>5, <2>6, EnvInvAfter
<1>10. SecretTypeOK'
  BY Zenon, <1>1, <1>6 DEF SecretTypeOK, volumeVars, envVars
<1>11. act'[a].pc \notin Creating
  BY Zenon, <1>7 DEF Creating
<1> QED
  BY <1>5, <1>6, <1>7, <1>8, <1>9, <1>10, <1>11, FileStep, Zenon DEF envVars

\* The file is emptied: a set still has what was in it.
LEMMA TruncateStep ==
  ASSUME SecretInv, NEW a \in Actors, Truncate(a)
  PROVE  SecretInv'
<1>1. SecretShapes /\ SecretTypeOK /\ Fits(act[a]) /\ act[a].buf \in Bufs
  BY Zenon DEF SecretInv, SecretShapes
<1>2. /\ crossed \subseteq crossed'
      /\ "writers" \notin crossed' =>
            \A b \in Actors \ {a} : act[b].pc \notin {"write", "fill", "load", "target"}
  BY Zenon DEF Truncate, Meets
<1>3. Step(a) /\ act[a].pc = "write" /\ act'[a].pc = "fill" /\ act'[a].buf = act[a].buf
  BY <1>1, <1>2, GoesOn, AskingTyped, Zenon DEF Truncate, Step
<1>4. /\ UNCHANGED <<volumeVars, rendered, target, spilled, claim>> /\ env' \in {env, NoEnv}
      /\ confirmed' = IF act[a].op = "push_env" THEN {} ELSE confirmed
  BY Zenon DEF Truncate
<1>5. SecretTypeOK'
  BY Zenon, <1>1, <1>4 DEF SecretTypeOK, volumeVars, NoEnv
<1>6. /\ Fits(act'[a]) /\ ~Claims(act'[a]) /\ Under(act[a]) /\ act'[a].pc \notin Creating
  BY <1>1, <1>3, Zenon DEF Fits, Step, Claims, Under, Renders, Creating, Opening
<1>7. EnvInv'
  <2> SUFFICES ASSUME Clean' PROVE EnvInv'
    BY Zenon DEF EnvInv
  <2>1. Clean /\ \A b \in Actors : b # a => act'[b] = act[b]
    BY Zenon, <1>2, <1>3 DEF Step, Clean
  <2>2. \A b \in Actors \ {a} : act[b].pc \notin {"write", "fill", "load", "target"}
    BY Zenon, <1>2 DEF Clean
  <2>3. ASSUME NEW b \in Actors
        PROVE  act'[b].pc # "target" /\ ~Read(act'[b]) /\ ~Renders(act'[b]) /\ (act'[b].pc = "fill" => b = a)
    BY <1>3, <2>1, <2>2, Zenon DEF Read, Renders
  <2>4. ASSUME NEW k \in confirmed' PROVE act'[a].buf[k] # "none"
    <3>1. act[a].op # "push_env" /\ k \in confirmed /\ k \in EnvKeys /\ Read(act[a])
      BY <1>1, <1>3, <1>4, <2>4, Zenon DEF SecretTypeOK, Read
    <3>2. env[k] # "none"
      BY <1>3, <2>1, <2>2, <3>1, Zenon DEF SecretInv, EnvInv
    <3> QED
      BY <1>3, <2>1, <3>1, <3>2, Zenon DEF SecretInv, EnvInv
  <2> QED
    BY Zenon, <1>3, <2>3, <2>4, EnvInvAfter
<1> QED
  BY Zenon, <1>1, <1>3, <1>4, <1>5, <1>6, <1>7, FileStep

\* The file is written, or what is under the mount point is.
LEMMA FillStep ==
  ASSUME SecretInv, NEW a \in Actors, Fill(a)
  PROVE  SecretInv'
<1>1. SecretShapes /\ SecretTypeOK /\ Fits(act[a]) /\ act[a].buf \in Bufs
  BY Zenon DEF SecretInv, SecretShapes
<1>2. Step(a) /\ act[a].pc = "fill" /\ act'[a].pc = "load" /\ act'[a].buf = act[a].buf
  BY <1>1, GoesOn, AskingTyped, Zenon DEF Fill, Step
<1>3. /\ UNCHANGED <<volumeVars, rendered, target, confirmed, claim, crossed>>
      /\ mounted => env' = act[a].buf /\ spilled' = spilled
      /\ ~mounted => env' = env /\ spilled' = TRUE
  BY Zenon DEF Fill
<1>4. SecretTypeOK'
  BY <1>1, <1>3, Zenon DEF SecretTypeOK, volumeVars, Bufs
<1>5. Fits(act'[a]) /\ ~Claims(act'[a]) /\ Under(act[a]) /\ act'[a].pc \notin Creating
  BY <1>1, <1>2, Zenon DEF Fits, Step, Claims, Under, Creating, Opening
<1>6. EnvInv'
  <2> SUFFICES ASSUME Clean' PROVE EnvInv'
    BY Zenon DEF EnvInv
  <2>1. Clean /\ \A b \in Actors : b # a => act'[b] = act[b]
    BY <1>2, <1>3, Zenon DEF Step, Clean
  <2>2. mounted /\ env' = act[a].buf
    BY Zenon, <1>3, <1>5, <2>1 DEF SecretInv, VolumeInv, Clean
  <2>3. /\ \A k \in confirmed : act[a].buf[k] # "none"
        /\ \A b \in Actors \ {a} : act[b].pc \notin {"fill", "target"} /\ ~Read(act[b]) /\ ~Renders(act[b])
    BY <1>2, <2>1, Zenon DEF SecretInv, EnvInv
  <2>4. ASSUME NEW b \in Actors
        PROVE  act'[b].pc \notin {"fill", "target"} /\ ~Read(act'[b]) /\ (Renders(act'[b]) => b = a)
    BY <1>2, <2>1, <2>3, Zenon DEF Read
  <2> QED
    BY Zenon, <1>2, <1>3, <2>2, <2>3, <2>4, EnvInvAfter
<1> QED
  BY Zenon, <1>1, <1>2, <1>3, <1>4, <1>5, <1>6, FileStep

\* The write is cut short.
LEMMA TornStep ==
  ASSUME SecretInv, NEW a \in Actors, FillFails(a)
  PROVE  SecretInv'
<1>1. SecretShapes /\ SecretTypeOK /\ act[a].buf \in Bufs
  BY Zenon DEF SecretInv, SecretShapes
<1>2. Step(a) /\ act[a].pc = "fill" /\ act'[a].pc = "idle" /\ act'[a].out = "error" /\ act'[a].buf = act[a].buf
  BY <1>1, IsAnswered, AskingTyped, Zenon DEF FillFails, Step
<1>3. UNCHANGED <<volumeVars, env, rendered, target, spilled, confirmed, claim>> /\ "torn" \in crossed'
  BY Zenon DEF FillFails, envVars
<1>4. Fits(act'[a]) /\ ~Claims(act'[a]) /\ ~Under(act'[a]) /\ act'[a].pc \notin Creating
  BY Zenon, <1>2 DEF Fits, Claims, Under, Renders, Creating, Opening
<1>5. EnvInv'
  BY <1>3, Zenon DEF EnvInv, Clean
<1>6. SecretTypeOK'
  BY Zenon, <1>1, <1>3 DEF SecretTypeOK, volumeVars
<1> QED
  BY Zenon, <1>1, <1>2, <1>3, <1>4, <1>5, <1>6, FileStep

----------------------------------------------------------------------------
(* A request arrives, the guest restarts.                                    *)

\* What a request that arrives changes of the requests.
LEMMA Arrives ==
  ASSUME SecretInv, NEW a \in Actors, NEW op \in SecretOps, Request(a, op)
  PROVE  /\ act[a].pc = "idle" /\ DOMAIN act' = Actors
         /\ Fields(act'[a]) /\ act'[a].op = op /\ act'[a].buf = NoEnv /\ act'[a].out = "none"
         /\ act'[a].pc = IF op = "inject_env" THEN "inject" ELSE op
         /\ \A b \in Actors \ {a} :
               /\ Fields(act'[b]) /\ act'[b].op = act[b].op /\ act'[b].pc = act[b].pc
               /\ act'[b].buf = act[b].buf /\ act'[b].out \in {act[b].out, "none"}
               /\ op \in Wakers /\ act[b].pc = "idle" => act'[b].out = "none"
<1>1. /\ act[a].pc = "idle" /\ DOMAIN act' = Actors
      /\ act'[a] = [op |-> op, pc |-> IF op = "inject_env" THEN "inject" ELSE op, buf |-> NoEnv, out |-> "none"]
  BY Zenon DEF Request
<1>2. ASSUME NEW b \in Actors \ {a}
      PROVE  /\ Fields(act'[b]) /\ act'[b].op = act[b].op /\ act'[b].pc = act[b].pc
             /\ act'[b].buf = act[b].buf /\ act'[b].out \in {act[b].out, "none"}
             /\ op \in Wakers /\ act[b].pc = "idle" => act'[b].out = "none"
  <2> DEFINE was == act[b]
  <2>1. Fields(was)
    BY Zenon DEF SecretInv, SecretShapes, Fields
  <2>2. act'[b] = IF op \in Wakers /\ was.pc = "idle" THEN [was EXCEPT !.out = "none"] ELSE was
    BY Zenon DEF Request
  <2>3. SUFFICES /\ Fields(act'[b]) /\ act'[b].op = was.op /\ act'[b].pc = was.pc
                 /\ act'[b].buf = was.buf /\ act'[b].out \in {was.out, "none"}
                 /\ op \in Wakers /\ was.pc = "idle" => act'[b].out = "none"
    BY Zenon
  <2> HIDE DEF was
  <2>4. [was EXCEPT !.out = "none"] = [op |-> was.op, pc |-> was.pc, buf |-> was.buf, out |-> "none"]
    BY <2>1 DEF Fields
  <2>5. CASE op \in Wakers /\ was.pc = "idle"
    <3>1. act'[b] = [op |-> was.op, pc |-> was.pc, buf |-> was.buf, out |-> "none"]
      BY Zenon, <2>2, <2>4, <2>5
    <3> QED
      BY <3>1 DEF Fields
  <2>6. CASE ~(op \in Wakers /\ was.pc = "idle")
    BY Zenon, <2>1, <2>2, <2>6
  <2> QED
    BY Zenon, <2>5, <2>6
<1> QED
  BY <1>1, <1>2 DEF Fields

\* A request that arrives has found nothing mounted and claimed nothing yet.
LEMMA RequestStep ==
  ASSUME SecretInv, NEW a \in Actors, NEW op \in SecretOps, Request(a, op)
  PROVE  SecretInv'
<1>1. /\ act[a].pc = "idle" /\ DOMAIN act' = Actors
      /\ Fields(act'[a]) /\ act'[a].op = op /\ act'[a].buf = NoEnv /\ act'[a].out = "none"
      /\ act'[a].pc = IF op = "inject_env" THEN "inject" ELSE op
      /\ \A b \in Actors \ {a} :
            /\ Fields(act'[b]) /\ act'[b].op = act[b].op /\ act'[b].pc = act[b].pc
            /\ act'[b].buf = act[b].buf /\ act'[b].out \in {act[b].out, "none"}
            /\ op \in Wakers /\ act[b].pc = "idle" => act'[b].out = "none"
  BY Arrives
<1>2. /\ UNCHANGED <<luks, loops, mapper, mounted, frozen, env, rendered, target, spilled, confirmed, claim>>
      /\ crossed \subseteq crossed'
      /\ "wake" \notin crossed' => /\ ~(op = "suspend" /\ Underway(a, Wakers))
                                   /\ ~(op \in Wakers /\ Underway(a, {"suspend"}))
  BY Zenon DEF Request, volumeVars, envVars
<1>3. act'[a].pc \in {"inject", "set_env", "push_env", "suspend", "resume", "close"}
  BY <1>1, Zenon DEF SecretOps
<1>4. secretMenu' \in [requests : [Actors -> SUBSET SecretOps], faults : Nat, reboots : Nat]
  <2> DEFINE was == secretMenu
  <2>1. was \in [requests : [Actors -> SUBSET SecretOps], faults : Nat, reboots : Nat]
    BY Zenon DEF SecretInv, SecretShapes
  <2>2. secretMenu' = [was EXCEPT !.requests = [was.requests EXCEPT ![a] = was.requests[a] \ {op}]]
    BY Zenon DEF Request
  <2> HIDE DEF was
  <2>3. [was.requests EXCEPT ![a] = was.requests[a] \ {op}] \in [Actors -> SUBSET SecretOps]
    BY Zenon, <2>1
  <2> QED
    BY Zenon, <2>1, <2>2, <2>3
<1>5. ASSUME NEW b \in Actors
      PROVE  /\ Claims(act'[b]) <=> Claims(act[b])
             /\ Under(act'[b]) <=> Under(act[b])
             /\ Read(act'[b]) <=> Read(act[b])
             /\ Renders(act'[b]) <=> Renders(act[b])
             /\ Claims(act[b])' <=> Claims(act'[b])
             /\ Under(act[b])' <=> Under(act'[b])
             /\ act'[b].pc \in Creating \cup {"fill", "target", "load"}
                  \/ act[b].pc \in Creating \cup {"fill", "target", "load"} => act'[b].pc = act[b].pc
             /\ act'[b].pc # "idle" /\ b # a => act[b].pc # "idle"
             /\ b # a => act'[b].buf = act[b].buf
  <2>1. CASE b = a
    BY <1>1, <1>3, <2>1, Zenon DEF Claims, Under, Read, Renders, Creating, Opening, NoEnv
  <2>2. CASE b # a
    BY <1>1, <2>2, Zenon DEF Claims, Under, Read, Renders, Creating, Opening, NoEnv
  <2> QED
    BY Zenon, <2>1, <2>2
<1>6. SecretShapes'
  <2>1. SecretTypeOK'
    BY <1>2, Zenon DEF SecretInv, SecretShapes, SecretTypeOK
  <2>2. ASSUME NEW b \in Actors
        PROVE  Fields(act'[b]) /\ act'[b].buf \in Bufs /\ Fits(act'[b]) /\ (Fits(act[b])' <=> Fits(act'[b]))
    <3>1. CASE b = a
      BY <1>1, <1>3, <3>1, Zenon DEF Fits, Bufs, NoEnv, Creating, Opening, Wakers
    <3>2. CASE b # a
      <4>1. Fits(act[b]) /\ act[b].buf \in Bufs
        BY Zenon DEF SecretInv, SecretShapes
      <4> QED
        BY <1>1, <3>2, <4>1, Zenon DEF Fits, NoEnv
    <3> QED
      BY Zenon, <3>1, <3>2
  <2> QED
    BY <1>1, <1>4, <2>1, <2>2, Zenon DEF SecretShapes, Fields, Bufs
<1>7. ClaimInv'
  BY <1>2, <1>5, Zenon DEF SecretInv, ClaimInv
<1>8. WakeInv'
  <2> SUFFICES ASSUME "wake" \notin crossed'
               PROVE  /\ \A b, c \in Actors : Suspending(act'[b]) => ~Waking(act'[c])
                      /\ \A b \in Actors : act'[b].pc = "idle" /\ act'[b].out = "suspended" => mapper # "active"
    BY Zenon, <1>2 DEF WakeInv, Suspending, Waking
  <2>1. /\ \A b, c \in Actors : Suspending(act[b]) => ~Waking(act[c])
        /\ \A b \in Actors : act[b].pc = "idle" /\ act[b].out = "suspended" => mapper # "active"
    BY <1>2, Zenon DEF SecretInv, WakeInv
  <2>2. ASSUME NEW b \in Actors \ {a}
        PROVE  (Suspending(act'[b]) => Suspending(act[b])) /\ (Waking(act'[b]) => Waking(act[b]))
    BY <1>1, Zenon DEF Suspending, Waking
  <2>3. ASSUME NEW b \in Actors, NEW c \in Actors, Suspending(act'[b]), Waking(act'[c]) PROVE FALSE
    <3>1. CASE b = a
      <4>1. op = "suspend"
        BY Zenon, <1>1, <2>3, <3>1 DEF Suspending
      <4>2. c # a
        BY Zenon, <1>1, <2>3, <4>1 DEF Waking, Wakers
      <4>3. Underway(a, Wakers)
        BY Zenon, <2>2, <2>3, <4>2 DEF Underway, Waking
      <4> QED
        BY Zenon, <1>2, <4>1, <4>3
    <3>2. CASE b # a /\ c = a
      <4>1. op \in Wakers
        BY Zenon, <1>1, <2>3, <3>2 DEF Waking
      <4>2. act[b].pc # "idle" /\ act[b].op = "suspend"
        BY Zenon, <1>1, <2>3, <3>2, <4>1 DEF Suspending
      <4>3. Underway(a, {"suspend"})
        BY Zenon, <3>2, <4>2 DEF Underway
      <4> QED
        BY Zenon, <1>2, <4>1, <4>3
    <3>3. CASE b # a /\ c # a
      BY Zenon, <2>1, <2>2, <2>3, <3>3
    <3> QED
      BY Zenon, <3>1, <3>2, <3>3
  <2>4. ASSUME NEW b \in Actors, act'[b].pc = "idle", act'[b].out = "suspended" PROVE mapper # "active"
    BY Zenon, <1>1, <2>1, <2>4
  <2> QED
    BY Zenon, <2>3, <2>4
<1>9. VolumeInv'
  <2> SUFFICES ASSUME "unmount" \notin crossed' PROVE VolumeInv'
    BY Zenon DEF VolumeInv
  <2>1. "unmount" \notin crossed
    BY Zenon, <1>2
  <2>2. ASSUME NEW b \in Actors
        PROVE  /\ Under(act'[b]) => mounted
               /\ act'[b].pc \in Creating \ {"dirs"} => ~mounted
               /\ act'[b].pc \in Creating => confirmed = {}
               /\ act'[b].pc = "dirs" => \A c \in Actors : ~Under(act'[c])
    BY <1>5, <2>1, Zenon DEF SecretInv, VolumeInv, Creating
  <2> QED
    BY <1>2, <1>5, <2>1, <2>2, Zenon DEF SecretInv, VolumeInv
<1>10. EnvInv'
  <2> SUFFICES ASSUME Clean' PROVE EnvInv'
    BY Zenon DEF EnvInv
  <2>1. Clean
    BY Zenon, <1>2 DEF Clean
  <2>2. ~Read(act[a]) /\ ~Renders(act[a])
    BY <1>1, Zenon DEF Read, Renders
  <2>3. ASSUME NEW b \in Actors
        PROVE  /\ Read(act'[b]) => \A k \in EnvKeys : env[k] # "none" => act'[b].buf[k] # "none"
               /\ Renders(act'[b]) => \A k \in EnvKeys : act'[b].buf[k] # "none" => env[k] # "none"
               /\ act'[b].pc = "target" /\ mounted => rendered = parse_env_into(env)
               /\ act'[b].pc = "fill" =>
                     /\ \A k \in confirmed : act'[b].buf[k] # "none"
                     /\ \A c \in Actors \ {b} :
                           act'[c].pc \notin {"fill", "target"} /\ ~Read(act'[c]) /\ ~Renders(act'[c])
    <3>1. CASE b = a
      BY Zenon, <1>3, <1>5, <2>2, <3>1
    <3>2. CASE b # a
      BY <1>5, <2>1, <3>2, ZenonT(30) DEF SecretInv, EnvInv
    <3> QED
      BY Zenon, <3>1, <3>2
  <2>4. (\A b \in Actors : act'[b].pc # "fill") => \A k \in confirmed : env[k] # "none"
    BY <1>5, <2>1, Zenon DEF SecretInv, EnvInv
  <2> QED
    BY Zenon, <1>2, <2>3, <2>4, EnvInvAfter
<1>11. PlaintextStaysOnVolume' /\ GateOpensOnRenderedEnv'
  BY Zenon, <1>2 DEF SecretInv, PlaintextStaysOnVolume, GateOpensOnRenderedEnv
<1>12. FailedCreationLeavesNothing'
  BY Zenon, <1>1, <1>2 DEF SecretInv, FailedCreationLeavesNothing
<1> QED
  BY Zenon, <1>6, <1>7, <1>8, <1>9, <1>10, <1>11, <1>12 DEF SecretInv

\* The guest restarts: the requests are gone, the volume and what it holds are not.
LEMMA RebootStep ==
  ASSUME SecretInv, Reboot
  PROVE  SecretInv'
<1>1. /\ loops' = 0 /\ mapper' = "none" /\ mounted' = FALSE /\ frozen' = FALSE /\ claim' = FALSE
      /\ rendered' = NoEnv /\ target' = "stopped" /\ act' = [a \in Actors |-> AtRest]
      /\ UNCHANGED <<luks, env, spilled, confirmed>> /\ crossed \subseteq crossed'
      /\ (\E a \in Actors : act[a].pc = "fill") => "torn" \in crossed'
      /\ luks \in {"blank", "header"} => "half" \in crossed'
  BY Zenon DEF Reboot
<1>2. \A a \in Actors : act'[a] = AtRest /\ AtRest.pc = "idle" /\ AtRest.out = "none"
  BY <1>1, Zenon DEF AtRest
<1>3. SecretShapes'
  <2> DEFINE was == secretMenu
  <2>1. was \in [requests : [Actors -> SUBSET SecretOps], faults : Nat, reboots : Nat] /\ was.reboots > 0
    BY Zenon DEF SecretInv, SecretShapes, Reboot
  <2>2. secretMenu' = [was EXCEPT !.reboots = was.reboots - 1]
    BY Zenon DEF Reboot
  <2> HIDE DEF was
  <2>3. secretMenu' \in [requests : [Actors -> SUBSET SecretOps], faults : Nat, reboots : Nat]
    BY <2>1, <2>2
  <2>4. SecretTypeOK'
    BY <1>1, Zenon DEF SecretInv, SecretShapes, SecretTypeOK, NoEnv
  <2>5. ASSUME NEW a \in Actors PROVE Fields(act'[a]) /\ act'[a].buf \in Bufs /\ Fits(act[a])'
    BY <1>2 DEF AtRest, Fields, Fits, Bufs, NoEnv, Creating, Opening
  <2> QED
    BY Zenon, <1>1, <2>3, <2>4, <2>5 DEF SecretShapes, Fields, Bufs
<1>4. ClaimInv' /\ WakeInv'
  BY Zenon, <1>2 DEF ClaimInv, Claims, WakeInv, Suspending, Waking, Creating, Opening
<1>5. VolumeInv'
  BY <1>1, <1>2, Zenon DEF SecretInv, VolumeInv, Under, Renders, Creating
<1>6. EnvInv'
  <2> SUFFICES ASSUME Clean' PROVE EnvInv'
    BY Zenon DEF EnvInv
  <2>1. Clean /\ \A a \in Actors : act[a].pc # "fill"
    BY Zenon, <1>1 DEF Clean
  <2>2. \A k \in confirmed : env[k] # "none"
    BY Zenon, <2>1 DEF SecretInv, EnvInv
  <2> QED
    BY <1>1, <1>2, <2>2, Zenon DEF EnvInv, Read, Renders
<1>7. PlaintextStaysOnVolume' /\ GateOpensOnRenderedEnv' /\ FailedCreationLeavesNothing'
  BY Zenon, <1>1 DEF SecretInv, PlaintextStaysOnVolume, GateOpensOnRenderedEnv, FailedCreationLeavesNothing
<1> QED
  BY Zenon, <1>3, <1>4, <1>5, <1>6, <1>7 DEF SecretInv

----------------------------------------------------------------------------

\* Initially there is no volume and no request.
LEMMA InitSecrets == SecretInit => SecretInv
<1> SUFFICES ASSUME SecretInit PROVE SecretInv
  BY Zenon
<1>1. \A a \in Actors : act[a] = AtRest /\ AtRest.pc = "idle" /\ AtRest.out = "none"
  BY Zenon DEF SecretInit, AtRest
<1>2. SecretShapes
  BY Zenon, <1>1, SecretMenusTyped
     DEF SecretInit, SecretShapes, SecretTypeOK, AtRest, Fits, Bufs, NoEnv, Creating, Opening
<1>3. ClaimInv /\ WakeInv
  BY <1>1, Zenon DEF ClaimInv, Claims, WakeInv, Suspending, Waking, Creating, Opening
<1>4. VolumeInv
  BY Zenon, <1>1 DEF SecretInit, VolumeInv, Under, Renders, Creating
<1>5. EnvInv
  BY Zenon, <1>1 DEF SecretInit, EnvInv, Read, Renders
<1>6. PlaintextStaysOnVolume /\ GateOpensOnRenderedEnv /\ FailedCreationLeavesNothing
  BY Zenon DEF SecretInit, PlaintextStaysOnVolume, GateOpensOnRenderedEnv, FailedCreationLeavesNothing
<1> QED
  BY Zenon, <1>2, <1>3, <1>4, <1>5, <1>6 DEF SecretInv

\* Every step keeps the invariant.
LEMMA NextSecrets == SecretInv /\ [SecretNext]_secretVars => SecretInv'
<1> SUFFICES ASSUME SecretInv, [SecretNext]_secretVars PROVE SecretInv'
  BY Zenon
<1>1. CASE UNCHANGED secretVars
  <2>1. UNCHANGED <<luks, loops, mapper, mounted, frozen, claim, env, rendered, target, spilled, act, confirmed,
                    crossed, secretMenu>>
    BY Zenon, <1>1 DEF secretVars, volumeVars, envVars
  <2>2. SecretShapes'
    <3>1. SecretShapes
      BY Zenon DEF SecretInv
    <3>2. SecretTypeOK'
      BY ONLY Zenon, <2>1, <3>1 DEF SecretShapes, SecretTypeOK
    <3>3. \A a \in Actors : Fits(act[a])'
      BY ONLY Zenon, <2>1, <3>1 DEF SecretShapes, Fits, NoEnv
    <3> QED
      BY ONLY Zenon, <2>1, <3>1, <3>2, <3>3 DEF SecretShapes, Bufs
  <2>3. ClaimInv' /\ WakeInv'
    BY <2>1, Zenon DEF SecretInv, ClaimInv, Claims, WakeInv, Suspending, Waking, NoEnv
  <2>4. VolumeInv'
    BY <2>1, Zenon DEF SecretInv, VolumeInv, Under, Renders, Claims, NoEnv
  <2>5. EnvInv'
    BY <2>1, Zenon DEF SecretInv, EnvInv, Clean, Read, Renders, Claims, NoEnv, parse_env_into
  <2>6. PlaintextStaysOnVolume' /\ GateOpensOnRenderedEnv' /\ FailedCreationLeavesNothing'
    BY Zenon, <2>1 DEF SecretInv, PlaintextStaysOnVolume, GateOpensOnRenderedEnv, FailedCreationLeavesNothing
  <2> QED
    BY Zenon, <2>2, <2>3, <2>4, <2>5, <2>6 DEF SecretInv
<1>2. CASE Reboot
  BY Zenon, <1>2, RebootStep
<1>3. ASSUME NEW a \in Actors, NEW op \in secretMenu.requests[a], Request(a, op) PROVE SecretInv'
  <2>1. op \in SecretOps
    BY Zenon DEF SecretInv, SecretShapes
  <2> QED
    BY Zenon, <1>3, <2>1, RequestStep
<1>4. ASSUME NEW a \in Actors, try_claim_injection(a) \/ Refused(a) \/ Chosen(a) PROVE SecretInv'
  BY Zenon, <1>4, ClaimingStep
<1>5. ASSUME NEW a \in Actors, NEW pc \in DOMAIN NextCommand, init_secrets_volume(a, pc) \/ VolumeFails(a, pc)
      PROVE  SecretInv'
  <2>1. pc \in Creating \cup Opening
    BY Zenon DEF NextCommand, Creating, Opening
  <2> QED
    BY Zenon, <1>5, <2>1, CommandStep, FailureStep
<1>6. ASSUME NEW a \in Actors, load_env_vars(a) \/ LoadFails(a) \/ activate_secrets_target(a) PROVE SecretInv'
  BY Zenon, <1>6, LoadStep, LoadFailsStep, GateStep
<1>7. ASSUME NEW a \in Actors, set_env_vars(a) \/ ReadEnv(a) \/ Truncate(a) \/ Fill(a) \/ FillFails(a)
      PROVE  SecretInv'
  BY Zenon, <1>7, FindsMountedStep, ReadStep, TruncateStep, FillStep, TornStep
<1>8. ASSUME NEW a \in Actors, suspend(a) \/ fsfreeze_freeze(a) \/ luksSuspend(a) \/ SuspendFails(a)
      PROVE  SecretInv'
  BY Zenon, <1>8, SuspendStep
<1>9. ASSUME NEW a \in Actors, resume(a) \/ luks_resume(a) \/ fsfreeze_unfreeze(a) PROVE SecretInv'
  BY Zenon, <1>9, ResumeStep
<1>10. ASSUME NEW a \in Actors, close_secrets_volume(a) PROVE SecretInv'
  BY Zenon, <1>10, CloseStep
<1> QED
  BY <1>1, <1>2, <1>3, <1>4, <1>5, <1>6, <1>7, <1>8, <1>9, <1>10, Zenon DEF SecretNext, SecretStep

\* However many requests inject, set, push, suspend, resume and close at once,
\* and whatever command fails or restart comes between: keys that were set stay
\* set, plaintext stays under the mount, gated units start on what .env says, no
\* unusable volume stays behind, and a suspend that was answered wiped the key;
\* each unless the overlap that `crossed` names took place.
THEOREM SecretsSoundHolds == SecretSpec => []SecretsSound
<1>1. SecretSpec => []SecretInv
  BY InitSecrets, NextSecrets, PTL DEF SecretSpec
<1>2. SecretInv => SecretsSound
  <2> SUFFICES ASSUME SecretInv PROVE SecretsSound
    BY Zenon
  <2>1. SetKeysSurvive
    <3> SUFFICES ASSUME \A a \in Actors : act[a].pc = "idle", Clean, NEW k \in confirmed
                 PROVE  luks = "good" /\ env[k] # "none"
      BY Zenon DEF SetKeysSurvive, Clean
    <3>1. luks = "good"
      BY Zenon DEF SecretInv, VolumeInv, Clean
    <3>2. env[k] # "none"
      BY Zenon DEF SecretInv, EnvInv
    <3> QED
      BY Zenon, <3>1, <3>2
  <2>2. SuspendedMeansNoKey
    BY Zenon DEF SecretInv, WakeInv, SuspendedMeansNoKey, KeyInRam
  <2> QED
    BY <2>1, <2>2, Zenon DEF SecretInv, SecretShapes, SecretsSound, VolumeSound
<1> QED
  BY <1>1, <1>2, PTL

----------------------------------------------------------------------------
(***************************************************************************)
(* StateStore, for every set of VMs, bodies and labels, every bound on     *)
(* generations and, unless stated, every choice of disk faults.            *)
(***************************************************************************)

(***************************************************************************)
(* The inductive invariant.  CacheBacked says nothing of a write in        *)
(* progress and FenceSoundWhileKept says nothing of the disk, so neither   *)
(* survives InsertEts or Load by itself.                                   *)
(***************************************************************************)

\* A stopped store has no cache and no handler running.
DownEmpty ==
    ~up => \A i \in Ids : ets[i] = NoRecord /\ inflight[i] = Idle

\* Between rename and insert the file holds the record about to be inserted,
\* the successor of the cached one.
InsertOnDisk ==
    \A i \in Ids : inflight[i].op = "insert" =>
        /\ inflight[i].rec \in Records
        /\ file[i] = Encode(inflight[i].rec)
        /\ ets[i] # NoRecord => inflight[i].rec.gen = ets[i].gen + 1

\* Each cached record is on disk, or is being replaced, or is being removed.
CachedOrChanging ==
    \A i \in Ids : ets[i] # NoRecord =>
        \/ inflight[i].op = "insert"
        \/ file[i].kind = "record" /\ ets[i] = FromJson(file[i])
        \/ inflight[i].op = "remove" /\ file[i].kind = "none"

IdleIsIdle == \A i \in Ids : inflight[i].op = "idle" => inflight[i] = Idle

\* r is the record the orchestrator read, or a later one.
AtLeastRead(r) ==
    /\ token.rec.gen <= r.gen
    /\ token.rec.gen = r.gen => r = token.rec

\* While the record was not deleted, cache and disk are at or past the read.
TokenBounds ==
    \A i \in Ids : token.kept /\ token.id = i =>
        /\ token.rec \in Records
        /\ up => ets[i] # NoRecord
        /\ ets[i] # NoRecord => AtLeastRead(ets[i])
        /\ file[i].kind = "record" => AtLeastRead(FromJson(file[i]))

\* The inductive invariant.
IInv ==
    /\ TypeOK
    /\ DownEmpty
    /\ InsertOnDisk
    /\ CachedOrChanging
    /\ IdleIsIdle
    /\ TokenBounds

-----------------------------------------------------------------------------
\* Decoding a file gives a stored record: parse_generation/1 repairs a missing
\* generation.
LEMMA FromJsonType ==
    ASSUME NEW f \in Files, f.kind = "record"
    PROVE  FromJson(f) \in Records
BY StoreAssumption DEF Files, FromJson, Records, NoRecord

\* What is written decodes to what was written.
LEMMA RoundTrip ==
    ASSUME NEW r \in Records
    PROVE  /\ Encode(r) \in Files
           /\ Encode(r).kind = "record"
           /\ FromJson(Encode(r)) = r
BY StoreAssumption DEF Files, FromJson, Records, Encode

\* The null record is not a stored record.
LEMMA NoRecordIsNone == NoRecord \notin Records
BY Zenon, StoreAssumption DEF Records, NoRecord

\* The record succeed/1 builds is one generation past the cached one.
LEMMA SucceedType ==
    ASSUME TypeOK, NEW i \in Ids, NEW b \in Bodies, NEW ls \in SUBSET Labels,
           Succeed(i, b, ls).gen <= MaxGen
    PROVE  /\ Succeed(i, b, ls) \in Records
           /\ ets[i] # NoRecord => Succeed(i, b, ls).gen = ets[i].gen + 1
<1>1. CASE ets[i] = NoRecord
  BY <1>1, StoreAssumption DEF Succeed, Records
<1>2. CASE ets[i] # NoRecord
  <2>1. ets[i] \in Records
    BY Zenon, <1>2 DEF TypeOK
  <2> QED
    BY <1>2, <2>1, StoreAssumption DEF Succeed, Records
<1> QED
  BY Zenon, <1>1, <1>2

\* The store starts down, with whatever files there are.
LEMMA InitIInv == Init => IInv
<1> SUFFICES ASSUME Init PROVE IInv
  BY Zenon
<1>1. NoRecord.gen = 0 /\ Idle.op = "idle"
  BY Zenon DEF NoRecord, Idle
<1>2. TypeOK
  BY Zenon DEF Init, TypeOK, Idle, NoToken
<1>3. DownEmpty /\ InsertOnDisk /\ CachedOrChanging /\ IdleIsIdle
  BY Zenon DEF Init, DownEmpty, InsertOnDisk, CachedOrChanging, IdleIsIdle, Idle
<1>4. TokenBounds
  BY Zenon DEF Init, TokenBounds, NoToken
<1> QED
  BY Zenon, <1>2, <1>3, <1>4 DEF IInv

\* Loading (init/1, reload) preserves the invariant.
LEMMA LoadIInv == IInv /\ Load => IInv'
<1> SUFFICES ASSUME IInv, Load PROVE IInv'
  BY Zenon
<1> USE DEF IInv
<1>1. IdleServer /\ up' /\ inflight' = inflight
  BY Zenon DEF Load
<1>2. CASE LoadNothing
  <2>1. TypeOK'
    BY <1>1, <1>2, Zenon DEF LoadNothing, TypeOK
  <2>2. DownEmpty' /\ InsertOnDisk' /\ CachedOrChanging' /\ IdleIsIdle'
    BY Zenon, <1>1, <1>2 DEF LoadNothing, DownEmpty, InsertOnDisk, CachedOrChanging,
                      IdleIsIdle, IdleServer, Idle
  <2>3. TokenBounds'
    BY Zenon, <1>2 DEF LoadNothing, TokenBounds, TypeOK
  <2> QED
    BY Zenon, <2>1, <2>2, <2>3
<1>3. ASSUME NEW badRead \in SUBSET Ids, NEW stuck \in SUBSET Ids,
             LoadFiles(badRead, stuck)
      PROVE  IInv'
  <2> USE DEF Loads, HeldBack, Quarantines
  <2>1. \A i \in Ids : Loads(i, badRead) => FromJson(file[i]) \in Records
    BY Zenon, FromJsonType DEF TypeOK
  <2>2. TypeOK'
    <3>1. file' \in [Ids -> Files]
      BY Zenon, <1>3 DEF LoadFiles, TypeOK, Files, NoFile
    <3>2. ets' \in [Ids -> Records \cup {NoRecord}]
      BY Zenon, <1>3, <2>1 DEF LoadFiles
    <3>3. token' \in [id : Ids \cup {"none"}, rec : Records \cup {NoRecord},
                      kept : BOOLEAN]
      BY <1>3, Zenon DEF LoadFiles, TypeOK
    <3> QED
      BY Zenon, <1>1, <1>3, <3>1, <3>2, <3>3 DEF LoadFiles, TypeOK
  <2>3. DownEmpty' /\ InsertOnDisk' /\ IdleIsIdle'
    BY <1>1 DEF DownEmpty, InsertOnDisk, IdleIsIdle, IdleServer, Idle
  <2>4. CachedOrChanging'
    BY Zenon, <1>3 DEF LoadFiles, CachedOrChanging
  <2>5. TokenBounds'
    <3> SUFFICES ASSUME NEW i \in Ids, token'.kept, token'.id = i
                 PROVE  /\ token'.rec \in Records
                        /\ ets'[i] # NoRecord
                        /\ AtLeastRead(ets[i])'
                        /\ (file[i].kind = "record" => AtLeastRead(FromJson(file[i])))'
      BY Zenon DEF TokenBounds
    <3>1. token.kept /\ token.id = i /\ Loads(i, badRead) /\ token'.rec = token.rec
      BY <1>3, Zenon DEF LoadFiles, TypeOK
    <3>2. token.rec \in Records /\ AtLeastRead(FromJson(file[i]))
      BY Zenon, <3>1 DEF TokenBounds
    <3>3. ets'[i] = FromJson(file[i]) /\ file'[i] = file[i]
      BY Zenon, <1>3, <3>1 DEF LoadFiles
    <3>4. ets'[i] # NoRecord
      BY Zenon, <2>1, <3>1, <3>3, NoRecordIsNone
    <3>5. AtLeastRead(FromJson(file[i]))'
      BY Zenon, <3>1, <3>2, <3>3 DEF AtLeastRead, FromJson
    <3>6. AtLeastRead(ets[i])'
      BY Zenon, <3>1, <3>2, <3>3 DEF AtLeastRead
    <3> QED
      BY Zenon, <3>1, <3>2, <3>4, <3>5, <3>6
  <2> QED
    BY Zenon, <2>2, <2>3, <2>4, <2>5
<1> QED
  BY Zenon, <1>2, <1>3 DEF Load, Faulty

\* The disk step of a put: the file moves one generation ahead of the cache.
LEMMA WriteFileIInv ==
    ASSUME IInv, NEW i \in Ids, NEW r \in Records, Serving(i), WriteFile(i, r),
           ets[i] # NoRecord => r.gen = ets[i].gen + 1
    PROVE  IInv'
<1> USE DEF IInv
<1>1. /\ Encode(r) \in Files
      /\ file' = [file EXCEPT ![i] = Encode(r)]
      /\ inflight' = [inflight EXCEPT ![i] = [op |-> "insert", rec |-> r]]
      /\ UNCHANGED <<up, ets, unreadable, quarantined, token>>
  BY Zenon, RoundTrip DEF WriteFile
<1>2. TypeOK'
  BY Zenon, <1>1 DEF TypeOK
<1>3. DownEmpty'
  BY Zenon, <1>1 DEF Serving, DownEmpty
<1>4. InsertOnDisk' /\ CachedOrChanging' /\ IdleIsIdle'
  BY Zenon, <1>1 DEF TypeOK, InsertOnDisk, CachedOrChanging, IdleIsIdle
<1>5. TokenBounds'
  <2> SUFFICES ASSUME NEW j \in Ids, token.kept, token.id = j
               PROVE  /\ token.rec \in Records
                      /\ up => ets[j] # NoRecord
                      /\ ets[j] # NoRecord => AtLeastRead(ets[j])
                      /\ file'[j].kind = "record" => AtLeastRead(FromJson(file'[j]))
    BY Zenon, <1>1 DEF TokenBounds, AtLeastRead
  <2>1. CASE j # i
    BY Zenon, <1>1, <2>1 DEF TokenBounds, TypeOK
  <2>2. CASE j = i
    <3>1. file'[i] = Encode(r) /\ FromJson(file'[i]) = r
      BY Zenon, <1>1, RoundTrip DEF TypeOK
    <3>2. ets[i] # NoRecord /\ AtLeastRead(ets[i]) /\ token.rec \in Records
      BY Zenon, <2>2 DEF Serving, TokenBounds
    <3>3. ets[i] \in Records
      BY Zenon, <3>2 DEF TypeOK
    <3>4. AtLeastRead(r)
      BY <3>2, <3>3, StoreAssumption DEF AtLeastRead, Records
    <3> QED
      BY Zenon, <2>2, <3>1, <3>2, <3>4
  <2> QED
    BY Zenon, <2>1, <2>2
<1> QED
  BY Zenon, <1>2, <1>3, <1>4, <1>5

\* The disk step of a delete, whether or not File.rm succeeds.
LEMMA RemoveFileIInv ==
    ASSUME IInv, NEW i \in Ids, Serving(i), RemoveFile(i)
    PROVE  IInv'
<1> USE DEF IInv
<1>1. /\ \A j \in Ids : file'[j] = file[j] \/ (j = i /\ file'[j] = NoFile)
      /\ inflight' = [inflight EXCEPT ![i] = [op |-> "remove", rec |-> NoRecord]]
      /\ UNCHANGED <<up, ets, unreadable, quarantined, token>>
  BY Zenon DEF RemoveFile, TypeOK
<1>2. TypeOK'
  <2>1. file' \in [Ids -> Files]
    BY DEF RemoveFile, TypeOK, Files, NoFile
  <2> QED
    BY <1>1, <2>1, Zenon DEF TypeOK
<1>3. DownEmpty'
  BY Zenon, <1>1 DEF Serving, DownEmpty
<1>4. inflight[i] = Idle
  BY Zenon DEF Serving, IdleServer
<1>5. InsertOnDisk' /\ IdleIsIdle'
  BY Zenon, <1>1 DEF TypeOK, InsertOnDisk, IdleIsIdle
<1>6. CachedOrChanging'
  BY <1>1, <1>4 DEF TypeOK, CachedOrChanging, Idle, NoFile
<1>7. TokenBounds'
  BY <1>1 DEF TokenBounds, AtLeastRead, NoFile
<1> QED
  BY Zenon, <1>2, <1>3, <1>5, <1>6, <1>7

\* The ETS step of a put.
LEMMA InsertEtsIInv ==
    ASSUME IInv, NEW i \in Ids, InsertEts(i)
    PROVE  IInv'
<1> USE DEF IInv
<1>1. /\ up
      /\ inflight[i].rec \in Records
      /\ file[i] = Encode(inflight[i].rec)
      /\ ets' = [ets EXCEPT ![i] = inflight[i].rec]
      /\ inflight' = [inflight EXCEPT ![i] = Idle]
      /\ UNCHANGED <<up, file, unreadable, quarantined, token>>
  BY Zenon DEF InsertEts, InsertOnDisk
<1>2. FromJson(file[i]) = inflight[i].rec /\ file[i].kind = "record"
  BY Zenon, <1>1, RoundTrip
<1>3. TypeOK'
  BY Zenon, <1>1 DEF TypeOK, Idle
<1>4. DownEmpty'
  BY Zenon, <1>1 DEF DownEmpty
<1>5. InsertOnDisk' /\ IdleIsIdle'
  BY Zenon, <1>1 DEF TypeOK, InsertOnDisk, IdleIsIdle, Idle
<1>6. CachedOrChanging'
  BY Zenon, <1>1, <1>2 DEF TypeOK, CachedOrChanging
<1>7. TokenBounds'
  <2> SUFFICES ASSUME NEW j \in Ids, token.kept, token.id = j
               PROVE  /\ token.rec \in Records
                      /\ up => ets'[j] # NoRecord
                      /\ ets'[j] # NoRecord => AtLeastRead(ets'[j])
                      /\ file[j].kind = "record" => AtLeastRead(FromJson(file[j]))
    BY <1>1 DEF TokenBounds, AtLeastRead
  <2>1. CASE j # i
    BY Zenon, <1>1, <2>1 DEF TokenBounds, TypeOK
  <2>2. CASE j = i
    BY Zenon, <1>1, <1>2, <2>2, NoRecordIsNone DEF TokenBounds, TypeOK
  <2> QED
    BY Zenon, <2>1, <2>2
<1> QED
  BY Zenon, <1>3, <1>4, <1>5, <1>6, <1>7

\* The ETS step of a delete.
LEMMA DropEtsIInv ==
    ASSUME IInv, NEW i \in Ids, DropEts(i)
    PROVE  IInv'
<1> USE DEF IInv
<1>1. /\ up
      /\ inflight[i].op = "remove"
      /\ ets' = [ets EXCEPT ![i] = NoRecord]
      /\ inflight' = [inflight EXCEPT ![i] = Idle]
      /\ token' = IF token.id = i THEN [token EXCEPT !.kept = FALSE] ELSE token
      /\ UNCHANGED <<up, file, unreadable, quarantined>>
  BY Zenon DEF DropEts
<1>2. TypeOK'
  BY <1>1, Zenon DEF TypeOK, Idle
<1>3. DownEmpty'
  BY Zenon, <1>1 DEF DownEmpty
<1>4. InsertOnDisk' /\ CachedOrChanging' /\ IdleIsIdle'
  BY Zenon, <1>1 DEF TypeOK, InsertOnDisk, CachedOrChanging, IdleIsIdle, Idle
<1>5. TokenBounds'
  <2>1. CASE token.id = i
    BY Zenon, <1>1, <2>1 DEF TokenBounds, TypeOK
  <2>2. CASE token.id # i
    BY <1>1, <2>2 DEF TokenBounds, TypeOK, AtLeastRead
  <2> QED
    BY Zenon, <2>1, <2>2
<1> QED
  BY Zenon, <1>2, <1>3, <1>4, <1>5

-----------------------------------------------------------------------------
\* Every step preserves the invariant.
LEMMA NextIInv == IInv /\ [Next]_vars => IInv'
<1> SUFFICES ASSUME IInv, [Next]_vars PROVE IInv'
  BY Zenon
<1>1. CASE Load
  BY Zenon, <1>1, LoadIInv
<1>2. CASE Crash
  <2>1. TypeOK'
    BY <1>2, Zenon DEF IInv, TypeOK, Crash, Idle
  <2>2. DownEmpty' /\ InsertOnDisk' /\ CachedOrChanging' /\ IdleIsIdle'
    BY Zenon, <1>2 DEF Crash, DownEmpty, InsertOnDisk, CachedOrChanging, IdleIsIdle,
                Idle
  <2>3. TokenBounds'
    BY Zenon, <1>2 DEF IInv, Crash, TokenBounds, AtLeastRead
  <2> QED
    BY Zenon, <2>1, <2>2, <2>3 DEF IInv
<1>3. ASSUME NEW i \in Ids, NewerBuildWrites(i) PROVE IInv'
  <2>1. TypeOK'
    BY Zenon, <1>3 DEF IInv, TypeOK, NewerBuildWrites, FutureFile, Files
  <2>2. DownEmpty' /\ InsertOnDisk' /\ CachedOrChanging' /\ IdleIsIdle'
    BY <1>3 DEF IInv, NewerBuildWrites, DownEmpty, InsertOnDisk,
                CachedOrChanging, IdleIsIdle, Idle
  <2>3. TokenBounds'
    BY Zenon, <1>3 DEF IInv, TypeOK, NewerBuildWrites, FutureFile, TokenBounds,
                AtLeastRead
  <2> QED
    BY Zenon, <2>1, <2>2, <2>3 DEF IInv
<1>4. ASSUME NEW i \in Ids, NEW b \in Bodies, NEW ls \in SUBSET Labels,
             Put(i, b, ls)
      PROVE  IInv'
  <2>1. Succeed(i, b, ls).gen <= MaxGen
    BY Zenon, <1>4 DEF Put, WriteFile
  <2> QED
    BY Zenon, <1>4, <2>1, SucceedType, WriteFileIInv DEF Put, IInv
<1>5. ASSUME NEW i \in Ids, NEW ls \in SUBSET Labels, MergeMetadata(i, ls)
      PROVE  IInv'
  <2> DEFINE r == Succeed(i, ets[i].body, ets[i].labels \cup ls)
  <2>1. ets[i] \in Records
    BY Zenon, <1>5 DEF MergeMetadata, IInv, TypeOK
  <2>2. ets[i].body \in Bodies /\ ets[i].labels \cup ls \in SUBSET Labels
    BY Zenon, <2>1 DEF Records
  <2>3. r.gen <= MaxGen
    BY Zenon, <1>5 DEF MergeMetadata, WriteFile
  <2>4. r \in Records /\ (ets[i] # NoRecord => r.gen = ets[i].gen + 1)
    BY Zenon, <2>2, <2>3, SucceedType DEF IInv
  <2>5. Serving(i) /\ WriteFile(i, r)
    BY Zenon, <1>5 DEF MergeMetadata
  <2> HIDE DEF r
  <2> QED
    BY Zenon, <2>4, <2>5, WriteFileIInv
<1>6. ASSUME NEW i \in Ids, InsertEts(i) PROVE IInv'
  BY Zenon, <1>6, InsertEtsIInv
<1>7. ASSUME NEW i \in Ids, Delete(i) PROVE IInv'
  BY Zenon, <1>7, RemoveFileIInv DEF Delete
<1>8. ASSUME NEW i \in Ids, DeleteIfMatch(i) PROVE IInv'
  BY Zenon, <1>8, RemoveFileIInv DEF DeleteIfMatch
<1>9. ASSUME NEW i \in Ids, DropEts(i) PROVE IInv'
  BY Zenon, <1>9, DropEtsIInv
<1>10. ASSUME NEW i \in Ids, ReadForFence(i) PROVE IInv'
  <2>1. /\ ets[i] \in Records
        /\ ets[i] # NoRecord
        /\ token' = [id |-> i, rec |-> ets[i], kept |-> TRUE]
        /\ UNCHANGED <<up, file, ets, unreadable, quarantined, inflight>>
    BY Zenon, <1>10 DEF ReadForFence, IInv, TypeOK
  <2>2. TypeOK'
    BY Zenon, <2>1 DEF IInv, TypeOK
  <2>3. DownEmpty' /\ InsertOnDisk' /\ CachedOrChanging' /\ IdleIsIdle'
    BY Zenon, <2>1 DEF IInv, DownEmpty, InsertOnDisk, CachedOrChanging, IdleIsIdle
  <2>4. ASSUME file[i].kind = "record"
        PROVE  /\ ets[i].gen <= FromJson(file[i]).gen
               /\ ets[i].gen = FromJson(file[i]).gen => FromJson(file[i]) = ets[i]
    <3>1. CASE inflight[i].op = "insert"
      <4>1. /\ FromJson(file[i]) = inflight[i].rec
            /\ inflight[i].rec.gen = ets[i].gen + 1
        BY Zenon, <2>1, <3>1, RoundTrip DEF IInv, InsertOnDisk
      <4>2. ets[i].gen \in Int
        BY <2>1, StoreAssumption DEF Records
      <4>3. FromJson(file[i]).gen = ets[i].gen + 1
        BY Zenon, <4>1
      <4>4. /\ ets[i].gen <= FromJson(file[i]).gen
            /\ ets[i].gen # FromJson(file[i]).gen
        BY <4>2, <4>3
      <4> QED
        BY Zenon, <4>4
    <3>2. CASE inflight[i].op # "insert"
      <4>1. ets[i] = FromJson(file[i])
        BY Zenon, <2>1, <2>4, <3>2 DEF IInv, CachedOrChanging
      <4>2. ets[i].gen \in Int
        BY <2>1, StoreAssumption DEF Records
      <4> QED
        BY <4>1, <4>2
    <3> QED
      BY Zenon, <3>1, <3>2
  <2>5. ets[i].gen <= ets[i].gen
    BY <2>1, StoreAssumption DEF Records
  <2>6. TokenBounds'
    BY Zenon, <2>1, <2>4, <2>5 DEF TokenBounds, AtLeastRead
  <2> QED
    BY Zenon, <2>2, <2>3, <2>6 DEF IInv
<1>11. CASE UNCHANGED vars
  BY Zenon, <1>11 DEF vars, IInv, TypeOK, DownEmpty, InsertOnDisk, CachedOrChanging,
               IdleIsIdle, TokenBounds, AtLeastRead
<1>12. ASSUME NEW i \in Ids, FailedWrite(i) PROVE IInv'
  BY Zenon, <1>11, <1>12 DEF FailedWrite
<1> QED
  BY Zenon, <1>1, <1>2, <1>3, <1>4, <1>5, <1>6, <1>7, <1>8, <1>9, <1>10, <1>11, <1>12
  DEF Next

\* Every reachable state satisfies the inductive invariant.
THEOREM StoreInvariant == Spec => []IInv
BY InitIInv, NextIInv, PTL DEF Spec

\* Every reachable state is well typed.
THEOREM TypeCorrect == Spec => []TypeOK
<1>1. IInv => TypeOK
  BY Zenon DEF IInv
<1> QED
  BY <1>1, StoreInvariant, PTL

\* A reader never sees a record that a restart would not bring back, whatever
\* file operations fail and wherever the store crashes.
THEOREM CacheIsBacked == Spec => []CacheBacked
<1>1. IInv => CacheBacked
  <2>1. ASSUME CachedOrChanging, NEW i \in Ids, ets[i] # NoRecord,
               inflight[i] = Idle
        PROVE  file[i].kind = "record" /\ ets[i] = FromJson(file[i])
    <3>1. inflight[i].op = "idle"
      BY ONLY <2>1 DEF Idle
    <3> QED BY Zenon, <2>1, <3>1 DEF CachedOrChanging
  <2> QED BY Zenon, <2>1 DEF IInv, CacheBacked
<1> QED
  BY <1>1, StoreInvariant, PTL

\* Compare-and-delete is sound for as long as the record was not deleted and
\* created again, across crashes and reloads.
THEOREM FenceHoldsWhileKept == Spec => []FenceSoundWhileKept
<1>1. IInv => FenceSoundWhileKept
  BY Zenon DEF IInv, TokenBounds, AtLeastRead, FenceSoundWhileKept
<1> QED
  BY <1>1, StoreInvariant, PTL

-----------------------------------------------------------------------------
(* Guarantees that depend on which file operations can fail.               *)

\* A running store left no unread file in place without holding it back.
UnreadHeldBack ==
    up => \A i \in Ids :
            /\ file[i].kind # "corrupt"
            /\ file[i].kind = "future" => i \in unreadable

LoadReliable == DiskFaults \cap {"ls", "read", "rename"} = {}

\* Only two things change a file outside Load: a handler serving its uuid, and
\* a newer build while this one is down.
LEMMA FileChanges ==
    ASSUME TypeOK, [Next]_vars, ~Load, NEW j \in Ids
    PROVE  \/ file'[j] = file[j]
           \/ up /\ j \notin unreadable /\ file'[j].kind \in {"none", "record"}
           \/ ~up /\ ~up' /\ file'[j] = FutureFile
<1> DEFINE Goal == \/ file'[j] = file[j]
                   \/ up /\ j \notin unreadable
                         /\ file'[j].kind \in {"none", "record"}
                   \/ ~up /\ ~up' /\ file'[j] = FutureFile
<1>1. ASSUME NEW i \in Ids, NEW r, Serving(i), WriteFile(i, r) PROVE Goal
  BY Zenon, <1>1 DEF TypeOK, Serving, WriteFile, Encode
<1>2. ASSUME NEW i \in Ids, Serving(i), RemoveFile(i) PROVE Goal
  BY <1>2 DEF TypeOK, Serving, RemoveFile, NoFile
<1>3. ASSUME NEW i \in Ids, NewerBuildWrites(i) PROVE Goal
  BY Zenon, <1>3 DEF TypeOK, NewerBuildWrites
<1>4. ASSUME file' = file PROVE Goal
  BY Zenon, <1>4
<1> HIDE DEF Goal
<1>5. Goal
  BY <1>1, <1>2, <1>3, <1>4, Zenon DEF Next, vars, Crash, Put, MergeMetadata,
     FailedWrite, InsertEts, Delete, DeleteIfMatch, DropEts, ReadForFence
<1> QED
  BY Zenon, <1>5 DEF Goal

\* With reliable listing, reading and renaming, unread files stay held back.
LEMMA UnreadHeldBackStep ==
    ASSUME LoadReliable
    PROVE  IInv /\ UnreadHeldBack /\ [Next]_vars => UnreadHeldBack'
<1> SUFFICES ASSUME IInv, UnreadHeldBack, [Next]_vars PROVE UnreadHeldBack'
  BY Zenon
<1> USE DEF IInv, TypeOK
<1>1. CASE Load
  <2>1. LoadFiles({}, {})
    BY <1>1, Zenon DEF Load, LoadNothing, Faulty, LoadReliable
  <2>2. ASSUME NEW i \in Ids, file'[i].kind \in {"corrupt", "future"}
        PROVE  file'[i] = file[i] /\ ~Quarantines(i, {}, {})
    <3>1. file'[i] = IF Quarantines(i, {}, {}) THEN NoFile ELSE file[i]
      BY Zenon, <2>1 DEF LoadFiles
    <3>2. NoFile.kind = "none"
      BY Zenon DEF NoFile
    <3> QED BY Zenon, <2>2, <3>1, <3>2
  <2>3. ASSUME NEW i \in Ids, file'[i].kind \in {"corrupt", "future"}
        PROVE  HeldBack(i, {}) /\ file'[i].kind = "future" /\ i \in unreadable'
    <3>1. file[i].kind \in {"corrupt", "future"} /\ HeldBack(i, {})
      BY Zenon, <2>2, <2>3 DEF Quarantines, Loads
    <3> QED BY Zenon, <2>1, <2>2, <2>3, <3>1 DEF LoadFiles, HeldBack
  <2> QED
    BY Zenon, <2>3 DEF UnreadHeldBack
<1>2. ASSUME ~(Load \/ Crash), up' PROVE UnreadHeldBack'
  <2>1. up /\ unreadable' = unreadable
    <3>1. CASE UNCHANGED vars
      BY Zenon, <1>2, <3>1 DEF vars
    <3>2. ASSUME NEW i \in Ids, NewerBuildWrites(i)
          PROVE  up /\ unreadable' = unreadable
      BY Zenon, <1>2, <3>2 DEF NewerBuildWrites
    <3>3. ASSUME NEW i \in Ids, NEW ls \in SUBSET Labels,
                 \/ \E b \in Bodies : Put(i, b, ls)
                 \/ MergeMetadata(i, ls)
          PROVE  up /\ unreadable' = unreadable
      BY Zenon, <3>3 DEF Put, MergeMetadata, WriteFile, Serving
    <3>4. ASSUME NEW i \in Ids, Delete(i) \/ DeleteIfMatch(i)
          PROVE  up /\ unreadable' = unreadable
      BY Zenon, <3>4 DEF Delete, DeleteIfMatch, RemoveFile, Serving
    <3>5. ASSUME NEW i \in Ids,
                 FailedWrite(i) \/ InsertEts(i) \/ DropEts(i) \/ ReadForFence(i)
          PROVE  up /\ unreadable' = unreadable
      <4>1. CASE FailedWrite(i) \/ ReadForFence(i)
        BY Zenon, <4>1 DEF FailedWrite, ReadForFence, Serving, vars
      <4>2. CASE InsertEts(i) \/ DropEts(i)
        BY Zenon, <4>2 DEF InsertEts, DropEts, Serving
      <4> QED BY Zenon, <3>5, <4>1, <4>2
    <3> QED BY <1>2, <3>1, <3>2, <3>3, <3>4, <3>5, Zenon DEF Next
  <2>2. \A i \in Ids : \/ file'[i] = file[i]
                       \/ file'[i].kind \in {"none", "record"}
    BY Zenon, <1>2, <2>1, FileChanges
  <2> QED
    BY Zenon, <2>1, <2>2 DEF UnreadHeldBack
<1>3. CASE ~up'
  BY Zenon, <1>3 DEF UnreadHeldBack
<1>4. CASE Crash
  BY Zenon, <1>4 DEF Crash, UnreadHeldBack
<1> QED
  BY Zenon, <1>1, <1>2, <1>3, <1>4

\* One step of UnreadFilesKept.
UnreadKeptStep ==
    \A i \in Ids :
        /\ file[i].kind = "future" => file'[i] = file[i]
        /\ file[i].kind = "corrupt" /\ file'[i] # file[i] =>
             i \in quarantined' \/ file'[i] = FutureFile

\* When listing, reading and renaming do not fail, a file this build cannot
\* read is never discarded and one from a newer build never touched.
THEOREM UnreadNeverDiscarded ==
    ASSUME LoadReliable
    PROVE  Spec => UnreadFilesKept
<1>1. Init => UnreadHeldBack
  BY Zenon DEF Init, UnreadHeldBack
<1>2. IInv /\ UnreadHeldBack /\ [Next]_vars => UnreadHeldBack'
  BY Zenon, UnreadHeldBackStep
<1>3. IInv /\ UnreadHeldBack /\ [Next]_vars => [UnreadKeptStep]_vars
  <2> SUFFICES ASSUME IInv, UnreadHeldBack, Next PROVE UnreadKeptStep
    BY Zenon DEF vars
  <2> USE DEF IInv, TypeOK
  <2>1. CASE Load
    <3>1. LoadFiles({}, {})
      BY <2>1, Zenon DEF Load, LoadNothing, Faulty, LoadReliable
    <3> QED
      BY Zenon, <3>1 DEF LoadFiles, Loads, HeldBack, Quarantines, UnreadKeptStep
  <2>2. CASE ~Load
    <3>1. \A i \in Ids : \/ file'[i] = file[i]
                         \/ up /\ i \notin unreadable
                         \/ ~up /\ file'[i] = FutureFile
      BY Zenon, <2>2, FileChanges
    <3>2. \A i \in Ids : file[i].kind = "future" => file[i] = FutureFile
      BY Zenon DEF Files, FutureFile
    <3> QED
      BY Zenon, <3>1, <3>2 DEF UnreadHeldBack, UnreadKeptStep
  <2> QED
    BY Zenon, <2>1, <2>2
<1>4. Spec => [][UnreadKeptStep]_vars
  BY <1>1, <1>2, <1>3, StoreInvariant, PTL DEF Spec
<1> QED
  BY Zenon, <1>4 DEF UnreadFilesKept, UnreadKeptStep

-----------------------------------------------------------------------------
DeleteReliable == DiskFaults \cap {"rm", "ls", "rename"} = {}

\* A running store knows every record on disk, and a record it is about to
\* drop from the cache is gone from disk.
KnowsDisk ==
    up => \A i \in Ids :
            /\ file[i].kind = "record" =>
                 ets[i] # NoRecord \/ inflight[i].op = "insert"
            /\ inflight[i].op = "remove" => file[i].kind = "none"

\* With reliable removal, listing and renaming, the store keeps knowing.
LEMMA KnowsDiskStep ==
    ASSUME DeleteReliable
    PROVE  IInv /\ KnowsDisk /\ [Next]_vars => KnowsDisk'
<1> SUFFICES ASSUME IInv, KnowsDisk, [Next]_vars PROVE KnowsDisk'
  BY Zenon
<1> USE DEF IInv, TypeOK
<1>1. CASE Load
  <2>0. "ls" \notin DiskFaults /\ "rename" \notin DiskFaults
    BY Zenon DEF DeleteReliable
  <2>1. PICK badRead \in SUBSET Ids : LoadFiles(badRead, {})
    <3>1. PICK badRead \in Faulty("read"), stuck \in Faulty("rename") :
            LoadFiles(badRead, stuck)
      BY Zenon, <1>1, <2>0 DEF Load, LoadNothing
    <3>2. stuck = {} /\ badRead \in SUBSET Ids
      BY Zenon, <2>0 DEF Faulty
    <3> QED
      BY Zenon, <3>1, <3>2
  <2>2. \A i \in Ids : Loads(i, badRead) => FromJson(file[i]) # NoRecord
    BY FromJsonType, NoRecordIsNone DEF Loads
  <2>3. \A i \in Ids : file'[i].kind = "record" => ets'[i] # NoRecord
    BY Zenon, <2>1, <2>2 DEF LoadFiles, Loads, HeldBack, Quarantines, NoFile
  <2>4. \A i \in Ids : inflight'[i].op = "idle"
    BY <1>1 DEF Load, IdleServer, Idle
  <2> QED
    BY Zenon, <2>3, <2>4 DEF KnowsDisk
<1>2. CASE ~up'
  BY Zenon, <1>2 DEF KnowsDisk
<1>3. ASSUME NEW i \in Ids, NEW r, Serving(i), WriteFile(i, r)
      PROVE  KnowsDisk'
  BY Zenon, <1>3 DEF Serving, WriteFile, KnowsDisk, Encode
<1>4. ASSUME NEW i \in Ids, Serving(i), RemoveFile(i) PROVE KnowsDisk'
  BY <1>4 DEF Serving, RemoveFile, KnowsDisk, NoFile, DeleteReliable
<1>5. ASSUME NEW i \in Ids, InsertEts(i) PROVE KnowsDisk'
  BY Zenon, <1>5, NoRecordIsNone DEF InsertEts, InsertOnDisk, KnowsDisk, Idle
<1>6. ASSUME NEW i \in Ids, DropEts(i) PROVE KnowsDisk'
  BY Zenon, <1>6 DEF DropEts, KnowsDisk, Idle
<1>7. ASSUME UNCHANGED <<up, file, ets, inflight>> PROVE KnowsDisk'
  BY Zenon, <1>7 DEF KnowsDisk
<1>8. CASE Crash
  BY Zenon, <1>2, <1>8 DEF Crash
<1>9. ASSUME NEW i \in Ids, NewerBuildWrites(i) PROVE KnowsDisk'
  BY Zenon, <1>2, <1>9 DEF NewerBuildWrites
<1> QED
  BY Zenon, <1>1, <1>3, <1>4, <1>5, <1>6, <1>7, <1>8, <1>9
  DEF Next, vars, Put, MergeMetadata, FailedWrite, Delete, DeleteIfMatch,
      ReadForFence

\* Where File.rm, File.ls and File.rename do not fail, the cache misses
\* nothing: the failing File.rm is the only hole in the coherence guarantee
\* that an otherwise healthy disk leaves.
THEOREM CacheIsComplete ==
    ASSUME DeleteReliable
    PROVE  Spec => []CacheComplete
<1>1. Init => KnowsDisk
  BY Zenon DEF Init, KnowsDisk
<1>2. IInv /\ KnowsDisk /\ [Next]_vars => KnowsDisk'
  BY Zenon, KnowsDiskStep
<1>3. KnowsDisk => CacheComplete
  BY DEF KnowsDisk, CacheComplete, Idle
<1> QED
  BY <1>1, <1>2, <1>3, StoreInvariant, PTL DEF Spec

=============================================================================
