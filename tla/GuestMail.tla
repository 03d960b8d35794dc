------------------------------ MODULE GuestMail ------------------------------
(* Mail from the host's spool to the guest's hook and back: Mjolnir.Mailbox  *)
(* and the VM's delivery cast on the host, the agent's inbox, its consume    *)
(* loop and its /recv, /ack and /done endpoints in the guest (consume.rs,    *)
(* agent.rs, vsock.rs).  The connection, the agent and the host may each be  *)
(* lost between any two steps.                                               *)
EXTENDS Naturals, Sequences, FiniteSets

CONSTANTS
    Mail,           \* producer ids
    NoMail,
    MaxAttempts,    \* mailbox_max_attempts
    MailMenus       \* per behaviour: the ids posted, and how often each fault and each
                    \* caller may act

ASSUME MaxAttemptsPositive == MaxAttempts \in Nat \ {0}

ASSUME MailMenusTyped ==
    MailMenus \subseteq [ids : SUBSET Mail, post : Nat, late : Nat, write : Nat, kill : Nat, disk : Nat,
                         wire : Nat, agent : Nat, host : Nat, done : Nat, client : BOOLEAN]

VARIABLES
    unread,         \* the records in @mail/<vm>: id -> [seq, attempts, late]
    tomb,           \* id -> its tombstones, of {"acked", "bounced"}
    op,             \* what the Mailbox process is in the middle of
    kicked,         \* a kick is in the Mailbox process's queue
    looking,        \* a spawned kick_consumer has not looked the VM up yet
    cast,           \* a :deliver_mailbox is in the VM process's queue
    draining,       \* the records that cast still has to deliver
    vm,             \* "up", "leaving" (the guest still runs), "exiting" (terminate is
                    \* done, the process still registered), "dormant" or "gone"
    joined,         \* the vsock connection is up
    down, up,       \* frames to the guest, and from it
    inbox,          \* message_inbox
    seen,           \* ids in the seen file, and in the loop's memory: [disk, ram]
    loop,           \* the consume loop: [pc, item]
    app,            \* a client of the agent's HTTP server: [pc, item, woken]
    files,          \* id -> how often the drop file was written and the hook run
    snapshot,       \* the disk in the dormant snapshot: [seen, files]
    appAcked,       \* ids a client acknowledged
    undone,         \* ids whose hand-over was cut short, or undone by a rollback
    missed,         \* a wake was lost: cast to a leaving VM, or in a host crash
    mailMenu

hostVars  == <<unread, tomb, op, kicked, looking, cast, draining>>
guestVars == <<inbox, seen, loop, app, files>>
ghostVars == <<snapshot, appAcked, undone, missed>>
mailVars  == <<hostVars, guestVars, ghostVars, vm, joined, down, up, mailMenu>>

IdleOp   == [do |-> "idle"]
NoClient == [pc |-> "idle", item |-> NoMail, woken |-> FALSE]
Unread   == DOMAIN unread
Agent    == vm \in {"up", "leaving"}                \* the guest runs
SpendMail(what) == mailMenu[what] > 0 /\ mailMenu' = [mailMenu EXCEPT ![what] = @ - 1]

(* ---- the Mailbox process: one call at a time ---- *)

known(m) == m \in Unread \/ tomb[m] # {}

Highest(S) == CHOOSE n \in S : \A k \in S : k <= n

next_seq == IF Unread = {} THEN 1 ELSE Highest({unread[m].seq : m \in Unread}) + 1

give_up(rec) == rec.attempts >= MaxAttempts \/ rec.late

\* The listings of a set in an order: exactly one when the order is total on it.
Listings(S, Precedes(_, _)) ==
    {f \in [1..Cardinality(S) -> S] : \A i, j \in DOMAIN f : i < j => Precedes(f[i], f[j])}

list_unacked == Listings(Unread, LAMBDA a, b : unread[a].seq < unread[b].seq)

\* The tombstone is written, then the live file removed, one id after another,
\* the oldest first; the process then spawns a kick_consumer if it was kicked.
Settling(how, ids, kicks) ==
    op' = IF ids = {} THEN IdleOp
          ELSE [do |-> how, ids |-> ids, written |-> FALSE, kick |-> kicks]

Oldest(m) == \A n \in op.ids : unread[m].seq <= unread[n].seq

\* A known id is a duplicate and is not written again; either way the consumer
\* is kicked.  A guest's send reaches the spool of a VM nobody knows too.
accept(m) ==
    /\ op = IdleOp /\ SpendMail("post")
    /\ unread' = IF known(m) THEN unread
                 ELSE [x \in Unread \cup {m} |-> IF x = m THEN [seq |-> next_seq, attempts |-> 0, late |-> FALSE]
                                               ELSE unread[x]]
    /\ kicked' = TRUE
    /\ UNCHANGED <<tomb, op, looking, cast, draining, guestVars, ghostVars, vm, joined, down, up>>

kick ==
    /\ op = IdleOp /\ kicked
    /\ kicked' = FALSE
    /\ LET expired == {m \in Unread : give_up(unread[m])} IN
         /\ Settling("bounced", expired, TRUE)
         /\ looking' = (looking \/ expired = {})
    /\ UNCHANGED <<unread, tomb, cast, draining, guestVars, ghostVars, vm, joined, down, up, mailMenu>>

\* The first half of do_ack and of bounce_record.
write_tombstone ==
    /\ op # IdleOp /\ ~op.written
    /\ \E m \in op.ids : Oldest(m) /\ tomb' = [tomb EXCEPT ![m] = @ \cup {op.do}]
    /\ op' = [op EXCEPT !.written = TRUE]
    /\ UNCHANGED <<unread, kicked, looking, cast, draining, guestVars, ghostVars, vm, joined, down, up, mailMenu>>

\* A write fails: do_ack stops there, bounce_record removes the file all the same.
WriteNewFails ==
    /\ op # IdleOp /\ ~op.written
    /\ SpendMail("write")
    /\ op' = IF op.do = "acked" THEN IdleOp ELSE [op EXCEPT !.written = TRUE]
    /\ UNCHANGED <<unread, tomb, kicked, looking, cast, draining, guestVars, ghostVars, vm, joined, down, up>>

\* The second half: File.rm(src).
remove_live ==
    /\ op # IdleOp /\ op.written
    /\ \E m \in op.ids :
         /\ Oldest(m)
         /\ unread' = [u \in Unread \ {m} |-> unread[u]]
         /\ Settling(op.do, op.ids \ {m}, op.kick)
         /\ looking' = (looking \/ (op.ids = {m} /\ op.kick))
    /\ UNCHANGED <<tomb, kicked, cast, draining, guestVars, ghostVars, vm, joined, down, up, mailMenu>>

\* An hour, a day: a record reaches mailbox_ttl_ms.
Late(m) ==
    /\ m \in Unread /\ ~unread[m].late /\ SpendMail("late")
    /\ unread' = [unread EXCEPT ![m].late = TRUE]
    /\ UNCHANGED <<tomb, op, kicked, looking, cast, draining, guestVars, ghostVars, vm, joined, down, up>>

\* The agent starts: its memory is empty, the seen file is read.
Start(disk) ==
    /\ inbox' = <<>> /\ down' = <<>> /\ up' = <<>>
    /\ seen' = [disk |-> disk, ram |-> disk]
    /\ loop' = [pc |-> "look", item |-> NoMail]
    /\ app' = NoClient

\* restore_for_mail: the disk is the one of the snapshot.
Wake ==
    /\ vm = "dormant" /\ Unread # {}
    /\ vm' = "up" /\ joined' = TRUE /\ kicked' = TRUE
    /\ Start(snapshot.seen) /\ files' = snapshot.files
    /\ undone' = undone \cup {m \in Mail : files[m] > snapshot.files[m] \/ (m \in snapshot.seen /\ snapshot.files[m] = 0)}
    /\ UNCHANGED cast

\* A process that is about to exit is still in the registry.
kick_consumer ==
    /\ looking /\ looking' = FALSE
    /\ missed' = FALSE
    /\ \/ Wake
       \/ /\ ~(vm = "dormant" /\ Unread # {})
          /\ cast' = (vm \in {"up", "leaving", "exiting"})
          /\ UNCHANGED <<vm, joined, kicked, guestVars, undone, down, up>>
    /\ UNCHANGED <<unread, tomb, op, draining, snapshot, appAcked, mailMenu>>

(* ---- the VM process ---- *)

\* :deliver_mailbox reads the spool once, then casts and counts each record.
deliver_mailbox ==
    /\ cast /\ draining = <<>> /\ vm = "up"
    /\ cast' = FALSE
    /\ \E ids \in list_unacked : draining' = [i \in DOMAIN ids |-> [id |-> ids[i], sent |-> FALSE]]
    /\ UNCHANGED <<unread, tomb, op, kicked, looking, guestVars, ghostVars, vm, joined, down, up, mailMenu>>

\* A cast to a connection that is gone is lost.
Deliver ==
    /\ draining # <<>> /\ ~Head(draining).sent
    /\ down' = IF joined THEN Append(down, Head(draining).id) ELSE down
    /\ draining' = [draining EXCEPT ![1].sent = TRUE]
    /\ UNCHANGED <<unread, tomb, op, kicked, looking, cast, guestVars, ghostVars, vm, joined, up, mailMenu>>

\* An acknowledged record is not found any more.
record_attempt ==
    /\ draining # <<>> /\ Head(draining).sent /\ op = IdleOp
    /\ draining' = Tail(draining)
    /\ LET m == Head(draining).id IN
         IF m \notin Unread THEN UNCHANGED <<unread, op>>
         ELSE LET rec == [unread[m] EXCEPT !.attempts = @ + 1] IN
              IF give_up(rec) THEN Settling("bounced", {m}, FALSE) /\ UNCHANGED unread
              ELSE unread' = [unread EXCEPT ![m] = rec] /\ UNCHANGED op
    /\ UNCHANGED <<tomb, kicked, looking, cast, guestVars, ghostVars, vm, joined, down, up, mailMenu>>

\* handle_done, unless Admit or the snapshot refuses: the disk is saved and the
\* VM registered as dormant; the guest runs on until terminate has stopped it.
handle_done ==
    /\ up # <<>> /\ Head(up) = "done" /\ draining = <<>> /\ vm = "up"
    /\ up' = Tail(up)
    /\ \/ vm' = "leaving" /\ snapshot' = [seen |-> seen.disk, files |-> files]
       \/ UNCHANGED <<vm, snapshot>>
    /\ UNCHANGED <<hostVars, guestVars, appAcked, undone, missed, joined, down, mailMenu>>

\* Mutant: the mailbox is not kicked.
TerminateUnkicked ==
    /\ vm = "leaving"
    /\ vm' = "exiting" /\ joined' = FALSE
    /\ Start(seen.disk)
    /\ UNCHANGED <<unread, tomb, op, kicked, looking, cast, draining, files, ghostVars, mailMenu>>

\* terminate_owned of a VM that went dormant, then the exit of its process.
terminate_owned ==
    /\ vm = "leaving"
    /\ vm' = "exiting" /\ joined' = FALSE /\ kicked' = TRUE
    /\ Start(seen.disk)
    /\ UNCHANGED <<unread, tomb, op, looking, cast, draining, files, ghostVars, mailMenu>>

Exit ==
    /\ vm = "exiting"
    /\ vm' = "dormant" /\ cast' = FALSE
    /\ missed' = (missed \/ cast)
    /\ UNCHANGED <<unread, tomb, op, kicked, looking, draining, guestVars, snapshot, appAcked, undone, joined, down, up, mailMenu>>

\* VM.stop: the mailbox is dropped.
Kill ==
    /\ vm = "up" /\ op = IdleOp /\ draining = <<>>
    /\ SpendMail("kill")
    /\ vm' = "gone" /\ joined' = FALSE /\ cast' = FALSE
    /\ Settling("bounced", Unread, FALSE)
    /\ Start(seen.disk)
    /\ UNCHANGED <<unread, tomb, kicked, looking, draining, files, ghostVars>>

\* ack_messages from the guest, in the order of the frames.
ack ==
    /\ up # <<>> /\ Head(up) # "done" /\ op = IdleOp
    /\ up' = Tail(up)
    /\ IF Head(up) \notin Unread THEN UNCHANGED op ELSE Settling("acked", {Head(up)}, FALSE)
    /\ UNCHANGED <<unread, tomb, kicked, looking, cast, draining, guestVars, ghostVars, vm, joined, down, mailMenu>>

(* ---- the guest's inbox and its consume loop ---- *)

FrameOf(type) == IF joined THEN Append(up, type) ELSE up

\* Pushed without a look at what the inbox holds; notify_waiters wakes those
\* who wait at this moment and nobody else.
DeliverMessage ==
    /\ Agent /\ down # <<>>
    /\ inbox' = Append(inbox, Head(down))
    /\ down' = Tail(down)
    /\ loop' = IF loop.pc = "asleep" THEN [loop EXCEPT !.pc = "look"] ELSE loop
    /\ app' = [app EXCEPT !.woken = app.pc \in {"listening", "waiting"}]
    /\ UNCHANGED <<hostVars, seen, files, ghostVars, vm, joined, up, mailMenu>>

Loop(from, to, item) == Agent /\ loop.pc = from /\ loop' = [pc |-> to, item |-> item]

\* The front is copied under the lock; an empty inbox is left before the loop
\* waits on the notification.
consume_loop ==
    /\ \/ inbox # <<>> /\ Loop("look", "record", Head(inbox))
       \/ inbox = <<>> /\ Loop("look", "drowsy", NoMail)
       \/ Loop("drowsy", "asleep", NoMail)
    /\ UNCHANGED <<hostVars, inbox, seen, app, files, ghostVars, vm, joined, down, up, mailMenu>>

\* Mutant: an id that was seen is dispatched again.
RecordAnyway ==
    /\ Loop("record", "drop", loop.item)
    /\ seen' = [disk |-> seen.disk \cup {loop.item}, ram |-> seen.ram \cup {loop.item}]
    /\ UNCHANGED <<hostVars, inbox, app, files, ghostVars, vm, joined, down, up, mailMenu>>

\* SeenStore::record: the line is synced before the loop remembers it.
record ==
    /\ Loop("record", IF loop.item \in seen.ram THEN "ack" ELSE "drop", loop.item)
    /\ seen' = [disk |-> seen.disk \cup {loop.item}, ram |-> seen.ram \cup {loop.item}]
    /\ UNCHANGED <<hostVars, inbox, app, files, ghostVars, vm, joined, down, up, mailMenu>>

\* A failed write or sync may have left the line; the loop tries again.
RecordFails ==
    /\ Loop("record", "look", NoMail) /\ loop.item \notin seen.ram
    /\ SpendMail("disk")
    /\ seen' \in {seen, [seen EXCEPT !.disk = @ \cup {loop.item}]}
    /\ UNCHANGED <<hostVars, inbox, app, files, ghostVars, vm, joined, down, up>>

\* The drop file and the hook.
record_and_dispatch ==
    /\ Loop("drop", "ack", loop.item)
    /\ files' = [files EXCEPT ![loop.item] = @ + 1]
    /\ UNCHANGED <<hostVars, inbox, seen, app, ghostVars, vm, joined, down, up, mailMenu>>

\* The retry finds the id recorded, and only acknowledges it.
DispatchFails ==
    /\ Loop("drop", "look", NoMail)
    /\ SpendMail("disk")
    /\ undone' = undone \cup {loop.item}
    /\ UNCHANGED <<hostVars, inbox, seen, app, files, snapshot, appAcked, missed, vm, joined, down, up>>

\* The inbox forgets the id, whatever becomes of the frame.
ack_ids(m) ==
    /\ \E kept \in Listings({i \in DOMAIN inbox : inbox[i] # m}, LAMBDA i, j : i < j) :
          inbox' = [i \in DOMAIN kept |-> inbox[kept[i]]]
    /\ up' = FrameOf(m)

AckItem ==
    /\ Loop("ack", IF joined THEN "answer" ELSE "look", loop.item)
    /\ ack_ids(loop.item)
    /\ UNCHANGED <<hostVars, seen, app, files, ghostVars, vm, joined, down, mailMenu>>

\* The host's answer, the end of the connection or 30 s: the loop goes on.
AnswerEnds ==
    /\ Loop("answer", "look", NoMail)
    /\ UNCHANGED <<hostVars, inbox, seen, app, files, ghostVars, vm, joined, down, up, mailMenu>>

(* ---- a client of the HTTP server ---- *)

App(from, to, item) ==
    /\ Agent /\ app.pc = from
    /\ app' = [pc |-> to, item |-> item, woken |-> to = "waiting" /\ app.woken]

\* A peek.  The wait is registered before the inbox is looked at, and ends by a
\* notification or by the client's timeout.
handle_recv ==
    /\ \/ App("idle", "listening", NoMail)
       \/ inbox # <<>> /\ App("listening", "got", Head(inbox))
       \/ inbox = <<>> /\ App("listening", "waiting", NoMail)
       \/ inbox # <<>> /\ app.woken /\ App("waiting", "got", Head(inbox))
       \/ inbox = <<>> /\ app.woken /\ App("waiting", "idle", NoMail)
       \/ App("waiting", "idle", NoMail)
    /\ UNCHANGED <<hostVars, inbox, seen, loop, files, ghostVars, vm, joined, down, up, mailMenu>>

handle_ack ==
    /\ App("got", "idle", NoMail)
    /\ ack_ids(app.item)
    /\ appAcked' = appAcked \cup {app.item}
    /\ UNCHANGED <<hostVars, seen, loop, files, snapshot, undone, missed, vm, joined, down, mailMenu>>

\* 409 while the inbox holds mail; then the signal, which mail may overtake.
CheckInbox ==
    /\ inbox = <<>> /\ App("idle", "done", NoMail)
    /\ SpendMail("done")
    /\ UNCHANGED <<hostVars, inbox, seen, loop, files, ghostVars, vm, joined, down, up>>

SignalDone ==
    /\ App("done", "idle", NoMail)
    /\ up' = FrameOf("done")
    /\ UNCHANGED <<hostVars, inbox, seen, loop, files, ghostVars, vm, joined, down, mailMenu>>

(* ---- faults ---- *)

\* The connection ends; what is in flight on it is lost.
Disconnect ==
    /\ joined /\ SpendMail("wire")
    /\ joined' = FALSE /\ down' = <<>> /\ up' = <<>>
    /\ UNCHANGED <<hostVars, guestVars, ghostVars, vm>>

\* The health monitor rebuilds the connection, and does not kick.
rebuild_vsock_connection ==
    /\ vm = "up" /\ ~joined
    /\ joined' = TRUE
    /\ UNCHANGED <<hostVars, guestVars, ghostVars, vm, down, up, mailMenu>>

AgentCrash ==
    /\ Agent /\ SpendMail("agent")
    /\ joined' = FALSE
    /\ Start(seen.disk)
    /\ undone' = undone \cup {m \in seen.disk : files[m] = 0}
    /\ UNCHANGED <<hostVars, files, snapshot, appAcked, missed, vm>>

\* The host restarts and sweeps: tombstones past their retention go, records
\* past theirs and those of a VM that is gone are bounced, the rest is kicked.
sweep(ids) ==
    /\ SpendMail("host")
    /\ tomb' = [m \in Mail |-> IF m \in ids THEN {} ELSE tomb[m]]
    /\ LET bounced == {m \in Unread : give_up(unread[m]) \/ vm = "gone"} IN
         /\ Settling("bounced", bounced, vm # "gone")
         /\ looking' = (bounced = {} /\ Unread # {})
    /\ kicked' = FALSE /\ cast' = FALSE /\ draining' = <<>>
    /\ vm' = IF vm \in {"leaving", "exiting"} THEN "dormant" ELSE vm
    /\ joined' = FALSE /\ down' = <<>> /\ up' = <<>>
    /\ UNCHANGED <<unread, guestVars, ghostVars>>

MailInit ==
    /\ unread = <<>> /\ tomb = [m \in Mail |-> {}] /\ op = IdleOp
    /\ kicked = FALSE /\ looking = FALSE /\ cast = FALSE /\ draining = <<>>
    /\ vm = "up" /\ joined = TRUE /\ down = <<>> /\ up = <<>>
    /\ inbox = <<>> /\ seen = [disk |-> {}, ram |-> {}] /\ files = [m \in Mail |-> 0]
    /\ loop = [pc |-> "look", item |-> NoMail] /\ app = NoClient
    /\ snapshot = [seen |-> {}, files |-> files] /\ appAcked = {} /\ undone = {} /\ missed = FALSE
    /\ mailMenu \in MailMenus

\* A client acknowledges mail of its own accord in some behaviours only.
Client == mailMenu.client /\ (handle_recv \/ handle_ack)

MailHost == \/ kick \/ write_tombstone \/ WriteNewFails \/ remove_live \/ kick_consumer
            \/ deliver_mailbox \/ Deliver \/ record_attempt \/ handle_done \/ terminate_owned
            \/ Exit \/ Kill \/ ack \/ \E m \in mailMenu.ids : accept(m) \/ Late(m)

MailGuest == \/ DeliverMessage \/ consume_loop \/ record \/ RecordFails \/ record_and_dispatch
             \/ DispatchFails \/ AckItem \/ AnswerEnds \/ Client \/ CheckInbox \/ SignalDone

MailFaults == Disconnect \/ rebuild_vsock_connection \/ AgentCrash \/ \E ids \in SUBSET mailMenu.ids : sweep(ids)

MailNext == MailHost \/ MailGuest \/ MailFaults

MailSpec == MailInit /\ [][MailNext]_mailVars

(* ---- properties ---- *)

MailTypeOK ==
    /\ \A m \in Unread : unread[m].attempts < MaxAttempts /\ unread[m].seq \in Nat \ {0}
    /\ tomb \in [Mail -> SUBSET {"acked", "bounced"}]
    /\ seen.ram \subseteq seen.disk
    /\ vm \in {"up", "leaving", "exiting", "dormant", "gone"}
    /\ inbox \in Seq(Mail) /\ down \in Seq(Mail) /\ up \in Seq(Mail \cup {"done"})

\* Records keep the order they were accepted in: next_seq never gives a number
\* that a record of the spool still has.
SequenceIsTotal ==
    \A m, n \in Unread : unread[m].seq = unread[n].seq => m = n

\* Acknowledged mail reached the guest's hook or a client.  The exceptions: the
\* agent recorded the id and then failed before the drop file, or the mail was
\* handled after the disk was saved for dormancy.
AckedWasHandedOver ==
    \A m \in Mail : "acked" \in tomb[m] => files[m] > 0 \/ m \in appAcked \cup undone

\* "Unacked mail is the wake": a VM that went dormant with mail in its spool has
\* a kick on its way, unless the kick found the process that was about to exit.
DormantMailIsWoken ==
    vm = "dormant" /\ Unread # {} => kicked \/ looking \/ missed \/ (op # IdleOp /\ op.kick)

\* /recv does not sleep through a delivery: a client that waits has been woken,
\* or the inbox is empty.  (The consume loop may: see its step from drowsy.)
RecvNeverSleepsThroughMail ==
    app.pc = "waiting" /\ ~app.woken => inbox = <<>>

\* Delivery end to end: what is acknowledged was handed over, what is not wakes
\* its VM, and a waiting client hears of it (Mailbox, consume_loop, handle_recv).
MailSound == /\ MailTypeOK
             /\ SequenceIsTotal
             /\ AckedWasHandedOver
             /\ DormantMailIsWoken
             /\ RecvNeverSleepsThroughMail

\* The spool as its producers see it.
Spool == INSTANCE MailSpool WITH
    status <- [m \in Mail |-> IF m \in Unread THEN "queued" ELSE IF tomb[m] # {} THEN "settled" ELSE "none"],
    handed <- files

\* Through crashes, retries and duplicates, an id stays one message: it enters
\* and leaves the queue once, and the hook is run for it at most once.
SpoolImplements == Spool!SpoolSpec
=============================================================================
