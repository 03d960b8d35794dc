-------------------------- MODULE GuestMailProofs --------------------------
(* The mailbox implements the spool its producers are promised (MailSpool),   *)
(* and delivery is sound end to end (MailSound), for any set of ids, any      *)
(* number of attempts and any faults.                                         *)
EXTENDS GuestMail, TLAPS, FiniteSetTheorems

\* What the Mailbox process is about to remove is still there, and the process
\* alone removes it.
HostInv ==
    /\ DOMAIN tomb = Mail
    /\ op # IdleOp =>
          /\ op = [do |-> op.do, ids |-> op.ids, written |-> op.written, kick |-> op.kick]
          /\ op.ids \subseteq Unread

\* What was handed over is remembered in memory and on disk, in the snapshot
\* too; what the loop is about to hand over is remembered already.
GuestInv ==
    /\ files \in [Mail -> {0, 1}] /\ snapshot.files \in [Mail -> {0, 1}]
    /\ seen = [disk |-> seen.disk, ram |-> seen.ram]
    /\ loop = [pc |-> loop.pc, item |-> loop.item]
    /\ \A m \in Mail : files[m] = 1 => m \in seen.disk /\ m \in seen.ram
    /\ \A m \in Mail : snapshot.files[m] = 1 => m \in snapshot.seen /\ files[m] = 1
    /\ loop.pc = "drop" /\ loop.item \in Mail =>
          files[loop.item] = 0 /\ loop.item \in seen.disk /\ loop.item \in seen.ram

Inv == HostInv /\ GuestInv

\* The actions that leave the Mailbox process and its spool alone.
HostRests ==
    \/ kick_consumer \/ deliver_mailbox \/ Deliver \/ handle_done \/ terminate_owned \/ Exit
    \/ MailGuest \/ Disconnect \/ rebuild_vsock_connection \/ AgentCrash

\* The actions that leave the guest's disk and its consume loop alone.
GuestRests ==
    \/ kick \/ write_tombstone \/ WriteNewFails \/ remove_live \/ deliver_mailbox \/ Deliver
    \/ record_attempt \/ Exit \/ ack \/ (\E m \in mailMenu.ids : accept(m) \/ Late(m))
    \/ AnswerEnds \/ Client \/ CheckInbox \/ SignalDone \/ consume_loop \/ AckItem
    \/ DeliverMessage \/ Disconnect \/ rebuild_vsock_connection
    \/ \E ids \in SUBSET mailMenu.ids : sweep(ids)

----------------------------------------------------------------------------

\* Initially nothing is queued and nothing was handed over.
LEMMA InitInv == MailInit => Inv
  BY DEF MailInit, Inv, HostInv, GuestInv, IdleOp

\* The other actions leave the Mailbox process and its spool alone.
LEMMA HostRestsQuietly == HostRests => UNCHANGED <<unread, tomb, op>>
  BY Zenon DEF HostRests, kick_consumer, deliver_mailbox, Deliver, handle_done, terminate_owned, Exit,
         MailGuest, DeliverMessage, consume_loop, record, RecordFails, record_and_dispatch, DispatchFails,
         AckItem, AnswerEnds, Client, handle_recv, handle_ack, CheckInbox, SignalDone, Disconnect,
         rebuild_vsock_connection, AgentCrash, hostVars

\* The loop may move, but never to the hand-over.
LEMMA GuestRestsQuietly ==
  GuestRests => /\ UNCHANGED <<seen, files, snapshot>>
                /\ \/ loop' = loop
                   \/ \E pc, item : loop' = [pc |-> pc, item |-> item] /\ pc # "drop"
                   \/ loop' = [loop EXCEPT !.pc = "look"]
<1> USE DEF guestVars, ghostVars
<1>1. ASSUME NEW m \in mailMenu.ids, accept(m) \/ Late(m)
      PROVE  UNCHANGED <<seen, files, snapshot, loop>>
  BY Zenon, <1>1 DEF accept, Late
<1>2. ASSUME NEW ids \in SUBSET mailMenu.ids, sweep(ids)
      PROVE  UNCHANGED <<seen, files, snapshot, loop>>
  BY Zenon, <1>2 DEF sweep
<1>3. kick \/ write_tombstone \/ WriteNewFails \/ remove_live \/ deliver_mailbox \/ Deliver
      \/ record_attempt \/ Exit \/ ack \/ Client \/ CheckInbox \/ SignalDone \/ Disconnect
      \/ rebuild_vsock_connection
      => UNCHANGED <<seen, files, snapshot, loop>>
  BY Zenon DEF kick, write_tombstone, WriteNewFails, remove_live, deliver_mailbox, Deliver, record_attempt,
         Exit, ack, Client, handle_recv, handle_ack, CheckInbox, SignalDone, Disconnect,
         rebuild_vsock_connection
<1>4. consume_loop \/ AckItem \/ AnswerEnds
      => UNCHANGED <<seen, files, snapshot>>
         /\ \E pc, item : loop' = [pc |-> pc, item |-> item] /\ pc # "drop"
  BY DEF consume_loop, AckItem, AnswerEnds, Loop
<1>5. DeliverMessage => UNCHANGED <<seen, files, snapshot>> /\ (loop' = loop \/ loop' = [loop EXCEPT !.pc = "look"])
  BY Zenon DEF DeliverMessage
<1> QED
  BY Zenon, <1>1, <1>2, <1>3, <1>4, <1>5 DEF GuestRests
----------------------------------------------------------------------------
(* The host.                                                                  *)

\* A process that starts to settle ids of the spool, or goes idle.
LEMMA SettlingKeeps ==
  ASSUME NEW how, NEW ids, NEW kicks, ids \subseteq Unread', tomb' = tomb, HostInv, Settling(how, ids, kicks)
  PROVE  HostInv'
<1>1. CASE ids = {}
  BY Zenon, <1>1 DEF HostInv, Settling, IdleOp
<1>2. CASE ids # {}
  BY Zenon, <1>2 DEF HostInv, Settling
<1> QED
  BY Zenon, <1>1, <1>2

\* Every step keeps what the Mailbox process relies on.
LEMMA HostNext == HostInv /\ [MailNext]_mailVars => HostInv'
<1> SUFFICES ASSUME HostInv, [MailNext]_mailVars PROVE HostInv'
  BY Zenon
<1>1. CASE HostRests
  BY Zenon, <1>1, HostRestsQuietly DEF HostInv, Unread
<1>2. CASE kick
  <2>1. {m \in Unread : give_up(unread[m])} \subseteq Unread' /\ tomb' = tomb
    BY Zenon, <1>2 DEF kick, Unread
  <2> QED
    BY <1>2, <2>1, SettlingKeeps, Zenon DEF kick
<1>3. CASE write_tombstone
  BY <1>3, Zenon DEF write_tombstone, HostInv, IdleOp, Unread
<1>4. CASE WriteNewFails
  BY <1>4, Zenon DEF WriteNewFails, HostInv, IdleOp, Unread
<1>5. CASE remove_live
  <2>1. PICK m \in op.ids : unread' = [u \in Unread \ {m} |-> unread[u]] /\ Settling(op.do, op.ids \ {m}, op.kick)
    BY Zenon, <1>5 DEF remove_live
  <2>2. op.ids \ {m} \subseteq Unread' /\ tomb' = tomb
    BY Zenon, <1>5, <2>1 DEF remove_live, HostInv, Unread
  <2> QED
    BY Zenon, <2>1, <2>2, SettlingKeeps
<1>6. CASE record_attempt
  <2> DEFINE m == Head(draining).id
             rec == [unread[m] EXCEPT !.attempts = @ + 1]
  <2>0. tomb' = tomb
    BY Zenon, <1>6 DEF record_attempt
  <2>1. CASE m \notin Unread \/ ~give_up(rec)
    <3>1. op' = op /\ Unread' = Unread
      BY <1>6, <2>1, Zenon DEF record_attempt, Unread
    <3> QED
      BY Zenon, <2>0, <3>1 DEF HostInv
  <2>2. CASE m \in Unread /\ give_up(rec)
    <3>1. Settling("bounced", {m}, FALSE) /\ unread' = unread
      BY <1>6, <2>2, Zenon DEF record_attempt
    <3> QED
      BY <2>0, <2>2, <3>1, SettlingKeeps, Zenon DEF Unread
  <2> QED
    BY Zenon, <2>1, <2>2
<1>7. CASE Kill
  <2>1. Unread \subseteq Unread' /\ tomb' = tomb /\ Settling("bounced", Unread, FALSE)
    BY <1>7, Zenon DEF Kill, Unread
  <2> QED
    BY Zenon, <2>1, SettlingKeeps
<1>8. CASE ack
  <2>1. unread' = unread /\ tomb' = tomb
    BY Zenon, <1>8 DEF ack
  <2>2. CASE Head(up) \notin Unread
    BY Zenon, <1>8, <2>1, <2>2 DEF ack, HostInv, Unread
  <2>3. CASE Head(up) \in Unread
    <3>1. Settling("acked", {Head(up)}, FALSE)
      BY <1>8, <2>3, Zenon DEF ack
    <3> QED
      BY <2>1, <2>3, <3>1, SettlingKeeps, Zenon DEF Unread
  <2> QED
    BY Zenon, <2>2, <2>3
<1>9. ASSUME NEW m \in mailMenu.ids, accept(m) \/ Late(m)
      PROVE  HostInv'
  <2>1. Unread \subseteq Unread' /\ op' = op /\ tomb' = tomb
    BY Zenon, <1>9 DEF accept, Late, Unread
  <2> QED
    BY Zenon, <2>1 DEF HostInv
<1>10. ASSUME NEW ids \in SUBSET mailMenu.ids, sweep(ids)
       PROVE  HostInv'
  <2> DEFINE bounced == {m \in Unread : give_up(unread[m]) \/ vm = "gone"}
  <2>1. unread' = unread /\ DOMAIN tomb' = Mail /\ Settling("bounced", bounced, vm # "gone")
    BY Zenon, <1>10 DEF sweep
  <2>2. CASE bounced = {}
    BY Zenon, <2>1, <2>2 DEF HostInv, Settling, IdleOp
  <2>3. CASE bounced # {}
    <3>1. op' = [do |-> "bounced", ids |-> bounced, written |-> FALSE, kick |-> vm # "gone"]
      BY Zenon, <2>1, <2>3 DEF Settling
    <3> QED
      BY Zenon, <2>1, <3>1 DEF HostInv, Unread
  <2> QED
    BY Zenon, <2>2, <2>3
<1>11. CASE UNCHANGED mailVars
  BY Zenon, <1>11 DEF HostInv, Unread, mailVars, hostVars
<1> QED
  BY Zenon, <1>1, <1>2, <1>3, <1>4, <1>5, <1>6, <1>7, <1>8, <1>9, <1>10, <1>11
     DEF MailNext, MailHost, MailFaults, HostRests

----------------------------------------------------------------------------
(* The guest.                                                                 *)

\* The agent starts again on its own disk.
LEMMA StartKeeps ==
  ASSUME GuestInv, Start(seen.disk), UNCHANGED <<files, snapshot>>
  PROVE  GuestInv'
  BY Zenon DEF GuestInv, Start

\* Every step keeps what the consume loop relies on.
LEMMA GuestNext == GuestInv /\ [MailNext]_mailVars => GuestInv'
<1> SUFFICES ASSUME GuestInv, [MailNext]_mailVars PROVE GuestInv'
  BY Zenon
<1> USE DEF guestVars, ghostVars
<1>1. CASE GuestRests
  BY <1>1, GuestRestsQuietly DEF GuestInv
<1>2. CASE kick_consumer
  <2>1. CASE Wake
    BY Zenon, <1>2, <2>1 DEF kick_consumer, Wake, Start, GuestInv
  <2>2. CASE UNCHANGED guestVars
    BY Zenon, <1>2, <2>2 DEF kick_consumer, GuestInv
  <2> QED
    BY Zenon, <1>2, <2>1, <2>2 DEF kick_consumer
<1>3. CASE handle_done
  BY <1>3 DEF handle_done, GuestInv
<1>4. CASE terminate_owned \/ Kill \/ AgentCrash
  BY <1>4, StartKeeps, Zenon DEF terminate_owned, Kill, AgentCrash
<1>5. CASE record
  BY Zenon, <1>5 DEF record, Loop, GuestInv
<1>6. CASE RecordFails
  BY Zenon, <1>6 DEF RecordFails, Loop, GuestInv
<1>7. CASE record_and_dispatch
  <2>1. loop.pc = "drop" /\ files' = [files EXCEPT ![loop.item] = @ + 1] /\ UNCHANGED <<seen, snapshot>>
        /\ loop' = [pc |-> "ack", item |-> loop.item]
    BY Zenon, <1>7 DEF record_and_dispatch, Loop
  <2>2. \A m \in Mail : files'[m] = IF m = loop.item THEN 1 ELSE files[m]
    BY <2>1 DEF GuestInv
  <2>3. files' \in [Mail -> {0, 1}]
    BY <2>1, <2>2, Zenon DEF GuestInv
  <2>4. loop' = [pc |-> loop'.pc, item |-> loop'.item] /\ loop'.pc # "drop"
    BY Zenon, <2>1
  <2> QED
    BY Zenon, <2>1, <2>2, <2>3, <2>4 DEF GuestInv
<1>8. CASE DispatchFails
  BY Zenon, <1>8 DEF DispatchFails, Loop, GuestInv
<1>9. CASE UNCHANGED mailVars
  BY Zenon, <1>9 DEF mailVars, GuestInv
<1> QED
  BY Zenon, <1>1, <1>2, <1>3, <1>4, <1>5, <1>6, <1>7, <1>8, <1>9
     DEF MailNext, MailHost, MailGuest, MailFaults, GuestRests
----------------------------------------------------------------------------
(* The spool.                                                                 *)

\* A record of the spool, and the menus of a behaviour.
Records == [seq : Nat \ {0}, attempts : Nat, late : BOOLEAN]
MenuTypes == [ids : SUBSET Mail, post : Nat, late : Nat, write : Nat, kill : Nat, disk : Nat,
              wire : Nat, agent : Nat, host : Nat, done : Nat, client : BOOLEAN]

\* The spool: what next_seq and give_up rely on.
SpoolInv ==
    /\ unread \in [Unread -> Records] /\ Unread \subseteq Mail
    /\ \A m \in Unread : unread[m].attempts < MaxAttempts
    /\ SequenceIsTotal
    /\ \E k \in Nat : \A m \in Unread : unread[m].seq <= k
    /\ tomb \in [Mail -> SUBSET {"acked", "bounced"}]
    /\ op # IdleOp => op.do \in {"acked", "bounced"} /\ (op.do = "acked" => ~op.kick)

\* A bounded set of numbers has a largest one.
LEMMA MaxOfBounded ==
  ASSUME NEW S, S \subseteq Nat, S # {}, NEW k \in Nat, \A x \in S : x <= k
  PROVE  Highest(S) \in S /\ \A x \in S : x <= Highest(S)
<1> DEFINE U == {b \in Nat : \A x \in S : x <= b}
<1>1. U \subseteq Nat /\ U # {}
  BY Zenon
<1>2. PICK b \in U : \A c \in U : ~(<<c, b>> \in OpToRel(<, Nat))
  BY Zenon, <1>1, NatLessThanWellFounded, WFMin
<1>3. \A c \in U : ~(c < b)
  BY <1>2, Zenon DEF OpToRel
<1>4. b \in S
  <2>1. SUFFICES ASSUME b \notin S PROVE FALSE
    BY Zenon
  <2>2. PICK y \in S : TRUE
    BY Zenon
  <2>3. y < b
    BY <2>1
  <2>4. b - 1 \in U
    BY <2>1, <2>3
  <2> QED
    BY <2>4, <1>3
<1>5. \E x \in S : \A y \in S : y <= x
  BY Zenon, <1>4
<1> QED
  BY <1>5, Zenon DEF Highest

\* A menu is spent, never rewritten.
LEMMA SpendKeepsMenu ==
  ASSUME mailMenu \in MenuTypes,
         \/ \E what \in {"post", "late", "write", "kill", "disk", "wire", "agent", "host", "done"} : SpendMail(what)
         \/ mailMenu' = mailMenu
  PROVE  mailMenu' \in MenuTypes
  BY DEF SpendMail, MenuTypes

\* A menu is spent, never rewritten.
LEMMA MenuNext == mailMenu \in MenuTypes /\ [MailNext]_mailVars => mailMenu' \in MenuTypes
<1> SUFFICES ASSUME mailMenu \in MenuTypes, [MailNext]_mailVars PROVE mailMenu' \in MenuTypes
  BY Zenon
<1>1. CASE kick \/ write_tombstone \/ remove_live \/ kick_consumer \/ deliver_mailbox \/ Deliver
           \/ record_attempt \/ handle_done \/ terminate_owned \/ Exit \/ ack \/ DeliverMessage
           \/ consume_loop \/ record \/ record_and_dispatch \/ AckItem \/ AnswerEnds \/ Client
           \/ SignalDone \/ rebuild_vsock_connection \/ UNCHANGED mailVars
  BY <1>1, Zenon DEF kick, write_tombstone, remove_live, kick_consumer, deliver_mailbox, Deliver, record_attempt,
       handle_done, terminate_owned, Exit, ack, DeliverMessage, consume_loop, record, record_and_dispatch,
       AckItem, AnswerEnds, Client, handle_recv, handle_ack, SignalDone, rebuild_vsock_connection, mailVars
<1>2. CASE \/ WriteNewFails \/ Kill \/ RecordFails \/ DispatchFails \/ CheckInbox \/ Disconnect \/ AgentCrash
           \/ (\E m \in mailMenu.ids : accept(m) \/ Late(m)) \/ (\E ids \in SUBSET mailMenu.ids : sweep(ids))
  BY <1>2, SpendKeepsMenu, Zenon DEF WriteNewFails, Kill, RecordFails, DispatchFails, CheckInbox, Disconnect,
       AgentCrash, accept, Late, sweep
<1> QED
  BY Zenon, <1>1, <1>2 DEF MailNext, MailHost, MailGuest, MailFaults

\* A step that only settles ids, or leaves the spool as it is.
LEMMA SettlingKeepsSpool ==
  ASSUME SpoolInv, unread' = unread, tomb' \in [Mail -> SUBSET {"acked", "bounced"}],
         NEW how \in {"acked", "bounced"}, NEW ids, NEW kicks, how = "acked" => ~kicks,
         op' = op \/ Settling(how, ids, kicks)
  PROVE  SpoolInv'
<1>1. op' # IdleOp => op'.do \in {"acked", "bounced"} /\ (op'.do = "acked" => ~op'.kick)
  BY DEF SpoolInv, Settling
<1> QED
  BY Zenon, <1>1 DEF SpoolInv, SequenceIsTotal, Unread

\* Every step keeps the spool in order.
LEMMA SpoolNext == SpoolInv /\ HostInv /\ mailMenu \in MenuTypes /\ [MailNext]_mailVars => SpoolInv'
<1> SUFFICES ASSUME SpoolInv, HostInv, mailMenu \in MenuTypes, [MailNext]_mailVars PROVE SpoolInv'
  BY Zenon
<1>1. CASE HostRests \/ UNCHANGED mailVars
  <2>1. UNCHANGED <<unread, tomb, op>>
    BY Zenon, <1>1, HostRestsQuietly DEF mailVars, hostVars
  <2> QED
    BY Zenon, <2>1 DEF SpoolInv, SequenceIsTotal, Unread
<1>2. CASE kick
  <2>1. /\ UNCHANGED <<unread, tomb>>
        /\ \E expired : Settling("bounced", expired, TRUE)
    BY <1>2, Zenon DEF kick
  <2> QED
    BY <2>1, SettlingKeepsSpool, Zenon DEF SpoolInv
<1>3. CASE write_tombstone
  <2>1. PICK m \in op.ids : tomb' = [tomb EXCEPT ![m] = @ \cup {op.do}]
    BY <1>3, Zenon DEF write_tombstone
  <2>2. /\ op # IdleOp /\ UNCHANGED unread
        /\ op' = [op EXCEPT !.written = TRUE]
    BY Zenon, <1>3 DEF write_tombstone
  <2>3. tomb' \in [Mail -> SUBSET {"acked", "bounced"}]
    BY <2>1, <2>2, Zenon DEF SpoolInv
  <2>4. op'.do = op.do /\ op'.kick = op.kick
    BY Zenon, <2>2 DEF HostInv
  <2> QED
    BY Zenon, <2>2, <2>3, <2>4 DEF SpoolInv, SequenceIsTotal, Unread
<1>4. CASE WriteNewFails
  <2>1. /\ op # IdleOp /\ UNCHANGED <<unread, tomb>>
        /\ op' = IdleOp \/ op' = [op EXCEPT !.written = TRUE]
    BY Zenon, <1>4 DEF WriteNewFails
  <2>2. op' # IdleOp => op'.do = op.do /\ op'.kick = op.kick
    BY Zenon, <2>1 DEF HostInv
  <2> QED
    BY Zenon, <2>1, <2>2 DEF SpoolInv, SequenceIsTotal, Unread
<1>5. CASE remove_live
  <2>1. PICK m \in op.ids : unread' = [u \in Unread \ {m} |-> unread[u]] /\ Settling(op.do, op.ids \ {m}, op.kick)
    BY Zenon, <1>5 DEF remove_live
  <2>2. tomb' = tomb /\ op # IdleOp
    BY Zenon, <1>5 DEF remove_live
  <2>3. Unread' = Unread \ {m} /\ \A x \in Unread' : unread'[x] = unread[x]
    BY Zenon, <2>1 DEF Unread
  <2>4. unread' \in [Unread' -> Records]
    BY Zenon, <2>1, <2>3 DEF SpoolInv, Unread
  <2>5. op' # IdleOp => op'.do \in {"acked", "bounced"} /\ (op'.do = "acked" => ~op'.kick)
    BY Zenon, <2>1, <2>2 DEF SpoolInv, Settling
  <2> QED
    BY <2>2, <2>3, <2>4, <2>5 DEF SpoolInv, SequenceIsTotal
<1>6. CASE record_attempt
  <2> DEFINE m == Head(draining).id
             rec == [unread[m] EXCEPT !.attempts = @ + 1]
  <2>0. tomb' = tomb /\ op = IdleOp
    BY Zenon, <1>6 DEF record_attempt
  <2>1. CASE m \notin Unread
    <3>1. op' = op /\ unread' = unread
      BY Zenon, <1>6, <2>1 DEF record_attempt
    <3> QED
      BY Zenon, <2>0, <3>1 DEF SpoolInv, SequenceIsTotal, Unread
  <2>2. CASE m \in Unread /\ give_up(rec)
    <3>1. Settling("bounced", {m}, FALSE) /\ unread' = unread
      BY <1>6, <2>2, Zenon DEF record_attempt
    <3> QED
      BY <2>0, <3>1, SettlingKeepsSpool, Zenon DEF SpoolInv
  <2>3. CASE m \in Unread /\ ~give_up(rec)
    <3>1. op' = op /\ unread' = [unread EXCEPT ![m] = rec]
      BY Zenon, <1>6, <2>3 DEF record_attempt
    <3>2. unread[m] \in Records
      BY Zenon, <2>3 DEF SpoolInv
    <3>3. rec \in Records /\ rec.seq = unread[m].seq /\ rec.attempts = unread[m].attempts + 1
      BY <3>2 DEF Records
    <3>4. rec.attempts < MaxAttempts
      BY <2>3, <3>3, <3>2, MaxAttemptsPositive DEF give_up, Records
    <3> HIDE DEF rec, m
    <3>5. Unread' = Unread /\ \A x \in Unread : unread'[x] = IF x = m THEN rec ELSE unread[x]
      BY Zenon, <2>3, <3>1 DEF Unread
    <3>6. unread' \in [Unread' -> Records]
      BY Zenon, <3>1, <3>3, <3>5, <2>3 DEF SpoolInv
    <3>7. \A x \in Unread : unread'[x].seq = unread[x].seq /\ unread'[x].attempts < MaxAttempts
      BY Zenon, <3>3, <3>4, <3>5 DEF SpoolInv
    <3> QED
      BY <2>0, <3>1, <3>5, <3>6, <3>7 DEF SpoolInv, SequenceIsTotal
  <2> QED
    BY Zenon, <2>1, <2>2, <2>3
<1>7. CASE Kill
  <2>1. UNCHANGED <<unread, tomb>> /\ Settling("bounced", Unread, FALSE)
    BY <1>7, Zenon DEF Kill
  <2> QED
    BY <2>1, SettlingKeepsSpool, Zenon DEF SpoolInv
<1>8. CASE ack
  <2>1. UNCHANGED <<unread, tomb>> /\ (op' = op \/ Settling("acked", {Head(up)}, FALSE))
    BY <1>8, Zenon DEF ack
  <2> QED
    BY <2>1, SettlingKeepsSpool, Zenon DEF SpoolInv
<1>9. ASSUME NEW m \in mailMenu.ids, accept(m) PROVE SpoolInv'
  <2>1. op' = op /\ tomb' = tomb /\ m \in Mail
    BY Zenon, <1>9 DEF accept, MenuTypes
  <2>2. CASE known(m)
    <3>1. unread' = unread
      BY <1>9, <2>2, Zenon DEF accept
    <3> QED
      BY <2>1, <3>1, SMTT(30) DEF SpoolInv, SequenceIsTotal, Unread
  <2>3. CASE ~known(m)
    <3> DEFINE new == [seq |-> next_seq, attempts |-> 0, late |-> FALSE]
    <3>1. unread' = [x \in Unread \cup {m} |-> IF x = m THEN new ELSE unread[x]] /\ m \notin Unread
      BY Zenon, <1>9, <2>3 DEF accept, known
    <3>2. next_seq \in Nat \ {0} /\ \A x \in Unread : unread[x].seq < next_seq
      <4>1. CASE Unread = {}
        BY <4>1 DEF next_seq
      <4>2. CASE Unread # {}
        <5> DEFINE S == {unread[x].seq : x \in Unread}
        <5>1. PICK k \in Nat : \A x \in Unread : unread[x].seq <= k
          BY Zenon DEF SpoolInv
        <5>2. S \subseteq Nat /\ S # {} /\ \A y \in S : y <= k
          BY <4>2, <5>1 DEF SpoolInv, Records
        <5>3. PICK top \in S : top = Highest(S) /\ \A y \in S : y <= top
          BY Zenon, <5>2, MaxOfBounded
        <5>4. next_seq = top + 1
          BY Zenon, <4>2, <5>3 DEF next_seq
        <5> HIDE DEF S
        <5>5. next_seq \in Nat \ {0} /\ \A y \in S : y < next_seq
          BY <5>2, <5>3, <5>4
        <5> QED
          BY Zenon, <5>5 DEF S
      <4> QED
        BY Zenon, <4>1, <4>2
    <3>3. new \in Records /\ new.seq = next_seq /\ new.attempts < MaxAttempts
      BY <3>2, MaxAttemptsPositive DEF Records
    <3> HIDE DEF new
    <3>4. Unread' = Unread \cup {m} /\ \A x \in Unread' : unread'[x] = IF x = m THEN new ELSE unread[x]
      BY Zenon, <3>1 DEF Unread
    <3>5. unread' \in [Unread' -> Records] /\ Unread' \subseteq Mail
      BY Zenon, <2>1, <3>1, <3>3, <3>4 DEF SpoolInv
    <3>6. \A x \in Unread' : unread'[x].attempts < MaxAttempts
      BY Zenon, <3>3, <3>4 DEF SpoolInv
    <3>7. \A x \in Unread : unread[x].seq \in Nat
      BY Zenon DEF SpoolInv, Records
    <3>8. SequenceIsTotal'
      BY <3>1, <3>2, <3>3, <3>4, <3>7 DEF SpoolInv, SequenceIsTotal
    <3>9. \E k \in Nat : \A x \in Unread' : unread'[x].seq <= k
      BY <3>2, <3>3, <3>4, <3>7
    <3> QED
      BY <2>1, <3>5, <3>6, <3>8, <3>9, SMTT(30) DEF SpoolInv
  <2> QED
    BY Zenon, <2>2, <2>3
<1>10. ASSUME NEW m \in mailMenu.ids, Late(m) PROVE SpoolInv'
  <2> DEFINE rec == [unread[m] EXCEPT !.late = TRUE]
  <2>1. op' = op /\ tomb' = tomb /\ m \in Unread /\ unread' = [unread EXCEPT ![m] = rec]
    BY Zenon, <1>10 DEF Late
  <2>2. unread[m] \in Records
    BY Zenon, <2>1 DEF SpoolInv
  <2>3. rec \in Records /\ rec.seq = unread[m].seq /\ rec.attempts = unread[m].attempts
    BY <2>2, Zenon DEF Records
  <2> HIDE DEF rec
  <2>4. Unread' = Unread /\ \A x \in Unread : unread'[x] = IF x = m THEN rec ELSE unread[x]
    BY Zenon, <2>1 DEF Unread
  <2>5. unread' \in [Unread' -> Records]
    BY Zenon, <2>1, <2>3, <2>4 DEF SpoolInv
  <2>6. \A x \in Unread : unread'[x].seq = unread[x].seq /\ unread'[x].attempts < MaxAttempts
    BY Zenon, <2>3, <2>4 DEF SpoolInv
  <2> QED
    BY <2>1, <2>4, <2>5, <2>6 DEF SpoolInv, SequenceIsTotal
<1>11. ASSUME NEW ids \in SUBSET mailMenu.ids, sweep(ids) PROVE SpoolInv'
  <2>1. /\ unread' = unread
        /\ tomb' = [m \in Mail |-> IF m \in ids THEN {} ELSE tomb[m]]
        /\ \E bounced, kicks : Settling("bounced", bounced, kicks)
    BY Zenon, <1>11 DEF sweep
  <2>2. tomb' \in [Mail -> SUBSET {"acked", "bounced"}]
    BY Zenon, <2>1 DEF SpoolInv
  <2> QED
    BY Zenon, <2>1, <2>2, SettlingKeepsSpool
<1> QED
  BY Zenon, <1>1, <1>2, <1>3, <1>4, <1>5, <1>6, <1>7, <1>8, <1>9, <1>10, <1>11
     DEF MailNext, MailHost, MailFaults, HostRests

\* The spool is finite: each record was accepted.
LEMMA FiniteNext == HostInv /\ IsFiniteSet(Unread) /\ [MailNext]_mailVars => IsFiniteSet(Unread')
<1> SUFFICES ASSUME HostInv, IsFiniteSet(Unread), [MailNext]_mailVars PROVE IsFiniteSet(Unread')
  BY Zenon
<1>1. ASSUME NEW m \in mailMenu.ids, accept(m) PROVE IsFiniteSet(Unread')
  <2>1. Unread' \subseteq Unread \cup {m}
    BY Zenon, <1>1 DEF accept, Unread
  <2> QED
    BY Zenon, <2>1, FS_AddElement, FS_Subset
<1>2. CASE remove_live
  <2>1. Unread' \subseteq Unread
    BY Zenon, <1>2 DEF remove_live, Unread
  <2> QED
    BY Zenon, <2>1, FS_Subset
<1>3. ASSUME Unread' = Unread PROVE IsFiniteSet(Unread')
  BY Zenon, <1>3
<1>4. kick \/ write_tombstone \/ WriteNewFails \/ record_attempt \/ Kill \/ ack => Unread' = Unread
  BY Zenon DEF kick, write_tombstone, WriteNewFails, record_attempt, Kill, ack, Unread
<1>5. ASSUME NEW m \in mailMenu.ids, Late(m) PROVE Unread' = Unread
  BY Zenon, <1>5 DEF Late, Unread
<1>6. ASSUME NEW ids \in SUBSET mailMenu.ids, sweep(ids) PROVE Unread' = Unread
  BY Zenon, <1>6 DEF sweep, Unread
<1>7. HostRests \/ UNCHANGED mailVars => Unread' = Unread
  BY Zenon, HostRestsQuietly DEF Unread, mailVars, hostVars
<1> QED
  BY Zenon, <1>1, <1>2, <1>3, <1>4, <1>5, <1>6, <1>7 DEF MailNext, MailHost, MailFaults, HostRests

----------------------------------------------------------------------------
(* The refinement.                                                            *)

Status == [m \in Mail |-> IF m \in Unread THEN "queued" ELSE IF tomb[m] # {} THEN "settled" ELSE "none"]

\* A step that changes one of the two abstract variables at most.
LEMMA AbstractSteps ==
  /\ Status' = Status /\ files' = files => UNCHANGED Spool!spoolVars
  /\ \A m \in Mail :
       /\ Status[m] = "none" /\ Status' = [Status EXCEPT ![m] = "queued"] /\ files' = files => Spool!SpoolNext
       /\ Status[m] = "queued" /\ Status' = [Status EXCEPT ![m] = "settled"] /\ files' = files => Spool!SpoolNext
       /\ Status' = Status /\ files[m] = 0 /\ files' = [files EXCEPT ![m] = 1] => Spool!SpoolNext
  /\ \A ids \in SUBSET Mail :
       /\ Status' = [m \in Mail |-> IF m \in ids THEN "none" ELSE Status[m]] /\ files' = files => Spool!SpoolNext
       /\ Status' = Status /\ files' = [m \in Mail |-> IF m \in ids THEN 0 ELSE files[m]] => Spool!SpoolNext
<1>1. Status' = Status /\ files' = files => UNCHANGED Spool!spoolVars
  BY Zenon DEF Status, Spool!spoolVars
<1>2. ASSUME NEW m \in Mail
      PROVE  /\ Status[m] = "none" /\ Status' = [Status EXCEPT ![m] = "queued"] /\ files' = files => Spool!Queue(m)
             /\ Status[m] = "queued" /\ Status' = [Status EXCEPT ![m] = "settled"] /\ files' = files => Spool!Settle(m)
             /\ Status' = Status /\ files[m] = 0 /\ files' = [files EXCEPT ![m] = 1] => Spool!HandOver(m)
  BY Zenon DEF Status, Spool!Queue, Spool!Settle, Spool!HandOver
<1>3. ASSUME NEW ids \in SUBSET Mail
      PROVE  /\ Status' = [m \in Mail |-> IF m \in ids THEN "none" ELSE Status[m]] /\ files' = files => Spool!Forget(ids)
             /\ Status' = Status /\ files' = [m \in Mail |-> IF m \in ids THEN 0 ELSE files[m]] => Spool!RollBack(ids)
  BY Zenon DEF Status, Spool!Forget, Spool!RollBack
<1> QED
  BY Zenon, <1>1, <1>2, <1>3 DEF Spool!SpoolNext

\* Nothing was posted, nothing was handed over.
LEMMA InitRefines == MailInit => Spool!SpoolInit
  BY DEF MailInit, Spool!SpoolInit, Unread

\* The spool's steps: a producer's accept queues its id once, settling takes it
\* out once, and a restart forgets old tombstones.
LEMMA HostRefines ==
  Inv /\ [MailNext]_mailVars /\ files' = files => [Spool!SpoolNext]_Spool!spoolVars
<1> SUFFICES ASSUME Inv, [MailNext]_mailVars, files' = files PROVE [Spool!SpoolNext]_Spool!spoolVars
  BY Zenon
<1>1. CASE Unread' = Unread /\ tomb' = tomb
  BY Zenon, <1>1, AbstractSteps DEF Status
<1>2. ASSUME NEW m \in mailMenu.ids, accept(m) PROVE [Spool!SpoolNext]_Spool!spoolVars
  <2>1. CASE known(m) \/ m \notin Mail
    <3>1. Status' = Status
      BY Zenon, <1>2, <2>1 DEF accept, Status, Unread
    <3> QED
      BY Zenon, <3>1, AbstractSteps
  <2>2. CASE ~known(m) /\ m \in Mail
    <3>1. Unread' = Unread \cup {m} /\ tomb' = tomb
      BY Zenon, <1>2, <2>2 DEF accept, Unread
    <3>2. Status[m] = "none" /\ Status' = [Status EXCEPT ![m] = "queued"]
      BY <2>2, <3>1, Zenon DEF known, Status
    <3> QED
      BY Zenon, <2>2, <3>2, AbstractSteps
  <2> QED
    BY Zenon, <2>1, <2>2
<1>3. CASE write_tombstone
  <2>1. PICK m \in op.ids : tomb' = [tomb EXCEPT ![m] = @ \cup {op.do}]
    BY <1>3, Zenon DEF write_tombstone
  <2>2. m \in Unread /\ Unread' = Unread
    BY Zenon, <1>3, <2>1 DEF write_tombstone, Inv, HostInv, Unread
  <2>3. Status' = Status
    BY Zenon, <2>1, <2>2 DEF Status, Inv, HostInv
  <2> QED
    BY Zenon, <2>3, AbstractSteps
<1>4. CASE remove_live
  <2>1. PICK m \in op.ids : unread' = [u \in Unread \ {m} |-> unread[u]]
    BY Zenon, <1>4 DEF remove_live
  <2>2. m \in Unread /\ Unread' = Unread \ {m} /\ tomb' = tomb
    BY <1>4, <2>1, SMTT(30) DEF remove_live, Inv, HostInv, Unread
  <2>3. CASE m \notin Mail
    BY Zenon, <2>2, <2>3, AbstractSteps DEF Status
  <2>4. CASE m \in Mail /\ tomb[m] # {}
    <3>1. Status[m] = "queued" /\ Status' = [Status EXCEPT ![m] = "settled"]
      BY <2>2, <2>4, Zenon DEF Status
    <3> QED
      BY Zenon, <2>4, <3>1, AbstractSteps
  <2>5. CASE m \in Mail /\ tomb[m] = {}
    <3>1. Status' = [x \in Mail |-> IF x \in {m} THEN "none" ELSE Status[x]]
      BY Zenon, <2>2, <2>5 DEF Status
    <3> QED
      BY Zenon, <2>5, <3>1, AbstractSteps
  <2> QED
    BY Zenon, <2>3, <2>4, <2>5
<1>5. ASSUME NEW ids \in SUBSET mailMenu.ids, sweep(ids) PROVE [Spool!SpoolNext]_Spool!spoolVars
  <2> DEFINE gone == {m \in Mail : m \in ids /\ m \notin Unread}
  <2>1. Unread' = Unread /\ tomb' = [m \in Mail |-> IF m \in ids THEN {} ELSE tomb[m]]
    BY Zenon, <1>5 DEF sweep, Unread
  <2>2. Status' = [m \in Mail |-> IF m \in gone THEN "none" ELSE Status[m]]
    BY Zenon, <2>1 DEF Status
  <2> QED
    BY Zenon, <2>2, AbstractSteps
<1>6. ASSUME NEW m \in mailMenu.ids, Late(m) PROVE Unread' = Unread /\ tomb' = tomb
  BY Zenon, <1>6 DEF Late, Unread
<1>7. kick \/ WriteNewFails \/ Kill \/ ack => Unread' = Unread /\ tomb' = tomb
  BY Zenon DEF kick, WriteNewFails, Kill, ack, Unread
<1>8. record_attempt => Unread' = Unread /\ tomb' = tomb
  BY Zenon DEF record_attempt, Unread
<1>9. HostRests \/ UNCHANGED mailVars => Unread' = Unread /\ tomb' = tomb
  BY Zenon, HostRestsQuietly DEF Unread, mailVars, hostVars
<1> QED
  BY Zenon, <1>1, <1>2, <1>3, <1>4, <1>5, <1>6, <1>7, <1>8, <1>9 DEF MailNext, MailHost, MailFaults, HostRests

\* The guest's steps: the hook is given an id that was never handed over, or a
\* restored disk takes hand-overs back.
LEMMA GuestRefines ==
  Inv /\ [MailNext]_mailVars /\ files' # files => [Spool!SpoolNext]_Spool!spoolVars
<1> SUFFICES ASSUME Inv, [MailNext]_mailVars, files' # files PROVE [Spool!SpoolNext]_Spool!spoolVars
  BY Zenon
<1> USE DEF guestVars, ghostVars
<1>1. CASE record_and_dispatch
  <2>1. loop.pc = "drop" /\ files' = [files EXCEPT ![loop.item] = @ + 1]
    BY Zenon, <1>1 DEF record_and_dispatch, Loop
  <2>2. loop.item \in Mail
    BY Zenon, <2>1 DEF Inv, GuestInv
  <2>3. files[loop.item] = 0 /\ files' = [files EXCEPT ![loop.item] = 1]
    <3>1. files[loop.item] = 0
      BY Zenon, <2>1, <2>2 DEF Inv, GuestInv
    <3>2. files[loop.item] + 1 = 1
      BY <3>1
    <3> QED
      BY Zenon, <2>1, <3>1, <3>2
  <2>4. Status' = Status
    BY Zenon, <1>1 DEF record_and_dispatch, hostVars, Status, Unread
  <2> QED
    BY Zenon, <2>2, <2>3, <2>4, AbstractSteps
<1>2. CASE kick_consumer
  <2>1. files' = snapshot.files
    BY Zenon, <1>2 DEF kick_consumer, Wake
  <2> DEFINE undo == {m \in Mail : snapshot.files[m] = 0}
  <2>2. files' = [m \in Mail |-> IF m \in undo THEN 0 ELSE files[m]]
    BY Zenon, <2>1 DEF Inv, GuestInv
  <2>3. Status' = Status
    BY Zenon, <1>2 DEF kick_consumer, Status, Unread
  <2> QED
    BY Zenon, <2>2, <2>3, AbstractSteps
<1>3. GuestRests => files' = files
  BY Zenon, GuestRestsQuietly
<1>4. handle_done \/ terminate_owned \/ Kill \/ AgentCrash \/ record \/ RecordFails \/ DispatchFails
      \/ UNCHANGED mailVars => files' = files
  BY Zenon DEF handle_done, terminate_owned, Kill, AgentCrash, record, RecordFails, DispatchFails, mailVars
<1> QED
  BY Zenon, <1>1, <1>2, <1>3, <1>4 DEF MailNext, MailHost, MailGuest, MailFaults, GuestRests

\* The mailbox, with every crash, retry, duplicate and rollback, implements the
\* spool: an id is queued once and settled once, and the guest's hook is given it
\* at most once on the disk that counts.
THEOREM MailboxImplementsSpool == MailSpec => SpoolImplements
<1>1. MailSpec => []Inv
  <2>1. Inv /\ [MailNext]_mailVars => Inv'
    BY Zenon, HostNext, GuestNext DEF Inv
  <2> QED
    BY <2>1, InitInv, PTL DEF MailSpec
<1>2. Inv /\ [MailNext]_mailVars => [Spool!SpoolNext]_Spool!spoolVars
  BY Zenon, HostRefines, GuestRefines
<1> QED
  BY <1>1, <1>2, InitRefines, PTL DEF MailSpec, SpoolImplements, Spool!SpoolSpec

(* ---- delivery end to end ---- *)


\* What the inbox keeps when an id is acknowledged.
LEMMA AckKeepsInbox ==
  ASSUME NEW m, ack_ids(m), inbox \in Seq(Mail)
  PROVE  inbox' \in Seq(Mail) /\ (inbox = <<>> => inbox' = <<>>)
<1> DEFINE K == {i \in DOMAIN inbox : inbox[i] # m}
<1>1. IsFiniteSet(K)
  <2>1. DOMAIN inbox = 1..Len(inbox) /\ Len(inbox) \in Nat
    OBVIOUS
  <2>2. IsFiniteSet(1..Len(inbox))
    BY <2>1, FS_Interval
  <2> QED
    BY Zenon, <2>1, <2>2, FS_Subset
<1>2. PICK kept \in [1..Cardinality(K) -> K] : inbox' = [i \in DOMAIN kept |-> inbox[kept[i]]]
  BY Zenon DEF ack_ids, Listings
<1>3. Cardinality(K) \in Nat /\ (K = {} => Cardinality(K) = 0)
  BY Zenon, <1>1, FS_CardinalityType, FS_EmptySet
<1>4. \A i \in 1..Cardinality(K) : inbox[kept[i]] \in Mail
  BY <1>2, <1>3
<1>5. inbox = <<>> => K = {}
  OBVIOUS
<1> HIDE DEF K
<1>6. inbox' = [i \in 1..Cardinality(K) |-> inbox[kept[i]]]
  BY Zenon, <1>2
<1> QED
  BY <1>3, <1>4, <1>5, <1>6

\* What a cast delivers and counts, and the frames a guest sends.
Parcels == [id : Mail, sent : BOOLEAN]
UpFrames == Mail \cup {"done"}

\* Frames, inbox and the two readers of it.
FrameInv ==
    /\ draining \in Seq(Parcels)
    /\ inbox \in Seq(Mail) /\ down \in Seq(Mail) /\ up \in Seq(UpFrames)
    /\ loop.pc \in {"record", "drop", "ack"} => loop.item \in Mail
    /\ app = [pc |-> app.pc, item |-> app.item, woken |-> app.woken]
    /\ app.pc = "got" => app.item \in Mail
    /\ RecvNeverSleepsThroughMail
    /\ seen.ram \subseteq seen.disk
    /\ vm \in {"up", "leaving", "exiting", "dormant", "gone"}

\* The agent starts with nothing in memory.
LEMMA StartFrames ==
  ASSUME NEW disk, Start(disk), vm' \in {"up", "leaving", "exiting", "dormant", "gone"},
         FrameInv, draining' = draining
  PROVE  FrameInv'
  BY DEF Start, FrameInv, RecvNeverSleepsThroughMail, NoClient

\* A frame is appended, or lost without a connection.
LEMMA SendKeepsUp ==
  ASSUME NEW f \in UpFrames, up \in Seq(UpFrames)
  PROVE  FrameOf(f) \in Seq(UpFrames)
  BY DEF FrameOf

\* Every step keeps them.
LEMMA FrameNext ==
  FrameInv /\ GuestInv /\ Unread \subseteq Mail /\ IsFiniteSet(Unread) /\ [MailNext]_mailVars => FrameInv'
<1> SUFFICES ASSUME FrameInv, GuestInv, Unread \subseteq Mail, IsFiniteSet(Unread), [MailNext]_mailVars
             PROVE  FrameInv'
  BY Zenon
<1> USE DEF guestVars, ghostVars, hostVars
<1>1. ASSUME UNCHANGED <<draining, inbox, down, up, loop, app, seen, vm>> PROVE FrameInv'
  BY Zenon, <1>1 DEF FrameInv, RecvNeverSleepsThroughMail
<1>2. kick \/ write_tombstone \/ WriteNewFails \/ remove_live \/ rebuild_vsock_connection \/ UNCHANGED mailVars
      \/ record_and_dispatch \/ DispatchFails
      => UNCHANGED <<draining, inbox, down, up, app, seen, vm>>
  BY Zenon DEF kick, write_tombstone, WriteNewFails, remove_live, rebuild_vsock_connection, mailVars,
         record_and_dispatch, DispatchFails
<1>3. kick \/ write_tombstone \/ WriteNewFails \/ remove_live \/ rebuild_vsock_connection \/ UNCHANGED mailVars
      => UNCHANGED loop
  BY Zenon DEF kick, write_tombstone, WriteNewFails, remove_live, rebuild_vsock_connection, mailVars
<1>4. ASSUME NEW m \in mailMenu.ids, accept(m) \/ Late(m) PROVE FrameInv'
  BY Zenon, <1>1, <1>4 DEF accept, Late
<1>5. ASSUME NEW ids \in SUBSET mailMenu.ids, sweep(ids) PROVE FrameInv'
  BY <1>5 DEF sweep, FrameInv, RecvNeverSleepsThroughMail
<1>6. CASE kick_consumer
  <2>1. CASE Wake
    BY Zenon, <1>6, <2>1, StartFrames DEF kick_consumer, Wake
  <2>2. CASE UNCHANGED <<vm, joined, kicked, guestVars, undone, down, up>>
    BY Zenon, <1>6, <2>2, <1>1 DEF kick_consumer
  <2> QED
    BY Zenon, <1>6, <2>1, <2>2 DEF kick_consumer
<1>7. CASE deliver_mailbox
  <2>1. PICK ids \in [1..Cardinality(Unread) -> Unread] :
               draining' = [i \in DOMAIN ids |-> [id |-> ids[i], sent |-> FALSE]]
    BY <1>7, Zenon DEF deliver_mailbox, list_unacked, Listings
  <2>2. Cardinality(Unread) \in Nat
    BY Zenon, FS_CardinalityType
  <2>3. draining' = [i \in 1..Cardinality(Unread) |-> [id |-> ids[i], sent |-> FALSE]]
    BY Zenon, <2>1
  <2>4. \A i \in 1..Cardinality(Unread) : ids[i] \in Mail
    BY Zenon, <2>1
  <2>5. \A i \in 1..Cardinality(Unread) : [id |-> ids[i], sent |-> FALSE] \in Parcels
    BY Zenon, <2>4 DEF Parcels
  <2>6. draining' \in Seq(Parcels)
    BY <2>2, <2>3, <2>5
  <2>7. UNCHANGED <<inbox, down, up, loop, app, seen, vm>>
    BY Zenon, <1>7 DEF deliver_mailbox
  <2> QED
    BY Zenon, <2>6, <2>7 DEF FrameInv, RecvNeverSleepsThroughMail
<1>8. CASE Deliver
  <2>1. UNCHANGED <<inbox, up, loop, app, seen, vm>> /\ draining # <<>>
    BY Zenon, <1>8 DEF Deliver
  <2>2. 1 \in 1..Len(draining) /\ draining[1] \in Parcels /\ Head(draining) = draining[1]
    BY <2>1 DEF FrameInv
  <2>3. [draining[1] EXCEPT !.sent = TRUE] \in Parcels /\ draining[1].id \in Mail
    BY <2>2, Zenon DEF Parcels
  <2>4. draining' = [draining EXCEPT ![1] = [draining[1] EXCEPT !.sent = TRUE]]
    BY Zenon, <1>8 DEF Deliver
  <2>5. draining' \in Seq(Parcels)
    <3>1. draining \in [1..Len(draining) -> Parcels] /\ Len(draining) \in Nat
      BY DEF FrameInv
    <3>2. draining' \in [1..Len(draining) -> Parcels]
      BY Zenon, <2>2, <2>3, <2>4, <3>1
    <3> QED
      BY <3>1, <3>2
  <2>6. down' \in Seq(Mail)
    BY <1>8, <2>2, <2>3 DEF Deliver, FrameInv
  <2> QED
    BY Zenon, <2>1, <2>5, <2>6 DEF FrameInv, RecvNeverSleepsThroughMail
<1>9. CASE record_attempt
  <2>1. UNCHANGED <<inbox, down, up, loop, app, seen, vm>> /\ draining # <<>> /\ draining' = Tail(draining)
    BY Zenon, <1>9 DEF record_attempt
  <2> QED
    BY <2>1 DEF FrameInv, RecvNeverSleepsThroughMail
<1>10. CASE handle_done
  <2>1. UNCHANGED <<draining, inbox, down, loop, app, seen>> /\ up # <<>> /\ up' = Tail(up)
        /\ vm' \in {vm, "leaving"}
    BY Zenon, <1>10 DEF handle_done
  <2> QED
    BY <2>1 DEF FrameInv, RecvNeverSleepsThroughMail
<1>11. CASE terminate_owned \/ Kill \/ AgentCrash
  BY <1>11, StartFrames, Zenon DEF terminate_owned, Kill, AgentCrash, FrameInv
<1>12. CASE Exit
  BY Zenon, <1>12 DEF Exit, FrameInv, RecvNeverSleepsThroughMail
<1>13. CASE ack
  <2>1. UNCHANGED <<draining, inbox, down, loop, app, seen, vm>> /\ up # <<>> /\ up' = Tail(up)
    BY Zenon, <1>13 DEF ack
  <2> QED
    BY <2>1 DEF FrameInv, RecvNeverSleepsThroughMail
<1>14. CASE DeliverMessage
  <2>1. UNCHANGED <<draining, up, seen, vm>> /\ down # <<>> /\ inbox' = Append(inbox, Head(down)) /\ down' = Tail(down)
    BY Zenon, <1>14 DEF DeliverMessage
  <2>2. inbox' \in Seq(Mail) /\ down' \in Seq(Mail)
    BY <2>1 DEF FrameInv
  <2>3. loop' = loop \/ loop' = [loop EXCEPT !.pc = "look"]
    BY Zenon, <1>14 DEF DeliverMessage
  <2>4. loop'.pc \in {"record", "drop", "ack"} => loop'.item \in Mail
    BY Zenon, <2>3 DEF FrameInv, GuestInv
  <2>5. app' = [app EXCEPT !.woken = app.pc \in {"listening", "waiting"}]
    BY Zenon, <1>14 DEF DeliverMessage
  <2>6. app' = [pc |-> app.pc, item |-> app.item, woken |-> app.pc \in {"listening", "waiting"}]
    BY Zenon, <2>5 DEF FrameInv
  <2> QED
    BY <2>1, <2>2, <2>4, <2>6, Zenon DEF FrameInv, RecvNeverSleepsThroughMail
<1>15. CASE consume_loop
  <2>1. UNCHANGED <<draining, inbox, down, up, app, seen, vm>>
    BY Zenon, <1>15 DEF consume_loop
  <2>2. loop'.pc \in {"record", "drop", "ack"} => loop'.item \in Mail
    BY <1>15 DEF consume_loop, Loop, FrameInv
  <2> QED
    BY Zenon, <2>1, <2>2 DEF FrameInv, RecvNeverSleepsThroughMail
<1>16. CASE record \/ RecordFails
  <2>1. UNCHANGED <<draining, inbox, down, up, app, vm>>
    BY Zenon, <1>16 DEF record, RecordFails
  <2>2. loop'.pc \in {"record", "drop", "ack"} => loop'.item \in Mail
    BY <1>16 DEF record, RecordFails, Loop, FrameInv
  <2>3. seen'.ram \subseteq seen'.disk
    <3>1. record => seen'.ram = seen.ram \cup {loop.item} /\ seen'.disk = seen.disk \cup {loop.item}
      BY DEF record
    <3>2. RecordFails => seen' = seen \/ seen' = [seen EXCEPT !.disk = @ \cup {loop.item}]
      BY Zenon DEF RecordFails
    <3>3. RecordFails => seen'.ram = seen.ram /\ seen.disk \subseteq seen'.disk
      BY Zenon, <3>2 DEF GuestInv
    <3> QED
      BY Zenon, <1>16, <3>1, <3>3 DEF FrameInv
  <2> QED
    BY Zenon, <2>1, <2>2, <2>3 DEF FrameInv, RecvNeverSleepsThroughMail
<1>17. CASE record_and_dispatch \/ DispatchFails
  <2>1. loop'.pc \in {"record", "drop", "ack"} => loop'.item \in Mail
    BY <1>17 DEF record_and_dispatch, DispatchFails, Loop, FrameInv
  <2> QED
    BY Zenon, <1>2, <1>17, <2>1 DEF FrameInv, RecvNeverSleepsThroughMail
<1>18. CASE AckItem
  <2>1. UNCHANGED <<draining, down, app, seen, vm>> /\ ack_ids(loop.item) /\ loop.item \in Mail
    BY Zenon, <1>18 DEF AckItem, Loop, FrameInv
  <2>2. inbox' \in Seq(Mail) /\ (inbox = <<>> => inbox' = <<>>)
    BY Zenon, <2>1, AckKeepsInbox DEF FrameInv
  <2>3. up' \in Seq(UpFrames)
    BY <2>1, SendKeepsUp, Zenon DEF ack_ids, UpFrames, FrameInv
  <2>4. loop'.pc \notin {"record", "drop", "ack"}
    BY Zenon, <1>18 DEF AckItem, Loop
  <2> QED
    BY Zenon, <2>1, <2>2, <2>3, <2>4 DEF FrameInv, RecvNeverSleepsThroughMail
<1>19. CASE AnswerEnds
  BY Zenon, <1>19 DEF AnswerEnds, Loop, FrameInv, RecvNeverSleepsThroughMail
<1>20. CASE handle_recv
  <2>1. UNCHANGED <<draining, inbox, down, up, loop, seen, vm>>
    BY Zenon, <1>20 DEF handle_recv
  <2>2. /\ app' = [pc |-> app'.pc, item |-> app'.item, woken |-> app'.woken]
        /\ app'.pc = "got" => app'.item \in Mail
    BY <1>20 DEF handle_recv, App, FrameInv
  <2>3. RecvNeverSleepsThroughMail'
    BY <1>20, <2>1 DEF handle_recv, App, FrameInv, RecvNeverSleepsThroughMail
  <2> QED
    BY Zenon, <2>1, <2>2, <2>3 DEF FrameInv
<1>21. CASE handle_ack
  <2>1. UNCHANGED <<draining, down, loop, seen, vm>> /\ ack_ids(app.item) /\ app.item \in Mail
    BY Zenon, <1>21 DEF handle_ack, App, FrameInv
  <2>2. inbox' \in Seq(Mail)
    BY Zenon, <2>1, AckKeepsInbox DEF FrameInv
  <2>3. up' \in Seq(UpFrames)
    BY <2>1, SendKeepsUp, Zenon DEF ack_ids, UpFrames, FrameInv
  <2>4. app' = [pc |-> "idle", item |-> NoMail, woken |-> FALSE]
    BY <1>21, Zenon DEF handle_ack, App
  <2> QED
    BY Zenon, <2>1, <2>2, <2>3, <2>4 DEF FrameInv, RecvNeverSleepsThroughMail
<1>22. CASE CheckInbox \/ SignalDone
  <2>1. UNCHANGED <<draining, inbox, down, loop, seen, vm>>
    BY Zenon, <1>22 DEF CheckInbox, SignalDone
  <2>2. up' \in Seq(UpFrames)
    BY Zenon, <1>22, SendKeepsUp DEF CheckInbox, SignalDone, UpFrames, FrameInv
  <2>3. app' = [pc |-> app'.pc, item |-> app'.item, woken |-> app'.woken] /\ app'.pc \in {"idle", "done"}
    BY <1>22 DEF CheckInbox, SignalDone, App
  <2> QED
    BY Zenon, <2>1, <2>2, <2>3 DEF FrameInv, RecvNeverSleepsThroughMail
<1>23. CASE Disconnect
  BY <1>23 DEF Disconnect, FrameInv, RecvNeverSleepsThroughMail
<1> QED
  BY SMTT(20), <1>1, <1>2, <1>3, <1>4, <1>5, <1>6, <1>7, <1>8, <1>9, <1>10, <1>11, <1>12, <1>13, <1>14, <1>15, <1>16,
     <1>17, <1>18, <1>19, <1>20, <1>21, <1>22, <1>23
     DEF MailNext, MailHost, MailGuest, MailFaults, Client

\* The mail that was handed over, to the hook or to a client, or whose hand-over
\* was cut short or undone by a rollback.
HandedOver == {m \in Mail : files[m] > 0 \/ m \in appAcked \cup undone}

\* Nothing is acknowledged, on the host, in a frame or in the consume loop, that
\* was not handed over; what a running loop remembers was, or is about to be.
HandedHostInv ==
    /\ AckedWasHandedOver
    /\ op # IdleOp /\ op.do = "acked" => \A m \in op.ids : m \in HandedOver

HandedGuestInv ==
    /\ \A i \in 1..Len(up) : up[i] # "done" => up[i] \in HandedOver
    /\ loop.pc = "ack" => loop.item \in HandedOver
    /\ Agent => \A m \in seen.ram \cap Mail : m \in HandedOver \/ (loop.pc = "drop" /\ loop.item = m)

HandedInv == HandedHostInv /\ HandedGuestInv

\* Once handed over, always so: files only grow, but for a restored disk, whose
\* losses are in undone.
LEMMA HandedGrows ==
  ASSUME GuestInv, FrameInv, [MailNext]_mailVars
  PROVE  HandedOver \subseteq HandedOver'
<1> USE DEF guestVars, ghostVars, HandedOver
<1>1. CASE kick_consumer
  <2>1. CASE Wake
    <3>1. files' = snapshot.files /\ appAcked' = appAcked
          /\ undone \cup {m \in Mail : files[m] > snapshot.files[m]} \subseteq undone'
      BY Zenon, <1>1, <2>1 DEF kick_consumer, Wake
    <3>2. \A m \in Mail : files[m] \in {0, 1} /\ snapshot.files[m] \in {0, 1}
      BY Zenon DEF GuestInv
    <3> QED
      BY <3>1, <3>2
  <2>2. CASE UNCHANGED <<vm, joined, kicked, guestVars, undone, down, up>>
    BY Zenon, <1>1, <2>2 DEF kick_consumer
  <2> QED
    BY Zenon, <1>1, <2>1, <2>2 DEF kick_consumer
<1>2. CASE record_and_dispatch
  <2>1. loop.item \in Mail /\ files' = [files EXCEPT ![loop.item] = @ + 1] /\ UNCHANGED <<appAcked, undone>>
    BY Zenon, <1>2 DEF record_and_dispatch, Loop, FrameInv
  <2>2. \A m \in Mail : files[m] > 0 => files'[m] > 0
    BY <2>1 DEF GuestInv
  <2> QED
    BY Zenon, <2>1, <2>2
<1>3. CASE GuestRests
  <2>1. files' = files
    BY Zenon, <1>3, GuestRestsQuietly
  <2>2. ASSUME NEW m \in mailMenu.ids, accept(m) \/ Late(m) PROVE UNCHANGED <<appAcked, undone>>
    BY Zenon, <2>2 DEF accept, Late
  <2>3. ASSUME NEW ids \in SUBSET mailMenu.ids, sweep(ids) PROVE UNCHANGED <<appAcked, undone>>
    BY <2>3, SMTT(30) DEF sweep
  <2>4. appAcked \subseteq appAcked' /\ undone \subseteq undone'
    BY Zenon, <1>3, <2>2, <2>3
       DEF GuestRests, kick, write_tombstone, WriteNewFails, remove_live, deliver_mailbox, Deliver, record_attempt,
           Exit, ack, AnswerEnds, Client, handle_recv, handle_ack, CheckInbox, SignalDone, consume_loop, AckItem,
           DeliverMessage, Disconnect, rebuild_vsock_connection
  <2> QED
    BY Zenon, <2>1, <2>4
<1>4. CASE handle_done \/ terminate_owned \/ Kill \/ AgentCrash \/ record \/ RecordFails \/ DispatchFails
           \/ UNCHANGED mailVars
  <2>1. files' = files /\ appAcked' = appAcked /\ undone \subseteq undone'
    BY <1>4, Zenon DEF handle_done, terminate_owned, Kill, AgentCrash, record, RecordFails, DispatchFails, mailVars
  <2> QED
    BY Zenon, <2>1
<1> QED
  BY Zenon, <1>1, <1>2, <1>3, <1>4 DEF MailNext, MailHost, MailGuest, MailFaults, GuestRests

\* What the host acknowledges came up in a frame.
LEMMA HandedHost ==
  ASSUME HandedInv, FrameInv, SpoolInv, HostInv, GuestInv, mailMenu \in MenuTypes, [MailNext]_mailVars
  PROVE  HandedHostInv'
<1> DEFINE AckOp == op # IdleOp /\ op.do = "acked" => \A m \in op.ids : m \in HandedOver
<1>0. HandedOver \subseteq HandedOver'
  BY Zenon, HandedGrows
<1>1. /\ tomb \in [Mail -> SUBSET {"acked", "bounced"}]
      /\ \A m \in Mail : "acked" \in tomb[m] => m \in HandedOver
      /\ AckOp
      /\ op # IdleOp => op.ids \subseteq Mail
  BY Zenon DEF HandedInv, HandedHostInv, SpoolInv, AckedWasHandedOver, HandedOver, HostInv
<1>2. ASSUME tomb' = tomb, op' = op \/ (op' = IdleOp) \/ (op # IdleOp /\ op'.do = op.do /\ op'.ids \subseteq op.ids)
      PROVE  HandedHostInv'
  <2>1. AckedWasHandedOver'
    BY Zenon, <1>0, <1>1, <1>2 DEF AckedWasHandedOver, HandedOver
  <2>2. AckOp'
    BY Zenon, <1>0, <1>1, <1>2 DEF IdleOp
  <2> QED
    BY Zenon, <2>1, <2>2 DEF HandedHostInv
<1>3. ASSUME NEW ids, NEW kicks, Settling("bounced", ids, kicks),
             \A m \in Mail : tomb'[m] \subseteq tomb[m]
      PROVE  HandedHostInv'
  <2>1. AckedWasHandedOver'
    BY Zenon, <1>0, <1>1, <1>3 DEF AckedWasHandedOver, HandedOver
  <2>2. AckOp'
    BY Zenon, <1>3 DEF Settling, IdleOp
  <2> QED
    BY Zenon, <2>1, <2>2 DEF HandedHostInv
<1>4. CASE HostRests \/ UNCHANGED mailVars
  BY Zenon, <1>2, <1>4, HostRestsQuietly DEF mailVars, hostVars
<1>5. ASSUME NEW m \in mailMenu.ids, accept(m) \/ Late(m) PROVE HandedHostInv'
  BY Zenon, <1>2, <1>5 DEF accept, Late
<1>6. ASSUME NEW ids \in SUBSET mailMenu.ids, sweep(ids) PROVE HandedHostInv'
  <2>1. /\ tomb' = [m \in Mail |-> IF m \in ids THEN {} ELSE tomb[m]]
        /\ \E bounced, kicks : Settling("bounced", bounced, kicks)
    BY Zenon, <1>6 DEF sweep
  <2>2. \A m \in Mail : tomb'[m] \subseteq tomb[m]
    BY Zenon, <2>1
  <2> QED
    BY Zenon, <1>3, <2>1, <2>2
<1>7. CASE kick \/ Kill
  <2>1. tomb' = tomb /\ \E ids, kicks : Settling("bounced", ids, kicks)
    BY <1>7, Zenon DEF kick, Kill
  <2> QED
    BY Zenon, <1>3, <2>1
<1>8. CASE write_tombstone
  <2>1. PICK m \in op.ids : tomb' = [tomb EXCEPT ![m] = @ \cup {op.do}]
    BY <1>8, Zenon DEF write_tombstone
  <2>2. op # IdleOp /\ op' = [op EXCEPT !.written = TRUE] /\ m \in Mail
    BY Zenon, <1>8, <1>1 DEF write_tombstone
  <2>3. op'.do = op.do /\ op'.ids = op.ids
    BY Zenon, <2>2 DEF HostInv
  <2>4. \A x \in Mail : "acked" \in tomb'[x] => "acked" \in tomb[x] \/ (x = m /\ op.do = "acked")
    BY Zenon, <1>1, <2>1, <2>2
  <2>5. AckedWasHandedOver'
    BY Zenon, <1>0, <1>1, <2>2, <2>4 DEF AckedWasHandedOver, HandedOver
  <2>6. AckOp'
    BY Zenon, <1>0, <1>1, <2>2, <2>3
  <2> QED
    BY Zenon, <2>5, <2>6 DEF HandedHostInv
<1>9. CASE WriteNewFails
  <2>1. tomb' = tomb /\ op # IdleOp /\ (op' = IdleOp \/ op' = [op EXCEPT !.written = TRUE])
    BY Zenon, <1>9 DEF WriteNewFails
  <2>2. op' = IdleOp \/ (op'.do = op.do /\ op'.ids = op.ids)
    BY Zenon, <2>1 DEF HostInv
  <2> QED
    BY Zenon, <1>2, <2>1, <2>2
<1>10. CASE remove_live
  <2>1. PICK m \in op.ids : Settling(op.do, op.ids \ {m}, op.kick)
    BY Zenon, <1>10 DEF remove_live
  <2>2. op # IdleOp /\ tomb' = tomb
    BY Zenon, <1>10 DEF remove_live
  <2>3. op' = IdleOp \/ (op'.do = op.do /\ op'.ids \subseteq op.ids)
    BY Zenon, <2>1 DEF Settling
  <2> QED
    BY Zenon, <1>2, <2>2, <2>3
<1>11. CASE record_attempt
  <2>1. tomb' = tomb /\ (op' = op \/ \E ids : Settling("bounced", ids, FALSE))
    BY <1>11, Zenon DEF record_attempt
  <2> QED
    BY Zenon, <1>2, <1>3, <2>1
<1>12. CASE ack
  <2>1. tomb' = tomb /\ up # <<>> /\ Head(up) # "done"
        /\ (op' = op \/ (Head(up) \in Unread /\ Settling("acked", {Head(up)}, FALSE)))
    BY <1>12, Zenon DEF ack
  <2>2. Head(up) \in HandedOver
    <3>1. Head(up) = up[1] /\ 1 \in 1..Len(up)
      BY <2>1 DEF FrameInv
    <3> QED
      BY Zenon, <2>1, <3>1 DEF HandedInv, HandedGuestInv
  <2>3. CASE op' = op
    BY Zenon, <1>2, <2>1, <2>3
  <2>4. CASE Head(up) \in Unread /\ Settling("acked", {Head(up)}, FALSE)
    <3>1. op'.ids = {Head(up)} /\ Head(up) \in Mail
      BY Zenon, <2>4 DEF Settling, SpoolInv
    <3>2. AckOp'
      BY Zenon, <1>0, <2>2, <3>1
    <3>3. AckedWasHandedOver'
      BY Zenon, <1>0, <1>1, <2>1 DEF AckedWasHandedOver, HandedOver
    <3> QED
      BY Zenon, <3>2, <3>3 DEF HandedHostInv
  <2> QED
    BY Zenon, <2>1, <2>3, <2>4
<1> QED
  BY SMTT(20), <1>4, <1>5, <1>6, <1>7, <1>8, <1>9, <1>10, <1>11, <1>12
     DEF MailNext, MailHost, MailFaults, HostRests

\* An agent that starts remembers what is on its disk.
LEMMA StartHanded ==
  ASSUME NEW disk, Start(disk),
         Agent' => \A m \in disk \cap Mail : m \in HandedOver'
  PROVE  HandedGuestInv'
  BY DEF Start, HandedGuestInv

\* What the guest acknowledges, its consume loop or a client was given.
LEMMA HandedGuest ==
  ASSUME HandedInv, FrameInv, GuestInv, [MailNext]_mailVars
  PROVE  HandedGuestInv'
<1> USE DEF guestVars, ghostVars, hostVars
<1>0. HandedOver \subseteq HandedOver'
  BY Zenon, HandedGrows
<1>1. /\ HandedGuestInv /\ up \in Seq(UpFrames)
      /\ \A i \in 1..Len(up) : up[i] # "done" => up[i] \in Mail
      /\ loop.pc \in {"record", "drop", "ack"} => loop.item \in Mail
  BY DEF HandedInv, HandedGuestInv, FrameInv, UpFrames
<1>2. ASSUME up' = up, seen' = seen, Agent' => Agent,
             \/ loop' = loop
             \/ loop'.pc \notin {"drop", "ack"} /\ loop.pc # "drop"
      PROVE  HandedGuestInv'
  BY Zenon, <1>0, <1>1, <1>2 DEF HandedGuestInv
<1>3. ASSUME up # <<>>, up' = Tail(up), seen' = seen, Agent' => Agent, loop' = loop
      PROVE  HandedGuestInv'
  <2>1. Len(up') = Len(up) - 1 /\ \A i \in 1..Len(up') : up'[i] = up[i + 1] /\ i + 1 \in 1..Len(up)
    BY <1>1, <1>3
  <2>2. \A i \in 1..Len(up') : up'[i] # "done" => up'[i] \in HandedOver'
    BY Zenon, <1>0, <1>1, <2>1 DEF HandedGuestInv
  <2> QED
    BY Zenon, <1>0, <1>1, <1>3, <2>2 DEF HandedGuestInv
<1>4. ASSUME up' = <<>>, seen' = seen, Agent' => Agent, loop' = loop
      PROVE  HandedGuestInv'
  BY <1>0, <1>1, <1>4 DEF HandedGuestInv
<1>5. ASSUME NEW f \in UpFrames, f # "done" => f \in HandedOver', up' = FrameOf(f)
      PROVE  \A i \in 1..Len(up') : up'[i] # "done" => up'[i] \in HandedOver'
  <2>1. CASE joined
    <3>1. up' = Append(up, f)
      BY Zenon, <1>5, <2>1 DEF FrameOf
    <3>2. Len(up') = Len(up) + 1 /\ up'[Len(up) + 1] = f /\ \A i \in 1..Len(up) : up'[i] = up[i]
      BY <1>1, <3>1
    <3>3. Len(up) \in Nat
      BY <1>1
    <3>4. \A i \in 1..Len(up') : i \in 1..Len(up) \/ i = Len(up) + 1
      BY <3>2, <3>3
    <3> QED
      BY Zenon, <1>0, <1>1, <1>5, <3>2, <3>4 DEF HandedGuestInv
  <2>2. CASE ~joined
    BY Zenon, <1>0, <1>1, <1>5, <2>2 DEF FrameOf, HandedGuestInv
  <2> QED
    BY Zenon, <2>1, <2>2
<1>6. CASE kick \/ write_tombstone \/ WriteNewFails \/ remove_live \/ deliver_mailbox \/ Deliver \/ record_attempt
           \/ Exit \/ rebuild_vsock_connection \/ UNCHANGED mailVars
  <2>1. UNCHANGED <<up, seen, loop>>
    BY <1>6, Zenon DEF kick, write_tombstone, WriteNewFails, remove_live, deliver_mailbox, Deliver, record_attempt, Exit,
                rebuild_vsock_connection, mailVars
  <2>2. vm' = vm \/ vm' = "dormant"
    BY <1>6, Zenon DEF kick, write_tombstone, WriteNewFails, remove_live, deliver_mailbox, Deliver, record_attempt, Exit,
                rebuild_vsock_connection, mailVars
  <2> QED
    BY Zenon, <1>2, <2>1, <2>2 DEF Agent
<1>7. ASSUME NEW m \in mailMenu.ids, accept(m) \/ Late(m) PROVE HandedGuestInv'
  BY Zenon, <1>2, <1>7 DEF accept, Late, Agent
<1>8. ASSUME NEW ids \in SUBSET mailMenu.ids, sweep(ids) PROVE HandedGuestInv'
  BY Zenon, <1>4, <1>8 DEF sweep, Agent
<1>9. CASE kick_consumer
  <2>1. CASE Wake
    <3>1. Start(snapshot.seen) /\ files' = snapshot.files
          /\ {m \in Mail : m \in snapshot.seen /\ snapshot.files[m] = 0} \subseteq undone'
      BY Zenon, <2>1 DEF Wake
    <3>2. \A m \in snapshot.seen \cap Mail : m \in HandedOver'
      BY <3>1 DEF GuestInv, HandedOver
    <3> QED
      BY Zenon, <3>1, <3>2, StartHanded
  <2>2. CASE UNCHANGED <<vm, joined, kicked, guestVars, undone, down, up>>
    BY Zenon, <1>2, <2>2 DEF Agent
  <2> QED
    BY Zenon, <1>9, <2>1, <2>2 DEF kick_consumer
<1>10. CASE handle_done
  <2>1. up # <<>> /\ up' = Tail(up) /\ UNCHANGED <<seen, loop>> /\ vm = "up"
    BY Zenon, <1>10 DEF handle_done
  <2> QED
    BY Zenon, <1>3, <2>1 DEF Agent
<1>11. CASE ack
  <2>1. up # <<>> /\ up' = Tail(up) /\ UNCHANGED <<seen, loop, vm>>
    BY Zenon, <1>11 DEF ack
  <2> QED
    BY Zenon, <1>3, <2>1 DEF Agent
<1>12. CASE terminate_owned \/ Kill
  <2>1. Start(seen.disk) /\ ~Agent'
    BY <1>12, Zenon DEF terminate_owned, Kill, Agent
  <2> QED
    BY Zenon, <2>1, StartHanded
<1>13. CASE AgentCrash
  <2>1. Start(seen.disk) /\ files' = files /\ {m \in seen.disk : files[m] = 0} \subseteq undone'
    BY Zenon, <1>13 DEF AgentCrash
  <2>2. \A m \in seen.disk \cap Mail : m \in HandedOver'
    BY <2>1 DEF GuestInv, HandedOver
  <2> QED
    BY Zenon, <2>1, <2>2, StartHanded
<1>14. CASE DeliverMessage
  <2>1. UNCHANGED <<up, seen, vm>> /\ (loop' = loop \/ (loop.pc = "asleep" /\ loop' = [loop EXCEPT !.pc = "look"]))
    BY Zenon, <1>14 DEF DeliverMessage
  <2>2. loop' = loop \/ (loop.pc = "asleep" /\ loop'.pc = "look")
    BY Zenon, <2>1 DEF GuestInv
  <2> QED
    BY Zenon, <1>2, <2>1, <2>2 DEF Agent
<1>15. CASE consume_loop \/ AnswerEnds
  <2>1. UNCHANGED <<up, seen, vm>> /\ loop'.pc \notin {"drop", "ack"} /\ loop.pc # "drop"
    BY <1>15 DEF consume_loop, AnswerEnds, Loop
  <2> QED
    BY Zenon, <1>2, <2>1 DEF Agent
<1>16. CASE record
  <2>1. /\ UNCHANGED <<up, vm>> /\ loop.pc = "record" /\ Agent
        /\ loop' = [pc |-> IF loop.item \in seen.ram THEN "ack" ELSE "drop", item |-> loop.item]
        /\ seen'.ram = seen.ram \cup {loop.item}
    BY Zenon, <1>16 DEF record, Loop
  <2>2. CASE loop.item \in seen.ram
    <3>1. loop.item \in HandedOver
      BY Zenon, <1>1, <2>1, <2>2 DEF HandedGuestInv
    <3>2. loop.item \in HandedOver'
      BY Zenon, <1>0, <1>1, <2>1, <3>1
    <3>3. loop'.pc = "ack" /\ loop'.item = loop.item
      BY Zenon, <2>1, <2>2
    <3>4. loop'.pc = "ack" => loop'.item \in HandedOver'
      BY Zenon, <3>2, <3>3
    <3> QED
      BY <1>0, <1>1, <2>1, <2>2, <3>2, <3>4, SMTT(30) DEF HandedGuestInv
  <2>3. CASE loop.item \notin seen.ram
    <3>1. loop'.pc = "drop" /\ loop'.item = loop.item
      BY Zenon, <2>1, <2>3
    <3> QED
      BY Zenon, <1>0, <1>1, <2>1, <3>1 DEF HandedGuestInv
  <2> QED
    BY Zenon, <2>2, <2>3
<1>17. CASE RecordFails
  <2>1. /\ UNCHANGED <<up, vm>> /\ loop.pc = "record" /\ loop'.pc = "look"
        /\ seen' = seen \/ seen' = [seen EXCEPT !.disk = @ \cup {loop.item}]
    BY Zenon, <1>17 DEF RecordFails, Loop
  <2>2. seen'.ram = seen.ram
    BY Zenon, <2>1 DEF GuestInv
  <2> QED
    BY Zenon, <1>0, <1>1, <2>1, <2>2 DEF HandedGuestInv, Agent
<1>18. CASE record_and_dispatch
  <2>1. /\ UNCHANGED <<up, vm, seen>> /\ loop.pc = "drop" /\ loop' = [pc |-> "ack", item |-> loop.item]
        /\ files' = [files EXCEPT ![loop.item] = @ + 1] /\ loop.item \in Mail
    BY Zenon, <1>18, <1>1 DEF record_and_dispatch, Loop
  <2>2. loop.item \in HandedOver'
    BY <2>1 DEF GuestInv, HandedOver
  <2>3. loop'.pc = "ack" /\ loop'.item = loop.item
    BY Zenon, <2>1
  <2>4. loop'.pc = "ack" => loop'.item \in HandedOver'
    BY Zenon, <2>2, <2>3
  <2> QED
    BY <1>0, <1>1, <2>1, <2>2, <2>4, SMTT(30) DEF HandedGuestInv, Agent
<1>19. CASE DispatchFails
  <2>1. /\ UNCHANGED <<up, vm, seen>> /\ loop.pc = "drop" /\ loop'.pc = "look"
        /\ undone' = undone \cup {loop.item}
    BY Zenon, <1>19 DEF DispatchFails, Loop
  <2>2. loop.item \in HandedOver'
    BY Zenon, <1>1, <2>1 DEF HandedOver
  <2> QED
    BY Zenon, <1>0, <1>1, <2>1, <2>2 DEF HandedGuestInv, Agent
<1>20. CASE AckItem
  <2>1. /\ UNCHANGED <<vm, seen>> /\ loop.pc = "ack" /\ loop'.pc \in {"answer", "look"} /\ up' = FrameOf(loop.item)
    BY <1>20, Zenon DEF AckItem, Loop, ack_ids
  <2>2. loop.item \in HandedOver' /\ loop.item \in UpFrames
    BY Zenon, <1>0, <1>1, <2>1 DEF HandedGuestInv, UpFrames
  <2>3. \A i \in 1..Len(up') : up'[i] # "done" => up'[i] \in HandedOver'
    BY Zenon, <1>5, <2>1, <2>2
  <2> QED
    BY Zenon, <1>0, <1>1, <2>1, <2>3 DEF HandedGuestInv, Agent
<1>21. CASE handle_recv \/ CheckInbox
  <2>1. UNCHANGED <<up, seen, loop, vm>>
    BY <1>21, SMTT(30) DEF handle_recv, CheckInbox
  <2> QED
    BY Zenon, <1>2, <2>1 DEF Agent
<1>22. CASE handle_ack
  <2>1. /\ UNCHANGED <<seen, loop, vm>> /\ up' = FrameOf(app.item) /\ app.item \in appAcked'
    BY <1>22, Zenon DEF handle_ack, ack_ids
  <2>2. app.item \in Mail /\ app.item \in UpFrames
    BY Zenon, <1>22 DEF handle_ack, App, FrameInv, UpFrames
  <2>3. app.item \in HandedOver'
    BY Zenon, <2>1, <2>2 DEF HandedOver
  <2>4. \A i \in 1..Len(up') : up'[i] # "done" => up'[i] \in HandedOver'
    BY SMTT(30), <1>5, <2>1, <2>2, <2>3
  <2> QED
    BY Zenon, <1>0, <1>1, <2>1, <2>4 DEF HandedGuestInv, Agent
<1>23. CASE SignalDone
  <2>1. UNCHANGED <<seen, loop, vm>> /\ up' = FrameOf("done")
    BY Zenon, <1>23 DEF SignalDone
  <2>2. \A i \in 1..Len(up') : up'[i] # "done" => up'[i] \in HandedOver'
    BY Zenon, <1>5, <2>1 DEF UpFrames
  <2> QED
    BY Zenon, <1>0, <1>1, <2>1, <2>2 DEF HandedGuestInv, Agent
<1>24. CASE Disconnect
  BY Zenon, <1>4, <1>24 DEF Disconnect, Agent
<1> QED
  BY SMTT(20), <1>6, <1>7, <1>8, <1>9, <1>10, <1>11, <1>12, <1>13, <1>14, <1>15, <1>16, <1>17, <1>18, <1>19, <1>20, <1>21,
     <1>22, <1>23, <1>24
     DEF MailNext, MailHost, MailGuest, MailFaults, Client

\* A wake is on its way: a kick, a spawned look-up, a settlement that kicks when
\* it is done, or it was lost.
Waking == kicked \/ looking \/ missed \/ (op # IdleOp /\ op.kick)

\* From the end of terminate on, mail left in the spool is the wake; until the
\* process exits a cast to it may stand for the kick.
WokenInv ==
    vm \in {"exiting", "dormant"} /\ Unread # {} => Waking \/ (vm = "exiting" /\ cast)

\* A settlement that has something to settle will kick if it is asked to.
LEMMA SettlingKicks ==
  ASSUME NEW ids, ids # {}, NEW kicks, Settling("bounced", ids, kicks)
  PROVE  op' # IdleOp /\ op'.kick = kicks
<1>1. op' = [do |-> "bounced", ids |-> ids, written |-> FALSE, kick |-> kicks]
  BY Zenon DEF Settling
<1>2. op'.do = "bounced" /\ op'.kick = kicks
  BY Zenon, <1>1
<1>3. IdleOp.do = "idle"
  BY Zenon DEF IdleOp
<1> QED
  BY Zenon, <1>2, <1>3

\* Every step keeps a wake on its way.
LEMMA WokenNext ==
  ASSUME WokenInv, HostInv, SpoolInv, FrameInv, [MailNext]_mailVars
  PROVE  WokenInv'
<1> USE DEF guestVars, ghostVars, hostVars
<1>1. ASSUME UNCHANGED <<kicked, looking, cast, vm, missed>>, Unread' = Unread,
             op' = op \/ op = IdleOp \/ (op # IdleOp /\ ~op.kick)
      PROVE  WokenInv'
  BY Zenon, <1>1 DEF WokenInv, Waking
<1>2. CASE kick
  <2>1. PICK expired : looking' = (looking \/ expired = {}) /\ Settling("bounced", expired, TRUE)
    BY <1>2, Zenon DEF kick
  <2>2. looking' \/ (op' # IdleOp /\ op'.kick)
    BY Zenon, <2>1, SettlingKicks
  <2> QED
    BY Zenon, <2>2 DEF WokenInv, Waking
<1>3. CASE write_tombstone
  <2>1. op # IdleOp /\ op' = [op EXCEPT !.written = TRUE] /\ UNCHANGED <<unread, kicked, looking, cast, vm, missed>>
    BY Zenon, <1>3 DEF write_tombstone
  <2>2. op'.kick = op.kick /\ op'.do = op.do
    BY Zenon, <2>1 DEF HostInv
  <2>3. op' # IdleOp
    BY Zenon, <2>1, <2>2 DEF SpoolInv, IdleOp
  <2> QED
    BY Zenon, <2>1, <2>2, <2>3 DEF WokenInv, Waking, Unread
<1>4. CASE WriteNewFails
  <2>1. /\ op # IdleOp /\ UNCHANGED <<unread, kicked, looking, cast, vm, missed>>
        /\ (op.do = "acked" /\ op' = IdleOp) \/ (op' = [op EXCEPT !.written = TRUE])
    BY Zenon, <1>4 DEF WriteNewFails
  <2>2. CASE op.do = "acked"
    BY Zenon, <2>1, <2>2, <1>1 DEF SpoolInv, Unread
  <2>3. CASE op' = [op EXCEPT !.written = TRUE]
    <3>1. op'.kick = op.kick /\ op'.do = op.do
      BY Zenon, <2>1, <2>3 DEF HostInv
    <3>2. op' # IdleOp
      BY <2>1, <3>1 DEF SpoolInv, IdleOp
    <3> QED
      BY Zenon, <2>1, <3>1, <3>2 DEF WokenInv, Waking, Unread
  <2> QED
    BY Zenon, <2>1, <2>2, <2>3
<1>5. CASE remove_live
  <2>1. /\ op # IdleOp /\ UNCHANGED <<kicked, cast, vm, missed>>
        /\ \E m \in op.ids : /\ unread' = [u \in Unread \ {m} |-> unread[u]]
                             /\ Settling(op.do, op.ids \ {m}, op.kick)
                             /\ looking' = (looking \/ (op.ids = {m} /\ op.kick))
    BY <1>5, Zenon DEF remove_live
  <2>2. PICK m \in op.ids : /\ unread' = [u \in Unread \ {m} |-> unread[u]]
                            /\ Settling(op.do, op.ids \ {m}, op.kick)
                            /\ looking' = (looking \/ (op.ids = {m} /\ op.kick))
    BY Zenon, <2>1
  <2>3. Unread' \subseteq Unread
    BY Zenon, <2>2 DEF Unread
  <2>4. op.kick => looking' \/ (op' # IdleOp /\ op'.kick)
    <3>1. CASE op.ids = {m}
      BY Zenon, <2>2, <3>1
    <3>2. CASE op.ids \ {m} # {}
      <4>1. op' = [do |-> op.do, ids |-> op.ids \ {m}, written |-> FALSE, kick |-> op.kick]
        BY Zenon, <2>2, <3>2 DEF Settling
      <4>2. op'.do = op.do /\ op'.kick = op.kick
        BY Zenon, <4>1
      <4> QED
        BY <2>1, <4>2 DEF SpoolInv, IdleOp
    <3> QED
      BY Zenon, <3>1, <3>2
  <2> QED
    BY <2>1, <2>2, <2>3, <2>4, Zenon DEF WokenInv, Waking
<1>6. CASE kick_consumer
  <2>1. CASE Wake
    BY Zenon, <2>1 DEF Wake, WokenInv
  <2>2. CASE /\ ~(vm = "dormant" /\ Unread # {})
             /\ cast' = (vm \in {"up", "leaving", "exiting"})
             /\ UNCHANGED <<vm, joined, kicked, guestVars, undone, down, up>>
    <3>1. unread' = unread
      BY Zenon, <1>6 DEF kick_consumer
    <3> QED
      BY <2>2, <3>1, Zenon DEF WokenInv, Unread
  <2> QED
    BY Zenon, <1>6, <2>1, <2>2 DEF kick_consumer
<1>7. CASE deliver_mailbox \/ handle_done
  BY Zenon, <1>7 DEF deliver_mailbox, handle_done, WokenInv
<1>8. CASE Deliver \/ rebuild_vsock_connection \/ Disconnect \/ AgentCrash \/ MailGuest \/ UNCHANGED mailVars
  <2>1. UNCHANGED <<unread, op, kicked, looking, cast, vm, missed>>
    BY Zenon, <1>8 DEF Deliver, rebuild_vsock_connection, Disconnect, AgentCrash, mailVars, MailGuest, DeliverMessage,
         consume_loop, record, RecordFails, record_and_dispatch, DispatchFails, AckItem, AnswerEnds, Client,
         handle_recv, handle_ack, CheckInbox, SignalDone
  <2> QED
    BY <1>1, <2>1, SMTT(30) DEF Unread
<1>9. CASE record_attempt
  <2>1. op = IdleOp /\ UNCHANGED <<kicked, looking, cast, vm, missed>>
    BY Zenon, <1>9 DEF record_attempt
  <2>2. Unread' = Unread
    BY <1>9, Zenon DEF record_attempt, Unread
  <2> QED
    BY Zenon, <1>1, <2>1, <2>2
<1>10. CASE ack
  <2>1. op = IdleOp /\ UNCHANGED <<unread, kicked, looking, cast, vm, missed>>
    BY Zenon, <1>10 DEF ack
  <2> QED
    BY Zenon, <1>1, <2>1 DEF Unread
<1>11. CASE terminate_owned \/ Kill
  BY <1>11, Zenon DEF terminate_owned, Kill, WokenInv, Waking
<1>12. CASE Exit
  BY <1>12, Zenon DEF Exit, WokenInv, Waking, Unread
<1>13. ASSUME NEW m \in mailMenu.ids, accept(m) PROVE WokenInv'
  BY Zenon, <1>13 DEF accept, WokenInv, Waking
<1>14. ASSUME NEW m \in mailMenu.ids, Late(m) PROVE WokenInv'
  <2>1. Unread' = Unread /\ UNCHANGED <<op, kicked, looking, cast, vm, missed>>
    BY Zenon, <1>14 DEF Late, Unread
  <2> QED
    BY Zenon, <1>1, <2>1
<1>15. ASSUME NEW ids \in SUBSET mailMenu.ids, sweep(ids) PROVE WokenInv'
  <2>1. unread' = unread /\ (vm' = "gone" <=> vm = "gone")
    BY Zenon, <1>15 DEF sweep
  <2>2. PICK bounced : /\ Settling("bounced", bounced, vm # "gone")
                       /\ looking' = (bounced = {} /\ Unread # {})
    BY <1>15, Zenon DEF sweep
  <2>3. vm # "gone" /\ Unread # {} => looking' \/ (op' # IdleOp /\ op'.kick)
    BY Zenon, <2>2, SettlingKicks
  <2> QED
    BY <2>1, <2>3, SMTT(30) DEF WokenInv, Waking, Unread
<1> QED
  BY SMTT(20), <1>2, <1>3, <1>4, <1>5, <1>6, <1>7, <1>8, <1>9, <1>10, <1>11, <1>12, <1>13, <1>14, <1>15
     DEF MailNext, MailHost, MailFaults

\* The inductive invariant of delivery.
MailInv ==
    /\ Inv /\ mailMenu \in MenuTypes /\ IsFiniteSet(Unread)
    /\ SpoolInv /\ FrameInv /\ HandedInv /\ WokenInv

\* Initially there is no mail.
LEMMA InitMailInv == MailInit => MailInv
<1> SUFFICES ASSUME MailInit PROVE MailInv
  BY Zenon
<1>1. Inv
  BY Zenon, InitInv
<1>2. mailMenu \in MenuTypes
  BY Zenon, MailMenusTyped DEF MailInit, MenuTypes
<1>3. Unread = {} /\ IsFiniteSet(Unread)
  BY FS_EmptySet DEF MailInit, Unread
<1>4. SpoolInv
  <2>1. unread \in [Unread -> Records]
    BY <1>3 DEF MailInit, Unread
  <2>2. tomb \in [Mail -> SUBSET {"acked", "bounced"}] /\ op = IdleOp
    BY Zenon DEF MailInit
  <2> QED
    BY <1>3, <2>1, <2>2, SMTT(30) DEF SpoolInv, SequenceIsTotal
<1>5. FrameInv
  <2>1. draining \in Seq(Parcels) /\ inbox \in Seq(Mail) /\ down \in Seq(Mail) /\ up \in Seq(UpFrames)
    BY DEF MailInit
  <2>2. loop.pc = "look" /\ app = NoClient /\ seen.ram = seen.disk /\ vm = "up"
    BY Zenon DEF MailInit
  <2>3. app = [pc |-> app.pc, item |-> app.item, woken |-> app.woken] /\ app.pc = "idle"
    BY Zenon, <2>2 DEF NoClient
  <2> QED
    BY Zenon, <2>1, <2>2, <2>3 DEF FrameInv, RecvNeverSleepsThroughMail
<1>6. HandedInv
  <2>1. up = <<>> /\ loop.pc = "look" /\ seen.ram = {} /\ op = IdleOp /\ \A m \in Mail : tomb[m] = {}
    BY Zenon DEF MailInit
  <2>2. HandedHostInv
    BY Zenon, <2>1 DEF HandedHostInv, AckedWasHandedOver
  <2>3. HandedGuestInv
    BY <2>1 DEF HandedGuestInv
  <2> QED
    BY Zenon, <2>2, <2>3 DEF HandedInv
<1>7. WokenInv
  BY Zenon DEF MailInit, WokenInv
<1> QED
  BY Zenon, <1>1, <1>2, <1>3, <1>4, <1>5, <1>6, <1>7 DEF MailInv

\* Every step keeps it.
LEMMA NextMailInv == MailInv /\ [MailNext]_mailVars => MailInv'
<1> SUFFICES ASSUME MailInv, [MailNext]_mailVars PROVE MailInv'
  BY Zenon
<1>1. Inv'
  BY Zenon, HostNext, GuestNext DEF MailInv, Inv
<1>2. (mailMenu \in MenuTypes)'
  BY Zenon, MenuNext DEF MailInv
<1>3. IsFiniteSet(Unread)'
  BY Zenon, FiniteNext DEF MailInv, Inv
<1>4. SpoolInv'
  BY Zenon, SpoolNext DEF MailInv, Inv
<1>5. FrameInv'
  BY Zenon, FrameNext DEF MailInv, Inv, SpoolInv
<1>6. HandedInv'
  BY Zenon, HandedHost, HandedGuest DEF MailInv, Inv, HandedInv
<1>7. WokenInv'
  BY Zenon, WokenNext DEF MailInv, Inv
<1> QED
  BY Zenon, <1>1, <1>2, <1>3, <1>4, <1>5, <1>6, <1>7 DEF MailInv

\* Delivery end to end, for any ids, any number of attempts and any faults: what
\* Mailbox records as acknowledged, the hook or a client was given, mail left in
\* a dormant VM's spool has its wake on the way, records keep their order, and
\* /recv never sleeps through mail.
THEOREM MailIsSound == MailSpec => []MailSound
<1>1. MailInv => MailSound
  <2> SUFFICES ASSUME MailInv PROVE MailSound
    BY Zenon
  <2>1. MailTypeOK
    BY Zenon DEF MailInv, SpoolInv, FrameInv, MailTypeOK, Records, UpFrames
  <2>2. DormantMailIsWoken
    BY Zenon DEF MailInv, WokenInv, Waking, DormantMailIsWoken
  <2> QED
    BY Zenon, <2>1, <2>2 DEF MailInv, SpoolInv, HandedInv, HandedHostInv, FrameInv, MailSound
<1> QED
  BY <1>1, InitMailInv, NextMailInv, PTL DEF MailSpec
============================================================================
