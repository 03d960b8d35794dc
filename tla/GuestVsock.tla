----------------------------- MODULE GuestVsock -----------------------------
(* The guest agent's end of a vsock connection (vsock.rs): one task per      *)
(* connection that alternates between reading frames and draining a bounded  *)
(* queue, PTY readers that fill the queue, and SDK requests that go out on   *)
(* whichever connection the shared holder names.                             *)
EXTENDS Naturals, Sequences, FiniteSets, SequencesExt

CONSTANTS
    Socks,          \* connections the host makes
    NoSock,
    Ptys,           \* terminals, named by the request that opens them
    Callers,        \* SDK requests
    QueueMax,       \* frames the write queue holds (64)
    ChannelMax,     \* the largest channel number (255)
    VsockMenus      \* per behaviour: kind of agent, what is sent, what goes wrong

ASSUME VsockBounds == QueueMax \in Nat \ {0} /\ ChannelMax \in Nat \ {0}

VARIABLES
    sock,           \* connection -> its task
    bridge,         \* BridgeHolder
    pty,            \* terminal -> its reader task
    caller,         \* SDK request -> its progress
    host,           \* connection -> what the host has sent and seen
    misrouted,      \* terminals that were given another's input
    reused,         \* a channel number came round while still in use
    vsockMenu

vsockVars == <<sock, bridge, pty, caller, host, misrouted, reused, vsockMenu>>

\* A frame: its kind, the request or terminal it is about, the channel it names.
Msg(kind, id, ch) == [k |-> kind, id |-> id, ch |-> ch]
NoFrame == Msg("none", "none", 0)

NewSock == [st |-> "new", acc |-> <<>>, queue |-> <<>>, cur |-> NoFrame,
            writers |-> {}, next |-> 1, pending |-> {}, polls |-> {}]
NewHost == [up |-> FALSE, wire |-> <<>>, asked |-> {}, answered |-> {}, terms |-> {}, calls |-> {}]

BootAgent    == vsockMenu.agent = "boot"
Connected(s) == sock[s].st = "open"
Room(s) == Len(sock[s].queue) < QueueMax
Ended(s) == sock[s].st = "ended"

\* The task is back in select!, where it can read, write or see the end.
Selecting(s) == Connected(s) /\ sock[s].acc = <<>> /\ sock[s].cur = NoFrame

(* ---- the host's side of the wire ---- *)

Connects(s) ==
    /\ sock[s].st = "new"
    /\ \A r \in Socks : host[r].up => vsockMenu.overlap
    /\ vsockMenu.connects > 0
    /\ sock' = [sock EXCEPT ![s].st = "open",
                            ![s].queue = IF BootAgent THEN <<Msg("status", "none", 0)>> ELSE <<>>]
    /\ bridge' = IF BootAgent THEN bridge ELSE s
    /\ host' = [host EXCEPT ![s].up = TRUE]
    /\ vsockMenu' = [vsockMenu EXCEPT !.connects = @ - 1]
    /\ UNCHANGED <<pty, caller, misrouted, reused>>

Anything(k) == Msg(k, "none", 0)

\* A request with an id, one for a command's output, one that is not understood,
\* a frame that is too large, a request to open a terminal, to close its channel,
\* input for it, the answer to an SDK request.
HostSends(s, m) ==
    /\ host[s].up
    /\ m.k \in {"close", "input"} => [ch |-> m.ch, ses |-> m.id] \in host[s].terms
    /\ m.k = "answer" => m.id \in host[s].calls
    /\ host' = [host EXCEPT ![s].wire = Append(@, m),
                            ![s].asked = IF m.k \in {"ask", "poll", "bad", "open"} THEN @ \cup {m.id} ELSE @,
                            ![s].calls = IF m.k = "answer" THEN @ \ {m.id} ELSE @]
    /\ vsockMenu' = [vsockMenu EXCEPT !.sends = @ \ {IF m.k \in {"close", "input"} THEN Anything(m.k) ELSE m}]
    /\ UNCHANGED <<sock, bridge, pty, caller, misrouted, reused>>

HostCloses(s) ==
    /\ host[s].up /\ vsockMenu.closes > 0
    /\ host' = [host EXCEPT ![s].up = FALSE]
    /\ vsockMenu' = [vsockMenu EXCEPT !.closes = @ - 1]
    /\ UNCHANGED <<sock, bridge, pty, caller, misrouted, reused>>

\* What the host makes of a frame.
Seen(h, f) ==
    CASE f.k = "resp"   -> [h EXCEPT !.answered = @ \cup {f.id}]
      [] f.k = "opened" -> [h EXCEPT !.answered = @ \cup {f.id}, !.terms = @ \cup {[ch |-> f.ch, ses |-> f.id]}]
      [] f.k = "closed" -> [h EXCEPT !.terms = {t \in @ : t.ch # f.ch}]
      [] f.k = "call"   -> [h EXCEPT !.calls = @ \cup {f.id}]
      [] OTHER          -> h

(* ---- handle_vsock_connection ---- *)

\* One read takes whatever has arrived; all its frames are handled before the
\* queue is looked at again.
ReadBytes(s) ==
    /\ Selecting(s) /\ host[s].wire # <<>>
    /\ \E n \in 1..Len(host[s].wire) :
         /\ sock' = [sock EXCEPT ![s].acc = SubSeq(host[s].wire, 1, n)]
         /\ host' = [host EXCEPT ![s].wire = SubSeq(@, n + 1, Len(@))]
    /\ UNCHANGED <<bridge, pty, caller, misrouted, reused, vsockMenu>>

\* The first free number from next on, going round.
allocate_channel(next, used) ==
    CHOOSE c \in (1..ChannelMax) \ used :
        \A d \in (1..ChannelMax) \ used :
            (c + ChannelMax - next) % ChannelMax <= (d + ChannelMax - next) % ChannelMax

Allocated(c) == IF c = ChannelMax THEN 1 ELSE c + 1

Channels(ws) == {w.ch : w \in ws}
WriterOn(s, ch) == {w \in sock[s].writers : w.ch = ch}

\* A dropped writer sends SIGTERM; whether the program heeds it is its own affair.
Answering(s, reply) ==
    sock' = [sock EXCEPT ![s].acc = Tail(@), ![s].cur = reply]

\* Every arm that only runs something answers once, with the request's id,
\* whatever became of it.  A command whose output is wanted is acknowledged, and
\* answered by the task that polls for it.  What is not understood is answered.
handle_request(m) == Msg(IF m.k = "poll" THEN "ack" ELSE "resp", m.id, 0)

\* The boot agent refuses what it does not support, and skips what it cannot parse.
BootReply(m) == IF m.k = "bad" THEN NoFrame ELSE Msg("resp", m.id, 0)

HandleFrame(s) ==
    /\ Connected(s) /\ sock[s].acc # <<>> /\ sock[s].cur = NoFrame
    /\ LET m == Head(sock[s].acc)
       IN \/ /\ m.k \in {"ask", "bad"}
             /\ Answering(s, IF BootAgent THEN BootReply(m) ELSE handle_request(m))
             /\ UNCHANGED <<pty, caller, misrouted, reused>>
          \/ /\ m.k = "poll"
             /\ IF BootAgent THEN Answering(s, BootReply(m))
                ELSE sock' = [sock EXCEPT ![s].acc = Tail(@), ![s].cur = handle_request(m),
                                          ![s].polls = @ \cup {m.id}]
             /\ UNCHANGED <<pty, caller, misrouted, reused>>
          \/ /\ m.k = "answer"
             /\ IF m.id \in sock[s].pending
                THEN /\ sock' = [sock EXCEPT ![s].acc = Tail(@), ![s].pending = @ \ {m.id}]
                     /\ caller' = [caller EXCEPT ![m.id].st = "answered"]
                ELSE Answering(s, Msg("resp", m.id, 0)) /\ UNCHANGED caller
             /\ UNCHANGED <<pty, misrouted, reused>>
          \/ /\ m.k = "close"
             /\ sock' = [sock EXCEPT ![s].acc = Tail(@), ![s].cur = Msg("closed", "none", m.ch),
                                     ![s].writers = @ \ WriterOn(s, m.ch)]
             /\ UNCHANGED <<pty, caller, misrouted, reused>>
          \/ /\ m.k = "input"
             /\ Answering(s, NoFrame)
             /\ misrouted' = misrouted \cup {w.ses : w \in {v \in WriterOn(s, m.ch) : v.ses # m.id}}
             /\ UNCHANGED <<pty, caller, reused>>
    /\ UNCHANGED <<bridge, host, vsockMenu>>

\* A length above the limit ends the connection at once; what was queued is lost.
TooLarge(s) ==
    /\ Connected(s) /\ sock[s].acc # <<>> /\ sock[s].cur = NoFrame
    /\ Head(sock[s].acc).k = "huge"
    /\ sock' = [sock EXCEPT ![s].st = "ended", ![s].acc = <<>>, ![s].queue = <<>>]
    /\ bridge' = IF BootAgent THEN bridge ELSE NoSock
    /\ UNCHANGED <<pty, caller, host, misrouted, reused, vsockMenu>>

\* The task that waited for the command's output, whatever the connection did.
PollEnds(s, id) ==
    /\ id \in sock[s].polls
    /\ \/ /\ Connected(s) /\ Room(s)
          /\ sock' = [sock EXCEPT ![s].polls = @ \ {id}, ![s].queue = Append(@, Msg("resp", id, 0))]
       \/ Ended(s) /\ sock' = [sock EXCEPT ![s].polls = @ \ {id}]
    /\ UNCHANGED <<bridge, pty, caller, host, misrouted, reused, vsockMenu>>

PtyOpen(s, spawned) ==
    /\ Connected(s) /\ sock[s].acc # <<>> /\ sock[s].cur = NoFrame
    /\ Head(sock[s].acc).k = "open"
    /\ LET p    == Head(sock[s].acc).id
           used == Channels(sock[s].writers)
           free == (1..ChannelMax) \ used # {}
           ch   == allocate_channel(sock[s].next, used)
       IN  IF free /\ spawned
           THEN /\ sock' = [sock EXCEPT ![s].acc = Tail(@), ![s].cur = Msg("opened", p, ch),
                                        ![s].next = Allocated(ch),
                                        ![s].writers = @ \cup {[ch |-> ch, ses |-> p]}]
                /\ pty' = [pty EXCEPT ![p] = [st |-> "reading", sock |-> s, ch |-> ch]]
                /\ reused' = (reused \/ \E q \in Ptys : pty[q].st # "none" /\ pty[q].sock = s /\ pty[q].ch = ch)
           ELSE /\ sock' = [sock EXCEPT ![s].acc = Tail(@), ![s].cur = Msg("resp", p, 0),
                                        ![s].next = IF free THEN Allocated(ch) ELSE @]
                /\ UNCHANGED <<pty, reused>>
    /\ vsockMenu' = IF spawned THEN vsockMenu ELSE [vsockMenu EXCEPT !.spawnFails = @ - 1]
    /\ spawned \/ vsockMenu.spawnFails > 0
    /\ UNCHANGED <<bridge, caller, host, misrouted>>

\* Mutant: try_send, and a reply that finds the queue full is dropped.
EnqueueOrDrop(s) ==
    /\ Connected(s) /\ sock[s].cur # NoFrame
    /\ sock' = [sock EXCEPT ![s].queue = IF Room(s) THEN Append(@, sock[s].cur) ELSE @, ![s].cur = NoFrame]
    /\ UNCHANGED <<bridge, pty, caller, host, misrouted, reused, vsockMenu>>

\* write_tx.send in the read arm: the queue is drained by this same task.
Enqueue(s) ==
    /\ Connected(s) /\ sock[s].cur # NoFrame /\ Room(s)
    /\ sock' = [sock EXCEPT ![s].queue = Append(@, sock[s].cur), ![s].cur = NoFrame]
    /\ UNCHANGED <<bridge, pty, caller, host, misrouted, reused, vsockMenu>>

\* One frame, then all that are queued behind it.
WriteQueued(s) ==
    /\ Selecting(s) /\ sock[s].queue # <<>> /\ host[s].up
    /\ sock' = [sock EXCEPT ![s].queue = <<>>]
    /\ host' = [host EXCEPT ![s] = FoldLeft(Seen, @, sock[s].queue)]
    /\ UNCHANGED <<bridge, pty, caller, misrouted, reused, vsockMenu>>

\* The end of the stream, or a failed write: the queue goes, and the holder is
\* cleared, whichever connection it names.
Disconnects(s) ==
    /\ Selecting(s) /\ ~host[s].up
    /\ host[s].wire = <<>> \/ sock[s].queue # <<>>
    /\ sock' = [sock EXCEPT ![s].st = "ended", ![s].queue = <<>>]
    /\ bridge' = IF BootAgent THEN bridge ELSE NoSock
    /\ UNCHANGED <<pty, caller, host, misrouted, reused, vsockMenu>>

(* ---- a terminal's reader task ---- *)

PtyOutput(p) ==
    /\ pty[p].st = "reading" /\ vsockMenu.output > 0
    /\ Connected(pty[p].sock) /\ Room(pty[p].sock)
    /\ sock' = [sock EXCEPT ![pty[p].sock].queue = Append(@, Msg("out", p, pty[p].ch))]
    /\ vsockMenu' = [vsockMenu EXCEPT !.output = @ - 1]
    /\ UNCHANGED <<bridge, pty, caller, host, misrouted, reused>>

\* The program exits, or its output has nowhere to go.
PtyEof(p) ==
    /\ pty[p].st = "reading"
    /\ \/ vsockMenu.exits > 0 /\ vsockMenu' = [vsockMenu EXCEPT !.exits = @ - 1]
       \/ Ended(pty[p].sock) /\ vsockMenu.output > 0 /\ vsockMenu' = [vsockMenu EXCEPT !.output = @ - 1]
    /\ pty' = [pty EXCEPT ![p].st = "removing"]
    /\ UNCHANGED <<sock, bridge, caller, host, misrouted, reused>>

\* Whatever writer the channel has is removed.
PtyRemove(p) ==
    /\ pty[p].st = "removing"
    /\ sock' = [sock EXCEPT ![pty[p].sock].writers = @ \ WriterOn(pty[p].sock, pty[p].ch)]
    /\ pty' = [pty EXCEPT ![p].st = "telling"]
    /\ UNCHANGED <<bridge, caller, host, misrouted, reused, vsockMenu>>

PtyTell(p) ==
    /\ pty[p].st = "telling"
    /\ LET s == pty[p].sock
       IN \/ Connected(s) /\ Room(s) /\ sock' = [sock EXCEPT ![s].queue = Append(@, Msg("closed", "none", pty[p].ch))]
          \/ Ended(s) /\ UNCHANGED sock
    /\ pty' = [pty EXCEPT ![p].st = "gone"]
    /\ UNCHANGED <<bridge, caller, host, misrouted, reused, vsockMenu>>

(* ---- AgentBridge.send_request ---- *)

send_bridge_request(c) ==
    /\ caller[c].st = "idle"
    /\ IF bridge = NoSock
       THEN caller' = [caller EXCEPT ![c].st = "refused"] /\ UNCHANGED sock
       ELSE /\ caller' = [caller EXCEPT ![c] = [st |-> "sending", sock |-> bridge]]
            /\ sock' = [sock EXCEPT ![bridge].pending = @ \cup {c}]
    /\ UNCHANGED <<bridge, pty, host, misrouted, reused, vsockMenu>>

SendCall(c) ==
    /\ caller[c].st = "sending"
    /\ LET s == caller[c].sock
       IN \/ /\ Connected(s) /\ Room(s)
             /\ sock' = [sock EXCEPT ![s].queue = Append(@, Msg("call", c, 0))]
             /\ caller' = [caller EXCEPT ![c].st = "waiting"]
          \/ /\ Ended(s)
             /\ sock' = [sock EXCEPT ![s].pending = @ \ {c}]
             /\ caller' = [caller EXCEPT ![c].st = "failed"]
    /\ UNCHANGED <<bridge, pty, host, misrouted, reused, vsockMenu>>

\* Mutant: the pending entry is left behind.
CallForgotten(c) ==
    /\ caller[c].st = "waiting"
    /\ caller' = [caller EXCEPT ![c].st = "timedOut"]
    /\ UNCHANGED <<sock, bridge, pty, host, misrouted, reused, vsockMenu>>

\* The caller holds the bridge, so its end of the channel is never dropped.
CallTimesOut(c) ==
    /\ caller[c].st = "waiting"
    /\ sock' = [sock EXCEPT ![caller[c].sock].pending = @ \ {c}]
    /\ caller' = [caller EXCEPT ![c].st = "timedOut"]
    /\ UNCHANGED <<bridge, pty, host, misrouted, reused, vsockMenu>>

VsockInit ==
    /\ vsockMenu \in VsockMenus
    /\ sock = [s \in Socks |-> NewSock]
    /\ host = [s \in Socks |-> NewHost]
    /\ bridge = NoSock
    /\ pty = [p \in Ptys |-> [st |-> "none", sock |-> NoSock, ch |-> 0]]
    /\ caller = [c \in Callers |-> [st |-> IF c \in vsockMenu.callers THEN "idle" ELSE "absent", sock |-> NoSock]]
    /\ misrouted = {} /\ reused = FALSE

HostStep(s) ==
    \/ Connects(s) \/ HostCloses(s)
    \/ \E m \in vsockMenu.sends : m.id # "none" /\ HostSends(s, m)
    \/ \E m \in vsockMenu.sends, t \in host[s].terms : m.id = "none" /\ HostSends(s, Msg(m.k, t.ses, t.ch))

SockStep(s) ==
    \/ ReadBytes(s) \/ HandleFrame(s) \/ \E spawned \in BOOLEAN : PtyOpen(s, spawned)
    \/ TooLarge(s) \/ \E id \in sock[s].polls : PollEnds(s, id)
    \/ Enqueue(s) \/ WriteQueued(s) \/ Disconnects(s)

VsockNext ==
    \/ \E s \in Socks : HostStep(s) \/ SockStep(s)
    \/ \E p \in Ptys : PtyOutput(p) \/ PtyEof(p) \/ PtyRemove(p) \/ PtyTell(p)
    \/ \E c \in Callers : send_bridge_request(c) \/ SendCall(c) \/ CallTimesOut(c)

-----------------------------------------------------------------------------
(* Properties.                                                               *)

VsockTypeOK ==
    /\ \A s \in Socks : /\ sock[s].st \in {"new", "open", "ended"}
                        /\ Len(sock[s].queue) <= QueueMax
                        /\ sock[s].next \in 1..ChannelMax
                        /\ Channels(sock[s].writers) \subseteq 1..ChannelMax
                        /\ sock[s].pending \subseteq Callers
    /\ bridge \in Socks \cup {NoSock}

\* "Shared holder - set when host connection is established, cleared on
\* disconnect": an SDK request is never sent on a connection that has ended,
\* and every pending entry of a bridge has a request that will remove it.
BridgeIsConsistent ==
    /\ bridge # NoSock => Connected(bridge)
    /\ \A s \in Socks : \A c \in sock[s].pending : caller[c].st \in {"sending", "waiting"} /\ caller[c].sock = s

\* "ANSWER IT. Staying silent leaves the host blocked until its own timeout": a
\* request the host made on a connection that is up is answered or on its way,
\* unless it is one the boot agent could not parse.
NoRequestForgotten ==
    \A s \in Socks : Connected(s) /\ host[s].up =>
        \A x \in host[s].asked \ host[s].answered :
            \/ \E i \in DOMAIN host[s].wire : host[s].wire[i].id = x
            \/ \E i \in DOMAIN sock[s].acc : sock[s].acc[i].id = x
            \/ \E f \in {sock[s].cur} \cup {sock[s].queue[i] : i \in DOMAIN sock[s].queue} :
                   f.k \in {"resp", "opened"} /\ f.id = x
            \/ x \in sock[s].polls
            \/ BootAgent /\ x \in vsockMenu.unparsed

\* Input goes to the terminal the host opened, and a terminal the host may write
\* to has its writer while its program runs, until the channel numbers of one
\* connection have gone round.
ChannelsKeepTheirTerminal ==
    ~reused =>
        /\ misrouted = {}
        /\ \A s \in Socks : Connected(s) =>
             \A t \in host[s].terms :
                 \/ t \in sock[s].writers
                 \/ pty[t.ses].st # "reading"
                 \/ Msg("closed", "none", t.ch) \in {sock[s].cur} \cup ToSet(sock[s].queue)

\* One connection's bookkeeping: its queue and channels in range, the holder and
\* the pending calls consistent, every channel with its own terminal
\* (handle_vsock_connection, PtyManager, AgentBridge).
ConnectionSound == VsockTypeOK /\ BridgeIsConsistent /\ ChannelsKeepTheirTerminal
=============================================================================
