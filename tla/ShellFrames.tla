----------------------------- MODULE ShellFrames -----------------------------
(* A shell over Iroh: `mj connect <ticket>` (mjolnir_client), the frames of    *)
(* mjolnir_protocol, and the guest agent's handle_shell_connection.  Both ends *)
(* run one select! loop in which read_frame is one of the arms; when another   *)
(* arm finishes first the read is dropped, and with it what it had taken from  *)
(* the stream.                                                                 *)
EXTENDS Naturals, Sequences, FiniteSets, SequencesExt

CONSTANT ShellMenus     \* per behaviour: session asked for, keystrokes, output, ...

VARIABLES
    dial,       \* [v1, v2, won]: the race of connect_shell
    cli,        \* [pc, code]
    agt,        \* [pc, pty]
    sent,       \* direction -> frames written
    stream,     \* direction -> units written and not yet read
    ready,      \* direction -> how many of them have arrived
    taken,      \* direction -> units taken by the read_frame under way
    got,        \* direction -> frames read_frame returned
    cut,        \* direction -> a read was dropped with units in hand
    held,       \* KeyNormalizer.holding
    shellMenu

shellVars == <<dial, cli, agt, sent, stream, ready, taken, got, cut, held, shellMenu>>
wireVars  == <<sent, stream, ready, taken, got, cut>>

Dirs     == {"up", "down"}
Garbage  == [type |-> "garbage", arg |-> "none"]
Frame(type, arg) == [type |-> type, arg |-> arg]

Spending(what) == shellMenu[what] > 0 /\ shellMenu' = [shellMenu EXCEPT ![what] = @ - 1]

\* A frame is its header and `size` units of payload.  The read may be dropped
\* between any two of them.
Units(k, size) == [i \in 1..(size + 1) |-> [frame |-> k, first |-> i = 1, last |-> i = size + 1]]

write_frames(d, frames) ==
    /\ sent' = [sent EXCEPT ![d] = @ \o [i \in 1..Len(frames) |-> frames[i][1]]]
    /\ stream' = [stream EXCEPT ![d] =
          @ \o FlattenSeq([i \in 1..Len(frames) |-> Units(Len(sent[d]) + i, frames[i][2])])]

Sized(type, arg, size) == <<Frame(type, arg), size>>

\* The arm of read_frame lost the select!.
ReadDropped(d) ==
    /\ taken' = [taken EXCEPT ![d] = <<>>]
    /\ cut' = [cut EXCEPT ![d] = @ \/ taken[d] # <<>>]
    /\ UNCHANGED <<ready, got>>

(* ---- the client connects ---- *)

\* Without a session there is one handshake; with one, two race.
Handshake(v, result) ==
    /\ cli.pc = "dial" /\ dial[v] = "pending" /\ dial.won = "none"
    /\ result = "failed" => Spending("refusals")
    /\ result = "up" => UNCHANGED shellMenu
    /\ dial' = [dial EXCEPT ![v] = result]
    /\ UNCHANGED <<cli, agt, wireVars, held>>

\* v2 wins whenever it is up; v1 once v2 has failed, or kept it waiting.
connect_shell ==
    /\ cli.pc = "dial" /\ dial.won = "none"
    /\ \E v \in {"v1", "v2", "failed"} :
          /\ CASE v = "v2" -> dial.v2 = "up"
               [] v = "v1" -> dial.v1 = "up" /\ dial.v2 # "up"
               [] OTHER    -> dial.v1 = "failed" /\ dial.v2 \in {"failed", "unused"}
          /\ dial' = [dial EXCEPT !.won = v]
          /\ cli' = IF v = "failed" THEN [pc |-> "exit", code |-> 1] ELSE [cli EXCEPT !.pc = "open"]
    /\ UNCHANGED <<agt, wireVars, held, shellMenu>>

\* Mutant: Hello always carries the session.
ConnectNamed ==
    /\ cli.pc = "open"
    /\ write_frames("up", <<Sized("hello", shellMenu.session, 1)>>)
    /\ cli' = [cli EXCEPT !.pc = "loop"]
    /\ UNCHANGED <<dial, agt, ready, taken, got, cut, held, shellMenu>>

\* The session rides on Hello over v2, and is typed into the shell over v1.
connect_to_vm ==
    /\ cli.pc = "open"
    /\ write_frames("up",
          IF dial.won = "v2" \/ shellMenu.session = "none"
          THEN <<Sized("hello", IF dial.won = "v2" THEN shellMenu.session ELSE "none", 1)>>
          ELSE <<Sized("hello", "none", 1), Sized("data", "attach", 1)>>)
    /\ cli' = [cli EXCEPT !.pc = "loop"]
    /\ UNCHANGED <<dial, agt, ready, taken, got, cut, held, shellMenu>>

(* ---- the stream ---- *)

Arrives(d) ==
    /\ ready[d] < Len(stream[d])
    /\ ready' = [ready EXCEPT ![d] = @ + 1]
    /\ UNCHANGED <<dial, cli, agt, sent, stream, taken, got, cut, held, shellMenu>>

Reading(d) == IF d = "up" THEN agt.pc \in {"hello", "loop"} ELSE cli.pc = "loop"

\* read_exact takes what has arrived.
ReadUnit(d) ==
    /\ Reading(d) /\ ready[d] > 0
    /\ LET u == Head(stream[d])
       IN  /\ taken[d] # <<>> \/ u.first
           /\ ~u.last
           /\ taken' = [taken EXCEPT ![d] = Append(@, u)]
    /\ stream' = [stream EXCEPT ![d] = Tail(@)]
    /\ ready' = [ready EXCEPT ![d] = @ - 1]
    /\ UNCHANGED <<dial, cli, agt, sent, got, cut, held, shellMenu>>

\* read_frame returns f: the frame whose last unit this is, or whatever the
\* payload it took for a header spells.
Returns(d, f) ==
    /\ Reading(d) /\ ready[d] > 0
    /\ LET u == Head(stream[d])
       IN  IF taken[d] # <<>> \/ u.first
           THEN u.last /\ f = sent[d][u.frame]
           ELSE f = Garbage
    /\ taken' = [taken EXCEPT ![d] = <<>>]
    /\ got' = [got EXCEPT ![d] = Append(@, f)]
    /\ stream' = [stream EXCEPT ![d] = Tail(@)]
    /\ ready' = [ready EXCEPT ![d] = @ - 1]
    /\ UNCHANGED <<sent, cut>>

(* ---- the guest agent ---- *)

\* Hello is awaited alone.  A name tmux would not take ends the connection.
AgentHello ==
    /\ agt.pc = "hello"
    /\ \E f \in {Frame("hello", s) : s \in {"none", "work", "bad"}} :
          /\ Returns("up", f)
          /\ agt' = IF f.arg = "bad" THEN [agt EXCEPT !.pc = "gone"] ELSE [pc |-> "loop", pty |-> f.arg]
    /\ UNCHANGED <<dial, cli, held, shellMenu>>

AgentFrame ==
    /\ agt.pc = "loop"
    /\ \E f \in {Garbage} \cup ToSet(sent["up"]) :
          /\ Returns("up", f)
          /\ \/ f.type \in {"exit", "garbage"} /\ agt' = [agt EXCEPT !.pc = "gone"]
             \/ f.type # "exit" /\ UNCHANGED agt
    /\ UNCHANGED <<dial, cli, held, shellMenu>>

ShellOutput ==
    /\ agt.pc = "loop" /\ Spending("output")
    /\ write_frames("down", <<Sized("data", "output", 1)>>)
    /\ ReadDropped("up")
    /\ UNCHANGED <<dial, cli, agt, held>>

\* The shell exits.  A read that returns 0 is answered with Exit; the error Linux
\* reports instead (EIO) is not.
PtyEnds ==
    /\ agt.pc = "loop" /\ Spending("exits")
    /\ \/ write_frames("down", <<Sized("exit", "seven", 1)>>)
       \/ UNCHANGED <<sent, stream>>
    /\ ReadDropped("up")
    /\ agt' = [agt EXCEPT !.pc = "gone"]
    /\ UNCHANGED <<dial, cli, held>>

(* ---- the client's loop ---- *)

Leaves(code) == cli' = [pc |-> "exit", code |-> code]

ClientFrame ==
    /\ cli.pc = "loop"
    /\ \E f \in {Garbage} \cup ToSet(sent["down"]) :
          /\ Returns("down", f)
          /\ CASE f.type = "exit"    -> Leaves(7)
               [] f.type = "garbage" -> UNCHANGED cli \/ Leaves(1)
               [] OTHER              -> UNCHANGED cli
    /\ UNCHANGED <<dial, agt, held, shellMenu>>

\* Keys: sent at once, or held for the rest of an escape sequence.
ClientTypes ==
    /\ cli.pc = "loop" /\ Spending("keys")
    /\ \/ write_frames("up", <<Sized("data", "keys", 1)>>) /\ held' \in BOOLEAN
       \/ UNCHANGED <<sent, stream>> /\ held' = TRUE
    /\ ReadDropped("down")
    /\ UNCHANGED <<dial, cli, agt>>

HoldExpires ==
    /\ cli.pc = "loop" /\ held
    /\ held' = FALSE
    /\ write_frames("up", <<Sized("data", "keys", 1)>>)
    /\ ReadDropped("down")
    /\ UNCHANGED <<dial, cli, agt, shellMenu>>

WindowChange ==
    /\ cli.pc = "loop" /\ Spending("resizes")
    /\ write_frames("up", <<Sized("resize", "none", 1)>>)
    /\ ReadDropped("down")
    /\ UNCHANGED <<dial, cli, agt, held>>

StdinEof ==
    /\ cli.pc = "loop" /\ Spending("eof")
    /\ write_frames("up", <<Sized("exit", "zero", 1)>>)
    /\ ReadDropped("down")
    /\ Leaves(0)
    /\ UNCHANGED <<dial, agt, held>>

\* The other end is gone: the end of the stream is code 0, a lost connection 1,
\* and what had not arrived may be lost with it.
ClientSeesEnd ==
    /\ cli.pc = "loop" /\ agt.pc = "gone"
    /\ \/ stream["down"] = <<>> /\ taken["down"] = <<>> /\ Leaves(0)
       \/ Leaves(1)
    /\ UNCHANGED <<dial, agt, wireVars, held, shellMenu>>

AgentSeesEnd ==
    /\ agt.pc \in {"hello", "loop"} /\ cli.pc = "exit" /\ dial.won \in {"v1", "v2"}
    /\ agt' = [agt EXCEPT !.pc = "gone"]
    /\ UNCHANGED <<dial, cli, wireVars, held, shellMenu>>

ShellInit ==
    /\ shellMenu \in ShellMenus
    /\ dial = [v1 |-> "pending", v2 |-> IF shellMenu.session = "none" THEN "unused" ELSE "pending", won |-> "none"]
    /\ cli = [pc |-> "dial", code |-> 0]
    /\ agt = [pc |-> "hello", pty |-> "none"]
    /\ sent = [d \in Dirs |-> <<>>] /\ stream = [d \in Dirs |-> <<>>] /\ ready = [d \in Dirs |-> 0]
    /\ taken = [d \in Dirs |-> <<>>] /\ got = [d \in Dirs |-> <<>>] /\ cut = [d \in Dirs |-> FALSE]
    /\ held = FALSE

ShellNext ==
    \/ \E v \in {"v1", "v2"}, result \in {"up", "failed"} : Handshake(v, result)
    \/ connect_shell \/ connect_to_vm
    \/ \E d \in Dirs : Arrives(d) \/ ReadUnit(d)
    \/ AgentHello \/ AgentFrame \/ ShellOutput \/ PtyEnds \/ AgentSeesEnd
    \/ ClientFrame \/ ClientTypes \/ HoldExpires \/ WindowChange \/ StdinEof \/ ClientSeesEnd

-----------------------------------------------------------------------------
(* Properties.                                                               *)

\* "Read a single frame from an async reader": what read_frame returns, one call
\* after the other, is what the other end wrote, in that order, as long as no arm
\* of the select! has dropped a read that had taken part of a frame.
FramesInStep == \A d \in Dirs : ~cut[d] => IsPrefix(got[d], sent[d])

\* The client's exit status: that of the shell's Exit frame if and only if that
\* frame was read; and over v1 no session name is sent that the agent would
\* refuse the connection for.
ExitIsReported ==
    /\ cli.pc = "exit" /\ cli.code = 7 => Frame("exit", "seven") \in ToSet(got["down"])
    /\ dial.won = "v1" => Frame("hello", "work") \notin ToSet(sent["up"])

\* The shell session as both ends see it (read_frame, connect_to_vm,
\* run_shell_loop, handle_shell_connection).
ShellSound == FramesInStep /\ ExitIsReported
=============================================================================
