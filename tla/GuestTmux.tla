------------------------------ MODULE GuestTmux ------------------------------
(* Commands run in a shared tmux session (tmux.rs): send_and_read types a     *)
(* command with a sentinel behind it and polls the pane for the sentinel's    *)
(* output, while others type into the same pane.                              *)
EXTENDS Naturals, Sequences, SequencesExt

CONSTANTS
    Senders,        \* calls of send_and_read on the session
    Typists,        \* calls of send_keys on it, and people at an attached terminal
    TmuxMenus       \* per behaviour: the command of each, and what goes wrong

VARIABLES
    alive,          \* the session exists
    typed,          \* what stands on the input line: whose text, in order
    ahead,          \* lines entered and not yet read by the shell
    running,        \* the line being run; <<>> at the prompt
    screen,         \* lines shaped like a resolved sentinel: [of, code]
    lock,           \* the session's lock
    sender,         \* send_and_read -> [pc, idle, sample, code]; sample is what its
                    \* command was really doing when it last asked
    typist,         \* send_keys -> its step
    ran,            \* send_and_read -> the code its command ended with; "no" before
    unsure,         \* calls whose line somebody else typed into
    tmuxMenu

tmuxVars == <<alive, typed, ahead, running, screen, lock, sender, typist, ran, unsure, tmuxMenu>>

Nobody  == "nobody"
Cmd(x)  == tmuxMenu.cmds[x]
InPhase(p, pc) == sender[p].pc = pc
To(p, pc) == sender' = [sender EXCEPT ![p].pc = pc]
Mine(p, line) == \E i \in DOMAIN line : line[i] = p
Mixed(line)   == Len(line) > 1

Paned == UNCHANGED <<running, screen, ran>>

(* ---- the pane: external, as tmux.rs uses it ---- *)

\* The shell takes the next line.
ShellReads ==
    /\ alive /\ running = <<>> /\ ahead # <<>>
    /\ running' = Head(ahead) /\ ahead' = Tail(ahead)
    /\ UNCHANGED <<alive, typed, screen, lock, sender, typist, ran, unsure, tmuxMenu>>

\* A command may print a line shaped exactly like its own resolved sentinel
\* before it is done.
Lookalike(p) ==
    /\ alive /\ Mine(p, running) /\ Cmd(p).fakes
    /\ screen' = Append(screen, [of |-> p, code |-> "fake"])
    /\ tmuxMenu' = [tmuxMenu EXCEPT !.cmds[p].fakes = FALSE]
    /\ UNCHANGED <<alive, typed, ahead, running, lock, sender, typist, ran, unsure>>

\* The command ends and the shell runs the echo behind it.
CommandEnds ==
    /\ alive /\ running # <<>>
    /\ \A p \in Senders : Mine(p, running) => ~Cmd(p).hangs
    /\ running' = <<>>
    /\ LET done == SelectSeq(running, LAMBDA x : x \in Senders)
       IN  /\ screen' = screen \o [i \in DOMAIN done |-> [of |-> done[i], code |-> Cmd(done[i]).code]]
           /\ ran' = [p \in Senders |-> IF Mine(p, done) THEN Cmd(p).code ELSE ran[p]]
    /\ UNCHANGED <<alive, typed, ahead, lock, sender, typist, unsure, tmuxMenu>>

\* pane_current_command: a builtin leaves the shell in the foreground.
PaneBusy == running # <<>> /\ ~\E i \in DOMAIN running : Cmd(running[i]).builtin

(* ---- send_and_read ---- *)

get_session_lock(p) ==
    /\ InPhase(p, "idle") /\ lock = Nobody
    /\ lock' = p /\ To(p, "text")
    /\ Paned /\ UNCHANGED <<alive, typed, ahead, typist, unsure, tmuxMenu>>

Give(p, code) == sender' = [sender EXCEPT ![p].pc = "done", ![p].code = code] /\ lock' = Nobody

\* Every tmux command fails once the session is gone.
TmuxFails(p) ==
    /\ sender[p].pc \in {"text", "enter", "capture", "settle"} /\ ~alive
    /\ Give(p, "error")
    /\ Paned /\ UNCHANGED <<alive, typed, ahead, typist, unsure, tmuxMenu>>

TypeCommand(p) ==
    /\ InPhase(p, "text") /\ alive
    /\ typed' = Append(typed, p) /\ To(p, "enter")
    /\ Paned /\ UNCHANGED <<alive, ahead, lock, typist, unsure, tmuxMenu>>

\* Enter sends whatever is on the line.
Entered ==
    /\ ahead' = IF typed = <<>> THEN ahead ELSE Append(ahead, typed)
    /\ typed' = <<>>
    /\ unsure' = unsure \cup (IF Mixed(typed) THEN ToSet(typed) ELSE {})

Enter(p) ==
    /\ InPhase(p, "enter") /\ alive
    /\ Entered /\ To(p, "display")
    /\ Paned /\ UNCHANGED <<alive, lock, typist, tmuxMenu>>

\* capture_pane: busy or not is asked first; if it cannot be asked, not busy.
Doing(p) == IF ran[p] # "no" THEN "ended" ELSE IF Mine(p, running) THEN "running" ELSE "unstarted"

Display(p) ==
    /\ InPhase(p, "display")
    /\ \/ /\ alive
          /\ sender' = [sender EXCEPT ![p].pc = "capture", ![p].idle = ~PaneBusy, ![p].sample = Doing(p)]
          /\ UNCHANGED tmuxMenu
       \/ /\ ~alive \/ tmuxMenu.faults > 0
          /\ sender' = [sender EXCEPT ![p].pc = "capture", ![p].idle = TRUE, ![p].sample = "unasked"]
          /\ tmuxMenu' = IF alive THEN [tmuxMenu EXCEPT !.faults = @ - 1] ELSE tmuxMenu
    /\ Paned /\ UNCHANGED <<alive, typed, ahead, lock, typist, unsure>>

\* The last line of the pane that is the sentinel; then its contents, idle or not.
Sentinels(p) == SelectSeq(screen, LAMBDA l : l.of = p)

\* Mutant: the sentinel is believed while a command runs.
CaptureBusy(p) ==
    /\ InPhase(p, "capture") /\ alive
    /\ IF Sentinels(p) # <<>>
       THEN sender' = [sender EXCEPT ![p].pc = "settle", ![p].code = Last(Sentinels(p)).code]
       ELSE To(p, "display")
    /\ Paned /\ UNCHANGED <<alive, typed, ahead, lock, typist, unsure, tmuxMenu>>

Capture(p) ==
    /\ InPhase(p, "capture") /\ alive
    /\ IF sender[p].idle /\ Sentinels(p) # <<>>
       THEN sender' = [sender EXCEPT ![p].pc = "settle", ![p].code = Last(Sentinels(p)).code]
       ELSE To(p, "display")
    /\ Paned /\ UNCHANGED <<alive, typed, ahead, lock, typist, unsure, tmuxMenu>>

Settled(p) ==
    /\ InPhase(p, "settle") /\ alive
    /\ Give(p, sender[p].code)
    /\ Paned /\ UNCHANGED <<alive, typed, ahead, typist, unsure, tmuxMenu>>

\* What was typed stays in the pane.
SendTimesOut(p) ==
    /\ InPhase(p, "display")
    /\ Give(p, "timeout")
    /\ Paned /\ UNCHANGED <<alive, typed, ahead, typist, unsure, tmuxMenu>>

(* ---- send_keys, kill_session: no lock ---- *)

send_keys(t) ==
    /\ alive
    /\ \/ /\ typist[t] = "text"
          /\ typed' = Append(typed, t)
          /\ typist' = [typist EXCEPT ![t] = "enter"] /\ UNCHANGED <<ahead, unsure>>
       \/ typist[t] = "enter" /\ Entered /\ typist' = [typist EXCEPT ![t] = "done"]
    /\ Paned /\ UNCHANGED <<alive, lock, sender, tmuxMenu>>

kill_session ==
    /\ alive /\ tmuxMenu.kills > 0
    /\ alive' = FALSE /\ typed' = <<>> /\ ahead' = <<>> /\ running' = <<>> /\ screen' = <<>>
    /\ tmuxMenu' = [tmuxMenu EXCEPT !.kills = @ - 1]
    /\ UNCHANGED <<lock, sender, typist, ran, unsure>>

\* A session is made again under the same name.
ensure_session ==
    /\ ~alive /\ alive' = TRUE
    /\ UNCHANGED <<typed, ahead, running, screen, lock, sender, typist, ran, unsure, tmuxMenu>>

TmuxInit ==
    /\ tmuxMenu \in TmuxMenus
    /\ alive = TRUE /\ typed = <<>> /\ ahead = <<>> /\ running = <<>> /\ screen = <<>>
    /\ lock = Nobody
    /\ sender = [p \in Senders |-> [pc |-> "idle", idle |-> FALSE, sample |-> "none", code |-> "none"]]
    /\ typist = [t \in Typists |-> IF t \in tmuxMenu.typists THEN "text" ELSE "done"]
    /\ ran = [p \in Senders |-> "no"] /\ unsure = {}

TmuxNext ==
    \/ ShellReads \/ CommandEnds \/ kill_session \/ ensure_session
    \/ \E p \in Senders :
          \/ Lookalike(p) \/ get_session_lock(p) \/ TmuxFails(p) \/ TypeCommand(p) \/ Enter(p)
          \/ Display(p) \/ Capture(p) \/ Settled(p) \/ SendTimesOut(p)
    \/ \E t \in Typists : send_keys(t)

-----------------------------------------------------------------------------
\* "a timeout is honest; a wrong exit code is not": the code send_and_read
\* returns is the one its own command ended with, unless the pane looked idle
\* while the command ran (a builtin) or had not been read by the shell, could not
\* be asked what it runs, or somebody typed into the line.
ExitCodeIsReal ==
    \A p \in Senders :
        /\ InPhase(p, "done") /\ sender[p].code \notin {"error", "timeout"}
        /\ p \notin unsure
        => \/ sender[p].code = ran[p]
           \/ sender[p].sample \in {"unstarted", "unasked"}
           \/ sender[p].sample = "running" /\ Cmd(p).builtin
=============================================================================
