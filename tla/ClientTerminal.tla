-------------------------- MODULE ClientTerminal --------------------------
(* The local terminal under `mj connect` and `mj shell`                       *)
(* (mjolnir_client/src/connect.rs): raw mode, the non-blocking stdin, the     *)
(* keyboard protocol pushed on the emulator, and the reconnect loop around    *)
(* them.  Whatever ends the session, the user's shell gets its terminal back. *)
EXTENDS Naturals

CONSTANTS
    ReconnectMax,  \* RECONNECT_MAX
    TermMenus      \* per behaviour: the command, the descriptors, the faults left

ASSUME ReconnectMaxPositive == ReconnectMax \in Nat \ {0}

ASSUME TermMenusTyped ==
    TermMenus \subseteq [command : {"connect", "shell"}, shared : BOOLEAN, hasTty : BOOLEAN,
                         noReconnect : BOOLEAN, drops : Nat, faults : Nat]

VARIABLES
    tty,           \* [raw, nonblock, replaced, frames]: the emulator and the descriptors
    pushed,        \* KEYBOARD_STACK_PUSHED
    run,           \* [pc, attempts, code]
    halfRaw,       \* a terminal call failed half way through set_raw_mode or in restore
    termMenu

termVars == <<tty, pushed, run, halfRaw, termMenu>>

\* frames counts the keyboard protocols on the emulator's stack: the one the
\* user's shell may have pushed is the first.
Untouched == [raw |-> FALSE, nonblock |-> FALSE, replaced |-> FALSE, frames |-> 1]

\* O_NONBLOCK lives on the open file description: stdout has it too when it
\* shares stdin's, unless /dev/tty was opened over it.
StdoutNonblocking == tty.nonblock /\ termMenu.shared /\ ~tty.replaced

RunTo(pc) == run' = [run EXCEPT !.pc = pc]
Exits(code) == run' = [run EXCEPT !.pc = "exited", !.code = code]

TermFault == /\ termMenu.faults > 0
             /\ termMenu' = [termMenu EXCEPT !.faults = @ - 1]

----------------------------------------------------------------------------
(* Starting.                                                                  *)

\* The first handshake fails fast, before the terminal is touched.
FirstConnect ==
    /\ run.pc = "first"
    /\ \/ /\ RunTo("attr")
          /\ UNCHANGED termMenu
       \/ /\ TermFault
          /\ Exits(1)
    /\ UNCHANGED <<tty, pushed, halfRaw>>

\* set_raw_mode, one system call after the other.  No guard exists until it
\* returns, so a `?` after tcsetattr leaves with the terminal raw.
set_raw_mode ==
    \/ /\ run.pc = "attr"
       /\ tty' = [tty EXCEPT !.raw = TRUE]
       /\ RunTo("flags")
       /\ UNCHANGED <<pushed, halfRaw, termMenu>>
    \/ /\ run.pc = "attr"
       /\ TermFault
       /\ Exits(1)
       /\ UNCHANGED <<tty, pushed, halfRaw>>
    \/ /\ run.pc \in {"flags", "nonblock"}
       /\ TermFault
       /\ Exits(1)
       /\ halfRaw' = TRUE
       /\ UNCHANGED <<tty, pushed>>

\* /dev/tty goes over stdout only when the two share a description; a pipe
\* has no controlling terminal to open.
open_controlling_tty ==
    /\ run.pc = "flags"
    /\ tty' = [tty EXCEPT !.replaced = termMenu.shared /\ termMenu.hasTty]
    /\ RunTo("nonblock")
    /\ UNCHANGED <<pushed, halfRaw, termMenu>>

set_reader_nonblocking ==
    /\ run.pc = "nonblock"
    /\ tty' = [tty EXCEPT !.nonblock = TRUE]
    /\ RunTo("arm")
    /\ UNCHANGED <<pushed, halfRaw, termMenu>>

\* The flag remembers that this process pushed; a failed write pushed nothing.
arm_local_keyboard ==
    /\ run.pc = "arm"
    /\ \/ /\ tty' = [tty EXCEPT !.frames = @ + 1]
          /\ pushed' = TRUE
          /\ UNCHANGED termMenu
       \/ /\ TermFault
          /\ UNCHANGED <<tty, pushed>>
    /\ RunTo("loop")
    /\ UNCHANGED halfRaw

----------------------------------------------------------------------------
(* The session and its reconnects.                                            *)

\* run_pty_loop: stdin at its end and a Close frame end the command, a lost
\* socket or a failed send asks for another.
run_pty_loop ==
    /\ run.pc = "loop"
    /\ termMenu.command = "connect"
    /\ \/ /\ run' = [run EXCEPT !.pc = "restore", !.code = 0]
          /\ UNCHANGED termMenu
       \/ /\ termMenu.drops > 0
          /\ termMenu' = [termMenu EXCEPT !.drops = @ - 1]
          /\ IF termMenu.noReconnect
             THEN run' = [run EXCEPT !.pc = "restore", !.code = 1]
             ELSE RunTo("retry")
    /\ UNCHANGED <<tty, pushed, halfRaw>>

\* connect_to_vm runs one shell loop and leaves with the shell's exit code.
run_shell_loop ==
    /\ run.pc = "loop"
    /\ termMenu.command = "shell"
    /\ \E code \in {0, 1} : run' = [run EXCEPT !.pc = "restore", !.code = code]
    /\ UNCHANGED <<tty, pushed, halfRaw, termMenu>>

reconnect_or_give_up ==
    /\ run.pc = "retry"
    /\ run' = IF run.attempts + 1 > ReconnectMax
              THEN [run EXCEPT !.pc = "restore", !.code = 1]
              ELSE [run EXCEPT !.pc = "wait", !.attempts = @ + 1]
    /\ UNCHANGED <<tty, pushed, halfRaw, termMenu>>

\* The backoff passes, or the tab closes, or Ctrl-C or Ctrl-D is typed.
wait_reconnect ==
    /\ run.pc = "wait"
    /\ \/ RunTo("reopen")
       \/ run' = [run EXCEPT !.pc = "restore", !.code = 0]
    /\ UNCHANGED <<tty, pushed, halfRaw, termMenu>>

Reopen ==
    /\ run.pc = "reopen"
    /\ \/ /\ run' = [run EXCEPT !.pc = "loop", !.attempts = 0]
          /\ UNCHANGED termMenu
       \/ /\ termMenu.drops > 0
          /\ termMenu' = [termMenu EXCEPT !.drops = @ - 1]
          /\ RunTo("retry")
    /\ UNCHANGED <<tty, pushed, halfRaw>>

----------------------------------------------------------------------------
(* Leaving.                                                                   *)

\* Mutant: every restore pops.
DisarmAlways == tty.frames - 1

\* swap(false): only the first of the two restores pops, and only what this
\* process pushed.
disarm_local_keyboard == IF pushed THEN tty.frames - 1 ELSE tty.frames

\* Run after the loop, and again by the scope guard when the function
\* returns; process::exit leaves without the guard.
restore_terminal ==
    /\ run.pc \in {"restore", "guard"}
    /\ tty' = [tty EXCEPT !.frames = disarm_local_keyboard, !.nonblock = FALSE, !.raw = FALSE]
    /\ pushed' = FALSE
    /\ IF run.pc = "guard" \/ run.code # 0 \/ termMenu.command = "shell"
       THEN RunTo("exited")
       ELSE RunTo("guard")
    /\ UNCHANGED <<halfRaw, termMenu>>

\* A task panicked inside the loop: unwinding runs the guard alone.
Panic ==
    /\ run.pc \in {"loop", "retry", "wait", "reopen"}
    /\ TermFault
    /\ run' = [run EXCEPT !.pc = "guard", !.code = 1]
    /\ UNCHANGED <<tty, pushed, halfRaw>>

TermInit ==
    /\ termMenu \in TermMenus
    /\ tty = Untouched
    /\ pushed = FALSE
    /\ run = [pc |-> "first", attempts |-> 0, code |-> 0]
    /\ halfRaw = FALSE

TermNext ==
    \/ FirstConnect \/ set_raw_mode \/ open_controlling_tty \/ set_reader_nonblocking
    \/ arm_local_keyboard \/ run_pty_loop \/ run_shell_loop \/ reconnect_or_give_up
    \/ wait_reconnect \/ Reopen \/ restore_terminal \/ Panic

TermSpec == TermInit /\ [][TermNext]_termVars

----------------------------------------------------------------------------

\* The command never returns to the user's shell with the terminal raw,
\* stdin non-blocking or the keyboard stack changed, whatever ended it,
\* unless set_raw_mode itself failed between two of its calls; and with a
\* terminal to open, painting the screen never meets a non-blocking stdout
\* (set_raw_mode, restore_terminal, arm_local_keyboard, the scope guard).
TerminalRestored ==
    /\ run.pc = "exited" /\ ~halfRaw
          => tty = [Untouched EXCEPT !.replaced = tty.replaced]
    /\ run.pc = "loop" /\ termMenu.hasTty => ~StdoutNonblocking
    /\ tty.frames >= 1
============================================================================
