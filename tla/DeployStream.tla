---------------------------- MODULE DeployStream ---------------------------
(* `mj deploy` (mjolnir_client/src/deploy.rs): the directory is packed, sent  *)
(* over HTTP or through curl to the operator socket, and the answer is read   *)
(* as lines, one frame each.  HTTP delivers the text in chunks cut anywhere,  *)
(* also inside a frame or inside a character of two bytes.                    *)
EXTENDS Naturals, Sequences, FiniteSetsExt, SequencesExt

CONSTANT DeployMenus    \* per behaviour: the tree, the flags, the answer, the faults left

VARIABLES
    step,       \* where the command is: "start", ..., "ok", "failed"
    headers,    \* X-App-Name and X-Memory-MB
    archive,    \* the packed files
    coming,     \* what the server has yet to deliver
    buf,        \* what was delivered since the last newline
    final,      \* the frame that decides: "none", "ok" or "failed"
    spool,      \* the tarball for curl is in the temporary directory
    whole,      \* the answer was read to its end
    deployMenu

deployVars == <<step, headers, archive, coming, buf, final, spool, whole, deployMenu>>

DeployFault == deployMenu.faults > 0 /\ deployMenu' = [deployMenu EXCEPT !.faults = @ - 1]
DeployFine  == UNCHANGED deployMenu

----------------------------------------------------------------------------
(* What is deployed.                                                         *)

\* An absent file is an empty manifest; any bad key, needed or not, is refused.
ManifestRefused(toml) == "bad" \in {toml.name, toml.memory}

\* The flag, else the manifest, else the default.
Preferred(flag, key, default) == IF flag # "none" THEN flag ELSE IF key # "none" THEN key ELSE default

\* Build and version-control directories are pruned on top of .gitignore; a
\* directory is implied by its files; a link is packed as a link.
build_tarball(tree) == {f \in tree : f.kind # "dir" /\ ~f.ignored /\ ~f.pruned}

----------------------------------------------------------------------------
(* The answer as text: a frame is its kind, a character of two bytes, and the *)
(* closing brace.                                                            *)

NL == "newline"
Written(frame) == IF frame = "blank" THEN <<>> ELSE <<frame, "hi", "lo", "}">>

Text(answer) ==
    FlattenSeq([i \in DOMAIN answer.frames |->
        Written(answer.frames[i]) \o IF i < Len(answer.frames) \/ answer.newline THEN <<NL>> ELSE <<>>])

\* String::from_utf8_lossy, chunk by chunk: half a character becomes a mark.
from_utf8_lossy(chunk) ==
    [i \in DOMAIN chunk |->
        IF \/ chunk[i] = "hi" /\ i = Len(chunk)
           \/ chunk[i] = "lo" /\ i = 1
        THEN "?" ELSE chunk[i]]

\* A line is JSON when it is one frame, from its kind to its brace.
FrameIn(line) ==
    IF Len(line) = 4 /\ line[1] \notin {"hi", "lo", "?", "}", "junk"} /\ line[4] = "}" THEN line[1] ELSE "raw"

Newlines(text)    == {i \in DOMAIN text : text[i] = NL}
LineTo(text, i) == SubSeq(text, Max({0} \cup {j \in Newlines(text) : j < i}) + 1, i - 1)

\* The lines that end in the text, in order: a frame with a readable `ok` is
\* kept and replaces the one before; any other is only shown.
handle_line(text, before) ==
    LET deciding == {i \in Newlines(text) : FrameIn(LineTo(text, i)) \in {"ok", "failed"}}
    IN  IF deciding = {} THEN before ELSE FrameIn(LineTo(text, Max(deciding)))

----------------------------------------------------------------------------
(* The command.                                                              *)

cmd_deploy ==
    /\ step = "start"
    /\ IF deployMenu.dir /\ ~ManifestRefused(deployMenu.toml)
       THEN /\ step' = "pack"
            /\ headers' = [name   |-> Preferred(deployMenu.flags.name, deployMenu.toml.name, "directory"),
                       memory |-> Preferred(deployMenu.flags.memory, deployMenu.toml.memory, "256")]
       ELSE step' = "failed" /\ UNCHANGED headers
    /\ UNCHANGED <<archive, coming, buf, final, spool, whole, deployMenu>>

\* A file that vanishes between the walk and the read fails the deploy.
Pack ==
    /\ step = "pack"
    /\ \/ DeployFine /\ archive' = build_tarball(deployMenu.tree) /\ step' = deployMenu.via
       \/ DeployFault /\ UNCHANGED archive /\ step' = "failed"
    /\ UNCHANGED <<headers, coming, buf, final, spool, whole>>

Post ==
    /\ step = "http"
    /\ \/ DeployFine /\ deployMenu.answer.accepted /\ step' = "stream" /\ coming' = Text(deployMenu.answer)
       \/ DeployFine /\ ~deployMenu.answer.accepted /\ step' = "failed" /\ UNCHANGED coming
       \/ DeployFault /\ step' = "failed" /\ UNCHANGED coming
    /\ UNCHANGED <<headers, archive, buf, final, spool, whole>>

\* Mutant: what follows the last newline of a chunk is dropped with the lines.
ReadChunkDropped ==
    /\ step = "stream" /\ coming # <<>>
    /\ \E n \in 1..Len(coming) :
          LET text == buf \o from_utf8_lossy(SubSeq(coming, 1, n))
          IN  /\ coming' = SubSeq(coming, n + 1, Len(coming))
              /\ final' = handle_line(text, final)
              /\ buf' = IF Newlines(text) = {} THEN text ELSE <<>>
    /\ UNCHANGED <<step, headers, archive, spool, whole, deployMenu>>

\* A chunk of any length arrives; its lines are drained from the buffer.
ReadChunk ==
    /\ step = "stream" /\ coming # <<>>
    /\ \E n \in 1..Len(coming) :
          LET text == buf \o from_utf8_lossy(SubSeq(coming, 1, n))
          IN  /\ coming' = SubSeq(coming, n + 1, Len(coming))
              /\ final' = handle_line(text, final)
              /\ buf' = SubSeq(text, Max({0} \cup Newlines(text)) + 1, Len(text))
    /\ UNCHANGED <<step, headers, archive, spool, whole, deployMenu>>

\* A connection that breaks fails the command whatever was read before.
StreamBreaks ==
    /\ step = "stream" /\ DeployFault
    /\ step' = "failed"
    /\ UNCHANGED <<headers, archive, coming, buf, final, spool, whole>>

Verdict(decided) == IF decided = "ok" THEN "ok" ELSE "failed"

\* What is left without a newline is one more line.
StreamEnds ==
    /\ step = "stream" /\ coming = <<>>
    /\ final' = handle_line(Append(buf, NL), final)
    /\ step' = Verdict(final') /\ buf' = <<>> /\ whole' = TRUE
    /\ UNCHANGED <<headers, archive, coming, spool, deployMenu>>

\* curl reads the spooled tarball; its output is read once it has ended, and an
\* answer that refuses the deploy is output like any other.
SpoolTarball ==
    /\ step = "socket"
    /\ \/ DeployFine /\ spool' = TRUE /\ step' = "curl"
       \/ DeployFault /\ spool' \in BOOLEAN /\ step' = "failed"
    /\ UNCHANGED <<headers, archive, coming, buf, final, whole>>

\* Not spawned: the file stays.  An unsuccessful curl is an error.
deploy_operator_socket ==
    /\ step = "curl"
    /\ \/ DeployFault /\ step' = "failed" /\ UNCHANGED <<final, spool, whole>>
       \/ DeployFault /\ step' = "failed" /\ spool' = FALSE /\ UNCHANGED <<final, whole>>
       \/ /\ DeployFine /\ spool' = FALSE /\ whole' = deployMenu.answer.accepted
          /\ final' = handle_line(Append(Text(deployMenu.answer), NL), final)
          /\ step' = Verdict(final')
    /\ UNCHANGED <<headers, archive, coming, buf>>

DeployInit ==
    /\ deployMenu \in DeployMenus
    /\ step = "start" /\ headers = [name |-> "none", memory |-> "none"] /\ archive = {}
    /\ coming = <<>> /\ buf = <<>> /\ final = "none" /\ spool = FALSE /\ whole = FALSE

DeployNext ==
    \/ cmd_deploy \/ Pack \/ Post \/ ReadChunk \/ StreamBreaks \/ StreamEnds
    \/ SpoolTarball \/ deploy_operator_socket

----------------------------------------------------------------------------
(* Properties.                                                               *)

\* The frame that decides is the last readable one of the answer's frames,
\* however the answer was cut and over whichever path it came; the command
\* succeeds exactly when it read the whole of an answer whose deciding frame is
\* ok (cmd_deploy's read loop and tail, deploy_operator_socket's lines).
VerdictIsTheServers ==
    LET frames   == deployMenu.answer.frames
        deciding == {i \in DOMAIN frames : frames[i] \in {"ok", "failed"}}
        decided  == deciding # {} /\ frames[Max(deciding)] = "ok"
    IN  /\ whole => (step = "ok" <=> decided)
        /\ step = "ok" => whole

\* Curl's copy of the tarball does not outlive an answer, of either verdict
\* (deploy_operator_socket's remove_file).
SpoolRemoved == step = "ok" \/ final # "none" => ~spool

\* The two halves for `mj deploy`: the verdict and what it leaves on disk.
DeploySound == VerdictIsTheServers /\ SpoolRemoved
============================================================================
