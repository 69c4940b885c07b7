------------------------------ MODULE CmdShell ------------------------------
(***************************************************************************)
(* wpl::CmdShell: a session with a command shell over its standard input   *)
(* and output.  A reply ends where the text read so far ends with the      *)
(* shell's prompt; nothing else tells the client that a command is done.   *)
(* The shell process is external.  Its output is a sequence of pieces:     *)
(* each is the text or the prompt printed for some command.                *)
(***************************************************************************)
EXTENDS Naturals, Sequences, SequencesExt

CONSTANTS
    Commands,        \* what is sent: "text", "error", "cd", "exit", "lookalike"
    Dirs, InitDir,   \* directories, and the one given to the constructor
    WaitForPrompt,   \* the argument wait_for_prompt of Create
    Capacity,        \* pieces that stdout and stderr hold
    MaxText,         \* bound on the pieces that one command prints
    MaxSends         \* bound on the messages of one session

ASSUME CmdShellAssumption ==
    /\ InitDir \in Dirs /\ WaitForPrompt \in BOOLEAN
    /\ Capacity \in Nat \ {0} /\ MaxText \in Nat /\ MaxSends \in Nat

VARIABLES
    pc,          \* where the client is
    sent,        \* messages sent
    buffer,      \* what the read in progress has collected
    reply,       \* the pieces of what the last SendMsg returned
    exitCode,    \* exit_code_
    openHandles, \* the session's handles are open
    shell,       \* the process: its state and exit code
    dir,         \* its current directory
    stdin,       \* lines it has not read
    busy,        \* what it still prints for the line it has read
    stdout,      \* printed and not read by the client
    errors       \* pieces in stderr, which nobody reads

clientVars == <<pc, sent, buffer, reply, exitCode, openHandles>>
shellVars == <<shell, dir, stdin, busy, stdout, errors>>
vars == <<clientVars, shellVars>>

Text(k) == [of |-> k, is |-> "text", dir |-> InitDir]
Prompt(k, d) == [of |-> k, is |-> "prompt", dir |-> d]
Err(k) == [of |-> k, is |-> "error", dir |-> InitDir]

Dead == shell.state = "dead"
GoTo(place) == pc' = place

\* Slip: the prompt must come by itself.
EndsWithPromptAlone(b) == b = <<Prompt(sent, InitDir)>>

\* GetCurrentPrompt is made of working_dir_, which only SetInitDir sets.  The
\* read ends where the buffer ends with it, whoever printed it.
EndsWithPrompt(b) == b # <<>> /\ Last(b).is = "prompt" /\ Last(b).dir = InitDir

-----------------------------------------------------------------------------
(* The shell.  It reads a line when it has printed all it had to; a text     *)
(* may look like the prompt the client waits for.                            *)

Copies(piece, n) == [i \in 1..n |-> piece]
Printed(command, k, d) ==
    {Copies(p, n) \o <<Prompt(k, d)>> :
        n \in IF command \in {"text", "error"} THEN 0..MaxText ELSE {0},
        p \in {IF command = "error" THEN Err(k) ELSE Text(k)}}
    \cup IF command = "lookalike"
         THEN {<<Prompt(k, InitDir), Text(k), Prompt(k, d)>>} ELSE {}

ShellReads ==
    /\ shell.state = "running" /\ busy = <<>> /\ stdin # <<>>
    /\ LET line == Head(stdin)
       IN  IF line.command = "exit"
           THEN /\ shell' = [state |-> "dead", code |-> line.of]
                /\ UNCHANGED <<dir, busy>>
           ELSE /\ dir' \in IF line.command = "cd" THEN Dirs ELSE {dir}
                /\ busy' \in Printed(line.command, line.of, dir')
                /\ UNCHANGED shell
    /\ stdin' = Tail(stdin)
    /\ UNCHANGED <<clientVars, stdout, errors>>

\* Slip: prints never block.
ShellPrintsFreely ==
    /\ shell.state # "dead" /\ busy # <<>>
    /\ stdout' = Append(stdout, Head(busy)) /\ busy' = Tail(busy)
    /\ UNCHANGED <<clientVars, shell, dir, stdin, errors>>

\* A print blocks while its pipe is full.
ShellPrints ==
    /\ shell.state # "dead" /\ busy # <<>>
    /\ IF Head(busy).is = "error"
       THEN errors < Capacity /\ errors' = errors + 1 /\ UNCHANGED stdout
       ELSE Len(stdout) < Capacity /\ stdout' = Append(stdout, Head(busy)) /\ UNCHANGED errors
    /\ busy' = Tail(busy)
    /\ UNCHANGED <<clientVars, shell, dir, stdin>>

ShellDies ==
    /\ shell.state = "dying"
    /\ shell' = [shell EXCEPT !.state = "dead"]
    /\ UNCHANGED <<clientVars, dir, stdin, busy, stdout, errors>>

Shell == ShellReads \/ ShellPrints \/ ShellDies

-----------------------------------------------------------------------------
(* The client.                                                               *)

\* Create starts the shell, which prints its banner and first prompt.  A shell
\* that could not be started is not noticed (see RunExe) and left out here.
Create ==
    /\ pc = "new"
    /\ shell' = [state |-> "running", code |-> 0]
    /\ busy' = <<Text(0), Prompt(0, InitDir)>>
    /\ openHandles' = TRUE
    /\ GoTo(IF WaitForPrompt THEN "creating" ELSE "idle")
    /\ UNCHANGED <<sent, buffer, reply, exitCode, dir, stdin, stdout, errors>>

\* The line and its end are two writes; the shell reads whole lines.
SendMsg ==
    /\ pc = "idle" /\ sent < MaxSends
    /\ sent' = sent + 1
    /\ \E command \in Commands :
         stdin' = Append(stdin, [command |-> command, of |-> sent'])
    /\ buffer' = <<>>
    /\ GoTo("reading")
    /\ UNCHANGED <<reply, exitCode, openHandles, shell, dir, busy, stdout, errors>>

Reading == pc \in {"creating", "reading"}

\* ReadPipeEnd takes what there is until the pipe is empty.
ReadPipe ==
    /\ Reading /\ stdout # <<>>
    /\ buffer' = buffer \o stdout
    /\ stdout' = <<>>
    /\ UNCHANGED <<pc, sent, reply, exitCode, openHandles, shell, dir, stdin, busy, errors>>

\* Slip: whatever was read is taken for the reply.
EndReadEarly ==
    /\ Reading /\ stdout = <<>> /\ buffer # <<>>
    /\ reply' = IF pc = "reading" THEN {p \in Range(buffer) : p.is = "text"} ELSE reply
    /\ GoTo("idle")
    /\ UNCHANGED <<sent, buffer, exitCode, openHandles, shellVars>>

\* The condition is tested once the pipe is empty; prompts are stripped from
\* the reply.  While it does not hold the client polls for ever.
EndRead ==
    /\ Reading /\ stdout = <<>> /\ EndsWithPrompt(buffer)
    /\ reply' = IF pc = "reading" THEN {p \in Range(buffer) : p.is = "text"} ELSE reply
    /\ GoTo("idle")
    /\ UNCHANGED <<sent, buffer, exitCode, openHandles, shellVars>>

\* Close, or the destructor: "exit" is sent, and a shell that still runs the
\* moment after is terminated.
SendExit ==
    /\ pc = "idle"
    /\ stdin' = Append(stdin, [command |-> "exit", of |-> 0])
    /\ GoTo("exiting")
    /\ UNCHANGED <<sent, buffer, reply, exitCode, openHandles, shell, dir, busy, stdout, errors>>

TerminateShell ==
    /\ pc = "exiting"
    /\ shell' = IF Dead THEN shell ELSE [state |-> "dying", code |-> 0]
    /\ GoTo("reaping")
    /\ UNCHANGED <<sent, buffer, reply, exitCode, openHandles, dir, stdin, busy, stdout, errors>>

\* Slip: the handles are closed without waiting for the end.
CloseHandlesEarly ==
    /\ pc = "reaping"
    /\ exitCode' = shell.code
    /\ openHandles' = FALSE
    /\ GoTo("closed")
    /\ UNCHANGED <<sent, buffer, reply, shellVars>>

\* A shell that ended by itself is asked to terminate after all, but through the
\* handle that was just closed: that call fails and changes nothing.
CloseHandles ==
    /\ pc = "reaping" /\ Dead
    /\ exitCode' = shell.code
    /\ openHandles' = FALSE
    /\ GoTo("closed")
    /\ UNCHANGED <<sent, buffer, reply, shellVars>>

Client ==
    \/ Create \/ SendMsg \/ ReadPipe \/ EndRead
    \/ SendExit \/ TerminateShell \/ CloseHandles

Init ==
    /\ pc = "new" /\ sent = 0 /\ buffer = <<>> /\ reply = {}
    /\ exitCode = 0 /\ openHandles = FALSE
    /\ shell = [state |-> "none", code |-> 0] /\ dir = InitDir
    /\ stdin = <<>> /\ busy = <<>> /\ stdout = <<>> /\ errors = 0

Next == Client \/ Shell

\* The client's calls go on once begun; the shell is scheduled.
Spec == Init /\ [][Next]_vars
FairSpec ==
    /\ Spec
    /\ WF_vars(ReadPipe \/ EndRead \/ TerminateShell \/ CloseHandles)
    /\ WF_vars(Shell)

-----------------------------------------------------------------------------
Piece == [of : 0..MaxSends, is : {"text", "prompt", "error"}, dir : Dirs]

TypeOK ==
    /\ pc \in {"new", "creating", "idle", "reading", "exiting", "reaping", "closed"}
    /\ sent \in 0..MaxSends /\ buffer \in Seq(Piece) /\ reply \subseteq Piece
    /\ exitCode \in 0..MaxSends /\ openHandles \in BOOLEAN
    /\ shell \in [state : {"none", "running", "dying", "dead"}, code : 0..MaxSends]
    /\ dir \in Dirs /\ busy \in Seq(Piece) /\ stdout \in Seq(Piece)
    /\ stdin \in Seq([command : Commands \cup {"exit"}, of : 0..MaxSends])
    /\ errors \in 0..Capacity /\ Len(stdout) <= Capacity

\* Between two messages nothing is under way: every piece the shell printed has
\* been read, so no reply can hold what an earlier command printed.  This takes
\* a Create that waits for the prompt, and commands that print no lookalike.
InStep == pc = "idle" => stdin = <<>> /\ busy = <<>> /\ stdout = <<>>

\* A reply holds only what its own command printed.
ReplyBelongs == \A p \in reply : pc = "idle" => p.of = sent

\* Both hold only then.  While a read is in progress one message is under way:
\* it is in stdin, or its output is in three parts, read, printed and still to
\* be printed, of which only the very last piece is a prompt.
Tame == WaitForPrompt /\ "lookalike" \notin Commands
OnlyLast(s, rest) ==
    \A i \in DOMAIN s : s[i].is = "prompt" => i = Len(s) /\ rest = <<>>
OneReply ==
    /\ \A i \in DOMAIN buffer : buffer[i].of = sent
    /\ \A i \in DOMAIN stdout : stdout[i].of = sent
    /\ \A i \in DOMAIN busy : busy[i].of = sent
    /\ OnlyLast(buffer, stdout \o busy) /\ OnlyLast(stdout, busy) /\ OnlyLast(busy, <<>>)
    /\ stdin # <<>> =>
         Len(stdin) = 1 /\ stdin[1].of = sent /\ buffer = <<>> /\ stdout = <<>> /\ busy = <<>>
SessionInv ==
    /\ TypeOK /\ InStep /\ ReplyBelongs
    /\ Reading => OneReply
    /\ pc \in {"new", "creating"} => sent = 0 /\ reply = {} /\ stdin = <<>>
    /\ pc = "new" => stdout = <<>> /\ busy = <<>> /\ buffer = <<>>

\* A read ends unless the shell has changed its directory, has ended, or is
\* blocked for ever on stderr.
Unreachable ==
    \/ dir # InitDir \/ Dead
    \/ busy # <<>> /\ Head(busy).is = "error" /\ errors = Capacity
ReadsEnd == Reading ~> (~Reading \/ Unreachable)

\* Close lets go of the shell only when it has ended, and reports the exit code
\* it ended with, whether that is of an exit it was sent or of the termination.
CloseEndsShell ==
    pc = "closed" => Dead /\ exitCode = shell.code /\ ~openHandles
=============================================================================
