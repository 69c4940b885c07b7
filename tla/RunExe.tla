------------------------------- MODULE RunExe -------------------------------
(***************************************************************************)
(* wpl::RunExe: start a program, wait for it up to a timeout, terminate it *)
(* if it still runs, then read what it wrote to its standard output.  The  *)
(* child process runs beside it and shares three bounded pipes with it:    *)
(* the child is external and does what any program may do.                 *)
(***************************************************************************)
EXTENDS Integers

CONSTANTS
    Capacity,    \* bytes a pipe holds
    StepSize,    \* kIoStepBufferSize, bytes read at once
    MaxOut,      \* bound on what a child writes to one pipe
    ExitCodes,   \* exit codes of programs
    STILL_ACTIVE \* the exit code reported for a process that runs

ASSUME RunExeAssumption ==
    /\ Capacity \in Nat \ {0} /\ StepSize \in Nat \ {0} /\ MaxOut \in Nat
    /\ ExitCodes \subseteq Nat /\ 0 \in ExitCodes /\ STILL_ACTIVE \in Nat

Pipes == {"stdin", "stdout", "stderr"}
Handles == Pipes \cup {"process", "thread"}   \* a pipe stands for both its ends

VARIABLES
    pc,          \* where RunExe is
    timeout,     \* its argument: "finite" or "infinite"
    opened,      \* the handles it was given
    closes,      \* history: how often each was closed
    exitCode,    \* ret.exit_code
    got,         \* bytes in ret.out
    result,      \* what it returned
    child,       \* the process: its state and exit code
    want,        \* what the child does next
    written      \* bytes the child wrote to each pipe

callerVars == <<pc, timeout, opened, closes, exitCode, got, result>>
childVars == <<child, want, written>>
vars == <<callerVars, childVars>>

Alive == child.state \in {"running", "dying"}
Dead == child.state = "dead"
Created == "process" \in opened

\* GetExitCodeProcess fails, and stores nothing, without a process.
ExitCodeSeen ==
    IF ~Created THEN exitCode ELSE IF Dead THEN child.code ELSE STILL_ACTIVE

Avail == written["stdout"] - got
Smaller(a, b) == IF a < b THEN a ELSE b
GoTo(place) == pc' = place

-----------------------------------------------------------------------------
(* The child.  It owns its ends of the pipes until it is dead; nobody ever   *)
(* writes to its standard input, and stderr is never read.                   *)

Blocked ==
    \/ want = "stdin"
    \/ want = "stdout" /\ Avail >= Capacity
    \/ want = "stderr" /\ written["stderr"] >= Capacity

ChildDecides ==
    /\ child.state = "running" /\ want = "nothing"
    /\ want' \in {"stdin", "exit"} \cup {p \in {"stdout", "stderr"} : written[p] < MaxOut}
    /\ UNCHANGED <<callerVars, child, written>>

ChildWrites ==
    /\ Alive /\ want \in {"stdout", "stderr"} /\ ~Blocked
    /\ written' = [written EXCEPT ![want] = @ + 1]
    /\ want' = "nothing"
    /\ UNCHANGED <<callerVars, child>>

ChildExits ==
    /\ child.state = "running" /\ want = "exit"
    /\ child' \in [state : {"dead"}, code : ExitCodes]
    /\ UNCHANGED <<callerVars, want, written>>

\* TerminateProcess only asks for it: until then a write may still complete.
ChildDies ==
    /\ child.state = "dying"
    /\ child' = [child EXCEPT !.state = "dead"]
    /\ UNCHANGED <<callerVars, want, written>>

Child == ChildDecides \/ ChildWrites \/ ChildExits \/ ChildDies

-----------------------------------------------------------------------------
(* CreateSubrocess.                                                          *)

Close(handles) ==
    closes' = [h \in Handles |-> IF h \in handles THEN closes[h] + 1 ELSE closes[h]]

\* Pipes are created one by one, and the others are still tried if one fails;
\* setting a handle's flags may fail as well.
CreatePipes ==
    /\ pc = "pipes"
    /\ opened' \in SUBSET Pipes
    /\ \/ opened' = Pipes /\ GoTo("create")
       \/ GoTo("fail")
    /\ UNCHANGED <<timeout, closes, exitCode, got, result, childVars>>

S_OK == 0

\* Slip: the test as it was meant.
InitFailedReally(procInit) == procInit = 0

\* CreateProcess returns FALSE, 0, when it fails, which is S_OK as well.
InitFailed(procInit) == procInit = 0 /\ procInit # S_OK

\* The branch of a failed launch closes every handle and then fails, whereupon
\* the caller closes them all again.
CreateProcess ==
    /\ pc = "create"
    /\ \E procInit \in {0, 1} :
         /\ opened' = IF procInit = 1 THEN Handles ELSE opened
         /\ child' = IF procInit = 1 THEN [child EXCEPT !.state = "running"] ELSE child
         /\ IF InitFailed(procInit)
            THEN Close(opened') /\ GoTo("fail")
            ELSE UNCHANGED closes /\ GoTo("created")
    /\ UNCHANGED <<timeout, exitCode, got, result, want, written>>

\* The check after the launch: a process that has ended is waited for, which
\* returns at once.
CheckCreated ==
    /\ pc = "created"
    /\ exitCode' = ExitCodeSeen
    /\ GoTo("check")
    /\ UNCHANGED <<timeout, opened, closes, got, result, childVars>>

-----------------------------------------------------------------------------
(* RunExe.                                                                   *)

CheckActive ==
    /\ pc = "check"
    /\ exitCode' = ExitCodeSeen
    /\ GoTo(IF Created /\ exitCode' = STILL_ACTIVE THEN "wait" ELSE "read")
    /\ UNCHANGED <<timeout, opened, closes, got, result, childVars>>

\* WaitForSingleObject: the child has ended, or time is up.
Wait ==
    /\ pc = "wait"
    /\ Dead \/ timeout = "finite"
    /\ GoTo("terminate")
    /\ UNCHANGED <<timeout, opened, closes, exitCode, got, result, childVars>>

\* Slip: the timeout is not enforced.
TerminateNot ==
    /\ pc = "terminate"
    /\ UNCHANGED child
    /\ GoTo("reap")
    /\ UNCHANGED <<timeout, opened, closes, exitCode, got, result, want, written>>

\* TerminateProcess(proc, 0) fails for a process that has ended.
Terminate ==
    /\ pc = "terminate"
    /\ child' = IF Dead THEN child ELSE [state |-> "dying", code |-> 0]
    /\ GoTo("reap")
    /\ UNCHANGED <<timeout, opened, closes, exitCode, got, result, want, written>>

\* Slips: the end of the child is not waited for; the exit code is not refreshed.
ReapEarly ==
    /\ pc = "reap"
    /\ exitCode' = ExitCodeSeen
    /\ GoTo("read")
    /\ UNCHANGED <<timeout, opened, closes, got, result, childVars>>

ReapStale ==
    /\ pc = "reap" /\ Dead
    /\ GoTo("read")
    /\ UNCHANGED <<timeout, opened, closes, exitCode, got, result, childVars>>

Reap ==
    /\ pc = "reap" /\ Dead
    /\ exitCode' = ExitCodeSeen
    /\ GoTo("read")
    /\ UNCHANGED <<timeout, opened, closes, got, result, childVars>>

\* Slip: more is taken than the pipe holds.
ReadStepBlind ==
    /\ pc = "read" /\ Avail > 0
    /\ got' = got + StepSize
    /\ UNCHANGED <<pc, timeout, opened, closes, exitCode, result, childVars>>

\* ReadPipeEnd, one round of its loop.  The caller holds the write end too, so
\* the pipe never reports ERROR_BROKEN_PIPE; an empty pipe ends the loop.
ReadStep ==
    /\ pc = "read" /\ Avail > 0
    /\ got' = got + Smaller(StepSize, Avail)
    /\ UNCHANGED <<pc, timeout, opened, closes, exitCode, result, childVars>>

\* xCloseHandles, after the read or on a failure.  An invalid pipe is skipped,
\* and closing a null process or thread handle does nothing.
CloseAndReturn ==
    /\ pc \in {"read", "fail"}
    /\ pc = "read" => Avail = 0
    /\ Close(opened)
    /\ result' = IF pc = "fail" THEN "fail" ELSE "ok"
    /\ GoTo("returned")
    /\ UNCHANGED <<timeout, opened, exitCode, got, childVars>>

Caller ==
    \/ CreatePipes \/ CreateProcess \/ CheckCreated \/ CheckActive
    \/ Wait \/ Terminate \/ Reap \/ ReadStep \/ CloseAndReturn

Init ==
    /\ pc = "pipes" /\ timeout \in {"finite", "infinite"}
    /\ opened = {} /\ closes = [h \in Handles |-> 0]
    /\ exitCode = 0 /\ got = 0 /\ result = "none"
    /\ child = [state |-> "none", code |-> 0]
    /\ want = "nothing" /\ written = [p \in Pipes |-> 0]

Next == Caller \/ Child

\* The caller is scheduled, a finite timeout expires, and the system carries out
\* the termination it was asked for.  The program itself owes nothing: it may
\* compute, sleep or wait for a user for ever.
Spec == Init /\ [][Next]_vars
FairSpec == Spec /\ WF_vars(Caller) /\ WF_vars(ChildDies)

-----------------------------------------------------------------------------
(* Properties, and the inductive invariant of the proofs.                    *)

TypeOK ==
    /\ pc \in {"pipes", "create", "created", "check", "wait", "terminate", "reap",
               "read", "fail", "returned"}
    /\ timeout \in {"finite", "infinite"}
    /\ opened \subseteq Handles /\ closes \in [Handles -> Nat]
    /\ exitCode \in Nat /\ got \in Nat /\ result \in {"none", "fail", "ok"}
    /\ child \in [state : {"none", "running", "dying", "dead"}, code : Nat]
    /\ want \in {"nothing", "stdin", "stdout", "stderr", "exit"}
    /\ written \in [Pipes -> Nat]
    /\ Avail \in 0..Capacity

\* A successful result holds everything the process wrote to its standard
\* output, and the process can write no more.
OutputComplete ==
    result = "ok" /\ Created => Dead /\ got = written["stdout"]

\* The exit code returned is the one the process ended with: its own, or 0 if
\* it was terminated; never the STILL_ACTIVE seen on the way.
ExitCodeTrue ==
    result = "ok" /\ Created => Dead /\ exitCode = child.code

\* Every handle is closed once and only once, on every path out.
HandlesClosedOnce ==
    \A h \in Handles : closes[h] = IF pc = "returned" /\ h \in opened THEN 1 ELSE 0

\* What each place in RunExe may rely on.
Inv ==
    /\ TypeOK /\ HandlesClosedOnce
    /\ opened = Handles \/ opened \subseteq Pipes
    /\ Created <=> child.state # "none"
    /\ pc \in {"pipes", "create", "fail"} => ~Created
    /\ pc = "pipes" => opened = {}
    /\ pc \in {"wait", "terminate", "reap"} => Created
    /\ pc = "reap" => child.state \in {"dying", "dead"}
    /\ pc \in {"read", "returned"} /\ Created => Dead /\ exitCode = child.code
    /\ result = "none" <=> pc # "returned"
    /\ result = "ok" => Avail = 0

\* With a finite timeout RunExe returns whatever the program does or stops
\* doing; without one it returns too, or waits for ever for a program that never
\* ends.  Nothing after the wait can hang it.  Waiting before reading does hang
\* on programs that would have ended: of those that go on until they exit, and
\* write MaxOut bytes to a pipe at most, just the ones that are blocked on one
\* of their pipes are waited for for ever.
EventuallyReturns ==
    /\ \/ <>(pc = "returned")
       \/ timeout = "infinite" /\ <>[](pc = "wait" /\ child.state = "running")
    /\ WF_vars(Child) =>
        \/ <>(pc = "returned")
        \/ timeout = "infinite" /\ <>[](pc = "wait" /\ Blocked)

\* wpl_core.cpp:296 "Init failed, close handles.": a program that could not be
\* started is reported as a failure.
LaunchFailureReported == result = "ok" => Created
=============================================================================
