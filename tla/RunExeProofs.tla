---------------------------- MODULE RunExeProofs ----------------------------
(***************************************************************************)
(* Proofs about RunExe, for pipes of any capacity and any program.         *)
(***************************************************************************)
EXTENDS RunExe, TLAPS

LEMMA InitInv == Init => Inv
<1> SUFFICES ASSUME Init PROVE Inv
  OBVIOUS
<1>1. Avail = 0 /\ 0 \in 0..Capacity
  BY RunExeAssumption DEF Init, Avail, Pipes
<1>2. TypeOK
  BY <1>1 DEF Init, TypeOK
<1>3. QED
  BY <1>1, <1>2 DEF Init, Inv, HandlesClosedOnce, Created

\* A step of the process changes nothing that is the caller's; a write needs
\* room, and after the end there is none.
LEMMA ChildInv == Inv /\ Child => Inv'
<1> SUFFICES ASSUME Inv, Child PROVE Inv'
  OBVIOUS
<1> USE RunExeAssumption
<1>1. /\ UNCHANGED <<pc, timeout, opened, closes, exitCode, got, result>>
      /\ child.state \in {"running", "dying"}
  BY DEF Child, ChildDecides, ChildWrites, ChildExits, ChildDies, callerVars, Alive
<1>2. /\ child' \in [state : {"running", "dying", "dead"}, code : Nat]
      /\ child.state = "dying" => child'.state \in {"dying", "dead"}
  <2>1. CASE UNCHANGED child
    BY <1>1, <2>1 DEF Inv, TypeOK
  <2>2. CASE ChildExits
    BY <2>2 DEF ChildExits
  <2>3. CASE ChildDies
    BY <2>3 DEF ChildDies, Inv, TypeOK
  <2>4. QED
    BY <2>1, <2>2, <2>3 DEF Child, ChildDecides, ChildWrites
<1>3. /\ written' \in [Pipes -> Nat] /\ Avail' \in 0..Capacity
      /\ want' \in {"nothing", "stdin", "stdout", "stderr", "exit"}
  <2>1. CASE ChildWrites
    <3>1. /\ want \in Pipes /\ written' = [written EXCEPT ![want] = written[want] + 1]
          /\ want' = "nothing" /\ (want = "stdout" => Avail < Capacity)
      BY <2>1 DEF ChildWrites, Blocked, Inv, TypeOK, Pipes, Avail
    <3>2. /\ written \in [Pipes -> Nat] /\ got \in Nat /\ "stdout" \in Pipes
          /\ written["stdout"] - got \in 0..Capacity
      BY DEF Inv, TypeOK, Avail, Pipes
    <3>3. written' \in [Pipes -> Nat]
      BY <3>1, <3>2
    <3>4. CASE want = "stdout"
      BY <1>1, <3>1, <3>2, <3>4 DEF Avail
    <3>5. CASE want # "stdout"
      BY <1>1, <3>1, <3>2, <3>5 DEF Avail
    <3>6. QED
      BY <3>1, <3>3, <3>4, <3>5
  <2>2. CASE UNCHANGED written
    BY <1>1, <2>2 DEF Inv, TypeOK, Avail, Child, ChildDecides, ChildWrites, ChildExits, ChildDies
  <2>3. QED
    BY <2>1, <2>2 DEF Child, ChildDecides, ChildExits, ChildDies
<1>4. TypeOK'
  BY <1>1, <1>2, <1>3 DEF Inv, TypeOK
<1>5. pc \notin {"pipes", "create", "fail"} /\ Created /\ pc \notin {"read", "returned"}
  BY <1>1 DEF Inv, Dead
<1>6. QED
  BY <1>1, <1>2, <1>4, <1>5 DEF Inv, HandlesClosedOnce, Created, Dead

LEMMA LaunchInv == Inv /\ (CreatePipes \/ CreateProcess) => Inv'
<1> SUFFICES ASSUME Inv, CreatePipes \/ CreateProcess PROVE Inv'
  OBVIOUS
<1>1. CASE CreatePipes
  <2>1. /\ pc = "pipes" /\ pc' \in {"create", "fail"} /\ opened' \subseteq Pipes
        /\ UNCHANGED <<timeout, closes, exitCode, got, result, child, want, written>>
    BY <1>1 DEF CreatePipes, GoTo, childVars
  <2>2. TypeOK' /\ ~Created'
    BY <2>1 DEF Inv, TypeOK, Avail, Created, Pipes, Handles
  <2>3. QED
    BY <2>1, <2>2 DEF Inv, HandlesClosedOnce, Created, Avail
<1>2. CASE CreateProcess
  <2>1. PICK procInit \in {0, 1} :
          /\ opened' = IF procInit = 1 THEN Handles ELSE opened
          /\ child' = IF procInit = 1 THEN [child EXCEPT !.state = "running"] ELSE child
    BY <1>2 DEF CreateProcess
  <2>2. /\ pc = "create" /\ pc' = "created"
        /\ UNCHANGED <<timeout, closes, exitCode, got, result, want, written>>
    BY <1>2 DEF CreateProcess, GoTo, InitFailed, S_OK
  <2>3. /\ child' \in [state : {"none", "running", "dying", "dead"}, code : Nat]
        /\ opened' \subseteq Handles /\ (opened' = Handles \/ opened' \subseteq Pipes)
        /\ "process" \in opened' <=> child'.state # "none"
    <3>1. "process" \in Handles /\ "process" \notin opened /\ opened \subseteq Pipes
          /\ child.state = "none"
          /\ child \in [state : {"none", "running", "dying", "dead"}, code : Nat]
      BY <2>2 DEF Inv, TypeOK, Created, Handles
    <3>2. CASE procInit = 1
      BY <2>1, <3>1, <3>2
    <3>3. CASE procInit = 0
      BY <2>1, <3>1, <3>3 DEF Handles
    <3>4. QED
      BY <3>2, <3>3
  <2>4. TypeOK'
    BY <2>2, <2>3 DEF Inv, TypeOK, Avail
  <2>5. QED
    BY <2>2, <2>3, <2>4 DEF Inv, HandlesClosedOnce, Created, Avail
<1>3. QED
  BY <1>1, <1>2

LEMMA CheckInv == Inv /\ (CheckCreated \/ CheckActive \/ Reap) => Inv'
<1> SUFFICES ASSUME Inv, CheckCreated \/ CheckActive \/ Reap PROVE Inv'
  OBVIOUS
<1>1. /\ UNCHANGED <<timeout, opened, closes, got, result, child, want, written>>
      /\ exitCode' = ExitCodeSeen
      /\ pc \in {"created", "check", "reap"} /\ pc' \in {"check", "wait", "read"}
  BY DEF CheckCreated, CheckActive, Reap, GoTo, childVars
<1>2. exitCode' \in Nat /\ (Created /\ Dead => exitCode' = child.code)
  BY <1>1, RunExeAssumption DEF ExitCodeSeen, Inv, TypeOK
<1>3. TypeOK'
  BY <1>1, <1>2 DEF Inv, TypeOK, Avail
<1>4. (pc' = "wait" => Created) /\ (pc' = "read" /\ Created => Dead)
  <2>1. CASE CheckCreated
    BY <2>1 DEF CheckCreated, GoTo
  <2>2. CASE CheckActive
    <3>1. Created /\ ~Dead => exitCode' = STILL_ACTIVE
      BY <1>1 DEF ExitCodeSeen
    <3>2. QED
      BY <2>2, <3>1 DEF CheckActive, GoTo
  <2>3. CASE Reap
    BY <2>3 DEF Reap, GoTo
  <2>4. QED
    BY <2>1, <2>2, <2>3
<1>5. QED
  BY <1>1, <1>2, <1>3, <1>4 DEF Inv, HandlesClosedOnce, Created, Dead, Avail

LEMMA WaitInv == Inv /\ (Wait \/ Terminate) => Inv'
<1> SUFFICES ASSUME Inv, Wait \/ Terminate PROVE Inv'
  OBVIOUS
<1>1. /\ UNCHANGED <<timeout, opened, closes, exitCode, got, result, want, written>>
      /\ \/ pc = "wait" /\ pc' = "terminate" /\ child' = child
         \/ pc = "terminate" /\ pc' = "reap"
            /\ child' = IF Dead THEN child ELSE [state |-> "dying", code |-> 0]
  BY DEF Wait, Terminate, GoTo, childVars
<1>2. /\ child' \in [state : {"none", "running", "dying", "dead"}, code : Nat]
      /\ child'.state # "none" /\ (pc' = "reap" => child'.state \in {"dying", "dead"})
  BY <1>1 DEF Inv, TypeOK, Dead
<1>3. TypeOK'
  BY <1>1, <1>2 DEF Inv, TypeOK, Avail
<1>4. QED
  BY <1>1, <1>2, <1>3 DEF Inv, HandlesClosedOnce, Created, Avail

LEMMA ReadInv == Inv /\ (ReadStep \/ CloseAndReturn) => Inv'
<1> SUFFICES ASSUME Inv, ReadStep \/ CloseAndReturn PROVE Inv'
  OBVIOUS
<1>1. CASE ReadStep
  <2>1. /\ UNCHANGED <<pc, timeout, opened, closes, exitCode, result, child, want, written>>
        /\ pc = "read" /\ Avail > 0 /\ got' = got + Smaller(StepSize, Avail)
    BY <1>1 DEF ReadStep, childVars
  <2>2. Smaller(StepSize, Avail) \in 0..Avail
    BY <2>1, RunExeAssumption DEF Smaller, Inv, TypeOK
  <2>3. got' \in Nat /\ Avail' \in 0..Capacity
    <3>1. /\ got \in Nat /\ written["stdout"] \in Nat /\ written["stdout"] - got \in 0..Capacity
      BY DEF Inv, TypeOK, Avail, Pipes
    <3>2. PICK k \in 0..Avail : got' = got + k
      BY <2>1, <2>2
    <3>3. QED
      BY <2>1, <3>1, <3>2, RunExeAssumption DEF Avail
  <2>4. TypeOK'
    BY <2>1, <2>3 DEF Inv, TypeOK
  <2>5. QED
    BY <2>1, <2>4 DEF Inv, HandlesClosedOnce, Created, Dead
<1>2. CASE CloseAndReturn
  <2>1. /\ UNCHANGED <<timeout, opened, exitCode, got, child, want, written>>
        /\ pc \in {"read", "fail"} /\ (pc = "read" => Avail = 0) /\ pc' = "returned"
        /\ closes' = [h \in Handles |-> IF h \in opened THEN closes[h] + 1 ELSE closes[h]]
        /\ result' = IF pc = "fail" THEN "fail" ELSE "ok"
    BY <1>2 DEF CloseAndReturn, Close, GoTo, childVars
  <2>2. closes \in [Handles -> Nat] /\ \A h \in Handles : closes[h] = 0
    BY <2>1 DEF Inv, TypeOK, HandlesClosedOnce
  <2>3. closes' \in [Handles -> Nat] /\ HandlesClosedOnce'
    BY <2>1, <2>2 DEF HandlesClosedOnce
  <2>4. TypeOK'
    BY <2>1, <2>3 DEF Inv, TypeOK, Avail
  <2>5. QED
    BY <2>1, <2>3, <2>4 DEF Inv, Created, Dead, Avail
<1>3. QED
  BY <1>1, <1>2

LEMMA StepInv == Inv /\ [Next]_vars => Inv'
<1> SUFFICES ASSUME Inv, [Next]_vars PROVE Inv'
  OBVIOUS
<1>1. CASE Caller
  BY <1>1, LaunchInv, CheckInv, WaitInv, ReadInv DEF Caller
<1>2. CASE Child
  BY <1>2, ChildInv
<1>3. CASE UNCHANGED vars
  BY <1>3 DEF vars, callerVars, childVars, Inv, TypeOK, HandlesClosedOnce, Created, Dead, Avail
<1>4. QED
  BY <1>1, <1>2, <1>3 DEF Next

\* What RunExe relies on at every place holds whatever the process does.
THEOREM RunExeInvariant == Spec => []Inv
  BY InitInv, StepInv, PTL DEF Spec

\* Counters and states keep their types; no pipe ever holds more than it can.
THEOREM RunExeTypes == Spec => []TypeOK
<1>1. Inv => TypeOK
  BY DEF Inv
<1>2. QED
  BY RunExeInvariant, <1>1, PTL

\* All that the process wrote to its standard output is in the result.
THEOREM RunExeOutput == Spec => []OutputComplete
<1>1. Inv => OutputComplete
  <2>1. ASSUME Inv, result = "ok", Created PROVE Dead /\ got = written["stdout"]
    <3>1. Avail = 0 /\ got \in Nat /\ written["stdout"] \in Nat /\ Dead
      BY <2>1 DEF Inv, TypeOK, Pipes
    <3>2. QED
      BY <3>1 DEF Avail
  <2>2. QED
    BY <2>1 DEF OutputComplete
<1>2. QED
  BY RunExeInvariant, <1>1, PTL

\* The exit code in the result is the process's.
THEOREM RunExeExitCode == Spec => []ExitCodeTrue
<1>1. Inv => ExitCodeTrue
  BY DEF Inv, ExitCodeTrue
<1>2. QED
  BY RunExeInvariant, <1>1, PTL

\* No path leaks a handle or closes one twice.
THEOREM RunExeHandles == Spec => []HandlesClosedOnce
<1>1. Inv => HandlesClosedOnce
  BY DEF Inv
<1>2. QED
  BY RunExeInvariant, <1>1, PTL
=============================================================================
