--------------------------- MODULE CmdShellProofs ---------------------------
(***************************************************************************)
(* Proofs about CmdShell, for pipes of any capacity, any directories and   *)
(* any number of messages.                                                 *)
(***************************************************************************)
EXTENDS CmdShell, SequenceTheorems, TLAPS

USE CmdShellAssumption

\* Pieces of one message, the last alone perhaps a prompt, behind others without one.
LEMMA JoinPieces ==
  ASSUME NEW s \in Seq(Piece), NEW t \in Seq(Piece), NEW k, NEW rest,
         \A i \in DOMAIN s : s[i].of = k /\ s[i].is # "prompt",
         \A i \in DOMAIN t : t[i].of = k,
         OnlyLast(t, rest)
  PROVE  /\ \A i \in DOMAIN (s \o t) : (s \o t)[i].of = k
         /\ OnlyLast(s \o t, rest)
<1> DEFINE m == Len(s)  n == Len(t)  u == s \o t
<1>1. /\ m \in Nat /\ n \in Nat /\ DOMAIN s = 1..m /\ DOMAIN t = 1..n
      /\ Len(u) = m + n /\ DOMAIN u = 1..(m + n)
      /\ \A i \in 1..(m + n) : u[i] = IF i <= m THEN s[i] ELSE t[i - m]
  BY ConcatProperties, LenProperties
<1>2. /\ \A i \in 1..m : s[i].of = k /\ s[i].is # "prompt"
      /\ \A i \in 1..n : t[i].of = k /\ (t[i].is = "prompt" => i = n /\ rest = <<>>)
  BY <1>1 DEF OnlyLast
<1> HIDE DEF m, n, u
<1>3. ASSUME NEW i \in 1..(m + n)
      PROVE  u[i].of = k /\ (u[i].is = "prompt" => i = m + n /\ rest = <<>>)
  <2>1. CASE i <= m
    <3>1. i \in 1..m /\ u[i] = s[i]
      BY <1>1, <2>1
    <3>2. QED
      BY <1>2, <3>1
  <2>2. CASE ~(i <= m)
    <3>1. i - m \in 1..n /\ u[i] = t[i - m]
      BY <1>1, <2>2
    <3>2. t[i - m].of = k /\ (t[i - m].is = "prompt" => i - m = n /\ rest = <<>>)
      BY <1>2, <3>1
    <3>3. i - m = n => i = m + n
      BY <1>1
    <3>4. QED
      BY <3>1, <3>2, <3>3
  <2>3. QED
    BY <2>1, <2>2
<1>4. /\ \A i \in DOMAIN u : u[i].of = k
      /\ OnlyLast(u, rest)
  BY <1>1, <1>3 DEF OnlyLast
<1>5. QED
  BY <1>4 DEF u

\* What the shell prints for a message: pieces of that message, the prompt last.
LEMMA PrintedPieces ==
  ASSUME NEW command, NEW k \in 0..MaxSends, NEW d \in Dirs, NEW s \in Printed(command, k, d)
  PROVE  /\ s \in Seq(Piece) /\ \A i \in DOMAIN s : s[i].of = k
         /\ command # "lookalike" => OnlyLast(s, <<>>)
<1>1. /\ Text(k) \in Piece /\ Err(k) \in Piece /\ Prompt(k, InitDir) \in Piece
      /\ Prompt(k, d) \in Piece
  BY DEF Text, Err, Prompt, Piece
<1>2. ASSUME NEW p \in {Text(k), Err(k)}, NEW n \in Nat, s = Copies(p, n) \o <<Prompt(k, d)>>
      PROVE  /\ s \in Seq(Piece) /\ \A i \in DOMAIN s : s[i].of = k
             /\ OnlyLast(s, <<>>)
  <2>1. Copies(p, n) \in Seq(Piece) /\ Len(Copies(p, n)) = n
        /\ \A i \in 1..n : Copies(p, n)[i] = p
    BY <1>1, <1>2, IsASeq DEF Copies
  <2>2. s \in Seq(Piece) /\ Len(s) = n + 1 /\ s[n + 1] = Prompt(k, d)
        /\ \A i \in 1..n : s[i] = p
    BY <1>1, <1>2, <2>1, ConcatProperties
  <2>3. p.of = k /\ p.is # "prompt" /\ Prompt(k, d).of = k
    BY <1>2 DEF Text, Err, Prompt
  <2>4. \A i \in DOMAIN s : i \in 1..n \/ i = n + 1
    BY <2>2
  <2>5. QED
    BY <2>2, <2>3, <2>4 DEF OnlyLast
<1>3. ASSUME s = <<Prompt(k, InitDir), Text(k), Prompt(k, d)>>
      PROVE  s \in Seq(Piece) /\ \A i \in DOMAIN s : s[i].of = k
  BY <1>1, <1>3 DEF Text, Prompt
<1>4. \/ \E p \in {Text(k), Err(k)}, n \in Nat : s = Copies(p, n) \o <<Prompt(k, d)>>
      \/ command = "lookalike" /\ s = <<Prompt(k, InitDir), Text(k), Prompt(k, d)>>
  BY SMTT(30) DEF Printed
<1>5. QED
  BY <1>2, <1>3, <1>4

-----------------------------------------------------------------------------
(* Types.                                                                   *)

LEMMA ShellTypes == TypeOK /\ Shell => TypeOK'
<1> SUFFICES ASSUME TypeOK, Shell PROVE TypeOK'
  OBVIOUS
<1>1. CASE ShellReads
  <2> DEFINE Lines == [command : Commands \cup {"exit"}, of : 0..MaxSends]
  <2>0. stdin # <<>> /\ stdin' = Tail(stdin) /\ stdin \in Seq(Lines)
    BY <1>1 DEF ShellReads, TypeOK
  <2> HIDE DEF Lines
  <2>a. stdin' \in Seq(Lines) /\ Head(stdin) \in Lines
    BY <2>0, HeadTailProperties
  <2>1. stdin' \in Seq(Lines) /\ Head(stdin).of \in 0..MaxSends
    BY <2>a DEF Lines
  <2>2. dir' \in Dirs /\ busy' \in Seq(Piece)
        /\ shell' \in [state : {"none", "running", "dying", "dead"}, code : 0..MaxSends]
    <3>1. CASE Head(stdin).command = "exit"
      BY <1>1, <2>1, <3>1 DEF ShellReads, TypeOK
    <3>2. CASE Head(stdin).command # "exit"
      <4>1. dir' \in Dirs /\ busy' \in Printed(Head(stdin).command, Head(stdin).of, dir')
            /\ shell' = shell
        BY <1>1, <3>2 DEF ShellReads, TypeOK
      <4>2. busy' \in Seq(Piece)
        BY <2>1, <4>1, PrintedPieces
      <4>3. QED
        BY <4>1, <4>2 DEF TypeOK
    <3>3. QED
      BY <3>1, <3>2
  <2>3. QED
    BY <1>1, <2>1, <2>2 DEF ShellReads, TypeOK, clientVars, Lines
<1>2. CASE ShellPrints
  <2>1. Head(busy) \in Piece /\ Tail(busy) \in Seq(Piece)
    BY <1>2, HeadTailProperties DEF ShellPrints, TypeOK
  <2>2. /\ stdout' \in Seq(Piece) /\ Len(stdout') <= Capacity
        /\ errors' \in 0..Capacity
    <3>1. CASE Head(busy).is = "error"
      BY <1>2, <3>1 DEF ShellPrints, TypeOK
    <3>2. CASE Head(busy).is # "error"
      <4>1. stdout \in Seq(Piece) /\ Len(stdout) \in Nat /\ errors \in 0..Capacity
        BY LenProperties DEF TypeOK
      <4>2. /\ Append(stdout, Head(busy)) \in Seq(Piece)
            /\ Len(Append(stdout, Head(busy))) = Len(stdout) + 1
        BY <2>1, <4>1, AppendProperties
      <4>3. Len(stdout) < Capacity /\ stdout' = Append(stdout, Head(busy)) /\ errors' = errors
        BY <1>2, <3>2 DEF ShellPrints
      <4>4. QED
        BY <4>1, <4>2, <4>3
    <3>3. QED
      BY <3>1, <3>2
  <2>3. busy' \in Seq(Piece)
    BY <1>2, <2>1 DEF ShellPrints
  <2>4. QED
    BY <1>2, <2>2, <2>3 DEF ShellPrints, TypeOK, clientVars
<1>3. CASE ShellDies
  <2>1. shell' \in [state : {"none", "running", "dying", "dead"}, code : 0..MaxSends]
    BY <1>3 DEF ShellDies, TypeOK
  <2>2. QED
    BY <1>3, <2>1 DEF ShellDies, TypeOK, clientVars
<1>4. QED
  BY <1>1, <1>2, <1>3 DEF Shell

LEMMA ClientTypes == TypeOK /\ Client => TypeOK'
<1> SUFFICES ASSUME TypeOK, Client PROVE TypeOK'
  OBVIOUS
<1>1. CASE Create
  <2>1. <<Text(0), Prompt(0, InitDir)>> \in Seq(Piece)
    BY DEF Text, Prompt, Piece
  <2>2. QED
    BY <1>1, <2>1 DEF Create, TypeOK, GoTo
<1>2. CASE SendMsg
  BY <1>2 DEF SendMsg, TypeOK, GoTo
<1>3. CASE ReadPipe
  BY <1>3 DEF ReadPipe, TypeOK
<1>4. CASE EndRead
  <2>1. {p \in Range(buffer) : p.is = "text"} \subseteq Piece
    BY DEF TypeOK, Range
  <2>2. QED
    BY <1>4, <2>1 DEF EndRead, TypeOK, GoTo, shellVars
<1>5. CASE SendExit
  BY <1>5 DEF SendExit, TypeOK, GoTo
<1>6. CASE TerminateShell
  BY <1>6 DEF TerminateShell, TypeOK, GoTo
<1>7. CASE CloseHandles
  BY <1>7 DEF CloseHandles, TypeOK, GoTo, shellVars
<1>8. QED
  BY <1>1, <1>2, <1>3, <1>4, <1>5, <1>6, <1>7 DEF Client

LEMMA InitTypes == Init => TypeOK
<1>1. 0 \in 0..MaxSends /\ 0 \in 0..Capacity /\ InitDir \in Dirs
  OBVIOUS
<1>2. SUFFICES ASSUME Init PROVE TypeOK
  OBVIOUS
<1>3. /\ buffer \in Seq(Piece) /\ busy \in Seq(Piece) /\ stdout \in Seq(Piece)
      /\ stdin \in Seq([command : Commands \cup {"exit"}, of : 0..MaxSends])
      /\ Len(stdout) <= Capacity
  BY <1>2 DEF Init
<1>4. QED
  BY <1>1, <1>2, <1>3 DEF Init, TypeOK

\* Whatever is sent and printed, the pipe holds no more than it can.
THEOREM SessionTypes == Spec => []TypeOK
<1>1. TypeOK /\ UNCHANGED vars => TypeOK'
  BY DEF TypeOK, vars, clientVars, shellVars
<1>2. QED
  BY <1>1, InitTypes, ShellTypes, ClientTypes, PTL DEF Spec, Next

\* Close lets go of the session's handles when its shell has ended, and keeps
\* the shell's exit code.
THEOREM CloseEnds == Spec => []CloseEndsShell
<1>1. Init => CloseEndsShell
  BY DEF Init, CloseEndsShell
<1>2. TypeOK /\ CloseEndsShell /\ [Next]_vars => CloseEndsShell'
  <2> SUFFICES ASSUME TypeOK, CloseEndsShell, [Next]_vars PROVE CloseEndsShell'
    OBVIOUS
  <2>1. CASE Shell
    BY <2>1 DEF Shell, ShellReads, ShellPrints, ShellDies, CloseEndsShell, Dead, clientVars
  <2>2. CASE CloseHandles
    BY <2>2 DEF CloseHandles, CloseEndsShell, Dead, GoTo, shellVars
  <2>3. CASE Client /\ ~CloseHandles
    BY <2>3 DEF Client, Create, SendMsg, ReadPipe, EndRead, SendExit, TerminateShell,
                CloseEndsShell, GoTo, Reading
  <2>4. CASE UNCHANGED vars
    BY <2>4 DEF vars, clientVars, shellVars, CloseEndsShell, Dead
  <2>5. QED
    BY <2>1, <2>2, <2>3, <2>4 DEF Next
<1>3. QED
  BY <1>1, <1>2, SessionTypes, PTL DEF Spec
-----------------------------------------------------------------------------
(* Replies.                                                                 *)

LEMMA ShellKeepsStep == Tame /\ SessionInv /\ Shell => SessionInv'
<1> SUFFICES ASSUME Tame, SessionInv, Shell PROVE SessionInv'
  OBVIOUS
<1>1. TypeOK /\ TypeOK'
  BY ShellTypes DEF SessionInv
<1>2. UNCHANGED clientVars
  BY DEF Shell, ShellReads, ShellPrints, ShellDies
<1>4. CASE ShellReads
  <2> DEFINE Lines == [command : Commands \cup {"exit"}, of : 0..MaxSends]
  <2>1. /\ stdin # <<>> /\ stdin' = Tail(stdin) /\ stdout' = stdout /\ stdin \in Seq(Lines)
        /\ pc \notin {"idle", "new", "creating"}
    BY <1>1, <1>4 DEF ShellReads, SessionInv, InStep, TypeOK
  <2>2. ASSUME Reading PROVE OneReply'
    <3>1. /\ Len(stdin) = 1 /\ stdin[1].of = sent
          /\ buffer = <<>> /\ stdout = <<>> /\ busy = <<>>
      BY <2>1, <2>2 DEF SessionInv, OneReply
    <3>2. stdin' = <<>> /\ Head(stdin) = stdin[1]
          /\ Head(stdin).command \in Commands \cup {"exit"}
      <4> HIDE DEF Lines
      <4>1. Head(stdin) = stdin[1] /\ Head(stdin) \in Lines /\ Tail(stdin) \in Seq(Lines)
            /\ Len(Tail(stdin)) = 0
        BY <2>1, <3>1, HeadTailProperties
      <4>2. QED
        BY <2>1, <4>1, EmptySeq DEF Lines
    <3>3. /\ \A i \in DOMAIN busy' : busy'[i].of = sent
          /\ OnlyLast(busy', <<>>)
      <4>1. CASE Head(stdin).command = "exit"
        BY <1>4, <3>1, <4>1 DEF ShellReads, OnlyLast
      <4>2. CASE Head(stdin).command # "exit"
        <5>1. busy' \in Printed(Head(stdin).command, sent, dir') /\ dir' \in Dirs
              /\ sent \in 0..MaxSends /\ Head(stdin).command # "lookalike"
          BY <1>1, <1>4, <3>1, <3>2, <4>2 DEF ShellReads, TypeOK, Tame
        <5>2. QED
          BY <5>1, PrintedPieces
      <4>3. QED
        BY <4>1, <4>2
    <3>4. buffer' = <<>> /\ stdout' = <<>> /\ sent' = sent
      BY <1>2, <2>1, <3>1 DEF clientVars
    <3>5. QED
      BY <3>2, <3>3, <3>4 DEF OneReply, OnlyLast
  <2>3. QED
    BY <1>1, <1>2, <2>1, <2>2 DEF SessionInv, InStep, ReplyBelongs, Reading, clientVars
<1>5. CASE ShellPrints
  <2>1. /\ busy # <<>> /\ busy' = Tail(busy) /\ stdin' = stdin
        /\ busy \in Seq(Piece) /\ stdout \in Seq(Piece)
        /\ pc \notin {"idle", "new"}
    BY <1>1, <1>5 DEF ShellPrints, SessionInv, InStep, TypeOK
  <2>2. ASSUME Reading PROVE OneReply'
    <3>1. /\ OneReply /\ buffer' = buffer /\ sent' = sent
      BY <1>2, <2>2 DEF SessionInv, clientVars
    <3>2. stdin = <<>>
      BY <2>1, <3>1 DEF OneReply
    <3>3. /\ Len(busy) \in Nat \ {0} /\ Head(busy) = busy[1] /\ DOMAIN busy = 1..Len(busy)
          /\ Len(Tail(busy)) = Len(busy) - 1
          /\ DOMAIN Tail(busy) = 1..(Len(busy) - 1)
          /\ \A i \in 1..(Len(busy) - 1) : Tail(busy)[i] = busy[i + 1]
      BY <2>1, HeadTailProperties, LenProperties
    <3>4. /\ \A i \in DOMAIN busy' : busy'[i].of = sent
          /\ OnlyLast(busy', <<>>)
      BY <2>1, <3>1, <3>3 DEF OneReply, OnlyLast
    <3>5. Head(busy).is = "prompt" => busy' = <<>>
      <4>1. Head(busy).is = "prompt" => Len(busy) = 1
        BY <3>1, <3>3 DEF OneReply, OnlyLast
      <4>2. QED
        BY <2>1, <4>1
    <3>6. /\ \A i \in DOMAIN stdout' : stdout'[i].of = sent
          /\ OnlyLast(stdout', busy')
      <4>1. \A i \in DOMAIN stdout : stdout[i].is # "prompt" /\ stdout[i].of = sent
        BY <2>1, <3>1 DEF OneReply, OnlyLast
      <4>2. CASE stdout' = stdout
        BY <4>1, <4>2 DEF OnlyLast
      <4>3. CASE stdout' = Append(stdout, Head(busy))
        <5>1. /\ Len(stdout) \in Nat /\ DOMAIN stdout = 1..Len(stdout)
              /\ Len(stdout') = Len(stdout) + 1 /\ DOMAIN stdout' = 1..(Len(stdout) + 1)
              /\ stdout'[Len(stdout) + 1] = Head(busy)
              /\ \A i \in 1..Len(stdout) : stdout'[i] = stdout[i]
          BY <2>1, <4>3, AppendProperties, LenProperties, HeadTailProperties
        <5>2. Head(busy).of = sent
          BY <3>1, <3>3 DEF OneReply
        <5>3. \A i \in DOMAIN stdout' : i \in 1..Len(stdout) \/ i = Len(stdout')
          BY <5>1
        <5>4. QED
          BY <3>5, <4>1, <5>1, <5>2, <5>3 DEF OnlyLast
      <4>4. QED
        BY <1>5, <4>2, <4>3 DEF ShellPrints
    <3>7. \A i \in DOMAIN buffer : buffer[i].is # "prompt"
      <4>1. stdout \o busy # <<>>
        BY <2>1
      <4>2. QED
        BY <3>1, <4>1 DEF OneReply, OnlyLast
    <3>8. QED
      BY <2>1, <3>1, <3>2, <3>4, <3>6, <3>7 DEF OneReply, OnlyLast
  <2>3. QED
    BY <1>1, <1>2, <2>1, <2>2 DEF SessionInv, InStep, ReplyBelongs, Reading, clientVars
<1>6. CASE ShellDies
  BY <1>1, <1>6 DEF ShellDies, SessionInv, InStep, ReplyBelongs, Reading, OneReply, clientVars
<1>7. QED
  BY <1>4, <1>5, <1>6 DEF Shell

LEMMA ClientKeepsStep == Tame /\ SessionInv /\ Client => SessionInv'
<1> SUFFICES ASSUME Tame, SessionInv, Client PROVE SessionInv'
  OBVIOUS
<1> USE DEF SessionInv, InStep, ReplyBelongs, Reading
<1>1. TypeOK /\ TypeOK'
  BY ClientTypes
<1>2. CASE Create
  <2>1. pc = "new" /\ pc' = "creating" /\ sent' = sent /\ sent = 0
        /\ buffer' = <<>> /\ stdout' = <<>> /\ stdin' = <<>> /\ reply' = {}
        /\ busy' = <<Text(0), Prompt(0, InitDir)>>
    BY <1>2 DEF Create, GoTo, Tame
  <2>2. /\ busy'[1].of = 0 /\ busy'[2].of = 0 /\ busy'[1].is # "prompt"
        /\ DOMAIN busy' = 1..2 /\ Len(busy') = 2
    BY <2>1 DEF Text, Prompt
  <2>3. OneReply'
    BY <2>1, <2>2 DEF OneReply, OnlyLast
  <2>4. QED
    BY <1>1, <2>1, <2>3
<1>3. CASE SendMsg
  <2>1. pc = "idle" /\ pc' = "reading" /\ buffer' = <<>> /\ stdout' = <<>> /\ busy' = <<>>
        /\ stdin = <<>> /\ reply' = reply
    BY <1>3 DEF SendMsg, GoTo
  <2>2. Len(stdin') = 1 /\ stdin'[1].of = sent'
    BY <1>3, <2>1 DEF SendMsg
  <2>3. OneReply'
    BY <2>1, <2>2 DEF OneReply, OnlyLast
  <2>4. QED
    BY <1>1, <2>1, <2>3
<1>4. CASE ReadPipe
  <2>1. /\ Reading /\ OneReply /\ stdout # <<>> /\ buffer' = buffer \o stdout /\ stdout' = <<>>
        /\ buffer \in Seq(Piece) /\ stdout \in Seq(Piece) /\ busy \in Seq(Piece)
        /\ UNCHANGED <<pc, sent, reply, stdin, busy>>
    BY <1>1, <1>4 DEF ReadPipe, TypeOK
  <2>2. /\ \A i \in DOMAIN buffer : buffer[i].of = sent /\ buffer[i].is # "prompt"
        /\ \A i \in DOMAIN stdout : stdout[i].of = sent
        /\ OnlyLast(stdout, busy)
    <3>1. stdout \o busy # <<>>
      BY <2>1
    <3>2. QED
      BY <2>1, <3>1 DEF OneReply, OnlyLast
  <2>3. /\ \A i \in DOMAIN (buffer \o stdout) : (buffer \o stdout)[i].of = sent
        /\ OnlyLast(buffer \o stdout, busy)
    BY <2>1, <2>2, JoinPieces
  <2>4. \A i \in DOMAIN buffer' : buffer'[i].of = sent
    BY <2>1, <2>3
  <2>5. stdout' \o busy' = busy
    BY <2>1
  <2>6. OnlyLast(buffer', stdout' \o busy')
    BY <2>1, <2>3, <2>5
  <2>7. stdin = <<>>
    BY <2>1 DEF OneReply
  <2>8. OneReply'
    BY <2>1, <2>4, <2>6, <2>7 DEF OneReply, OnlyLast
  <2>9. QED
    BY <1>1, <2>1, <2>8
<1>5. CASE EndRead
  <2>1. /\ Reading /\ OneReply /\ buffer # <<>> /\ Last(buffer).is = "prompt"
        /\ stdout = <<>> /\ buffer \in Seq(Piece) /\ pc' = "idle"
        /\ UNCHANGED <<sent, buffer, stdin, busy, stdout>>
    BY <1>1, <1>5 DEF EndRead, EndsWithPrompt, TypeOK, GoTo, shellVars
  <2>2. Len(buffer) \in DOMAIN buffer /\ buffer[Len(buffer)].is = "prompt"
    BY <2>1, EmptySeq, LenProperties DEF Last
  <2>3. stdout \o busy = <<>>
    BY <2>1, <2>2 DEF OneReply, OnlyLast
  <2>4. busy = <<>> /\ stdin = <<>>
    BY <1>1, <2>1, <2>3 DEF OneReply, TypeOK
  <2>5. \A p \in reply' : p.of = sent
    <3>1. CASE pc = "reading"
      <4>1. reply' = {p \in Range(buffer) : p.is = "text"}
        BY <1>5, <3>1 DEF EndRead
      <4>2. QED
        BY <2>1, <4>1 DEF OneReply, Range
    <3>2. CASE pc = "creating"
      BY <1>5, <3>2 DEF EndRead
    <3>3. QED
      BY <2>1, <3>1, <3>2
  <2>6. QED
    BY <1>1, <2>1, <2>4, <2>5
<1>6. CASE SendExit \/ TerminateShell \/ CloseHandles
  BY <1>1, <1>6 DEF SendExit, TerminateShell, CloseHandles, GoTo
<1>7. QED
  BY <1>2, <1>3, <1>4, <1>5, <1>6 DEF Client

THEOREM SessionInvariant == ASSUME Tame PROVE Spec => []SessionInv
<1>1. Init => SessionInv
  <2>1. ASSUME Init PROVE SessionInv
    <3>1. TypeOK
      BY <2>1, InitTypes
    <3>2. QED
      BY <2>1, <3>1 DEF Init, SessionInv, InStep, ReplyBelongs, Reading
  <2>2. QED
    BY <2>1
<1>2. SessionInv /\ UNCHANGED vars => SessionInv'
  BY DEF vars, clientVars, shellVars, SessionInv, InStep, ReplyBelongs, Reading, OneReply,
         OnlyLast, TypeOK
<1>3. SessionInv /\ [Next]_vars => SessionInv'
  BY <1>2, ShellKeepsStep, ClientKeepsStep DEF Next
<1>4. QED
  BY <1>1, <1>3, PTL DEF Spec

\* A session that waits for the first prompt, with commands whose output does
\* not look like one, has nothing under way between two messages.
THEOREM SessionInStep == ASSUME Tame PROVE Spec => []InStep
<1>1. SessionInv => InStep
  BY DEF SessionInv
<1>2. QED
  BY <1>1, SessionInvariant, PTL

\* In such a session a reply holds only what its own command printed.
THEOREM SessionReplies == ASSUME Tame PROVE Spec => []ReplyBelongs
<1>1. SessionInv => ReplyBelongs
  BY DEF SessionInv
<1>2. QED
  BY <1>1, SessionInvariant, PTL
=============================================================================
