# TLA+ verification of ssgc

TLA+ models of the parts of this repository that carry its logic, TLC
configurations that check them on small instances, and TLAPS proofs of what
matters most for every instance.  All paths below are relative to
`src/projects/`.

## 1. The system and its parts

The repository holds a family of C++23 projects around the C& language: a
compiler (`cnd_box`), an application framework on SFML and Dear ImGui
(`caf_box`, `cgui_box`), an IDE library (`cide_box`), a Win32 process library
(`wpl_box`), and utility libraries (`cxxx_box`, `mta_box`, `minitest_box`).
Apart from the loading thread and the child processes everything runs in one
thread; what is hard there is user code that runs inside the library and changes
what the library is walking over, and state that a long sequence of calls must
keep consistent.

| Part | State | Operations | Interacts with | Hard behaviour |
|---|---|---|---|---|
| Window graph `caf::sys::Windows` | forest of `std::list` nodes, `live_windows_`, `graph_changing_`, `graph_dirty_`, per window: mark, frozen, freezer, frozen event, handlers, callback | Create, Destroy, Freeze, SetFrozenEvent, Close, Exists, IsAvailable, IsGraphDirty, ProcessEvents | application loop; its handlers run in the polling walk, its deallocation callbacks in the removal walk | destruction in two phases; iterators held across user code; dangling and reused addresses |
| Loading thread `caf::ProgressSequence` | two atomics, the thread, its local copies | Dispatch, Run, IsDone, Progress, Label | frame loop of `ExLoadingBanner` | two stores against two reads; joining; leaving the loop |
| Scoped widgets (`ExtImGuiWidget`, `cgui`) | per widget: begun, on, name or identifier; the name map, the identifier generator | constructors, Delayed, BeginLate, EndEarly, destructors | Dear ImGui's stack of scopes; CIDR's long-lived delayed members | who still owes an End; a counter that goes back |
| Subprocesses `wpl::RunExe` | process and thread handle, three pipes, exit code | RunExe, CreateSubrocess, ReadPipeEnd | the child process | bounded pipes, timeout, termination, failed launch |
| Shell session `wpl::CmdShell` | the same, and a directory that gives the prompt | Create, SendMsg, ReadFromStdout, Close | the shell process | a reply recognised by its last characters |
| Text editor (`cide_box`, `TextEditor`) | lines, cursor, selection, undo buffer, clipboard | every key, mouse clicks and drags, undo and redo | the IDE's menus | records of edits that must meet the text they were made of |
| Lexer and token cursor (`cnd_box`) | read head, tokens | Process, Sanitize, Advance | parser | views without an end |
| Parser | cursor, syntax tree | recursive descent | lexer | priorities, folding, scope finders |
| Compile-time evaluator (`Compeval`, `AnyValue`) | variables of the global namespace, the value returned | Evaluate, EvalSourceFile, operators | parser, source files | conversions, overflow, several files |
| Command line of `cnd` | parsed flags, mode, exit code | CliMain, the parser of flags | evaluator | values, sources and flags told apart |
| Toolchain parameters (`Backend.cpp`) | parameter table, two cache files | Load, LoadCached, Save | RunExe, files | missing return values, see section 5 |
| Entity tree (`EntityCore`, `Engine`) | branches, guarded pointers | append, erase; dispatch | - | not instantiated, see section 5 |
| Timing tools, dialogs, path helpers, menus and tabs, test framework | local | - | - | none that a model would find |

What makes each part correct: the window graph never lets the application or its
own loops touch freed memory, forgets no Destroy and tells of every removal; the
loading screen stays until loading ended and what it shows belongs together; a
widget ends exactly the scopes it began and its name is its own; RunExe returns
everything and the truth, closes each handle once and waits for ever only for a
child that never ends; a
shell reply belongs to its command; undo returns to the text that was there; no
character is lost between the text and its tokens and no token between them and
the tree; a source returns the value its expression has; what the command line names
is what is translated, and the exit code tells how that ended.

## 2. Modules

| Module | What it is |
|---|---|
| `Windows` | the window graph, its callbacks and its walks |
| `WindowGraph` | what the class promises: create, destroy, one sweep; implemented by `Windows` |
| `WindowsInv` | the inductive invariant of `Windows`, in two parts: `IInv`, and `SInv` which adds what the removal walk achieves |
| `WindowsProofs` | lemmas on forests, lists and stacks; preservation of `IInv` action by action, then of `SInv`; the refinement of `WindowGraph`; theorems |
| `MCWindows` | instance for TLC, with the symmetry of addresses |
| `ProgressSequence` | the loading thread and its two atomics |
| `LoadingBanner` | the frame loop, composing `ProgressSequence` (EXTENDS) and `Windows` (INSTANCE) |
| `LoadingBannerInv`, `LoadingBannerProofs`, `MCLoadingBanner` | its invariant, proofs and instance |
| `Widgets`, `WidgetsProofs`, `MCWidgets` | scoped widgets over Dear ImGui's stack; proofs; instance with symmetry |
| `RunExe`, `RunExeProofs` | the caller, the child and the pipes; its proofs |
| `CmdShell`, `CmdShellProofs`, `MCCmdShell` | a session with a shell process; proofs; instance |
| `Lexer` | the loop that cuts a text into tokens |
| `TkCursor` | the token cursor, the nodes of syntax trees, the table of binary operators, and what makes a node right |
| `Parser` | the bodies of the rules of the recursive descent, with what they call as a parameter |
| `ParserProofs` | proofs about `Parser`: whatever is accepted is a right tree |
| `AnyValue` | values, literals, conversions and the sixteen binary operators |
| `Translation` | what the compiler and the command line share: the source files and how translating them ended |
| `TrUnit` | `TrUnit::Evaluate`, composing `Lexer`, `AnyValue` (EXTENDS) and `TkCursor` (INSTANCE), and the body of `EvalPrimaryExpr`; what the parser answers and an expression evaluates to are parameters |
| `CommandLine` | the command line of `cnd`; a translation takes steps, of which it sees the outcome |
| `Program` | the program `cnd`: `CommandLine` whose translation is `TrUnit`, with any answers and values |
| `Compiler` | `Program` with the parser of `cnd` (`Parser`) and its evaluator, which here call themselves |
| `CompilerProofs` | proofs about `Lexer`, `CommandLine`, `AnyValue` and `Program`, first with any parser and evaluator, then with those of `cnd` (`ParserProofs`) |
| `MCCompiler` | texts, expressions with their meanings, programs and command lines to run it on |
| `TextEditor`, `MCTextEditor` | one open file in the editor; instance |
| `TextEditorInv`, `TextEditorProofs` | its inductive invariant; lemmas on columns, texts and edits, preservation, theorems |

Type invariants are checked as a conjunct of the inductive invariant where there
is one (`SInv`, `Inv`, `SessionInv`, `IdentitiesHeld`), and of `RecordsFit` in the
editor.

### Windows

`caf_box/src/CAF/System/Windows.cpp`, `Windows.hpp`; the tree itself is
`list_node_base` in `cxxx_box/inc/cxxx_tree.hpp:697-800`.

* `branches` is the list of children of every node; the detached windows
  (`windows_`) are the list at the pseudo-node `Roots`.  `win` holds the other
  members, `live` is `live_windows_`, `changing` and `dirty` are the two flags.
  A node is its address: a freed address may be allocated again.
* The C++ stack of the walk in progress is the variable `stack`, one frame per
  suspended loop with the position of its iterator: forward loops count the
  children they are done with, the reverse loops of the removal keep the base of
  their reverse iterator.  This is what makes re-entrancy visible: user code may
  change the lists while the frames are suspended.
* `pc` says whose code runs: the application between two passes (`main`), a
  handler (`handler`), a deallocation callback (`callback`), or the two walks
  (`removing`, `polling`).
* `Create`, `Destroy`, `Freeze`/`Unfreeze` (the two branches of
  `Node::Freeze`), `SetFrozenEvent`, `Close` are the calls of user code;
  `ClientOps` and `CallbackOps` say which it makes from where.
* `ProcessEvents` starts a pass.  `ApplyNext`/`ApplyDone` are the loop of
  `ApplyWindowRemoval` and the `remove_if` after it, `RemoveNext`, `RunDealloc`,
  `DeallocReturns` the mutually recursive `RemoveWindows`/`RemoveSubwindows`,
  with `Close`, `prune` and the erasure from `live_windows_` after the callback.
  `PollNext`, `HandleEvent`, `HandlerReturns`, `Drained`, `PollReturns` are the
  event loops of `ProcessEvents` and `apply_branches`.
* External: SFML's event queue is a counter per window (`Arrive`, `HasEvent`);
  `std::list::remove_if` is stated by what it leaves (`IsRemainder`).
* `removed`, `deallocs` and `freezerFreed` are history variables.

Assumed: user code passes only pointers for which `Exists` holds, the rule the
class documents, and one handler stands for the list of handlers of a window.
`Node::Reset` is called by nothing and left out; so are drawing, title, size and
`GetLast`/`GetCurrent`.

### ProgressSequence and LoadingBanner

`caf_box/inc/CAF/Tool/ProgressSequence.hpp`, `caf_box/src/CAF/Demo/ExLoadingBanner.cpp`.
`Dispatch`, `Start`, `RunStep`, `StoreProgress`, `StoreLabel`, `End` are the
statements of `Dispatch` and `Run`; a step leaves any progress, out of range and
`kError` included.  A label is the number of the step that chose it.  The frame
loop is one action per statement that the thread can interleave with: the loop's
condition and Destroy (`LoopTop`), the call of ProcessEvents, the pass itself
(the actions of `Windows`), the test (`TestDone`) and the blocking `Join` apart,
and the two reads of a frame.  `Leave` includes the destructor of the thread
object: joinable, it terminates the program.

### Widgets

`caf_box/src/CAF/Extension/ExtImGuiWidget.cpp` and `.hpp`, of which
`cgui_box/src/cgui.cpp` is a copy.  The eight classes differ in three things,
which is what their records hold: the scope they begin, whether End is owed even
when Begin answered false, and what identifies them.  `MakeNamed`,
`MakeSubcontext`, `MakeMenuBar` are the constructors, which begin at once or are
delayed; `BeginLate`, `EndEarly` and `Destroy` the rest of an object's life.
`GetId` and `EraseId` are `UIDGen` statement by statement: the counter moves on
before the set is asked, `PopId` erases `next_id_` instead of the number
released, and which element a hash set ends with (`std::prev(end())`) is a choice
of the library.  `SIZE_MAX` stands for itself, scaled down.

External: Dear ImGui's stack (`scopes`), on which Begin and BeginChild push
whatever they answer and the others only when they answer true; End pops the
innermost scope, whichever object called it.  Assumed of the user: scopes are
ended innermost first (`MayEnd`), which C++ scopes and CIDR's frames keep.

Left out: copies and moves (a copied widget would end its scope and release its
name twice; nothing in the repository copies one), the close button, widgets
without a scope, and `DirectoryView`, whose raw `TreeNode` stays open when the
directory iterator or a callback throws.

### RunExe

`wpl_box/src/wpl_core.cpp:255-460`.  `CreatePipes`, `CreateProcess`,
`CheckCreated` are `CreateSubrocess`; `CheckActive`, `Wait`, `Terminate`, `Reap`
the waiting part; `ReadStep` one round of `ReadPipeEnd`; `CloseAndReturn` the
lambda `xCloseHandles`.  The child (external) writes to its two outputs, reads
its input, exits, or does nothing any more; a write blocks on a full pipe, and
nobody writes to its input.
TerminateProcess only asks for the end: a write may complete after it.  Bytes
are counted, since a pipe keeps their order.

### CmdShell

`wpl_box/src/wpl_core.cpp:485-589`, `wpl_box/inc/wpl_core.hpp:310-376`.  The
state is what the client holds (`pc`, the buffer of the read in progress, the
last reply, `exit_code_`) and what the shell holds (its state, its directory, the
lines it has not read, what it still has to print, two pipes).  Output is a
sequence of pieces, each the text, the error or the prompt of one command; the
prompt carries the directory it shows, and `EndsWithPrompt` compares that with
the directory of the constructor, as `GetCurrentPrompt` does.  `Create`,
`SendMsg`, `ReadPipe` and `EndRead` are the calls and the loop of
`ReadFromStdout`; a read's condition is tested only when the pipe is drained.
`SendExit`, `TerminateShell` and `CloseHandles` are `Close`; the last includes the
call of TerminateProcess on the handle just closed (`wpl_core.cpp:561`), which
fails and changes nothing as the shell has ended then.  The shell
(external) reads a line when it has printed all it had to, and blocks on a full
pipe: stdout, which the client empties, or stderr, which nobody reads.

Left out: a launch that fails (the failure is `CreateSubrocess`'s, see
`RunExe`), the moved-from session whose destructor closes the new owner's shell,
a second `Create` after `Close`, and the chunks of `WritePipeEnd`.  The
model also has output that looks like the prompt (the command `lookalike`) and a
`Create` that does not wait for the banner; with either, `InStep` fails, and the
run stays without them since nothing in the repository says more.

### Lexer, Parser, AnyValue, TrUnit, Compiler

`cnd_box/inc/frontend/lexer.hpp`, `parser.hpp`, `cnd_box/inc/hir/AnyValue.hpp`,
`Compeval.hpp`.  A step of `Lexer` is one iteration of `Process`, with one action
per kind of token; a token is its type and the range of characters it was cut
from.  `Parser` has one operator per production `ParseSyntax` reaches, with the
scope finders; the levels of binary operators are one operator and a table
(`Levels`).  A rule that is called from within itself, and the loops of the code,
are split in two: `ParsePrefix(c)` asks the parameter `Parse` for the answer to a
goal, and `ParsePrefixRule(c)` is the body.  A result is a node, a failure, or `UB`
where the code runs off the end of a function or reads past the last token.  `AnyValue` keeps the width
of the integers, scaled down by `Width`: C++'s conversions, the wraparound of
unsigned types and the traps of division are computed; a signed type that overflows
has no value (`Undefined`), and the run ends there.  A step of `TrUnit` is one stage of a file or
one statement of the global namespace.  `TrUnit` leaves open what the parser
answers and what an expression evaluates to; `Compiler` ties both knots: its
`Parses` is RECURSIVE and answers a goal with the body of its rule
(`Grammar!Production`), and its `EvalPrimaryExpr` calls itself for both operands.
Those two definitions are the only RECURSIVE operators of the model, since the
prover has no SMT backend for them; everything around them can be proved about.

The lexer ignores the vertical tab, which TLA+ cannot spell, and writes the
backtick as an apostrophe.  The run keeps to texts on which the code's behaviour
is defined or stops at it (`"ub"`): an unclosed literal or comment at the end of
the view, an unclosed parameter list, `back()` of an empty file
(`Compeval.hpp:113`), the branch of `EvalPragmaticReturnStmt` without a return
value (`Compeval.hpp:184-194`).

What the code does and a reader might not expect, all of it in the model:
* `&&`, `||`, `^`, `<<` and `>>` of values are copies of division, so that 7 >> 2
  is 3, 5 << 2 is 2 and 12 ^ 25 is 0 (`AnyValue.hpp:1121-1418`, against the examples
  1.9, 1.7 and 1.10 of `cnd_box/ut/res/test-code/runtime`: 1, 20 and 21);
* `>>=` is lexed as `>>` and `=`: the test asks the second character to be both
  `>` and `=`;
* `FindScopeImpl` refuses a scope that holds another one: inside, the closing
  token is asked of the outer opening token; `proc` needs a modifier before it,
  and its block never parses; the categories of an enum never parse;
* a parameter whose type begins with an identifier loses the type;
* the name of an alias is not looked at: `using @+: int;` is accepted, and the
  tree holds a `+` without operands (`parser.hpp:1460-1481`);
* a file that runs to its end without a `return` ends the whole unit: its
  `EvalSourceFile` answers true and `Evaluate` takes that for the end.  A file
  that returns answers false, and `Evaluate` goes on with the next one
  (`Compeval.hpp:155`, against its comments at 147 and 160-161).

### CommandLine

`cnd_box/src/Main.cpp`, `cnd_box/inc/cli/CliDriver.hpp`, `CliParser.hpp`.
`ParseFlag`, `ParsePositional`, `ParseCommand` are the rounds of the parser of
flags, first with the table of the program, then with that of the command;
`Translate` hands over the sources, `HandlePostCompilation` makes the exit code.
Between the two the module sees that translating goes on or has ended
(`Translates`).  `Program` joins this action and `Running` of `TrUnit` (`Compile`), so that
every step of the program is a step of `CliSpec` or leaves the command line alone,
and what is proved about `CliSpec` holds of the program.  What the code does and its texts say otherwise:
* `-c`, `--comp` and `--help` reach `std::unreachable`, although
  `CliDriver.hpp:31-41` documents `-c | --comp | comp`;
* `help`, `version` and no arguments at all exit with 1, where the tests at
  `UtCompilerCli.hpp:47-66` assert `EXIT_SUCCESS` (`CliDriver.hpp:440`, `461`);
  `ExitTells` is about `comp` and says nothing of these lines;
* one source only is taken, although the flag is repeatable and
  `CliParser.hpp:68-69` says the rest is consumed; a repeated flag is no error
  (`CliParser.hpp:70`); `--|end-of-args` is unknown; text glued to a flag with a
  value is ignored; the verbose and debug flags silence the log;
* `comp` without a source translates nothing, prints an uninitialised value and
  exits with 0;
* a value missing at the end of the line, and `-D`, are undefined.

### TextEditor

`cide_box/cidr_library/src/UserInterface/TextEditor.cpp`.  A text is a sequence of
lines of characters; coordinates are the code's, where a tab fills the columns
up to its stop, so an index and a column differ.  There is one action per key and
mouse button, `Undo`, `Redo`, `Copy`, `Cut`, `Paste` and typing with and without
a selection, overwrite and automatic indentation included.  `past` records the
text at each place of the undo buffer, and `exact` whether one of the operations
was used that record wrongly what they did:
1. pasting a tab, or inside a tab: `InsertTextAt` counts one column, which
   contradicts what `TextEditor.hpp:70-76` says of coordinates;
2. backspace on a tab wider than a column;
3. delete with the cursor inside a tab;
4. a new line that copies an indentation (redo loses it);
5. overwriting with a selection (redo restores another text);
6. taking the tabs from lines that become shorter than the selection, to which
   redo returns (found through `CutPutsBack`).
`HistoryExact` excludes these by name; that not even they lead undo outside the
text is `RecordsFit`.  `Pages` are the lines PageUp and PageDown move by
(`GetPageSize() - 4`): in a low window it is negative, and PageUp puts the cursor
below the text; `SelectionInText` holds nevertheless.  Delete with the cursor inside
the last tab of a line reads behind the line (`TextEditor.cpp:1671`), which is
undefined; whatever length it reads there, a release build erases nothing, and that
is what the model does (a build with checked iterators stops).  The first click and
the drag that may follow it are part of `Init`.

Left out: selecting and moving by words and lines, colours, breakpoints, error
markers and read-only mode (which the program never sets), and characters of
several bytes, which count as one.

## 3. Runs

| Run | Instance | Shows |
|---|---|---|
| `windows_live` | 3 windows, created and destroyed from the loop, handlers and (detached ones) callbacks, fairness; 46,864 states | the inductive invariant `SInv`, types, `IteratorsValid`, `ExistsExact`, `SubwindowsGoFirst`, `RequestsKept`, `DirtyTellsRemoval`, `FreedOnceTidied`, `DestroyTakesEffect`, and that `Windows` implements `WindowGraph` (`KeepsPromise`) |
| `windows_frozen` | 2 windows, closing, freezing and frozen events; 478 thousand states | `FrozenEventBound` |
| `windows_reentrant` | callbacks that Destroy | finding: freed memory for which `Exists` holds |
| `windows_focus` | freezing and address reuse | finding: focus goes to a window that is not the freezer |
| `loading_banner` | 3 steps, progress in -1..3 of 2 | `BannerOutlivesLoading`, `LabelCloseBehind`, `LoopJoinsFirst`, `LoadingEnds`, types and the inductive invariant |
| `loading_error` | 2 steps | finding: `kError` stops nothing |
| `widgets` | 3 widgets of any class, 2 names, 3 identifiers; 284 thousand states up to symmetry | `ScopesNest`, `IdentitiesHeld` |
| `run_exe` | pipes of 3 bytes, reads of 2, outputs up to 5; 1,772 states | `OutputComplete`, `ExitCodeTrue`, `HandlesClosedOnce`, `EventuallyReturns`, types and the inductive invariant |
| `run_exe_launch` | the same | finding: a program that was not started is a success |
| `cmd_shell` | 4 commands (text, error output, cd, exit), 2 directories, pipes of 2 pieces; 761 states | `InStep`, `ReplyBelongs`, `ReadsEnd`, `CloseEndsShell`, types and the inductive invariant |
| `cnd_front` | every text of up to 3 characters over 14, every arithmetic tree of two operators, every pair of binary operators, a program of each declaration, sequences of files, command lines; integers of 7 bits; 57,387 states | `LexTiles`, `ExpressionsTile`, `OperatorsBind`, `ReturnsItsMeaning`, `TranslatesWhatIsNamed`, `ExitTells`, `ProgramProgresses`, types |
| `text_editor` | 2 files, tabs of 2 columns, 3 edits, 1 other key, pages of -1 and 2 lines; 725 thousand states | `HistoryExact`, `RecordsFit`, `SelectionInText`, `CutPutsBack`, `EditsStayLocal`, types |

Bounds.  Three windows give the shapes that matter to the walks: a root with two
siblings below it, a chain of three, roots side by side, and an address that is
used again; one queued event per window (`MaxEvents`) is enough for each handler
to run in every pass, and passes repeat without bound.  The proofs do not depend
on either.  Three steps let a progress of 1 come first, in the middle and last.
Three widgets nest three deep and can hold three identifiers, of which one is
released while the others stay and the counter meets them again; four is where
the generator stops, so refusals of both kinds happen.
A pipe of 3 with reads of 2 has full, partial and odd reads, and an output of 5
overflows the pipe; one of the exit codes is STILL_ACTIVE itself.
Four commands reach a second error output that fills stderr, a cd away and back,
and a message to a shell that has ended; outputs of two texts and a prompt
overflow a pipe of two.
The characters of the short texts begin, end or join every kind of token, and a
token's end never depends on more than two further characters; two binary
operators decide the shape of a tree, so every pair of them decides every
priority; 7 bits let the products of the trees overflow the narrow kinds and keep
those of an int.  Three edits are the fewest that make a record, undo past it and
cut it off by another, and two columns make a tab differ from a character; the
files begin and end lines with a tab, and every selection is tried first.  A page
of -1 leaves the text below its end, and one of 2 leaves two lines at either end.

`windows_live` has no deallocation callback that destroys a window
(`TameCallbacks`); `windows_reentrant` has them, and is the run that shows
`ExistsExact` going wrong with them.

What a source returns (`ReturnsItsMeaning`) is compared with a meaning that
`MCCompiler` builds beside the text: the value in C of an expression of `+ - * / %`
with parentheses, on ints in range.  A source of `Meanings` that has one must return
it, and one that has none (a division by zero, a name without a value) must return
nothing.  Sources whose value in C is beyond this meaning, such as a comparison, a
negation, a number with a fraction or one that overflows, are run too
(`Unevaluated`), for the other properties.

`run_exe` does not check deadlock because the system stops: RunExe returns, or
waits for ever for a child that does not end, which `EventuallyReturns` pins down; nor does
`cmd_shell`, whose session ends or stays idle after its last message; nor does
`text_editor`, which stops at its bounds.

Fairness.  `Windows`: weak fairness of the library's own steps, that is, the
application's loop keeps calling ProcessEvents (every demo is built around that
loop), and handlers and callbacks return.  No fairness is assumed of user calls
or events; events arrive between passes, so a pass ends.  `LoadingBanner`: weak
fairness of either thread, and steps that return.  `RunExe`: weak fairness of
the caller and of the death of a child that is being terminated; a finite timeout
expires.  The program itself owes nothing: it may loop or sleep for ever, and with
an infinite timeout RunExe then never returns, which is the first half of
`EventuallyReturns`.  The second is about programs that go on until they exit: its
hypothesis is the fairness of the child, which writes `MaxOut` bytes to a pipe at most, and of
these only one that is blocked on a pipe is waited for for ever.  `CmdShell`: weak fairness of the client's calls
once begun (its loops poll without end) and of the shell process; sending and
closing are the application's choice.  `ReadsEnd` names the three ways a read may
never end with the commands that are modelled: the directory changed, the shell
ended, or it is blocked on stderr.  A command that itself never ends is not among
them; the client would poll for ever.
The compiler is one sequential program: instead of fairness, `ProgramProgresses`
gives a variant that every step lowers, and the deadlock check shows that a state
without a step is an end.  It says that a translation ends, not that it goes
through all its files, which it does not (see the compiler above).  Widgets and the
editor wait for their user: nothing has to happen.

Findings.
1. A deallocation callback that destroys a window the removal loop has passed:
   it is freed without its callback and `Exists` keeps answering true for it
   (`Windows.cpp:341`, against `Windows.hpp:189`).
2. The frozen event focuses whatever window now has the freezer's address
   (`Windows.cpp:239`, against the comment at 237).
3. A step that reports `kError` does not end the sequence and `failed` is never
   set (`ProgressSequence.hpp:60`, against 53-54).
4. The test for a failed launch, `!proc_init && proc_init != S_OK`, never holds
   (`wpl_core.cpp:296`, against its comment and `wpl_core.hpp:260`).

Disagreements the models contain without a run of their own: those listed under
CommandLine, TextEditor and the compiler above; that `CmdShell::Close` gives the
shell no time to read the exit it has just sent and terminates it
(`wpl_core.cpp:548`, against `wpl_core.hpp:325`: "Wait for up to timeout for process
to exit, then force terminate."), where `CloseEndsShell` says what holds all the same,
that whichever end comes first the shell has ended and the code reported is its own;
and that a subcontext made after
one was destroyed may be refused with "UIDGen: ID exists", since `PopId` leaves
the released identifier in the set (`ExtImGuiWidget.cpp:28`, against the comment
at 33).  `RefusedOnce`, a conjunct of `IdentitiesHeld`, says how far that goes:
the request after a refused one is granted.

## 4. Proofs

`WindowsProofs` proves `Invariant`, `TypeCorrect`, `ExistsSound`,
`IteratorsHold` and `SubwindowsFirst`: `Spec => []` of `IInv`, `TypeOK`,
`ExistsExact`, `IteratorsValid`, `SubwindowsGoFirst`, for any set of addresses
and any number of events.  The hypothesis `TameCallbacks` excludes deallocation
callbacks that destroy windows or open subwindows; `windows_reentrant` shows
that without it the invariant fails.  `FrozenEventsBound` needs no such
hypothesis.

The properties are not inductive: that an iterator is valid depends on how the
stack came about, and that a window in no live list may be freed depends on what
suspended loops have done.  `IInv` adds
* the graph: every node has one place (`SinglePlace`), free addresses own
  nothing (`FreeEmpty`), live windows are allocated;
* the stack: each frame's node is the child its caller stands at (`Linked`), no
  node occurs twice and the last frame is at `Roots` (`Shape`), one kind of walk
  (`Walks`);
* progress of each frame (`FrameOK`): what a removal loop has passed is taken
  down and empty, what a search loop has passed and is marked is dead;
* the reverse (`Accounted`): a window that no longer exists but is not freed was
  passed by a loop that is still suspended.

Reachability is the least closed set (`SubtreeOf`) rather than a recursion, so
facts about it are proved by exhibiting a closed set: `WindowsProofs` proves the
effect of appending a node and of freeing a subtree (`FreeKeepsForest`) once, and
the step of each action rests on those.  `ApplyDone` and `DeallocReturns`, where
memory is freed while frames are suspended, are the long ones.

It also proves, under the same hypothesis, that the walk does what a
sweep should: `RequestsAreKept`, `DirtyIsTrue`, `TidiedBeforeFreed`, and
`KeepsItsPromise`, that `Windows` implements `WindowGraph` (`Promise!Spec`; the
fairness of the sweep, the rest of `KeepsPromise`, is TLC's).  For these `SInv`
adds to `IInv`
* `Searched`: what a search loop is done with is marked itself or holds no marked
  window, so that a search that ends has found every request.  Here the order of
  the code matters: `ApplyDone` filters a list after its loop, so a marked child
  that was removed is still in the list while the loop goes on;
* `Condemned`: a removal loop is only ever inside a doomed window, so that a sweep
  frees nothing else;
* `Tidied`: a callback has run once exactly for the windows that no longer exist,
  and for the one whose callback is running;
* `Pending`: between two passes `graph_changing_` is set exactly if a window is
  marked, and `graph_dirty_` exactly if the last pass freed one.
The refinement maps `Free` to the end of a callback (`DeallocReturns`), where the
window leaves `live_windows_`, and not to the freeing of its memory.

`LoadingBannerProofs` proves `BannerTypes`, `BannerStaysUp`,
`LabelNeverFarBehind` and `LoopJoins` for any number of steps and any windows.
Its invariant says that before the join nothing destroys or closes a window, so
that the removal walk never runs, and that after it the thread has ended; and
that the label published is at most one step behind the progress published.

`WidgetsProofs` proves `ScopesAlwaysNest` and `IdentitiesUnique` for any widgets,
names and `SIZE_MAX`.  The first rests on one fact about the classes: End is
called whatever Begin answered exactly for those whose scope Begin always opens
(`ForceWhereOpened`).  Uniqueness of identifiers is not inductive, because the
counter goes back; `IdsBehind` is the strengthening: no identifier in use is ahead
of the counter, and one is level with it only while the last element of the set
belongs to no widget, so that no further release can move the counter back before
a new element is inserted.

`RunExeProofs` proves `RunExeTypes`, `RunExeOutput`, `RunExeExitCode` and
`RunExeHandles` for pipes of any capacity; the invariant (`Inv`) says at which
places a process exists, and that from the read on it is dead, so that the pipe
only shrinks.

`CmdShellProofs` proves `SessionTypes`, `CloseEnds`, `SessionInStep` and
`SessionReplies` for any commands, directories and capacities, the last two under
`Tame`: Create waits for the prompt, and no command prints something that looks
like it.  `SessionInv` says that while a read is in progress one message is under
way: it waits in stdin, or its output is in three parts, what was read, what is in
the pipe and what is still to be printed, of which only the very last piece is a
prompt (`OneReply`).  A read that ends at a prompt has therefore emptied the
others.

`TextEditorProofs` proves `TypesHold`, `UndoIsExact`, `RecordsName`,
`SelectionStays`, `CutIsUndone` and `EditsAreLocal`, for any characters, tab stop,
files, clipboards, pages and number of edits; the one assumption of substance is that
a file or a clip has a line and that its lines are made of the alphabet
(`TextAssumption`).  None of
them is inductive: what undo does next was decided edits ago.  The invariant
(`TextEditorInv!Inv`, theorem `EditorInvariant`) has two parts.
* `Room` holds whatever was done.  Each place of the undo buffer has a number of
  lines (`room`), at most those of the text where the buffer stands, and each
  record fits the numbers of the places on its two sides: what it takes out is
  there, where it puts something back is there, and enough lines remain for the
  record that follows.  Numbers and not texts, and at most and not exactly,
  because an operation that records wrongly leaves a buffer that no longer leads
  from text to text: undo and redo of an overwritten selection add lines each
  time.  They never lose any, which is why no assert of `DeleteRange` fails.
* `Exact` holds while `exact` does: undoing record i turns text i + 1 of `past`
  into text i, redoing it turns it back (`Tells`), and the selections of the record
  lie in the columns of these texts.
The argument has three layers.  First coordinates: a column is the value of a
recursive function along a line (`GetCharacterColumn`), which is shown to grow, so
that an index, its column and the index of that column are the same
(`PlaceIs`).  Then texts: `DeleteRange`, `GetText` and `InsertTextAt` are shown to
be a splice, two parts of a line and the lines between them, hence `TakeOut` and
`PutBack`: deleting what was inserted, and inserting what was deleted where it was
deleted, give back the text.  Then keys: every edit goes from the text by what it
removes to a text in common, and from there by what it adds (`EditKeeps`), so that
one lemma makes its record exact; indentation, which changes many lines and
records them as one, is shown separately.  `EditsAreLocal` follows from the
splices.

Recursion over a line is within reach after all, although the library's induction
theorems are not: a set of numbers has a least element (`LeastNumber`, from the
well-foundedness of strict subsets), so the set of the indices for which a fact
holds can stand for the predicate (`UpTo`).

`Room` quantifies over all functions into the naturals, so TLC cannot evaluate it
and no run lists `Inv`; it was checked while it was developed, with an explicit
witness.  `text_editor` checks what follows from it.

`CompilerProofs` begins with `ProgramSpec(Answers, Values)`: the program `cnd` with a
parser that answers anything in `Answers` and expressions that evaluate to
anything in `Values`.  The invariant `ProgramInv` (theorem `ProgramInvariant`) has
the lexer's part (`LexInv`), the command line's (`CliInv`, `CliRest`), what the
files are (`FilesFit`, `NamesFit`), what a stage leaves to the next (`StageFits`)
and the values of the variables (`ValuesFit`).  From it follow
* `TokensTile`, for texts of any length: every kind of token ends behind the read
  head and not behind the text, although the first view holds a NUL and the later
  ones do not (`RunEnds`, `EndsInText`);
* `ProgramTypes`, with the range of every variable and of the value returned;
* `ProgramEnds`: the measure `Work` is five numbers in lexicographic order, of
  which a step lowers one and none before it grows (`Lexicographic`,
  `WorkDecreases`).  The step that is not obvious is the lexer's: it passes at
  least one character or stops (`LexAdvances`);
* `ProgramIsCommandLine`: `ProgramSpec(Answers, Values) => CliSpec`, without any
  hypothesis, so that what is proved of the command line by itself holds of the
  program.

Their hypotheses: `Answering`, an answer that succeeds is a tree with a sequence
of children; `Evaluated`, a value is in the range of its kind or there is none;
`Strings`, a text is a sequence of characters and the empty one has none, which
the provers do not know of strings.  `OperatorsStayInRange` shows for every width
(`PowersOfTwo`) that an operator given values in range answers one in range, or
none.

`ParserProofs` discharges `Answering`, and says more.  A node is right (`Fits`) when
it tiles and binds (`Tiles`, `Binds`), and when it has what the evaluator asks of
it; a tree is a node in a set that is closed under children and holds only right
nodes (`Forest`, `Tree`), which states a fact about all depths without a recursion.
`ExpressionsAreRight` and `StatementsAreRight` go from the last token back to the
first (`FromTheEnd`): what every rule answers from position p on is shown from what
all of them answer from later positions, and from the rules that are before it in
the order in which they call each other without taking a token: operand,
resolution, postfix, prefix, the thirteen levels of binary operators; then
statements.  The hard part is the folds.  The left operand of a chain grows while
its priority stays, so a fold is shown for any accumulator that covers the tokens from
anywhere before p up to p and binds at least as tightly as the level (`Extends`,
`Expr`; `Acc` for the lists of statements).  `ProgramsAreRight` is the result for a file.

Its two hypotheses.  `Lexed`: no token has the type of an inner node, which
`CompilerProofs` derives of all tokens the lexer makes and `Sanitize` keeps
(`SanitizedTokens`).  `Recursion`: `Parse` answers what the bodies of the rules say,
at every position of the file.  This is what `Compiler` defines `Parses` by; it is a
hypothesis because the prover cannot look into a RECURSIVE operator.  It is not an
empty one: a rule calls others at a later token, or at the same token lower in the
order above, and at the end of the tokens every rule stops, so that the equations
have a solution, and at these goals only one.  The list of a method's parameters
is the only rule that counts something else, the scopes it has left.

The second half of `CompilerProofs` puts the parser and the evaluator into the
program.  `Grammar` is `ParserProofs` over the tokens at hand.
* `ParsingInvariant` adds to `ProgramInv` that the tokens are tokens and that the
  tree evaluated is right (`ParsedInv`); hence `ExpressionsAreTiled` and
  `OperatorsAreBound`, whatever expressions evaluate to, files of any length, trees
  of any depth.
* The evaluator: `ExpressionsAreSound` is the induction over trees, on the number
  of tokens a node covers, which an operand has fewer of because right nodes tile
  (`Narrower`).  Its leaves are the literals: the tokens of a number are digits
  (`ReadableInv`, `WhatIsPushed`), so `Decimal` reads a number that the test of
  `I32FromLiteral` can refuse (`LiteralDigits`).  `Evaluation`, like `Recursion`, is
  the equation that `Compiler` defines `EvalPrimaryExpr` by, asked of right trees.
* `CompilingSpec` is `CompilerSpec` of `Compiler` with `Parses` and `Evaluates` any
  operators that satisfy these equations.  `CompilerInvariant`, `CompilerIsRight` and
  `CompilerEnds` state of it, without `Answering` and `Evaluated`: `TypeOK`,
  `LexTiles`, `ExpressionsTile`, `OperatorsBind`, `TranslatesWhatIsNamed`, `ExitTells`
  and `ProgramProgresses`.

Two attempts failed for good reasons.  `ExpressionsTile` was false as it stood:
the name in `using @+: int;` is a `+` without operands, whose operands the property
then looked at; `Tiles` and `Binds` now speak of operators that have operands, and
the run has this program.  And two rules had overlapping guards in a CASE, which
leaves the choice open; they are IF and ELSE now, in the order of the code.

`CompilerProofs` also proves `NamedIsTranslated` and `ExitIsTrue`, for command lines of any
length and any files.  The invariant (`CliInv`, theorem `CommandLineInvariant`)
relates the flags parsed so far to the part of the line that is behind the reader:
the sources among them, at most one, are the arguments which that part names.
What an argument means depends on the one before it, so the invariant also says
that behind the command the argument just read is plain: a flag and its value are
read in one round, and the reader never stands between them.  Whether a flag takes a value is decided by the
last of the entries with its name (`GreatestNumber`, `NamedFlag`).

Only model-checked.
* Everything with fairness, since liveness and ENABLED are beyond the prover:
  `DestroyTakesEffect`, the fairness in `KeepsPromise`, `LoadingEnds`,
  `EventuallyReturns`, `ReadsEnd`.
* `ReturnsItsMeaning`, which compares what a source returns with a meaning given
  to its text in `MCCompiler`: what recursive definitions compute, not what they
  keep to.
* That `Parses` and `EvalPrimaryExpr` of `Compiler` satisfy `Recursion` and
  `Evaluation`: they are defined by these equations, of which `cnd_front` computes
  the answers.

## 5. Not modelled, and why

* Toolchain parameters (`Backend.cpp`): the IDE's main function never reaches
  them, and the paths that succeed in `LoadCached`, `DownloadVswhere` and the load
  of repository parameters end without a return value, so that what follows a
  cached start is undefined.
* The entity system: `EntityCore.hpp` does not compile when instantiated
  (`RemoveGuard` names a member `EntPtrGuard` lacks, `void` functions return
  `nullptr`), nothing instantiates it, and a dispatch to an empty chain of
  handlers dereferences null (`ProcEvents` tests its pointer the wrong way round).
* The evaluator's floating-point numbers, strings, arrays, iterators and the
  reference counts of `RefObject`: no source text reaches them; the evaluator
  behind `Compeval.hpp:334` is commented out, and so is `src/CliDriver.cpp`.
* Stopwatch, Timeline, Timeframe: differences of clock readings in one thread.
* Drawing: Dear ImGui calls, colours, menus and tabs; `GLWindow`'s copy of Freeze;
  thin wrappers of Win32 calls, dialogs and paths; the test framework and the
  header utilities, of which the list tree is part of `Windows`.
* Vendored and generated code, and duplicates: `cgui.cpp` of `ExtImGuiWidget.cpp`,
  CIDR's `LoadingSequence` of `ProgressSequence`.

These are most of the repository's lines, which is why the share that the models
translate stays small although the components with state and decisions are there.
