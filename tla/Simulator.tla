----------------------------- MODULE Simulator -----------------------------
(***************************************************************************)
(* The program around the CPU: main (main.cpp), the terminal interface     *)
(* (tui/tui.cpp) and the file of results that outlives them.  The CPU is   *)
(* what they see of it: a course of frames, one a step, that ends in a     *)
(* halt, in an exception, or never.  FTXUI hands over the events one by    *)
(* one, on the thread that also calls step(), and draws in between.        *)
(***************************************************************************)
EXTENDS Integers, Sequences, FiniteSets

CONSTANTS
  MEM_SIZE, WORD_BYTES, NUM_REGISTERS,
  Invocations,  \* command lines: see Invocation
  OldResults,   \* what the file of results may hold at first
  MaxRuns,      \* bound: command lines in a behaviour
  MaxEvents     \* bound: events that wait to be handled

\* What a step shows: the pc and stack pointer behind it, whether the pipeline was
\* flushed or stalled, the registers and memory addresses written.
Frame == [pc: Nat, sp: Nat, jumped: BOOLEAN, stalled: BOOLEAN,
          regs: SUBSET Nat, mems: SUBSET Nat]

\* A program: the frames from the one before the first step on.
Course == [frames: Seq(Frame), end: {"halts", "throws", "loops"}]

\* `loads` is FALSE when Loader::ELF returns no instructions, `built` when CPU::CPU
\* throws; `writable` when the file of results can be opened.
Invocation == [course: Course, listing: Seq(Nat), loads: BOOLEAN, built: BOOLEAN,
               headless: BOOLEAN, writable: BOOLEAN]

\* Keys, and the wheel over one of the two panels; and the task that ends the loop.
Keys   == {"q", "escape", "space", "return", "r", "h", "tab", "other"}
Wheels == {"up left", "down left", "up right", "down right"}
Event  == Keys \cup Wheels \cup {"exit"}

\* A file of results that runs have left: one header, and it is first.
Headed(lines) == \A i \in DOMAIN lines : lines[i] = "header" <=> i = 1

ASSUME SimulatorAssumption ==
  /\ {MEM_SIZE, WORD_BYTES, NUM_REGISTERS} \subseteq Nat \ {0}
  /\ Invocations \subseteq Invocation /\ Invocations # {}
  /\ \A i \in Invocations : i.course.frames # <<>>
  /\ {MaxRuns, MaxEvents} \subseteq Nat
  /\ OldResults \subseteq Seq({"header", "row"})
  /\ \A q \in OldResults : Headed(q)

VARIABLES
  phase,      \* "shell"; "headless"; "tui", its loop, or "run", the loop of `r`
  runs,       \* command lines so far
  invocation, \* the current one, or the last
  status,     \* how it ended: "ok", "failed" (exit code 1), "aborted"; or ""
  results,    \* the lines of the file of results; an absent file is empty too
  at,         \* frame the CPU is in
  halted,
  events,     \* posted and not yet handled
  quitting,   \* FTXUI has left its loop
  tab_selected, disasm_focus, regs_focus, stack_focus, show_help,
  reported,   \* what the step callback was last told: message and highlights
  drawn       \* what is on the screen; <<>> before the first frame and when an
              \* event has been handled since

mainVars == <<phase, runs, invocation, status, results>>
cpuView  == <<at, halted>>
focusVars == <<disasm_focus, regs_focus, stack_focus>>
tuiVars  == <<tab_selected, focusVars, show_help, reported>>
simVars  == <<mainVars, cpuView, events, quitting, tuiVars, drawn>>

course  == invocation.course
frame   == course.frames[at]
listing == invocation.listing
NothingReported == [jumped |-> FALSE, stalled |-> FALSE, regs |-> {}, mems |-> {}]

-----------------------------------------------------------------------------
\* Mutant of clamp_index: an index below the first line is left.
clamp_index_above(index, items) ==
  IF items <= 0 THEN 0 ELSE IF index >= items THEN items - 1 ELSE index

\* clamp_index: no line is no reason to complain.
clamp_index(index, items) ==
  IF items <= 0 \/ index < 0 THEN 0 ELSE IF index >= items THEN items - 1 ELSE index

\* stack_line_count, for the stack pointer sp.
stack_line_count(sp) ==
  IF sp >= MEM_SIZE THEN 0 ELSE (MEM_SIZE - sp + WORD_BYTES - 1) \div WORD_BYTES

\* The addresses of the lines render_memory makes: its loop, from sp.
StackRows(sp) == {a \in sp..(MEM_SIZE - 1) : (a - sp) % WORD_BYTES = 0}

\* sync_disasm_focus_with_pc: the line of the pc, if there is one.
Synced(lines, focus, pc) ==
  IF \E i \in DOMAIN lines : lines[i] = pc
    THEN (CHOOSE i \in DOMAIN lines : lines[i] = pc) - 1
    ELSE focus

-----------------------------------------------------------------------------
SimInit ==
  /\ phase = "shell" /\ runs = 0 /\ status = ""
  /\ invocation = CHOOSE i \in Invocations : TRUE
  /\ results \in OldResults
  /\ at = 1 /\ halted = FALSE
  /\ events = <<>> /\ quitting = FALSE
  /\ tab_selected = 0
  /\ disasm_focus = 0 /\ regs_focus = 0 /\ stack_focus = 0
  /\ show_help = FALSE
  /\ reported = NothingReported /\ drawn = <<>>

\* main, up to its loop.  TUI::run first puts the focus on the entry point.
Start ==
  /\ phase = "shell" /\ runs < MaxRuns
  /\ runs' = runs + 1
  /\ \E i \in Invocations :
       /\ invocation' = i
       /\ phase' = IF ~i.loads \/ ~i.built THEN "shell"
                    ELSE IF i.headless THEN "headless" ELSE "tui"
       /\ status' = IF ~i.loads THEN "failed" ELSE IF ~i.built THEN "aborted" ELSE ""
       /\ disasm_focus' = Synced(i.listing, 0, i.course.frames[1].pc)
  /\ at' = 1 /\ halted' = FALSE
  /\ events' = <<>> /\ quitting' = FALSE
  /\ tab_selected' = 0 /\ regs_focus' = 0 /\ stack_focus' = 0 /\ show_help' = FALSE
  /\ reported' = NothingReported /\ drawn' = <<>>
  /\ UNCHANGED results

-----------------------------------------------------------------------------
\* cpu.step(): the next frame, or an exception that nothing catches.
Throws == at = Len(course.frames) /\ course.end = "throws"

Step ==
  /\ ~Throws
  /\ at' = IF at < Len(course.frames) THEN at + 1 ELSE 1
  /\ halted' = (at' = Len(course.frames) /\ course.end = "halts")

\* What the step callback, which the TUI sets, makes of it.
Callback ==
  LET now == course.frames[at']
  IN  /\ reported' = [jumped |-> now.jumped, stalled |-> now.stalled,
                      regs |-> now.regs, mems |-> now.mems]
      /\ disasm_focus' = Synced(listing, disasm_focus, now.pc)
      /\ UNCHANGED <<tab_selected, regs_focus, stack_focus, show_help>>

Abort ==
  /\ Throws
  /\ phase' = "shell" /\ status' = "aborted"
  /\ UNCHANGED <<runs, invocation, results, cpuView, tuiVars>>

HeadlessStep ==
  /\ phase = "headless" /\ ~halted
  /\ \/ Step /\ UNCHANGED <<mainVars, tuiVars>>
     \/ Abort
  /\ UNCHANGED <<events, quitting, drawn>>

-----------------------------------------------------------------------------
\* The user acts; FTXUI posts the event.  The loop handles what there is when it is
\* told to end.
Post(e) ==
  /\ phase \in {"tui", "run"} /\ ~quitting /\ Len(events) < MaxEvents
  /\ events' = Append(events, e)
  /\ UNCHANGED <<mainVars, cpuView, quitting, tuiVars, drawn>>

\* The next event is e, and handling it ends without a loop.
Handling(e) ==
  /\ phase = "tui" /\ events # <<>> /\ Head(events) = e
  /\ drawn' = <<>>

\* Mutant of Quit: the event is consumed, and that is all.
QuitConsumed ==
  /\ \E e \in {"q", "escape"} : Handling(e)
  /\ events' = Tail(events)
  /\ UNCHANGED <<mainVars, cpuView, quitting, tuiVars>>

\* screen.Exit() posts the task that ends the loop.
Quit ==
  /\ \E e \in {"q", "escape"} : Handling(e)
  /\ events' = Append(Tail(events), "exit")
  /\ UNCHANGED <<mainVars, cpuView, quitting, tuiVars>>

Exit ==
  /\ Handling("exit")
  /\ quitting' = TRUE /\ events' = Tail(events)
  /\ UNCHANGED <<mainVars, cpuView, tuiVars>>

StepKey ==
  /\ \E e \in {"space", "return"} : Handling(e)
  /\ events' = Tail(events)
  /\ \/ halted /\ UNCHANGED <<mainVars, cpuView, tuiVars>>
     \/ ~halted /\ Step /\ Callback /\ UNCHANGED mainVars
     \/ ~halted /\ Abort
  /\ UNCHANGED quitting

\* `r` loops inside its handler: no event is handled and nothing drawn meanwhile.
RunKey ==
  /\ Handling("r")
  /\ phase' = "run" /\ events' = Tail(events)
  /\ UNCHANGED <<runs, invocation, status, results, cpuView, quitting, tuiVars>>

RunStep ==
  /\ phase = "run" /\ ~halted
  /\ \/ Step /\ Callback /\ UNCHANGED mainVars
     \/ Abort
  /\ UNCHANGED <<events, quitting, drawn>>

RunEnds ==
  /\ phase = "run" /\ halted
  /\ phase' = "tui"
  /\ UNCHANGED <<runs, invocation, status, results, cpuView, events, quitting, tuiVars,
                 drawn>>

HelpKey ==
  /\ Handling("h")
  /\ show_help' = ~show_help /\ events' = Tail(events)
  /\ UNCHANGED <<mainVars, cpuView, quitting, tab_selected, focusVars, reported>>

TabKey ==
  /\ Handling("tab")
  /\ tab_selected' = (tab_selected + 1) % 2 /\ events' = Tail(events)
  /\ UNCHANGED <<mainVars, cpuView, quitting, focusVars, show_help, reported>>

OtherKey ==
  /\ Handling("other")
  /\ events' = Tail(events)
  /\ UNCHANGED <<mainVars, cpuView, quitting, tuiVars>>

\* scroll_on_hover
Scrolled(focus, items, wheel) ==
  IF items <= 0 THEN focus
  ELSE clamp_index(focus + (IF wheel \in {"down left", "down right"} THEN 1 ELSE -1), items)

Wheel ==
  /\ \E e \in Wheels :
       LET left == e \in {"up left", "down left"}
       IN  /\ Handling(e)
           /\ disasm_focus' = IF left THEN Scrolled(disasm_focus, Len(listing), e)
                              ELSE disasm_focus
           /\ regs_focus' = IF ~left /\ tab_selected = 0
                              THEN Scrolled(regs_focus, NUM_REGISTERS, e) ELSE regs_focus
           /\ stack_focus' = IF ~left /\ tab_selected = 1
                               THEN Scrolled(stack_focus, stack_line_count(frame.sp), e)
                               ELSE stack_focus
  /\ events' = Tail(events)
  /\ UNCHANGED <<mainVars, cpuView, quitting, tab_selected, show_help, reported>>

-----------------------------------------------------------------------------
\* render_cpu_status
Status ==
  IF halted THEN "HALTED" ELSE IF reported.stalled THEN "STALLED"
  ELSE IF reported.jumped THEN "FLUSHED" ELSE "RUNNING"

\* The line a panel highlights, of as many as it has.
Line(lines, focus) == [lines |-> lines, focus |-> focus]

\* Mutant of Draw: the stack is drawn with the focus there was.
DrawStackUnclamped ==
  /\ phase = "tui" /\ ~quitting /\ events = <<>> /\ drawn = <<>>
  /\ disasm_focus' = clamp_index(disasm_focus, Len(listing))
  /\ regs_focus' = IF tab_selected = 0
                     THEN clamp_index(regs_focus, NUM_REGISTERS) ELSE regs_focus
  /\ drawn' = [left  |-> Line(Len(listing), disasm_focus'),
               right |-> IF tab_selected = 0 THEN Line(NUM_REGISTERS, regs_focus')
                         ELSE Line(Cardinality(StackRows(frame.sp)), stack_focus),
               status |-> Status, help |-> show_help]
  /\ UNCHANGED <<mainVars, cpuView, events, quitting, tab_selected, stack_focus, show_help,
                 reported>>

\* A frame: the panels that are shown clamp their focus first.
Draw ==
  /\ phase = "tui" /\ ~quitting /\ events = <<>> /\ drawn = <<>>
  /\ disasm_focus' = clamp_index(disasm_focus, Len(listing))
  /\ regs_focus' = IF tab_selected = 0
                     THEN clamp_index(regs_focus, NUM_REGISTERS) ELSE regs_focus
  /\ stack_focus' = IF tab_selected = 1
                      THEN clamp_index(stack_focus, stack_line_count(frame.sp)) ELSE stack_focus
  /\ drawn' = [left  |-> Line(Len(listing), disasm_focus'),
               right |-> IF tab_selected = 0 THEN Line(NUM_REGISTERS, regs_focus')
                         ELSE Line(Cardinality(StackRows(frame.sp)), stack_focus'),
               status |-> Status, help |-> show_help]
  /\ UNCHANGED <<mainVars, cpuView, events, quitting, tab_selected, show_help, reported>>

-----------------------------------------------------------------------------
\* main, behind its loop: a row, under a header if the file has none yet.
Row == "row"

\* Mutant of WriteResults: every run brings its header.
WriteResultsHeaded ==
  /\ \/ phase = "headless" /\ halted
     \/ phase = "tui" /\ quitting
  /\ IF invocation.writable
       THEN results' = results \o <<"header", "row">> /\ status' = "ok"
       ELSE UNCHANGED results /\ status' = "failed"
  /\ phase' = "shell"
  /\ UNCHANGED <<runs, invocation, cpuView, events, quitting, tuiVars, drawn>>

\* Mutant of WriteResults: only the TUI comes to it.
WriteResultsOfTui ==
  /\ phase = "tui" /\ quitting
  /\ IF invocation.writable
       THEN /\ results' = (IF results = <<>> THEN <<"header">> ELSE results) \o <<"row">>
            /\ status' = "ok"
       ELSE UNCHANGED results /\ status' = "failed"
  /\ phase' = "shell"
  /\ UNCHANGED <<runs, invocation, cpuView, events, quitting, tuiVars, drawn>>

WriteResults ==
  /\ \/ phase = "headless" /\ halted
     \/ phase = "tui" /\ quitting
  /\ IF invocation.writable
       THEN /\ results' = (IF results = <<>> THEN <<"header">> ELSE results) \o <<"row">>
            /\ status' = "ok"
       ELSE UNCHANGED results /\ status' = "failed"
  /\ phase' = "shell"
  /\ UNCHANGED <<runs, invocation, cpuView, events, quitting, tuiVars, drawn>>

-----------------------------------------------------------------------------
UserNext ==
  \/ Start
  \/ \E e \in Keys \cup Wheels : Post(e)

SystemNext ==
  \/ HeadlessStep
  \/ Quit \/ Exit \/ StepKey \/ RunKey \/ HelpKey \/ TabKey \/ OtherKey \/ Wheel
  \/ RunStep \/ RunEnds
  \/ Draw
  \/ WriteResults

SimNext == UserNext \/ SystemNext

SimSpec == SimInit /\ [][SimNext]_simVars

\* The process is scheduled; nobody has to press a key.
SimFairSpec == SimSpec /\ WF_simVars(SystemNext)

-----------------------------------------------------------------------------
SimTypeOK ==
  /\ phase \in {"shell", "headless", "tui", "run"}
  /\ runs \in 0..MaxRuns /\ invocation \in Invocations
  /\ status \in {"", "ok", "failed", "aborted"}
  /\ results \in Seq({"header", "row"})
  /\ at \in DOMAIN course.frames /\ halted \in BOOLEAN
  /\ events \in Seq(Event) /\ Len(events) <= MaxEvents
  /\ quitting \in BOOLEAN /\ show_help \in BOOLEAN
  /\ tab_selected \in 0..1
  /\ {disasm_focus, regs_focus, stack_focus} \subseteq Nat

\* run.sh appends the rows of many runs to one file, and the graphs are drawn from
\* it by the names in its first line: there is one header, and it is first.
HeaderOnce == Headed(results)

\* The lines a panel has change behind the back of its focus: the stack pointer
\* moves, also while the other tab is shown.  Whatever happened since, on the screen
\* the focus is on a line, if there is any.
OnALine(panel) == panel.focus = 0 \/ panel.focus < panel.lines

FocusOnALine == drawn # <<>> => OnALine(drawn.left) /\ OnALine(drawn.right)

\* `q` quits the simulator (src/README.md:39), also when it is pressed while `r`
\* steps the CPU, and also a program that never halts, as long as it is stepped by
\* hand.  One case is excepted, against that line of the README: `r` on such a program
\* loops in the handler (tui.cpp:98) and never comes to the `q`.
QuitQuits ==
  (phase \in {"tui", "run"} /\ \E i \in DOMAIN events : events[i] = "q")
    ~> (phase = "shell" \/ (phase = "run" /\ course.end = "loops"))

\* A program that ends leaves its row behind when nobody watches it.
HeadlessReports ==
  (phase = "headless" /\ course.end = "halts" /\ invocation.writable)
    ~> (status = "ok" /\ results # <<>> /\ results[Len(results)] = "row")
=============================================================================
