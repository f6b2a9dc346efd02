-------------------------- MODULE Simulator_proofs --------------------------
(***************************************************************************)
(* The invariants of Simulator, for every course of a program, every       *)
(* listing, every file of results and any number of runs and events.       *)
(***************************************************************************)
EXTENDS Simulator, SequenceTheorems, FiniteSetTheorems, TLAPS

\* An invocation and its course, part by part.
LEMMA InvocationFacts ==
  ASSUME NEW i \in Invocations
  PROVE  /\ i.course.frames \in Seq(Frame) /\ i.course.frames # <<>>
         /\ i.listing \in Seq(Nat)
         /\ i.loads \in BOOLEAN /\ i.built \in BOOLEAN /\ i.headless \in BOOLEAN
         /\ 1 \in DOMAIN i.course.frames
<1>1. i \in Invocation
  BY SimulatorAssumption
<1>2. i.course \in Course /\ i.course.frames # <<>>
  BY <1>1, SimulatorAssumption DEF Invocation
<1>3. i.course.frames \in Seq(Frame)
  BY <1>2 DEF Course
<1>4. Len(i.course.frames) \in Nat /\ Len(i.course.frames) # 0
      /\ DOMAIN i.course.frames = 1..Len(i.course.frames)
  BY <1>2, <1>3, EmptySeq, LenProperties
<1> QED
  BY <1>1, <1>2, <1>3, <1>4 DEF Invocation

\* The line of a pc is one of the listing.
LEMMA SyncedIsNat ==
  ASSUME NEW lines \in Seq(Nat), NEW focus \in Nat, NEW pc
  PROVE  Synced(lines, focus, pc) \in Nat
<1>1. Len(lines) \in Nat /\ DOMAIN lines = 1..Len(lines)
  BY LenProperties
<1>2. CASE \E i \in DOMAIN lines : lines[i] = pc
  <2>1. (CHOOSE i \in DOMAIN lines : lines[i] = pc) \in DOMAIN lines
    BY <1>2
  <2> QED
    BY <1>1, <1>2, <2>1 DEF Synced
<1>3. CASE ~\E i \in DOMAIN lines : lines[i] = pc
  BY <1>3 DEF Synced
<1> QED
  BY <1>2, <1>3

\* A focus that has been clamped is on a line, if there is any.
LEMMA Clamped ==
  ASSUME NEW index \in Int, NEW items \in Nat
  PROVE  /\ clamp_index(index, items) \in Nat
         /\ clamp_index(index, items) = 0 \/ clamp_index(index, items) < items
BY DEF clamp_index

LEMMA ScrolledIsNat ==
  ASSUME NEW focus \in Nat, NEW items \in Nat, NEW wheel
  PROVE  Scrolled(focus, items, wheel) \in Nat
<1>1. focus + (IF wheel \in {"down left", "down right"} THEN 1 ELSE -1) \in Int
  OBVIOUS
<1> QED
  BY <1>1, Clamped DEF Scrolled

-----------------------------------------------------------------------------
\* Multiples of a number, and what division leaves.
LEMMA TimesGrows ==
  ASSUME NEW W \in Nat, W > 0, NEW j \in Int, NEW k \in Int
  PROVE  /\ j < k => j * W + W <= k * W
         /\ j <= k => j * W <= k * W
<1>1. ASSUME j < k PROVE j * W + W <= k * W
  <2> DEFINE d == k - j - 1
  <2>1. d \in Nat /\ k = j + 1 + d
    BY <1>1
  <2> HIDE DEF d
  <2>2. d * W \in Nat /\ (j + 1 + d) * W = j * W + W + d * W /\ j * W \in Int
    BY <2>1
  <2> QED
    BY <2>1, <2>2
<1>2. j * W \in Int /\ k * W \in Int
  OBVIOUS
<1> QED
  BY <1>1, <1>2

LEMMA Quotient ==
  ASSUME NEW W \in Nat, W > 0, NEW x \in Nat, NEW n, n = x \div W
  PROVE  n \in Nat /\ n * W <= x /\ x < n * W + W
<1>1. x \div W \in Nat /\ x % W \in 0..(W - 1) /\ x = W * (x \div W) + (x % W)
  OBVIOUS
<1> DEFINE r == x % W
<1>2. n \in Nat /\ r \in 0..(W - 1) /\ x = W * n + r
  BY <1>1
<1> HIDE DEF r
<1>3. W * n \in Int /\ W * n = n * W
  BY <1>2
<1> QED
  BY <1>2, <1>3

\* What stack_line_count computes is how many lines the loop of render_memory makes.
LEMMA StackLines ==
  ASSUME NEW sp \in Nat
  PROVE  /\ stack_line_count(sp) \in Nat
         /\ Cardinality(StackRows(sp)) = stack_line_count(sp)
<1> DEFINE n == stack_line_count(sp)
           W == WORD_BYTES
           M == MEM_SIZE
           row == [k \in 0..(n - 1) |-> sp + k * W]
<1>1. W \in Nat /\ W > 0 /\ M \in Nat /\ M > 0
  BY SimulatorAssumption
<1>2. CASE sp >= M
  <2>1. n = 0
    BY <1>2 DEF stack_line_count
  <2>2. StackRows(sp) = {}
    BY <1>1, <1>2 DEF StackRows
  <2> QED
    BY <2>1, <2>2, FS_EmptySet
<1>3. CASE sp < M
  <2>1. n = (M - sp + W - 1) \div W
    BY <1>1, <1>3 DEF stack_line_count
  <2> DEFINE x == M - sp + W - 1
  <2>2. x \in Nat /\ x >= W
    BY <1>1, <1>3
  <2>0. x = M - sp + W - 1 /\ n = x \div W
    BY <2>1 DEF x
  <2> HIDE DEF x, W, M, n
  <2>3. n \in Nat /\ n * W <= x /\ x < n * W + W
    BY <1>1, <2>0, <2>2, Quotient
  <2>4. \A k \in Int : k * W \in Int
    BY <1>1
  <2>7. row \in Surjection(0..(n-1), StackRows(sp))
    <3>1. ASSUME NEW k \in 0..(n-1) PROVE row[k] \in StackRows(sp)
      <4>1. row[k] = sp + k * W /\ k * W \in Nat
        BY <1>1, <2>4
      <4>2. k * W + W <= n * W
        BY <1>1, <2>3, TimesGrows
      <4>3. sp + k * W \in sp..(M - 1)
        BY <1>1, <2>0, <2>3, <2>4, <4>1, <4>2
      <4>4. (sp + k * W - sp) % W = 0
        <5>1. sp + k * W - sp = k * W
          BY <4>1
        <5>2. (k * W) % W = 0
          BY <1>1
        <5> QED
          BY <5>1, <5>2
      <4> QED
        BY <4>1, <4>3, <4>4 DEF StackRows, W, M
    <3>2. ASSUME NEW a \in StackRows(sp) PROVE \E k \in 0..(n-1) : row[k] = a
      <4>1. a \in sp..(M - 1) /\ (a - sp) % W = 0
        BY DEF StackRows, W, M
      <4> DEFINE k == (a - sp) \div W
      <4>2. k \in Nat /\ a - sp = k * W
        BY <1>1, <4>1
      <4> HIDE DEF k
      <4>3. k < n
        <5> SUFFICES ASSUME k >= n PROVE FALSE
          BY <2>3, <4>2
        <5>1. n * W <= k * W
          BY <1>1, <2>3, <4>2, TimesGrows
        <5>2. n * W > x - W
          BY <1>1, <2>2, <2>3, <2>4
        <5>3. n * W \in Int /\ k * W \in Int
          BY <2>3, <2>4, <4>2
        <5> QED
          BY <1>1, <2>0, <2>2, <4>1, <4>2, <5>1, <5>2, <5>3
      <4>4. row[k] = a
        <5>1. k \in 0..(n-1) /\ a = sp + k * W
          BY <1>1, <2>3, <4>1, <4>2, <4>3
        <5> QED
          BY <5>1
      <4>5. k \in 0..(n-1)
        BY <2>3, <4>2, <4>3
      <4> QED
        BY <4>4, <4>5
    <3> HIDE DEF row
    <3>3. row \in [0..(n-1) -> StackRows(sp)]
      BY <3>1 DEF row
    <3> QED
      BY <3>2, <3>3 DEF Surjection
  <2>8. row \in Injection(0..(n-1), StackRows(sp))
    <3>1. row \in [0..(n-1) -> StackRows(sp)]
      BY <2>7 DEF Surjection
    <3>2. ASSUME NEW j \in 0..(n-1), NEW k \in 0..(n-1), row[j] = row[k] PROVE j = k
      <4>1. j * W = k * W
        <5>1. sp + j * W = sp + k * W
          BY <3>2
        <5>2. j * W \in Int /\ k * W \in Int
          BY <2>4
        <5>3. \A y, z \in Int : sp + y = sp + z => y = z
          OBVIOUS
        <5> QED
          BY <5>1, <5>2, <5>3, Zenon
      <4>2. \A x1, y1 \in Int : x1 < y1 => x1 * W < y1 * W
        BY <1>1, <2>4, TimesGrows
      <4>3. ~(j * W < k * W) /\ ~(k * W < j * W)
        BY <2>4, <4>1
      <4> QED
        BY <2>3, <4>2, <4>3
    <3> HIDE DEF row
    <3> QED
      BY <3>1, <3>2, Zenon DEF Injection, IsInjective
  <2>9. IsFiniteSet(0..(n-1)) /\ Cardinality(0..(n-1)) = n
    BY <2>3, FS_Interval
  <2>10. Cardinality(0..(n-1)) = Cardinality(StackRows(sp))
    <3> HIDE DEF row
    <3>1. row \in Bijection(0..(n-1), StackRows(sp))
      BY <2>7, <2>8 DEF Bijection
    <3> QED
      BY <2>9, <3>1, FS_Bijection, Zenon DEF ExistsBijection
  <2> QED
    BY <2>3, <2>9, <2>10, Zenon DEF n
<1> QED
  BY <1>1, <1>2, <1>3

-----------------------------------------------------------------------------
\* The types, one header, and a focus on a line are together inductive as they are.
SimInv ==
  /\ SimTypeOK
  /\ HeaderOnce
  /\ FocusOnALine

\* What the invariant says of the invocation, the current frame and the events.
LEMMA SimFacts ==
  ASSUME SimTypeOK
  PROVE  /\ course.frames \in Seq(Frame) /\ Len(course.frames) \in Nat \ {0}
         /\ DOMAIN course.frames = 1..Len(course.frames)
         /\ at \in 1..Len(course.frames)
         /\ \A k \in 1..Len(course.frames) : course.frames[k].pc \in Nat
                                             /\ course.frames[k].sp \in Nat
         /\ listing \in Seq(Nat) /\ Len(listing) \in Nat
         /\ disasm_focus \in Nat /\ regs_focus \in Nat /\ stack_focus \in Nat
         /\ MaxEvents \in Nat /\ NUM_REGISTERS \in Nat /\ Len(events) \in Nat
<1>1. invocation \in Invocations
  BY DEF SimTypeOK
<1>2. /\ course.frames \in Seq(Frame) /\ course.frames # <<>>
      /\ listing \in Seq(Nat)
  BY <1>1, InvocationFacts DEF course, listing
<1> HIDE DEF course, listing
<1>3. /\ Len(course.frames) \in Nat \ {0}
      /\ DOMAIN course.frames = 1..Len(course.frames)
  BY <1>2, EmptySeq, LenProperties
<1>4. \A k \in 1..Len(course.frames) : course.frames[k] \in Frame
  BY <1>2, ElementOfSeq
<1>5. Len(listing) \in Nat
  BY <1>2, LenProperties
<1>6. /\ disasm_focus \in Nat /\ regs_focus \in Nat /\ stack_focus \in Nat
      /\ at \in DOMAIN course.frames /\ events \in Seq(Event)
  BY DEF SimTypeOK
<1>7. Len(events) \in Nat
  BY <1>6, LenProperties
<1>8. MaxEvents \in Nat /\ NUM_REGISTERS \in Nat
  BY SimulatorAssumption
<1> QED
  BY <1>2, <1>3, <1>4, <1>5, <1>6, <1>7, <1>8 DEF Frame

\* Taking an event off, and posting one.
LEMMA EventsFacts ==
  ASSUME SimTypeOK
  PROVE  /\ events # <<>> => /\ Tail(events) \in Seq(Event)
                             /\ Len(Tail(events)) = Len(events) - 1
         /\ \A e \in Event : /\ Append(events, e) \in Seq(Event)
                             /\ Len(Append(events, e)) = Len(events) + 1
                             /\ events # <<>> => /\ Append(Tail(events), e) \in Seq(Event)
                                                 /\ Len(Append(Tail(events), e)) = Len(events)
<1>1. events \in Seq(Event) /\ Len(events) \in Nat
  BY LenProperties DEF SimTypeOK
<1>2. events # <<>> => Tail(events) \in Seq(Event) /\ Len(Tail(events)) = Len(events) - 1
  BY <1>1, HeadTailProperties
<1>3. \A e \in Event : Append(events, e) \in Seq(Event)
                       /\ Len(Append(events, e)) = Len(events) + 1
  BY <1>1, AppendProperties
<1>4. \A e \in Event : events # <<>> => Append(Tail(events), e) \in Seq(Event)
                                        /\ Len(Append(Tail(events), e)) = Len(events)
  <2> SUFFICES ASSUME NEW e \in Event, events # <<>>
               PROVE  Append(Tail(events), e) \in Seq(Event)
                      /\ Len(Append(Tail(events), e)) = Len(events)
    OBVIOUS
  <2>1. Append(Tail(events), e) \in Seq(Event)
        /\ Len(Append(Tail(events), e)) = Len(Tail(events)) + 1
    BY <1>2, AppendProperties
  <2> QED
    BY <1>1, <1>2, <2>1
<1> QED
  BY <1>2, <1>3, <1>4

\* A new row, under a header if there was none, leaves one header on top.
LEMMA RowHeaded ==
  ASSUME NEW q \in Seq({"header", "row"}), Headed(q),
         NEW r, r = (IF q = <<>> THEN <<"header">> ELSE q) \o <<"row">>
  PROVE  r \in Seq({"header", "row"}) /\ Headed(r)
<1> DEFINE top == IF q = <<>> THEN <<"header">> ELSE q
<1>1. top \in Seq({"header", "row"}) /\ Len(top) \in Nat \ {0}
      /\ \A i \in 1..Len(top) : top[i] = "header" <=> i = 1
  <2>1. CASE q = <<>>
    BY <2>1
  <2>2. CASE q # <<>>
    BY <2>2, EmptySeq, LenProperties DEF Headed
  <2> QED
    BY <2>1, <2>2
<1> HIDE DEF top
<1> DEFINE last == <<"row">>
<1>2. last \in Seq({"header", "row"}) /\ Len(last) = 1 /\ last[1] = "row"
  OBVIOUS
<1>3. /\ r \in Seq({"header", "row"}) /\ Len(r) = Len(top) + 1
      /\ \A i \in 1..(Len(top) + 1) : r[i] = IF i <= Len(top) THEN top[i]
                                             ELSE last[i - Len(top)]
  <2>1. r = top \o last
    BY DEF top
  <2> HIDE DEF last
  <2>2. /\ top \o last \in Seq({"header", "row"})
        /\ Len(top \o last) = Len(top) + Len(last)
        /\ \A i \in 1..(Len(top) + Len(last)) :
             (top \o last)[i] = IF i <= Len(top) THEN top[i] ELSE last[i - Len(top)]
    BY <1>1, <1>2, ConcatProperties
  <2> QED
    BY <1>2, <2>1, <2>2
<1>4. DOMAIN r = 1..(Len(top) + 1)
  BY <1>3, LenProperties
<1> HIDE DEF last
<1>5. \A i \in 1..(Len(top) + 1) : r[i] = "header" <=> i = 1
  BY <1>1, <1>2, <1>3
<1> QED
  BY <1>3, <1>4, <1>5 DEF Headed

LEMMA SimInitInv == SimInit => SimInv
<1> SUFFICES ASSUME SimInit PROVE SimInv
  OBVIOUS
<1>1. invocation \in Invocations
  BY SimulatorAssumption DEF SimInit
<1>2. 1 \in DOMAIN course.frames
  BY <1>1, InvocationFacts DEF course
<1>3. results \in Seq({"header", "row"}) /\ Headed(results)
  BY SimulatorAssumption DEF SimInit
<1>4. events \in Seq(Event) /\ Len(events) = 0
  BY EmptySeq DEF SimInit
<1>5. SimTypeOK
  <2>0. /\ runs = 0 /\ disasm_focus = 0 /\ regs_focus = 0 /\ stack_focus = 0
        /\ tab_selected = 0
    BY DEF SimInit
  <2>1. runs \in 0..MaxRuns /\ Len(events) <= MaxEvents
    BY <1>4, <2>0, SimulatorAssumption
  <2>2. {disasm_focus, regs_focus, stack_focus} \subseteq Nat /\ tab_selected \in 0..1
    BY <2>0
  <2>3. at \in DOMAIN course.frames
    BY <1>2 DEF SimInit
  <2> QED
    BY <1>1, <1>3, <1>4, <2>1, <2>2, <2>3 DEF SimTypeOK, SimInit
<1>6. FocusOnALine
  BY DEF FocusOnALine, SimInit
<1> QED
  BY <1>3, <1>5, <1>6 DEF SimInv, HeaderOnce

-----------------------------------------------------------------------------
\* A command line: everything but the file of results starts anew.
LEMMA StartInv == SimInv /\ Start => SimInv'
<1> SUFFICES ASSUME SimInv, Start PROVE SimInv'
  OBVIOUS
<1>1. runs' \in 0..MaxRuns
  <2>1. runs \in 0..MaxRuns /\ MaxRuns \in Nat
    BY SimulatorAssumption DEF SimInv, SimTypeOK
  <2>2. runs < MaxRuns /\ runs' = runs + 1
    BY DEF Start
  <2> QED
    BY <2>1, <2>2
<1>2. PICK i \in Invocations :
        /\ invocation' = i
        /\ phase' = IF ~i.loads \/ ~i.built THEN "shell"
                    ELSE IF i.headless THEN "headless" ELSE "tui"
        /\ status' = IF ~i.loads THEN "failed" ELSE IF ~i.built THEN "aborted" ELSE ""
        /\ disasm_focus' = Synced(i.listing, 0, i.course.frames[1].pc)
  BY DEF Start
<1>3. 1 \in DOMAIN course'.frames
  BY <1>2, InvocationFacts DEF course
<1>4. disasm_focus' \in Nat
  BY <1>2, InvocationFacts, SyncedIsNat
<1>5. phase' \in {"shell", "headless", "tui", "run"}
      /\ status' \in {"", "ok", "failed", "aborted"}
  BY <1>2
<1>6. /\ at' = 1 /\ halted' = FALSE /\ events' = <<>> /\ quitting' = FALSE
      /\ tab_selected' = 0 /\ regs_focus' = 0 /\ stack_focus' = 0 /\ show_help' = FALSE
      /\ drawn' = <<>> /\ results' = results
  BY DEF Start
<1>7. events' \in Seq(Event) /\ Len(events') <= MaxEvents
  BY <1>6, EmptySeq, SimulatorAssumption
<1>8. results' \in Seq({"header", "row"}) /\ Headed(results')
  BY <1>6 DEF SimInv, SimTypeOK, HeaderOnce
<1>9. SimTypeOK'
  <2>1. {disasm_focus', regs_focus', stack_focus'} \subseteq Nat /\ tab_selected' \in 0..1
    BY <1>4, <1>6
  <2>2. at' \in DOMAIN course'.frames /\ invocation' \in Invocations
    BY <1>2, <1>3, <1>6
  <2> QED
    BY <1>1, <1>5, <1>6, <1>7, <1>8, <2>1, <2>2 DEF SimTypeOK
<1> QED
  BY <1>6, <1>8, <1>9 DEF SimInv, HeaderOnce, FocusOnALine

\* A step of the CPU shows one of its frames; an exception leaves the last one.
LEMMA StepFacts ==
  ASSUME SimInv, invocation' = invocation
  PROVE  /\ Step => at' \in DOMAIN course'.frames /\ halted' \in BOOLEAN
         /\ Step /\ Callback => /\ disasm_focus' \in Nat
                                /\ UNCHANGED <<tab_selected, regs_focus, stack_focus,
                                               show_help>>
<1>1. /\ course' = course /\ listing' = listing
  BY DEF course, listing
<1>2. /\ DOMAIN course.frames = 1..Len(course.frames)
      /\ Len(course.frames) \in Nat \ {0} /\ at \in 1..Len(course.frames)
      /\ \A k \in 1..Len(course.frames) : course.frames[k].pc \in Nat
      /\ listing \in Seq(Nat) /\ disasm_focus \in Nat
  BY SimFacts DEF SimInv
<1> HIDE DEF course, listing
<1>3. ASSUME Step PROVE at' \in 1..Len(course.frames) /\ halted' \in BOOLEAN
  BY <1>1, <1>2, <1>3 DEF Step
<1>4. ASSUME Callback PROVE /\ disasm_focus' \in Nat
                            /\ UNCHANGED <<tab_selected, regs_focus, stack_focus, show_help>>
  BY <1>1, <1>2, <1>4, SyncedIsNat DEF Callback
<1> QED
  BY <1>1, <1>2, <1>3, <1>4

\* What all steps of the running program but its last have in common, and Abort.
LEMMA RunningInv ==
  ASSUME SimInv, invocation' = invocation, runs' = runs, results' = results,
         phase' \in {"shell", "headless", "tui", "run"},
         status' \in {"", "ok", "failed", "aborted"},
         at' \in DOMAIN course'.frames, halted' \in BOOLEAN,
         events' \in Seq(Event), Len(events') <= MaxEvents,
         quitting' \in BOOLEAN, show_help' \in BOOLEAN, tab_selected' \in 0..1,
         disasm_focus' \in Nat, regs_focus' \in Nat, stack_focus' \in Nat,
         drawn' \in {drawn, <<>>}
  PROVE  SimInv'
<1>1. SimTypeOK'
  BY DEF SimTypeOK, SimInv
<1>2. HeaderOnce'
  BY DEF SimInv, HeaderOnce
<1>3. FocusOnALine'
  BY DEF SimInv, FocusOnALine
<1> QED
  BY <1>1, <1>2, <1>3 DEF SimInv

\* The CPU as it was, and what SimTypeOK says of the rest.
LEMMA SameCpu ==
  ASSUME SimInv, UNCHANGED <<invocation, at, halted>>
  PROVE  at' \in DOMAIN course'.frames /\ halted' \in BOOLEAN
<1>1. course' = course
  BY DEF course
<1> QED
  BY <1>1 DEF SimInv, SimTypeOK

-----------------------------------------------------------------------------
\* The step key, the loop of `r` and the loop of main.
LEMMA AbortTypes ==
  ASSUME SimInv, Abort
  PROVE  /\ invocation' = invocation /\ runs' = runs /\ results' = results
         /\ phase' = "shell" /\ status' = "aborted"
         /\ UNCHANGED <<at, halted, tab_selected, disasm_focus, regs_focus, stack_focus,
                        show_help>>
BY DEF Abort, cpuView, tuiVars, focusVars

LEMMA HeadlessStepInv == SimInv /\ HeadlessStep => SimInv'
<1> SUFFICES ASSUME SimInv, HeadlessStep PROVE SimInv'
  OBVIOUS
<1>1. UNCHANGED <<events, quitting, drawn>>
  BY DEF HeadlessStep
<1>2. CASE Step /\ UNCHANGED <<mainVars, tuiVars>>
  <2>1. UNCHANGED <<phase, runs, invocation, status, results, tab_selected, disasm_focus,
                    regs_focus, stack_focus, show_help>>
    BY <1>2 DEF mainVars, tuiVars, focusVars
  <2>2. at' \in DOMAIN course'.frames /\ halted' \in BOOLEAN
    BY <1>2, <2>1, StepFacts
  <2>3. SimTypeOK
    BY DEF SimInv
  <2> QED
    BY <1>1, <2>1, <2>2, <2>3, RunningInv DEF SimTypeOK
<1>3. CASE Abort
  <2>1. at' \in DOMAIN course'.frames /\ halted' \in BOOLEAN
    BY <1>3, AbortTypes, SameCpu
  <2>2. SimTypeOK
    BY DEF SimInv
  <2> QED
    BY <1>1, <1>3, <2>1, <2>2, AbortTypes, RunningInv DEF SimTypeOK
<1> QED
  BY <1>2, <1>3 DEF HeadlessStep

LEMMA StepKeyInv == SimInv /\ StepKey => SimInv'
<1> SUFFICES ASSUME SimInv, StepKey PROVE SimInv'
  OBVIOUS
<1>1. /\ SimTypeOK /\ drawn' = <<>> /\ quitting' = quitting
      /\ events' \in Seq(Event) /\ Len(events') <= MaxEvents
  <2>1. SimTypeOK /\ events # <<>> /\ events' = Tail(events) /\ drawn' = <<>>
        /\ quitting' = quitting
    BY DEF SimInv, StepKey, Handling
  <2>2. Len(events) \in Nat /\ Len(events) <= MaxEvents /\ MaxEvents \in Nat
    BY <2>1, SimFacts DEF SimTypeOK
  <2> QED
    BY <2>1, <2>2, EventsFacts
<1>2. CASE UNCHANGED <<mainVars, cpuView, tuiVars>>
  <2>1. UNCHANGED <<phase, runs, invocation, status, results, at, halted, tab_selected,
                    disasm_focus, regs_focus, stack_focus, show_help>>
    BY <1>2 DEF mainVars, cpuView, tuiVars, focusVars
  <2>2. at' \in DOMAIN course'.frames /\ halted' \in BOOLEAN
    BY <2>1, SameCpu
  <2> QED
    BY <1>1, <2>1, <2>2, RunningInv DEF SimTypeOK
<1>3. CASE Step /\ Callback /\ UNCHANGED mainVars
  <2>1. UNCHANGED <<phase, runs, invocation, status, results>>
    BY <1>3 DEF mainVars
  <2>2. /\ at' \in DOMAIN course'.frames /\ halted' \in BOOLEAN
        /\ disasm_focus' \in Nat
        /\ UNCHANGED <<tab_selected, regs_focus, stack_focus, show_help>>
    BY <1>3, <2>1, StepFacts
  <2> QED
    BY <1>1, <2>1, <2>2, RunningInv DEF SimTypeOK
<1>4. CASE Abort
  <2>1. at' \in DOMAIN course'.frames /\ halted' \in BOOLEAN
    BY <1>4, AbortTypes, SameCpu
  <2> QED
    BY <1>1, <1>4, <2>1, AbortTypes, RunningInv DEF SimTypeOK
<1> QED
  BY <1>2, <1>3, <1>4 DEF StepKey

LEMMA RunStepInv == SimInv /\ RunStep => SimInv'
<1> SUFFICES ASSUME SimInv, RunStep PROVE SimInv'
  OBVIOUS
<1>1. UNCHANGED <<events, quitting, drawn>> /\ SimTypeOK
  BY DEF RunStep, SimInv
<1>2. CASE Step /\ Callback /\ UNCHANGED mainVars
  <2>1. UNCHANGED <<phase, runs, invocation, status, results>>
    BY <1>2 DEF mainVars
  <2>2. /\ at' \in DOMAIN course'.frames /\ halted' \in BOOLEAN
        /\ disasm_focus' \in Nat
        /\ UNCHANGED <<tab_selected, regs_focus, stack_focus, show_help>>
    BY <1>2, <2>1, StepFacts
  <2> QED
    BY <1>1, <2>1, <2>2, RunningInv DEF SimTypeOK
<1>3. CASE Abort
  <2>1. at' \in DOMAIN course'.frames /\ halted' \in BOOLEAN
    BY <1>3, AbortTypes, SameCpu
  <2> QED
    BY <1>1, <1>3, <2>1, AbortTypes, RunningInv DEF SimTypeOK
<1> QED
  BY <1>2, <1>3 DEF RunStep

-----------------------------------------------------------------------------
\* Events: they are posted, and handled from the head of the queue.
LEMMA PostInv ==
  ASSUME SimInv, NEW e \in Keys \cup Wheels, Post(e)
  PROVE  SimInv'
<1>1. e \in Event /\ SimTypeOK
  BY DEF Event, SimInv
<1>2. /\ events' = Append(events, e) /\ Len(events) < MaxEvents
      /\ UNCHANGED <<phase, runs, invocation, status, results, at, halted, quitting, drawn,
                     tab_selected, disasm_focus, regs_focus, stack_focus, show_help>>
  BY DEF Post, mainVars, cpuView, tuiVars, focusVars
<1>3. events' \in Seq(Event) /\ Len(events') <= MaxEvents
  BY <1>1, <1>2, EventsFacts, SimFacts
<1>4. at' \in DOMAIN course'.frames /\ halted' \in BOOLEAN
  BY <1>2, SameCpu
<1> QED
  BY <1>1, <1>2, <1>3, <1>4, RunningInv DEF SimTypeOK

\* All handlers that leave the program, the CPU and the focus of the panels alone.
LEMMA HandlerInv == SimInv /\ (Quit \/ Exit \/ RunKey \/ HelpKey \/ TabKey \/ OtherKey)
                    => SimInv'
<1> SUFFICES ASSUME SimInv, Quit \/ Exit \/ RunKey \/ HelpKey \/ TabKey \/ OtherKey
             PROVE  SimInv'
  OBVIOUS
<1> USE DEF mainVars, cpuView, tuiVars, focusVars
<1>1. /\ events # <<>> /\ events' \in {Tail(events), Append(Tail(events), "exit")}
      /\ drawn' = <<>>
  BY DEF Quit, Exit, RunKey, HelpKey, TabKey, OtherKey, Handling
<1>2. /\ UNCHANGED <<runs, invocation, status, results, at, halted, disasm_focus,
                     regs_focus, stack_focus>>
      /\ phase' \in {phase, "run"}
  BY DEF Quit, Exit, RunKey, HelpKey, TabKey, OtherKey, Handling
<1>3. SimTypeOK
  BY DEF SimInv
<1>4. quitting' \in BOOLEAN /\ show_help' \in BOOLEAN /\ tab_selected' \in 0..1
  <2>1. quitting \in BOOLEAN /\ show_help \in BOOLEAN /\ tab_selected \in 0..1
    BY <1>3 DEF SimTypeOK
  <2>2. /\ quitting' = quitting \/ quitting' = TRUE
        /\ show_help' = show_help \/ show_help' = ~show_help
        /\ tab_selected' = tab_selected \/ tab_selected' = (tab_selected + 1) % 2
    BY DEF Quit, Exit, RunKey, HelpKey, TabKey, OtherKey
  <2>3. tab_selected' \in 0..1
    BY <2>1, <2>2
  <2>4. quitting' \in BOOLEAN /\ show_help' \in BOOLEAN
    BY <2>1, <2>2, Zenon
  <2> QED
    BY <2>3, <2>4
<1>5. events' \in Seq(Event) /\ Len(events') <= MaxEvents
  <2>1. "exit" \in Event
    BY DEF Event
  <2>2. Len(events) \in Nat /\ Len(events) <= MaxEvents /\ MaxEvents \in Nat
    BY <1>3, SimFacts DEF SimTypeOK
  <2> QED
    BY <1>1, <1>3, <2>1, <2>2, EventsFacts
<1>6. at' \in DOMAIN course'.frames /\ halted' \in BOOLEAN
  BY <1>2, SameCpu
<1> QED
  BY <1>1, <1>2, <1>3, <1>4, <1>5, <1>6, RunningInv DEF SimTypeOK

LEMMA WheelInv == SimInv /\ Wheel => SimInv'
<1> SUFFICES ASSUME SimInv, Wheel PROVE SimInv'
  OBVIOUS
<1> USE DEF mainVars, cpuView, tuiVars, focusVars
<1>1. /\ events # <<>> /\ events' = Tail(events) /\ drawn' = <<>>
      /\ UNCHANGED <<phase, runs, invocation, status, results, at, halted, quitting,
                     tab_selected, show_help>>
  BY DEF Wheel, Handling
<1>2. SimTypeOK
  BY DEF SimInv
<1>3. disasm_focus' \in Nat /\ regs_focus' \in Nat /\ stack_focus' \in Nat
  <2>1. /\ disasm_focus \in Nat /\ regs_focus \in Nat /\ stack_focus \in Nat
        /\ Len(listing) \in Nat /\ NUM_REGISTERS \in Nat /\ frame.sp \in Nat
    BY <1>2, SimFacts DEF frame
  <2>2. stack_line_count(frame.sp) \in Nat
    BY <2>1, StackLines
  <2>3. PICK e \in Wheels :
          /\ \/ disasm_focus' = Scrolled(disasm_focus, Len(listing), e)
             \/ disasm_focus' = disasm_focus
          /\ \/ regs_focus' = Scrolled(regs_focus, NUM_REGISTERS, e)
             \/ regs_focus' = regs_focus
          /\ \/ stack_focus' = Scrolled(stack_focus, stack_line_count(frame.sp), e)
             \/ stack_focus' = stack_focus
    BY DEF Wheel
  <2> QED
    BY <2>1, <2>2, <2>3, ScrolledIsNat
<1>4. events' \in Seq(Event) /\ Len(events') <= MaxEvents
  <2>1. Len(events) \in Nat /\ Len(events) <= MaxEvents /\ MaxEvents \in Nat
    BY <1>2, SimFacts DEF SimTypeOK
  <2> QED
    BY <1>1, <1>2, <2>1, EventsFacts
<1>5. at' \in DOMAIN course'.frames /\ halted' \in BOOLEAN
  BY <1>1, SameCpu
<1> QED
  BY <1>1, <1>2, <1>3, <1>4, <1>5, RunningInv DEF SimTypeOK

LEMMA RunEndsInv == SimInv /\ RunEnds => SimInv'
<1> SUFFICES ASSUME SimInv, RunEnds PROVE SimInv'
  OBVIOUS
<1>1. /\ UNCHANGED <<runs, invocation, status, results, at, halted, events, quitting, drawn,
                     tab_selected, disasm_focus, regs_focus, stack_focus, show_help>>
      /\ phase' = "tui" /\ SimTypeOK
  BY DEF RunEnds, SimInv, cpuView, tuiVars, focusVars
<1>2. at' \in DOMAIN course'.frames /\ halted' \in BOOLEAN
  BY <1>1, SameCpu
<1> QED
  BY <1>1, <1>2, RunningInv DEF SimTypeOK

-----------------------------------------------------------------------------
\* A frame: what is drawn is drawn with a focus on a line.
LEMMA DrawInv == SimInv /\ Draw => SimInv'
<1> SUFFICES ASSUME SimInv, Draw PROVE SimInv'
  OBVIOUS
<1> USE DEF mainVars, cpuView, tuiVars, focusVars
<1>1. SimTypeOK
  BY DEF SimInv
<1>2. /\ disasm_focus \in Nat /\ regs_focus \in Nat /\ stack_focus \in Nat
      /\ Len(listing) \in Nat /\ NUM_REGISTERS \in Nat /\ frame.sp \in Nat
  BY <1>1, SimFacts DEF frame
<1>3. /\ UNCHANGED <<phase, runs, invocation, status, results, at, halted, events, quitting,
                     tab_selected, show_help>>
  BY DEF Draw
<1> DEFINE lines == stack_line_count(frame.sp)
<1>4. lines \in Nat /\ Cardinality(StackRows(frame.sp)) = lines
  BY <1>2, StackLines
<1>5. /\ disasm_focus' = clamp_index(disasm_focus, Len(listing))
      /\ regs_focus' = IF tab_selected = 0
                         THEN clamp_index(regs_focus, NUM_REGISTERS) ELSE regs_focus
      /\ stack_focus' = IF tab_selected = 1
                          THEN clamp_index(stack_focus, lines) ELSE stack_focus
  BY DEF Draw
<1>6. /\ drawn' = [left  |-> Line(Len(listing), disasm_focus'),
                   right |-> IF tab_selected = 0 THEN Line(NUM_REGISTERS, regs_focus')
                             ELSE Line(Cardinality(StackRows(frame.sp)), stack_focus'),
                   status |-> Status, help |-> show_help]
  BY DEF Draw
<1> HIDE DEF lines
<1>7. /\ disasm_focus' \in Nat /\ regs_focus' \in Nat /\ stack_focus' \in Nat
      /\ disasm_focus' = 0 \/ disasm_focus' < Len(listing)
      /\ tab_selected = 0 => regs_focus' = 0 \/ regs_focus' < NUM_REGISTERS
      /\ tab_selected = 1 => stack_focus' = 0 \/ stack_focus' < lines
  <2>1. \A i, n \in Nat : clamp_index(i, n) \in Nat
                         /\ (clamp_index(i, n) = 0 \/ clamp_index(i, n) < n)
    BY Clamped
  <2>2. disasm_focus' \in Nat /\ (disasm_focus' = 0 \/ disasm_focus' < Len(listing))
    BY <1>2, <1>5, <2>1
  <2>3. /\ regs_focus' \in Nat
        /\ tab_selected = 0 => regs_focus' = 0 \/ regs_focus' < NUM_REGISTERS
    BY <1>2, <1>5, <2>1
  <2>4. /\ stack_focus' \in Nat
        /\ tab_selected = 1 => stack_focus' = 0 \/ stack_focus' < lines
    BY <1>2, <1>4, <1>5, <2>1
  <2> QED
    BY <2>2, <2>3, <2>4
<1>8. at' \in DOMAIN course'.frames /\ halted' \in BOOLEAN
  BY <1>3, SameCpu
<1>9. SimTypeOK'
  BY <1>1, <1>3, <1>7, <1>8 DEF SimTypeOK
<1>10. FocusOnALine'
  <2>1. OnALine(drawn'.left)
    BY <1>6, <1>7 DEF OnALine, Line
  <2>2. tab_selected = 0 \/ tab_selected = 1
    <3>1. tab_selected \in 0..1
      BY <1>1, Zenon DEF SimTypeOK
    <3> QED
      BY <3>1
  <2>3. OnALine(drawn'.right)
    <3>1. CASE tab_selected = 0
      <4>1. drawn'.right = Line(NUM_REGISTERS, regs_focus')
        BY <1>6, <3>1
      <4> QED
        BY <1>7, <3>1, <4>1 DEF OnALine, Line
    <3>2. CASE tab_selected = 1
      <4>1. drawn'.right = Line(lines, stack_focus')
        BY <1>4, <1>6, <3>2
      <4> QED
        BY <1>7, <3>2, <4>1 DEF OnALine, Line
    <3> QED
      BY <2>2, <3>1, <3>2
  <2> QED
    BY <2>1, <2>3 DEF FocusOnALine
<1>11. HeaderOnce'
  BY <1>3 DEF SimInv, HeaderOnce
<1> QED
  BY <1>9, <1>10, <1>11 DEF SimInv

\* The row of a run that has ended.
LEMMA WriteResultsInv == SimInv /\ WriteResults => SimInv'
<1> SUFFICES ASSUME SimInv, WriteResults PROVE SimInv'
  OBVIOUS
<1>1. SimTypeOK
  BY DEF SimInv
<1>2. /\ UNCHANGED <<runs, invocation, at, halted, events, quitting, drawn, tab_selected,
                     disasm_focus, regs_focus, stack_focus, show_help>>
      /\ phase' = "shell" /\ status' \in {"ok", "failed"}
  BY DEF WriteResults, cpuView, tuiVars, focusVars
<1>3. results' \in Seq({"header", "row"}) /\ Headed(results')
  <2>1. results \in Seq({"header", "row"}) /\ Headed(results)
    BY DEF SimInv, SimTypeOK, HeaderOnce
  <2>2. \/ results' = results
        \/ results' = (IF results = <<>> THEN <<"header">> ELSE results) \o <<"row">>
    BY DEF WriteResults
  <2> QED
    BY <2>1, <2>2, RowHeaded
<1>4. at' \in DOMAIN course'.frames /\ halted' \in BOOLEAN
  BY <1>2, SameCpu
<1>5. SimTypeOK'
  BY <1>1, <1>2, <1>3, <1>4 DEF SimTypeOK
<1>6. FocusOnALine'
  BY <1>2 DEF SimInv, FocusOnALine
<1> QED
  BY <1>3, <1>5, <1>6 DEF SimInv, HeaderOnce

LEMMA SimNextInv == SimInv /\ [SimNext]_simVars => SimInv'
<1> SUFFICES ASSUME SimInv, [SimNext]_simVars PROVE SimInv'
  OBVIOUS
<1>1. CASE Start
  BY <1>1, StartInv
<1>2. ASSUME NEW e \in Keys \cup Wheels, Post(e) PROVE SimInv'
  BY <1>2, PostInv
<1>3. CASE HeadlessStep \/ StepKey \/ RunStep \/ RunEnds
  BY <1>3, HeadlessStepInv, StepKeyInv, RunStepInv, RunEndsInv
<1>4. CASE Quit \/ Exit \/ RunKey \/ HelpKey \/ TabKey \/ OtherKey \/ Wheel
  BY <1>4, HandlerInv, WheelInv
<1>5. CASE Draw \/ WriteResults
  BY <1>5, DrawInv, WriteResultsInv
<1>6. CASE UNCHANGED simVars
  BY <1>6 DEF SimInv, SimTypeOK, HeaderOnce, FocusOnALine, simVars, mainVars, cpuView,
              tuiVars, focusVars, course
<1> QED
  BY <1>1, <1>2, <1>3, <1>4, <1>5, <1>6 DEF SimNext, UserNext, SystemNext

-----------------------------------------------------------------------------
\* SimInv holds in every state of every behaviour.
THEOREM SimInvariant == SimSpec => []SimInv
BY SimInitInv, SimNextInv, PTL DEF SimSpec

\* The interface indexes the frames of the program, the listing and the events only
\* where they are, and no more events wait than the bound.
THEOREM SimTypes == SimSpec => []SimTypeOK
<1>1. SimInv => SimTypeOK
  BY DEF SimInv
<1> QED
  BY <1>1, SimInvariant, PTL

\* However many runs append to the file of results, whichever of them fail or abort,
\* it has one header, and that is its first line.
THEOREM OneHeader == SimSpec => []HeaderOnce
<1>1. SimInv => HeaderOnce
  BY DEF SimInv
<1> QED
  BY <1>1, SimInvariant, PTL

\* Whatever is on the screen, its focus is on a line: what stack_line_count says is
\* how many lines the loop of render_memory draws, for every stack pointer.
THEOREM FocusOnScreen == SimSpec => []FocusOnALine
<1>1. SimInv => FocusOnALine
  BY DEF SimInv
<1> QED
  BY <1>1, SimInvariant, PTL
=============================================================================
