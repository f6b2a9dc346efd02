-------------------------------- MODULE Cpu --------------------------------
(***************************************************************************)
(* The pipeline (cpu/cpu.cpp): CPU::step with its eight stages, composed   *)
(* of the re-order buffer and alias tables (Rename), the execution paths   *)
(* (ExecPath), the load/store queue (LoadStoreQueue) and the branch        *)
(* predictor (BranchPredictor).                                            *)
(*                                                                         *)
(* step() is sequential, so `stage` says how far the current step has come *)
(* and each round of a handler's loop is a step of its own.  The program   *)
(* is kept apart from the data memory: a program that writes its own code  *)
(* is not modelled.                                                        *)
(***************************************************************************)
EXTENDS ExecUnits, MemAccess, Registers, Sequences, FiniteSets

CONSTANTS
  Programs,   \* the programs to run: sequences of decoded instructions
  Configs,    \* the configurations to run them under (Config, loader.hpp)
  Images,     \* initial contents of data memory
  RobSize,    \* NUM_REGISTERS * 2
  TableSize,  \* entries of the predictor's tables
  TagLimit    \* bound: the tags one behaviour allocates

VARIABLES
  program, config,
  stage,      \* the handler step() is in; "idle" between steps
  committed,  \* instructions committed by this step
  pc, fetch_q, decode_q, fetch_stopped,
  halted,
  rob, next_tag, rat, vec_tag,       \* see Rename
  regs, vl, vsew, mem,               \* the architectural state
  paths,      \* one ExecPath for each ExecType
  lsq,        \* see LoadStoreQueue
  lsus,       \* the busy load/store units: a tag and its cycles left
  bp,         \* see BranchPredictor
  instruction_count, branch_count, mispred_count

inputVars   == <<program, config>>
frontVars   == <<pc, fetch_q, decode_q, fetch_stopped>>
renameVars  == <<rob, next_tag, rat, vec_tag>>
archVars    == <<regs, vl, vsew, mem>>
execVars    == <<paths, lsq, lsus>>
controlVars == <<bp, branch_count, mispred_count>>
cpuVars == <<inputVars, stage, committed, frontVars, halted, renameVars,
             archVars, execVars, controlVars, instruction_count>>

R == INSTANCE Rename WITH Addr <- Word, VLen <- 0..VectorBits,
                          Decoded <- {}, Outcome <- {}
P == INSTANCE ExecPath
B == INSTANCE BranchPredictor WITH PcMod <- WordMod
\* Its operators on queues and its invariants; the clients it leaves open are here.
L == INSTANCE LoadStoreQueue WITH
       lsus <- {u.tag : u \in lsus}, lsq_next <- next_tag,
       LsqSize <- RobSize, LsuCount <- RobSize, Access <- Load \cup Store,
       Address <- {}, Datum <- {}, Length <- {}, Producer <- {}

ExecType == {"LOGIC", "MULDIV", "CTRL", "LOADSTORE", "FLOAT", "VECTOR"}
IsAccess(op) == op \in Load \cup Store

Instruction == [op: Op \cup {"INVALID"}, rd: Reg, rs1: Reg, rs2: Reg, rs3: Reg,
                imm: Int, rm: 0..7, sew: {0, 8, 16, 32}]

\* Config, as far as the pipeline goes.
Configuration == [width: Nat, rs_size: Nat, lsq_size: Nat, units: [ExecType -> Nat],
                  branch_pred: B!PredictorKind]

\* A program lies in the address space; memory does and holds a word; a vset has a
\* width, and the immediate for vl is not negative.
ASSUME CpuAssumption ==
  /\ {RobSize, TagLimit} \subseteq Nat /\ TableSize \in Nat \ {0}
  /\ Reg \subseteq Nat
  /\ WORD_BYTES <= MemSize /\ MemSize <= WordMod
  /\ Images \subseteq MemState /\ Configs \subseteq Configuration
  /\ \A p \in Programs :
       /\ p \in Seq(Instruction) /\ WORD_BYTES * Len(p) < WordMod
       /\ \A i \in DOMAIN p : /\ p[i].op \in VSet => p[i].sew # 0
                              /\ p[i].op = "VSETIVLI" => p[i].imm >= 0

end == WORD_BYTES * Len(program)

-----------------------------------------------------------------------------
CpuInit ==
  /\ program \in Programs
  /\ config \in Configs
  /\ stage = "idle" /\ committed = 0
  /\ pc = 0 /\ fetch_q = <<>> /\ decode_q = <<>>
  /\ fetch_stopped = FALSE /\ halted = FALSE
  /\ R!RenameInit
  /\ regs = InitialRegs(end)
  /\ vsew = 32 /\ vl = vlmax(32)
  /\ mem \in Images
  /\ paths = [t \in ExecType |-> P!EmptyPath]
  /\ lsq = <<>> /\ lsus = {}
  /\ bp = B!NewPredictor(config.branch_pred)
  /\ instruction_count = 0 /\ branch_count = 0 /\ mispred_count = 0

StartStep ==
  /\ stage = "idle" /\ ~halted
  /\ stage' = "commit" /\ committed' = 0
  /\ UNCHANGED <<inputVars, frontVars, halted, renameVars, archVars, execVars,
                 controlVars, instruction_count>>

-----------------------------------------------------------------------------
\* commit: up to `width` instructions from the head of the ROB.
CanCommit == committed < config.width /\ rob # <<>> /\ Head(rob).ready

\* The load/store queue's answer for the head of the ROB: "retire" it, "wait" for
\* it, or "throw" an exception out of step().
LsqAnswer ==
  IF lsq = <<>> THEN "wait"
  ELSE IF Head(lsq).tag # Head(rob).tag THEN "throw"
  ELSE IF ~Head(lsq).done THEN "wait"
  ELSE IF Head(lsq).op \in Store /\ ~Passes(Head(lsq)) THEN "throw"
  ELSE "retire"

CommitOne ==
  /\ stage = "commit" /\ CanCommit
  /\ IsAccess(Head(rob).op) => LsqAnswer = "retire"
  /\ LET e == Head(rob)
     IN  /\ mem' = IF e.op \in Store THEN Stored(Head(lsq), mem) ELSE mem
         /\ lsq' = IF IsAccess(e.op) THEN Tail(lsq) ELSE lsq
         /\ regs' = Written(regs, dst_type(e.op), e.rd, e.result.value)
         /\ vl'   = IF e.op \in VSet THEN e.result.vl ELSE vl
         /\ vsew' = IF e.op \in VSet THEN e.result.sew ELSE vsew
  /\ R!Retire
  /\ committed' = committed + 1
  /\ instruction_count' = instruction_count + 1
  /\ UNCHANGED <<inputVars, stage, frontVars, halted, paths, lsus, controlVars>>

\* An exception; or a store behind the end of memory that the process does not
\* survive (it may: see CommitOne).
CommitThrows ==
  /\ stage = "commit" /\ CanCommit
  /\ IsAccess(Head(rob).op)
  /\ \/ LsqAnswer = "throw"
     \/ LsqAnswer = "retire" /\ Head(lsq).op \in Store /\ IsWild(Head(lsq))
  /\ mem' = IF Head(lsq).tag = Head(rob).tag THEN Stored(Head(lsq), mem) ELSE mem
  /\ stage' = "crashed"
  /\ UNCHANGED <<inputVars, committed, frontVars, halted, renameVars, regs, vl, vsew,
                 execVars, controlVars, instruction_count>>

CommitEnds ==
  /\ stage = "commit"
  /\ CanCommit => IsAccess(Head(rob).op) /\ LsqAnswer = "wait"
  /\ stage' = "writeback"
  /\ UNCHANGED <<inputVars, committed, frontVars, halted, renameVars, archVars,
                 execVars, controlVars, instruction_count>>

-----------------------------------------------------------------------------
\* writeback: results reach the ROB and, broadcast, everything that waits for
\* them.  They concern different tags, so their order makes no difference.
Completed == UNION {paths[t].completed : t \in ExecType}

WritebackOne ==
  /\ stage = "writeback" /\ Completed # {}
  /\ LET x     == CHOOSE y \in Completed : \A z \in Completed : y.tag <= z.tag
         taken == [t \in ExecType |-> P!Taken(paths[t], x)]
         wakes == writes_register(x.op)
     IN  /\ IF \E i \in DOMAIN rob : rob[i].tag = x.tag
              THEN \E i \in DOMAIN rob : rob[i].tag = x.tag /\ R!Update(i, x.result)
              ELSE UNCHANGED renameVars
         /\ paths' = IF wakes THEN [t \in ExecType |-> P!Woken(taken[t], x)] ELSE taken
         /\ lsq' = IF wakes THEN L!Woken(lsq, x.tag, x.result.value) ELSE lsq
  /\ UNCHANGED <<inputVars, stage, committed, frontVars, halted, archVars, lsus,
                 controlVars, instruction_count>>

\* Then control instructions are resolved, in order: the predictor learns, and the
\* first misprediction empties the pipeline behind it and ends the step.
Train(e) ==
  /\ bp' = B!Updated(bp, e.pc, e.op, e.result.jumped, ToWord(R!Target(e)))
  /\ branch_count' = branch_count + (IF e.op \in Branch THEN 1 ELSE 0)

\* Mutant of flush: the load/store queue keeps the accesses of the wrong path.
FlushNotLsq(tag) ==
  /\ fetch_q' = <<>> /\ decode_q' = <<>>
  /\ paths' = [t \in ExecType |-> P!Flushed(paths[t], tag)]
  /\ UNCHANGED <<lsq, lsus>>

\* CPU::flush; the ROB, the alias tables and the tag of the vset are Rename's.
flush(tag) ==
  /\ fetch_q' = <<>> /\ decode_q' = <<>>
  /\ paths' = [t \in ExecType |-> P!Flushed(paths[t], tag)]
  /\ lsq' = L!FlushAfter(lsq, tag)
  /\ lsus' = {u \in lsus : u.tag <= tag}

\* Mutant of ResolveOne: one control instruction a step, the others wait.
ResolveOnlyOne ==
  /\ stage = "writeback" /\ Completed = {}
  /\ \E i \in DOMAIN rob : R!Resolve(i) /\ Train(rob[i])
  /\ stage' = "check_halt"
  /\ UNCHANGED <<inputVars, committed, frontVars, halted, archVars, execVars,
                 mispred_count, instruction_count>>

ResolveOne ==
  /\ stage = "writeback" /\ Completed = {}
  /\ \E i \in DOMAIN rob : R!Resolve(i) /\ Train(rob[i])
  /\ UNCHANGED <<inputVars, stage, committed, frontVars, halted, archVars, execVars,
                 mispred_count, instruction_count>>

FlushMispredicted ==
  /\ stage = "writeback" /\ Completed = {}
  /\ \E i \in DOMAIN rob :
       /\ R!Mispredict(i)
       /\ Train(rob[i])
       /\ mispred_count' = mispred_count + (IF rob[i].op \in Branch THEN 1 ELSE 0)
       /\ flush(rob[i].tag)
       /\ pc' = ToWord(R!Target(rob[i]))
  /\ fetch_stopped' = FALSE
  /\ stage' = "check_halt"
  /\ UNCHANGED <<inputVars, committed, halted, archVars, instruction_count>>

-----------------------------------------------------------------------------
\* execute: every busy unit steps.  Address generation units tell the load/store
\* queue, then load/store units finish, seeing those addresses.
Result(e) == [op |-> e.op, tag |-> e.tag, result |-> Compute(e, vl)]

AccessResult(a) ==
  [op |-> a.op, tag |-> a.tag,
   result |-> [value |-> a.V, target |-> 0, jumped |-> FALSE, vl |-> a.vl, sew |-> a.sew]]

Ended == {u.tag : u \in {v \in lsus : v.left = 1}}
WildLoad == \E i \in DOMAIN lsq : lsq[i].tag \in Ended /\ lsq[i].op \in Load /\ IsWild(lsq[i])

\* A load behind the end of memory finds anything there.
Execute ==
  /\ stage = "writeback" /\ Completed = {} /\ R!Settled
  /\ \A e \in P!Finishing(paths["VECTOR"]) : ~Unsupported(e)
  /\ \E found \in IF WildLoad THEN Byte ELSE {0} :
     LET generated == {[tag |-> e.tag, Va |-> EffectiveAddress(e), vl |-> e.vl] :
                         e \in P!Finishing(paths["LOADSTORE"])}
         queue     == L!Completed(L!Addressed(lsq, generated), Ended, Beyond(mem, found))
         results(t) ==
           IF t = "LOADSTORE"
             THEN {AccessResult(queue[i]) : i \in {j \in DOMAIN queue : queue[j].tag \in Ended}}
             ELSE {Result(e) : e \in P!Finishing(paths[t])}
     IN  /\ paths' = [t \in ExecType |-> P!Executed(paths[t], results(t))]
         /\ lsq' = queue
         /\ lsus' = {[u EXCEPT !.left = @ - 1] : u \in {v \in lsus : v.left # 1}}
  /\ stage' = "issue"
  /\ UNCHANGED <<inputVars, committed, frontVars, halted, renameVars, archVars,
                 controlVars, instruction_count>>

\* The vector unit throws out of step(), in the middle of execute; or the process
\* does not survive a load behind the end of memory.
ExecuteThrows ==
  /\ stage = "writeback" /\ Completed = {} /\ R!Settled
  /\ WildLoad \/ \E e \in P!Finishing(paths["VECTOR"]) : Unsupported(e)
  /\ stage' = "crashed"
  /\ UNCHANGED <<inputVars, committed, frontVars, halted, renameVars, archVars,
                 execVars, controlVars, instruction_count>>

\* issue: reservation stations to units, and accesses to load/store units.
Issue ==
  /\ stage = "issue"
  /\ paths' = [t \in ExecType |->
                 P!Issued(paths[t], config.units[t], t = "LOADSTORE")]
  /\ LET chosen == L!ToIssue(lsq, config.units["LOADSTORE"] - Cardinality(lsus))
     IN  /\ lsq' = L!Issued(lsq, chosen)
         /\ lsus' = lsus \cup {[tag |-> lsq[i].tag, left |-> cycles(lsq[i].op)] : i \in chosen}
  /\ stage' = "dispatch"
  /\ UNCHANGED <<inputVars, committed, frontVars, halted, renameVars, archVars,
                 controlVars, instruction_count>>

-----------------------------------------------------------------------------
\* rob.get(tag)
rob_get(tag) == rob[CHOOSE i \in DOMAIN rob : rob[i].tag = tag]

\* Mutant of Operand: a result that has not been committed is taken for the one in
\* the register file.
OperandNotFromRob(t, r) ==
  IF t = "NONE" \/ (t = "INT" /\ r = 0) THEN [V |-> scalar(0), Q |-> NoTag]
  ELSE IF rat[t][r] = NoTag \/ rob_get(rat[t][r]).ready
         THEN [V |-> regs[t][r], Q |-> NoTag]
         ELSE [V |-> scalar(0), Q |-> rat[t][r]]

\* read_operand: the value of register r of file t, or the tag that will bring it.
Operand(t, r) ==
  IF t = "NONE" \/ (t = "INT" /\ r = 0) THEN [V |-> scalar(0), Q |-> NoTag]
  ELSE IF rat[t][r] = NoTag THEN [V |-> regs[t][r], Q |-> NoTag]
  ELSE IF rob_get(rat[t][r]).ready
         THEN [V |-> rob_get(rat[t][r]).result.value, Q |-> NoTag]
         ELSE [V |-> scalar(0), Q |-> rat[t][r]]

\* The vl and sew instruction d runs under, or the tag of the vset that sets them.
VectorConfig(d) ==
  LET now == [vl |-> vl, sew |-> IF d.op \in VSet THEN d.sew ELSE vsew, Q |-> NoTag]
  IN  IF d.op \notin Vec \ VSet \/ vec_tag = NoTag THEN now
      ELSE IF rob_get(vec_tag).ready
             THEN LET res == rob_get(vec_tag).result
                  IN  [vl |-> res.vl, sew |-> res.sew, Q |-> NoTag]
             ELSE [now EXCEPT !.Q = vec_tag]

\* The reservation station entry of d, with the operands there are.
RSEntry(d) ==
  LET j == Operand(src_type(d.op, 0), d.rs1)
      k == Operand(src_type(d.op, 1), d.rs2)
      l == Operand(src_type(d.op, 2), d.rs3)
      v == VectorConfig(d)
  IN  [op |-> d.op, Vj |-> j.V, Vk |-> k.V, Vl |-> l.V, Qj |-> j.Q, Qk |-> k.Q,
       Ql |-> l.Q, Qv |-> v.Q, pc |-> d.pc, imm |-> d.imm, rm |-> d.rm, vl |-> v.vl,
       sew |-> v.sew, tag |-> next_tag]

\* Mutant of CanAllocate: the load/store queue is not asked.
CanAllocateStation(d) == P!can_allocate(paths[exec_type(d.op)], config.rs_size)

\* There is a station for d, and for a load or store a place in the queue.
CanAllocate(d) ==
  /\ P!can_allocate(paths[exec_type(d.op)], config.rs_size)
  /\ IsAccess(d.op) => Len(lsq) < config.lsq_size

DispatchOne ==
  /\ stage = "dispatch" /\ decode_q # <<>>
  /\ LET d == Head(decode_q)
         e == RSEntry(d)
     IN  /\ d.op # "INVALID" /\ CanAllocate(d)
         /\ R!Allocate(d)
         /\ paths' = [paths EXCEPT ![exec_type(d.op)] = P!Dispatched(@, config.rs_size, e)]
         /\ lsq' = IF IsAccess(d.op)
                     THEN Append(lsq, L!NewAccess(d.op, e.tag, e.Vk, e.Qk, e.vl)) ELSE lsq
  /\ decode_q' = Tail(decode_q)
  /\ UNCHANGED <<inputVars, stage, committed, pc, fetch_q, fetch_stopped, halted,
                 archVars, lsus, controlVars, instruction_count>>

\* A full structure stalls the front of the pipeline for this step.
DispatchStalls ==
  /\ stage = "dispatch" /\ decode_q # <<>>
  /\ Head(decode_q).op # "INVALID"
  /\ ~CanAllocate(Head(decode_q)) \/ Len(rob) = RobSize
  /\ stage' = "check_halt"
  /\ UNCHANGED <<inputVars, committed, frontVars, halted, renameVars, archVars,
                 execVars, controlVars, instruction_count>>

\* A word that did not decode halts the CPU as soon as it reaches dispatch.
DispatchInvalid ==
  /\ stage = "dispatch" /\ decode_q # <<>> /\ Head(decode_q).op = "INVALID"
  /\ halted' = TRUE
  /\ stage' = "front"
  /\ UNCHANGED <<inputVars, committed, frontVars, renameVars, archVars, execVars,
                 controlVars, instruction_count>>

-----------------------------------------------------------------------------
\* decode: the instruction at pc a, with its prediction.
Decode(a) ==
  LET d     == program[a \div WORD_BYTES + 1]
      guess == IF d.op \in Ctrl THEN B!predict(bp, a, d.op, d.imm)
               ELSE [taken |-> FALSE, target |-> ToWord(a + WORD_BYTES)]
  IN  [op |-> d.op, rd |-> d.rd, rs1 |-> d.rs1, rs2 |-> d.rs2, rs3 |-> d.rs3,
       imm |-> d.imm, rm |-> d.rm, sew |-> d.sew, pc |-> a,
       pred_taken |-> guess.taken, pred_target |-> guess.target]

\* The fetched words are decoded up to the first predicted to be taken, where
\* fetching goes on; the queue is then empty and fetch fills it again, until the
\* end of the program.
DecodeAndFetch ==
  /\ stage = "front" \/ (stage = "dispatch" /\ decode_q = <<>>)
  /\ LET decoded == [i \in DOMAIN fetch_q |-> Decode(fetch_q[i])]
         taken   == {i \in DOMAIN fetch_q : decoded[i].pred_taken}
         last    == IF taken = {} THEN Len(fetch_q)
                    ELSE CHOOSE i \in taken : \A j \in taken : i <= j
         from    == IF taken = {} THEN pc ELSE decoded[last].pred_target
         left    == IF from > end - WORD_BYTES THEN 0 ELSE (end - from) \div WORD_BYTES
         count   == IF fetch_stopped THEN 0
                    ELSE IF left < config.width THEN left ELSE config.width
     IN  /\ decode_q' = decode_q \o SubSeq(decoded, 1, last)
         /\ fetch_q' = [i \in 1..count |-> from + (i - 1) * WORD_BYTES]
         /\ pc' = ToWord(from + count * WORD_BYTES)
         /\ fetch_stopped' = (fetch_stopped \/ count < config.width)
  /\ stage' = "check_halt"
  /\ UNCHANGED <<inputVars, committed, halted, renameVars, archVars, execVars,
                 controlVars, instruction_count>>

\* Mutant of CheckHalt: the instructions in flight are forgotten.
CheckHaltFrontOnly ==
  /\ stage = "check_halt"
  /\ halted' = (halted \/ (fetch_stopped /\ fetch_q = <<>> /\ decode_q = <<>>))
  /\ stage' = "idle"
  /\ UNCHANGED <<inputVars, committed, frontVars, renameVars, archVars, execVars,
                 controlVars, instruction_count>>

\* check_halt
CheckHalt ==
  /\ stage = "check_halt"
  /\ halted' = (halted \/ (/\ fetch_stopped
                           /\ fetch_q = <<>> /\ decode_q = <<>> /\ rob = <<>>))
  /\ stage' = "idle"
  /\ UNCHANGED <<inputVars, committed, frontVars, renameVars, archVars, execVars,
                 controlVars, instruction_count>>

-----------------------------------------------------------------------------
CpuNext ==
  \/ StartStep
  \/ CommitOne \/ CommitThrows \/ CommitEnds
  \/ WritebackOne \/ ResolveOne \/ FlushMispredicted
  \/ Execute \/ ExecuteThrows \/ Issue
  \/ DispatchOne \/ DispatchStalls \/ DispatchInvalid
  \/ DecodeAndFetch \/ CheckHalt

CpuSpec == CpuInit /\ [][CpuNext]_cpuVars

\* main and the TUI's `r` call step() while the CPU is running, and step() is a
\* sequence of loops that end.
CpuFairSpec == CpuSpec /\ WF_cpuVars(CpuNext)

-----------------------------------------------------------------------------
\* Types of the state that is not a component's own.
CpuTypeOK ==
  /\ program \in Seq(Instruction)
  /\ stage \in {"idle", "commit", "writeback", "issue", "dispatch", "front",
                "check_halt", "crashed"}
  /\ committed \in 0..config.width
  /\ pc \in Word /\ fetch_q \in Seq(Word)
  /\ Len(fetch_q) <= config.width
  /\ ~halted => Len(decode_q) <= config.width
  /\ fetch_stopped \in BOOLEAN /\ halted \in BOOLEAN
  /\ R!RenameTypeOK
  /\ regs \in [RegFiles -> [Reg -> Value]]
  /\ vl \in 0..VectorBits /\ vsew \in {8, 16, 32}
  /\ lsq \in Seq(L!LSQEntry) /\ Len(lsq) <= config.lsq_size
  /\ mem \in MemState
  /\ \A t \in ExecType :
       /\ DOMAIN paths[t].stations \subseteq 1..config.rs_size
       /\ Cardinality(paths[t].units) <= config.units[t]
  /\ Cardinality(lsus) <= config.units["LOADSTORE"]
  /\ {instruction_count, branch_count, mispred_count} \subseteq Nat

-----------------------------------------------------------------------------
\* The architectural state: what commit has written, and the address of the next
\* instruction to commit, the oldest there is anywhere in the pipeline.
NextPc == IF rob # <<>> THEN Head(rob).pc
          ELSE IF decode_q # <<>> THEN Head(decode_q).pc
          ELSE IF fetch_q # <<>> THEN Head(fetch_q)
          ELSE pc

\* Branches are counted when they are resolved, which is before they commit.
CommittedBranches ==
  branch_count - Cardinality({i \in DOMAIN rob : rob[i].op \in Branch /\ rob[i].ctrl_handled})

M == INSTANCE Machine WITH
       apc <- NextPc, aregs <- regs, avl <- vl, avsew <- vsew, amem <- mem,
       instret <- instruction_count, branches <- CommittedBranches,
       fault <- stage = "crashed"

\* The pipeline implements the sequential machine: each commit is the execution of
\* the next instruction in program order with the values that machine gives it,
\* and no other step, whatever is speculated, reordered, forwarded or flushed,
\* shows in the registers, memory, vl and sew, or the counts that main reports.
ImplementsMachine == M!MachineSpec

\* Rename leaves open what surrounds it, and the pipeline is one such surrounding:
\* whatever the stages do to the re-order buffer, the alias tables and the vset tag
\* is a step of Rename.  A result comes back once, for an instruction that is still
\* there, and of the kind it can yield; and nothing is dispatched or committed while
\* there is a control instruction that could be resolved, although dispatch and
\* commit are two stages away from the loop that resolves them.
RenameStep ==
  \/ decode_q # <<>> /\ R!Dispatch(Head(decode_q))
  \/ \E i \in DOMAIN rob, x \in Completed :
       rob[i].tag = x.tag /\ x.result \in R!Result /\ R!Writeback(i, x.result)
  \/ \E i \in DOMAIN rob : R!Resolve(i) \/ R!Mispredict(i)
  \/ R!Commit

KeepsToRename == [][RenameStep]_renameVars

\* The load/store queue holds the loads and stores of the ROB, in the same order,
\* that of their tags: commit never throws "LSQ head tag does not match commit tag",
\* and the queue is never blocked by an access that will not commit.
LsqMirrorsRob ==
  /\ R!TagsGrow(rob) /\ L!TagsGrow(lsq)
  /\ {<<lsq[i].tag, lsq[i].op>> : i \in DOMAIN lsq}
       = {<<rob[i].tag, rob[i].op>> : i \in {j \in DOMAIN rob : IsAccess(rob[j].op)}}

\* No instruction is lost or duplicated between the stations, units and result
\* lists: one that waits for its result is in exactly one of them (a load or store
\* in one until its address is known, then in the queue's care until its result
\* is collected), one that has its result is in none, and a flush leaves nothing
\* behind.
OneHome ==
  /\ \A t \in ExecType :
       P!Waiting(paths[t]) \cup P!Running(paths[t]) \cup P!Finished(paths[t])
         \subseteq {rob[i].tag : i \in DOMAIN rob}
  /\ \A i \in DOMAIN rob :
       LET e        == rob[i]
           path     == paths[exec_type(e.op)]
           waiting  == e.tag \in P!Waiting(path)
           running  == e.tag \in P!Running(path)
           finished == e.tag \in P!Finished(path)
           homes    == Cardinality({s \in DOMAIN path.stations :
                                      path.stations[s].tag = e.tag})
                       + Cardinality({u \in path.units : u.rs.tag = e.tag})
                       + Cardinality({x \in path.completed : x.tag = e.tag})
       IN  IF ~IsAccess(e.op)
             THEN homes = (IF e.ready THEN 0 ELSE 1)
             ELSE \E j \in DOMAIN lsq :
                    /\ lsq[j].tag = e.tag
                    /\ (lsq[j].Qa # NoTag) <=> (waiting \/ running)
                    /\ lsq[j].done <=> (finished \/ e.ready)
                    /\ homes <= 1 /\ (finished => ~e.ready)

\* The tags an instruction waits for, wherever it waits.
WaitsFor(tag) ==
  (UNION {{e.Qj, e.Qk, e.Ql, e.Qv} : e \in
            UNION {{paths[t].stations[s] : s \in {r \in DOMAIN paths[t].stations :
                                                   paths[t].stations[r].tag = tag}}
                     : t \in ExecType}})
    \cup {lsq[i].Q : i \in {j \in DOMAIN lsq : lsq[j].tag = tag}}

\* Whatever is waited for is still to come: an operand tag names an older
\* instruction whose result has not been broadcast.  So no broadcast is missed
\* between reading an alias table and waiting, no flush or commit takes away a
\* producer someone waits for, and instructions never wait for each other in a
\* circle.
WaitsForOlder ==
  \A i \in DOMAIN rob : \A q \in WaitsFor(rob[i].tag) \ {NoTag} :
    \E j \in 1..(i-1) : rob[j].tag = q /\ ~rob[j].ready

\* The CPU halts only when the program has ended: everything before the end, or
\* before the word that does not decode, has committed.
HaltsAtEnd ==
  halted => rob = <<>> /\ (M!AtEnd \/ M!Instr.op = "INVALID")

\* One instruction at a time, that is so for a program of which all words decode (see
\* the runs of HaltsAtEnd for other programs and widths).
HaltsAtEndWhenNarrow ==
  config.width = 1 /\ (\A i \in DOMAIN program : program[i].op # "INVALID") => HaltsAtEnd
=============================================================================
