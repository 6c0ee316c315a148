----------------------------- MODULE Allocator -----------------------------
(***************************************************************************)
(* FlowGraphAllocator (linearscan.cc) for the general-purpose register    *)
(* class of a function whose body is an acyclic graph of blocks, with    *)
(* phis at joins: liveness (SSALivenessAnalysis), construction of live     *)
(* ranges and phi moves                                                    *)
(* (BuildLiveRanges / ProcessOneInstruction), the linear-scan loop         *)
(* (AllocateUnallocatedRanges), spilling, and control-flow resolution     *)
(* inside and across blocks.                                               *)
(*                                                                         *)
(* A program is [code, blocks].  code is a sequence of location summaries:*)
(*   [out  : output location (policy, fixed register or NoLocation),       *)
(*    ins  : sequence of [v : defining instruction, loc : input location], *)
(*    temp : temp location or NoLocation,                                  *)
(*    call : BOOLEAN (always_calls: blocks every register, a safepoint),   *)
(*    rep  : "tagged" | "untagged" representation of the result,           *)
(*    phi  : for a phi, its inputs in predecessor order; else << >>,      *)
(*    init : "none", or the kind of an initial definition: "param" (a      *)
(*           ParameterInstr of the function entry, out is the location it  *)
(*           arrives in) or "const" (a ConstantInstr of the graph entry)]   *)
(* Instruction i defines virtual register i.  blocks is block_order_ past  *)
(* the graph entry: block b is [last, succ], holding the instructions     *)
(* after those of block b - 1 up to last, with successors succ.  A block  *)
(* with one successor ends in a Goto.  The phis of a join are its first    *)
(* entries; they have no location summary and take no position.           *)
(*                                                                         *)
(* Positions follow NumberInstructions: the graph entry is at 0, the      *)
(* function entry (block 1) at kNormalEntryPos = 2, every block entry and *)
(* instruction takes the next even position, and a block ends where the  *)
(* next one starts.  Initial definitions come first in block 1 and take   *)
(* no position: a constant is defined at the graph entry, a parameter at  *)
(* the function entry.                                                     *)
(*                                                                         *)
(* Location slots (the Location* cells the allocator writes through) are  *)
(* named [i, k, j]: input j, the output or the temp of instruction i, or  *)
(* the destination / source of move i.                                     *)
(***************************************************************************)
EXTENDS LiveRange

CONSTANTS
  Programs,      \* the location summaries the run may start from
  NumRegs,       \* kNumberOfCpuRegisters
  Blocked,       \* registers that are not allocatable (blocked_cpu_registers_)
  Bias           \* kRegisterAllocationBias

Regs == 0..NumRegs - 1

ASSUME Blocked \subseteq Regs /\ Bias \in Nat

VARIABLES
  prog,    \* the function's instructions
  cfg,     \* the function's blocks, in block order
  phase,   \* "build", "alloc", "resolve" or "done"
  cur,     \* next instruction BuildLiveRanges processes (backwards)
  a,       \* the allocator's fields, see below
  built    \* history: the live ranges as construction left them

vars == << prog, cfg, phase, cur, a, built >>

(***************************************************************************)
(* The allocator's fields:                                                 *)
(*   ranges      arena of live ranges: 1..N are live_ranges_[v], N+1+r is  *)
(*               cpu_regs_[r] (the blocking range of r), then temporaries *)
(*               and split siblings in order of creation                   *)
(*   ucpu        unallocated_cpu_,   un  unallocated_ (range ids)          *)
(*   regs        registers_: register -> ids of the ranges allocated to it *)
(*   spillSlots  spill_slots_ (expiry of each slot)                        *)
(*   untagged    untagged_spill_slots_                                     *)
(*   spilled     spilled_                                                  *)
(*   safepoints  safepoints_ (instruction numbers)                         *)
(*   stackmap    position -> stack slots marked as objects                 *)
(*   cell        location slot -> Location                                 *)
(*   moves       parallel-move entries [pos, dst, src] (slots)             *)
(*   fault       the first failed ASSERT, or "none"                        *)
(*   swapped     instructions whose two inputs Value::BindTo exchanged     *)
(*   matDone     materializations given their locations, <<instr, m>>      *)
(* A vreg or blocking range nothing referred to has no intervals: it      *)
(* stands for the nullptr entry of live_ranges_ / cpu_regs_.               *)
(***************************************************************************)
N == Len(prog)
NB == Len(cfg)
First(b) == IF b = 1 THEN 1 ELSE cfg[b - 1].last + 1
BlockOf(i) == CHOOSE b \in 1..NB : First(b) <= i /\ i <= cfg[b].last
IsPhi(i) == prog[i].phi # << >>
IsParam(i) == prog[i].init = "param"
IsConst(i) == prog[i].init = "const"
\* An instruction of a block, with a location summary and a position.
IsInstr(i) == ~IsPhi(i) /\ prog[i].init = "none"
kNormalEntryPos == 2
\* The position of an instruction; a phi is at its join's entry, a
\* parameter at the function entry and a constant at the graph entry.
Pos(i) == IF IsConst(i) THEN 0
          ELSE 2 + 2 * Cardinality({k \in 1..i : IsInstr(k)}) + 2 * (BlockOf(i) - 1)
\* block->start_pos() and block->end_pos()
BlockEnd(b) == Pos(cfg[b].last) + 2
BlockStart(b) == IF b = 1 THEN kNormalEntryPos ELSE BlockEnd(b - 1)
BlockEndPos == BlockEnd(NB)
Preds(b) == {p \in 1..NB : b \in cfg[p].succ}
\* block->PredecessorAt(j): phi input j comes from the j-th predecessor.
PredSeq(b) == SetToSortSeq(Preds(b), <)
PhiSeq(b) == SetToSortSeq({i \in First(b)..cfg[b].last : IsPhi(i)}, <)
\* The parallel move of a Goto, one past the Goto's position.
GotoMovePos(p) == Pos(cfg[p].last) + 1
IsGoto(i) == i = cfg[BlockOf(i)].last /\ Cardinality(cfg[BlockOf(i)].succ) = 1
\* FlowGraphAllocator::IsBlockEntry: the graph entry or a block entry.
IsBlockEntry(pos) == pos = 0 \/ \E b \in 1..NB : pos = BlockStart(b)
\* The start of BlockEntryAt(pos): the graph entry B0 or block b.
BlockEntryAt(pos) ==
  IF pos < kNormalEntryPos THEN 0
  ELSE BlockStart(Max({b \in 1..NB : BlockStart(b) <= pos}))
Blk(r) == N + 1 + r
Exists(r) == r.ivs # << >>

InSlot(i, j) == [i |-> i, k |-> "in", j |-> j]
OutSlot(i)   == [i |-> i, k |-> "out", j |-> 0]
TempSlot(i)  == [i |-> i, k |-> "temp", j |-> 0]
DstSlot(m)   == [i |-> m, k |-> "dst", j |-> 0]
SrcSlot(m)   == [i |-> m, k |-> "src", j |-> 0]
\* Environment::locations()[j] of instruction i, the frames (innermost
\* first, then each outer()) read as one sequence.
EnvSlot(i, j) == [i |-> i, k |-> "env", j |-> j]
EnvValues(p, i) == FlattenSeq(p[i].env)
\* A value -m of an environment or of a materialization's inputs is the
\* MaterializeObject m of the same instruction's deoptimization exit;
\* p[i].mats[m] are its inputs.  MatSlot(i, m, j) is its locations()[j],
\* numbered across the instruction's materializations.
IsMat(v) == v < 0
MatSlot(i, m, j) == [i |-> i, k |-> "mat", j |-> Len(FlattenSeq(SubSeq(prog[i].mats, 1, m - 1))) + j]
\* LiveRange::assigned_location_slot() of live_ranges_[x]
AssignedSlot(x) == [i |-> x, k |-> "assigned", j |-> 0]

\* The location summaries as the compiler hands them over.
InitialCells(p) ==
  LET I == 1..Len(p) IN
  [s \in {InSlot(i, j) : i \in I, j \in 1..4} \cup {OutSlot(i) : i \in I}
         \cup {TempSlot(i) : i \in I} \cup UNION {{EnvSlot(i, j) : j \in DOMAIN EnvValues(p, i)} : i \in I}
         \cup UNION {{[i |-> i, k |-> "mat", j |-> j] : j \in DOMAIN FlattenSeq(p[i].mats)} : i \in I} |->
     IF s.k = "out" THEN p[s.i].out
     ELSE IF s.k = "temp" THEN p[s.i].temp
     ELSE IF s.k \in {"env", "mat"} THEN NoLocation
     ELSE IF s.j <= Len(p[s.i].ins) THEN p[s.i].ins[s.j].loc ELSE NoLocation]

\* The arena as a sequence value.  Every function the model builds for it
\* element by element is taken through SubSeq: TLC applies the Sequences
\* operators to such a function as it was before any EXCEPT.
AsSeq(f) == SubSeq(f, 1, Len(f))

\* NumberInstructions: the Goto of each predecessor of a join gets one
\* empty move per phi of the join, in phi order.  A phi move records the
\* phi it defines and the input it copies on that edge.
PhiMovesInto(b) ==
  FoldLeft(LAMBDA acc, j :
             acc \o [k \in DOMAIN PhiSeq(b) |->
                       [pos |-> GotoMovePos(PredSeq(b)[j]), phi |-> PhiSeq(b)[k],
                        val |-> prog[PhiSeq(b)[k]].phi[j]]],
           << >>, [j \in DOMAIN PredSeq(b) |-> j])

InitialMoves ==
  LET ms == FoldLeft(LAMBDA acc, b : acc \o PhiMovesInto(b), << >>, [b \in 1..NB |-> b])
  IN [m \in DOMAIN ms |-> [pos |-> ms[m].pos, dst |-> DstSlot(m), src |-> SrcSlot(m),
                           phi |-> ms[m].phi, val |-> ms[m].val]]

\* The phi move on the edge from p to its successor for phi k.
PhiMove(st, p, k) ==
  CHOOSE m \in DOMAIN st.moves : st.moves[m].pos = GotoMovePos(p) /\ st.moves[m].phi = k

\* The cells a hint may name: location slots, and the assigned location of
\* a value's live range.
HintCells(st) == [s \in {AssignedSlot(x) : x \in 1..N} |-> st.ranges[s.i].assigned] @@ st.cell

InitialRanges(p) == AsSeq(
  [x \in 1..Len(p) + NumRegs |->
     IF x <= Len(p) THEN NewLiveRange(x, p[x].rep)
     ELSE [NewLiveRange(kNoVirtualRegister, "none") EXCEPT
             !.assigned = RegLoc(x - Len(p) - 1)]])

\* A new range at the end of the arena.
NewRange(ranges, r) == Append(AsSeq(ranges), r)

SetCell(st, s, l) == [st EXCEPT !.cell = (s :> l) @@ @]

\* A failed ASSERT is recorded, the first one only.
Fail(st, why) == IF st.fault = "none" THEN [st EXCEPT !.fault = why] ELSE st

\* ParallelMoveInstr::AddMove on the parallel move at pos: the move's slots
\* are DstSlot(m) and SrcSlot(m) with m = Len(moves) + 1.  The parallel
\* move of a block entry is at the entry's position, that of a Goto one
\* past the Goto's.
AddMove(st, pos, to, from) ==
  LET m == Len(st.moves) + 1 IN
  [st EXCEPT !.moves = Append(@, [pos |-> pos, dst |-> DstSlot(m), src |-> SrcSlot(m),
                                  phi |-> 0, val |-> 0]),
             !.cell = (DstSlot(m) :> to) @@ (SrcSlot(m) :> from) @@ @]

\* FlowGraphAllocator::AddMoveAt: never at a block entry (there are no
\* catch entries) nor in the graph entry.
AddMoveAt(st, pos, to, from) ==
  AddMove(IF IsBlockEntry(pos) \/ pos < kNormalEntryPos
          THEN Fail(st, "AddMoveAt: !IsBlockEntry(pos)") ELSE st, pos, to, from)

\* BlockRegisterLocation / BlockLocation
BlockLocation(st, loc, from, to) ==
  IF loc.idx \in Blocked THEN st
  ELSE [st EXCEPT !.ranges[Blk(loc.idx)] = AddUseInterval(@, from, to)]

\* BlockCpuRegisters(kAllCpuRegistersList, ...)
BlockAllCpuRegisters(st, from, to) ==
  [st EXCEPT !.ranges = AsSeq([x \in DOMAIN @ |->
      IF x \in {Blk(r) : r \in Regs \ Blocked} THEN AddUseInterval(st.ranges[x], from, to)
      ELSE st.ranges[x]])]

\* AddToSortedListOfRanges: insert after the last range that does not start
\* later, so the list is sorted by decreasing start.
ShouldBeAllocatedBefore(r1, r2) == Start(r1) <= Start(r2)

\* Variant: a range is put on the list without regard to its start.
AppendToListOfRanges(list, id, ranges) == Append(list, id)

AddToSortedListOfRanges(list, id, ranges) ==
  LET after == {k \in 1..Len(list) :
                  ShouldBeAllocatedBefore(ranges[id], ranges[list[k]])}
  IN IF after = {} THEN InsertAt(list, 1, id) ELSE InsertAt(list, Max(after) + 1, id)

\* CompleteRange (cpu kind) and AddToUnallocated; both initialize the finger.
CompleteRange(st, id) ==
  LET st1 == [st EXCEPT !.ranges[id] = Initialize(@)]
  IN [st1 EXCEPT !.ucpu = AddToSortedListOfRanges(@, id, st1.ranges)]

AddToUnallocated(st, id) ==
  LET st1 == [st EXCEPT !.ranges[id] = Initialize(@)]
  IN [st1 EXCEPT !.un = AddToSortedListOfRanges(@, id, st1.ranges)]

(***************************************************************************)
(* Liveness.  SSALivenessAnalysis::ComputeInitialSets walks each block    *)
(* backwards: a definition is killed and leaves live_in, an input joins   *)
(* it; then the phis of a join are killed, and each phi input is put in   *)
(* the live_in of its predecessor.  Blocks are visited in postorder, so   *)
(* on an acyclic graph a join comes before its predecessors: the input is *)
(* there before the predecessor's own walk removes its definitions.  The  *)
(* fixpoint that completes live_in and live_out is solved by the *)
(* LivenessAnalysis base class, which is not part of linearscan.cc; on an *)
(* acyclic graph it is the recursion below.                                *)
(***************************************************************************)
\* A parameter, whose out is its location, is killed in the function entry;
\* a constant is killed in the graph entry, so it is live into block 1.
Kill(b) == {i \in First(b)..cfg[b].last : ~IsInvalid(prog[i].out) \/ IsPhi(i)}

\* DeepLiveness: the materializations reachable from the set S of them,
\* each visited once (was_visited_for_liveness).
RECURSIVE MatClosure(_, _)
MatClosure(i, S) ==
  LET T == S \cup {-w : w \in {w \in UNION {Range(prog[i].mats[m]) : m \in S} : IsMat(w)}}
  IN IF T = S THEN S ELSE MatClosure(i, T)

\* The materializations of instruction i's environment (Environment::
\* DeepIterator), and every value its deoptimization reads.
ReachableMats(i) == MatClosure(i, {-v : v \in {v \in Range(EnvValues(prog, i)) : IsMat(v)}})
DeepValues(i) ==
  {v \in Range(EnvValues(prog, i)) \cup UNION {Range(prog[i].mats[m]) : m \in ReachableMats(i)} :
     ~IsMat(v)}

\* The values of the deoptimization environment are live in too, except
\* constants; a materialization's inputs stand for it.
InitialLiveInStep(live, i) ==
  (IF IsInvalid(prog[i].out) /\ ~IsPhi(i) THEN live ELSE live \ {i})
  \cup {prog[i].ins[j].v : j \in {j \in DOMAIN prog[i].ins : ~IsConstant(prog[i].ins[j].loc)}}
  \cup {v \in DeepValues(i) : ~IsConst(v)}

\* The inputs of the phis of b's successors on the edges from b.
PhiInputsFrom(b) ==
  UNION {{prog[k].phi[j] : j \in {j \in DOMAIN PredSeq(BlockOf(k)) : PredSeq(BlockOf(k))[j] = b}} :
           k \in UNION {Range(PhiSeq(s)) : s \in cfg[b].succ}}

InitialLiveIn(b) ==
  FoldLeft(InitialLiveInStep, PhiInputsFrom(b),
           [k \in 1..cfg[b].last - First(b) + 1 |-> cfg[b].last - k + 1])

RECURSIVE LiveIn(_)
LiveOut(b) == UNION {LiveIn(s) : s \in cfg[b].succ}
LiveIn(b) == InitialLiveIn(b) \cup (LiveOut(b) \ Kill(b))

\* BuildLiveRanges, on entering block b: every value live out of b gets an
\* interval covering the whole block, shortened later by its definition.
AddLiveOutIntervals(st, b) ==
  [st EXCEPT !.ranges = AsSeq([x \in DOMAIN @ |->
      IF x \in LiveOut(b) THEN AddUseInterval(st.ranges[x], BlockStart(b), BlockEnd(b))
      ELSE st.ranges[x]])]

\* LiveRange::AddSafepoint: a range whose spill slot is a constant records
\* no always-calls safepoint, and every safepoint here is a call.
RecordsCallSafepoints(r) == ~IsConstant(r.spill)

\* AssignSafepoints: the safepoints of other instructions the range contains,
\* in increasing order.
AssignSafepoints(st, def, id) ==
  LET r  == st.ranges[id]
      ps == {Pos(s) : s \in {s \in Range(st.safepoints) : s # def}}
      in == IF RecordsCallSafepoints(r) THEN SetToSortSeq({p \in ps : RangeContains(r, p)}, <)
            ELSE << >>
  IN [st EXCEPT !.ranges[id].sps = @ \o [k \in DOMAIN in |-> ToInstructionEnd(in[k])]]

(***************************************************************************)
(* ProcessEnvironmentUses: every value of the environment survives to the *)
(* end of instruction i, in any location: an interval from the block's    *)
(* start and an Any use at Pos(i) + 1.  A constant is its own location.   *)
(***************************************************************************)
(***************************************************************************)
(* ProcessMaterializationUses: the inputs of MaterializeObject m of       *)
(* instruction i get their own locations, like the environment's values.  *)
(* A materialization seen before (mat->locations() set) is skipped, which *)
(* also ends a cycle of materializations.                                  *)
(***************************************************************************)
RECURSIVE ProcessMaterializationUses(_, _, _)
\* Variant: an inner materialization gets NoLocation but is not processed.
MatUseNoRecurse(st, i, m, j) ==
  LET w == prog[i].mats[m][j]
  IN CASE IsMat(w)   -> SetCell(st, MatSlot(i, m, j), NoLocation)
       [] IsConst(w) -> SetCell(st, MatSlot(i, m, j), Constant(w))
       [] OTHER      ->
            [SetCell(st, MatSlot(i, m, j), Unallocated("Any")) EXCEPT !.ranges[w] =
               AddUse(AddUseInterval(@, BlockStart(BlockOf(i)), Pos(i) + 1), Pos(i) + 1, MatSlot(i, m, j))]

RECURSIVE MatUse(_, _, _, _)
MatUse(st, i, m, j) ==
  LET w == prog[i].mats[m][j]
  IN CASE IsMat(w)   -> ProcessMaterializationUses(SetCell(st, MatSlot(i, m, j), NoLocation), i, -w)
       [] IsConst(w) -> SetCell(st, MatSlot(i, m, j), Constant(w))
       [] OTHER      ->
            [SetCell(st, MatSlot(i, m, j), Unallocated("Any")) EXCEPT !.ranges[w] =
               AddUse(AddUseInterval(@, BlockStart(BlockOf(i)), Pos(i) + 1), Pos(i) + 1, MatSlot(i, m, j))]

ProcessMaterializationUses(st, i, m) ==
  IF << i, m >> \in st.matDone THEN st
  ELSE FoldLeft(LAMBDA s, j : MatUse(s, i, m, j), [st EXCEPT !.matDone = @ \cup {<< i, m >>}],
                [j \in DOMAIN prog[i].mats[m] |-> j])

\* Variant: the value's interval ends at the instruction's start, one short
\* of its use.
EnvUseShort(st, i, j) ==
  LET v == EnvValues(prog, i)[j]
  IN IF IsMat(v) THEN ProcessMaterializationUses(SetCell(st, EnvSlot(i, j), NoLocation), i, -v)
     ELSE IF IsConst(v) THEN SetCell(st, EnvSlot(i, j), Constant(v))
     ELSE [SetCell(st, EnvSlot(i, j), Unallocated("Any")) EXCEPT !.ranges[v] =
             AddUse(AddUseInterval(@, BlockStart(BlockOf(i)), Pos(i)), Pos(i) + 1, EnvSlot(i, j))]

EnvUse(st, i, j) ==
  LET v == EnvValues(prog, i)[j]
  IN IF IsMat(v) THEN ProcessMaterializationUses(SetCell(st, EnvSlot(i, j), NoLocation), i, -v)
     ELSE IF IsConst(v) THEN SetCell(st, EnvSlot(i, j), Constant(v))
     ELSE [SetCell(st, EnvSlot(i, j), Unallocated("Any")) EXCEPT !.ranges[v] =
             AddUse(AddUseInterval(@, BlockStart(BlockOf(i)), Pos(i) + 1), Pos(i) + 1, EnvSlot(i, j))]

ProcessEnvironmentUses(st, i) ==
  FoldLeft(LAMBDA s, j : EnvUse(s, i, j), st, [j \in DOMAIN EnvValues(prog, i) |-> j])

(***************************************************************************)
(* ProcessOneInput: input j of instruction i, whose value is vreg v.       *)
(***************************************************************************)
\* The definition input j of instruction i is bound to.
InputValue(st, i, j) == IF i \in st.swapped THEN prog[i].ins[3 - j].v ELSE prog[i].ins[j].v

ProcessOneInput(st, i, j) ==
  LET pos == Pos(i)
      v   == InputValue(st, i, j)
      in  == st.cell[InSlot(i, j)]
      m   == Len(st.moves) + 1
      t   == Len(st.ranges) + 1
  IN CASE IsMachineRegister(in) ->
            \* fixed register: a move at pos - 1 and the register blocked
            LET st1 == BlockLocation(AddMoveAt(st, pos - 1, in, Unallocated("Any")),
                                     in, pos - 1, pos + 1)
            IN [st1 EXCEPT !.ranges[v] =
                  AddHintedUse(AddUseInterval(@, BlockStart(BlockOf(i)), pos - 1),
                               pos - 1, SrcSlot(m), InSlot(i, j))]
       [] IsConstant(in) -> st   \* the instruction reads the constant itself
       [] in = Unallocated("WritableRegister") ->
            \* the value is copied into a temporary the instruction may clobber
            LET st1  == AddMoveAt(st, pos, Unallocated("RequiresRegister"),
                                  Unallocated("PrefersRegister"))
                temp == AddUse(AddHintedUse(
                          AddUseInterval(NewLiveRange(kTempVirtualRegister, "none"),
                                         pos, pos + 1),
                          pos, InSlot(i, j), SrcSlot(m)), pos, DstSlot(m))
                st2  == [st1 EXCEPT
                          !.ranges[v] = AddUse(AddUseInterval(@, BlockStart(BlockOf(i)), pos),
                                               pos, SrcSlot(m)),
                          !.ranges = NewRange(@, temp)]
            IN CompleteRange(SetCell(st2, InSlot(i, j), Unallocated("RequiresRegister")), t)
       [] OTHER ->
            LET r == AddUse(AddUseInterval(st.ranges[v], BlockStart(BlockOf(i)), pos + 1),
                            pos + 1, InSlot(i, j))
            IN [st EXCEPT !.ranges[v] =
                  [r EXCEPT !.reqStack = r.reqStack \/ in = Unallocated("RequiresStack")]]

(***************************************************************************)
(* ProcessOneOutput for the result of instruction i (vreg i).              *)
(***************************************************************************)
LeadingUsesAt(us, p) ==
  Cardinality({k \in 1..Len(us) : \A m \in 1..k : us[m].pos = p})

ProcessOneOutput(st, i) ==
  LET pos == Pos(i)
      out == st.cell[OutSlot(i)]
      m   == Len(st.moves) + 1
      Finish(s) == CompleteRange(AssignSafepoints(s, i, i), i)
  IN CASE IsMachineRegister(out) ->
       LET st1 == BlockLocation(st, out, pos, pos + 1)
           us  == st1.ranges[i].uses
           n   == LeadingUsesAt(us, pos + 1)
           \* the inputs right after the definition read the fixed register
           st2 == [st1 EXCEPT
                     !.cell = [s \in DOMAIN @ |->
                                 IF \E k \in 1..n : us[k].slot = s THEN out ELSE @[s]],
                     !.ranges[i] = DefineAt([st1.ranges[i] EXCEPT
                                              !.uses = SubSeq(us, n + 1, Len(us))], pos + 1)]
       IN IF us = << >> THEN st1
          ELSE IF Start(st2.ranges[i]) = End(st2.ranges[i]) THEN st2
          ELSE LET st3 == AddMoveAt(st2, pos + 1, Unallocated("Any"), out)
               IN Finish([st3 EXCEPT !.ranges[i] =
                            AddHintedUse(@, pos + 1, DstSlot(m), OutSlot(i))])
     [] out = Unallocated("SameAsFirstInput") ->
       LET w   == InputValue(st, i, 1)
           st1 == AddMoveAt(SetCell(st, OutSlot(i), st.cell[InSlot(i, 1)]),
                            pos, Unallocated("RequiresRegister"), Unallocated("Any"))
       IN Finish([st1 EXCEPT
            !.ranges[w] = AddUse(AddUseInterval(@, BlockStart(BlockOf(i)), pos), pos, SrcSlot(m)),
            !.ranges[i] = AddUse(AddUse(AddHintedUse(DefineAt(@, pos), pos, OutSlot(i),
                                                     SrcSlot(m)),
                                        pos, DstSlot(m)),
                                 pos, InSlot(i, 1))])
     [] OTHER ->
       Finish([st EXCEPT !.ranges[i] = AddUse(DefineAt(@, pos), pos, OutSlot(i))])

(***************************************************************************)
(* ProcessOneInstruction: the same-as-first-input output of a fixed input *)
(* becomes that register; then the inputs (the first one is left to the    *)
(* output when they are tied), the temp, the call's blocking of every      *)
(* register, the safepoint, and the output.                                *)
(***************************************************************************)
ProcessTemp(st, i) ==
  LET pos == Pos(i)
      tmp == st.cell[TempSlot(i)]
      t   == Len(st.ranges) + 1
  IN CASE IsMachineRegister(tmp) -> BlockLocation(st, tmp, pos, pos + 1)
       [] IsUnallocated(tmp) ->
            CompleteRange([st EXCEPT !.ranges = NewRange(@,
               AddUse(AddUseInterval(NewLiveRange(kTempVirtualRegister, "none"),
                                     pos, pos + 1), pos, TempSlot(i)))], t)
       [] OTHER -> st

\* IsDeadAfterCurrentInstruction: the ranges are built backwards, so value v
\* has a use after instruction i only if its first interval starts inside
\* i's block (a use there, or the interval of a value live out).
\* Variant: a value whose next use starts exactly at the block's end is
\* taken to outlive the instruction.
IsDeadAfterCurrentInstructionStrict(st, i, v) ==
  st.ranges[v].ivs = << >> \/ st.ranges[v].ivs[1].start > BlockEnd(BlockOf(i))

IsDeadAfterCurrentInstruction(st, i, v) ==
  st.ranges[v].ivs = << >> \/ st.ranges[v].ivs[1].start >= BlockEnd(BlockOf(i))

\* kSameAsFirstOrSecondInput: with one constraint on both inputs, they are
\* exchanged when only the first outlives the instruction; the output is
\* then the same as the first input.
NormalizeFirstOrSecond(st, i) ==
  LET swap == /\ st.cell[InSlot(i, 1)] = st.cell[InSlot(i, 2)]
              /\ ~IsDeadAfterCurrentInstruction(st, i, InputValue(st, i, 1))
              /\ IsDeadAfterCurrentInstruction(st, i, InputValue(st, i, 2))
  IN SetCell([st EXCEPT !.swapped = IF swap THEN @ \cup {i} ELSE @],
             OutSlot(i), Unallocated("SameAsFirstInput"))

\* kMayBeSameAsFirstInput: the same as the first input if that dies here.
NormalizeMayBe(st, i) ==
  SetCell(st, OutSlot(i),
          IF IsDeadAfterCurrentInstruction(st, i, InputValue(st, i, 1))
          THEN Unallocated("SameAsFirstInput") ELSE Unallocated("RequiresRegister"))

\* The output policy normalizations, in the code's order.
NormalizeOutput(st, i) ==
  LET out == st.cell[OutSlot(i)]
  IN CASE out = Unallocated("SameAsFirstInput") /\ IsMachineRegister(st.cell[InSlot(i, 1)]) ->
            SetCell(st, OutSlot(i), st.cell[InSlot(i, 1)])
       [] out = Unallocated("SameAsFirstOrSecondInput") -> NormalizeFirstOrSecond(st, i)
       [] out = Unallocated("MayBeSameAsFirstInput") -> NormalizeMayBe(st, i)
       [] OTHER -> st

ProcessOneInstruction(st, i) ==
  LET pos  == Pos(i)
      st0  == NormalizeOutput(st, i)
      same == st0.cell[OutSlot(i)] = Unallocated("SameAsFirstInput")
      first == IF same THEN 2 ELSE 1
      st1  == FoldLeft(LAMBDA s, j : ProcessOneInput(s, i, j), ProcessEnvironmentUses(st0, i),
                       [n \in 1..Len(prog[i].ins) - first + 1 |-> n + first - 1])
      st2  == ProcessTemp(st1, i)
      st3  == IF prog[i].call
              THEN [BlockAllCpuRegisters(st2, pos, pos + 1) EXCEPT
                      !.safepoints = Append(@, i)]
              ELSE st2
  IN IF IsInvalid(st3.cell[OutSlot(i)]) THEN st3 ELSE ProcessOneOutput(st3, i)


(***************************************************************************)
(* Spilling.                                                               *)
(***************************************************************************)
\* The siblings of a range, in order (next_sibling_ chain).
RECURSIVE SiblingChain(_, _)
SiblingChain(ranges, id) ==
  IF id = 0 THEN << >> ELSE << id >> \o SiblingChain(ranges, ranges[id].next)

\* GraphEntryInstr::fixed_slot_count: the slots below the spill area kept for
\* the locals of catch and OSR entries, which is where a parameter with a
\* locals-area slot (index >= 0) arrives.
FixedSlotCount ==
  LET ix == {prog[i].out.idx : i \in {j \in 1..N : IsParam(j) /\ prog[j].out.kind = "stack"}}
  IN Max(ix \cup {-1}) + 1

\* FlowGraphAllocator::AllocateSpillSlotFor: the first slot of the same kind
\* whose previous owner ends at or before the range's start, else a new one;
\* it is kept until the end of the last sibling.
AllocateSpillSlotFor(st, id) ==
  LET r     == st.ranges[id]
      chain == SiblingChain(st.ranges, id)
      end   == End(st.ranges[chain[Len(chain)]])
      needUntagged == r.rep = "untagged"
      free  == {k \in FixedSlotCount + 1..Len(st.spillSlots) :
                  st.untagged[k] = needUntagged /\ st.spillSlots[k] <= Start(r)}
      pad   == Max({FixedSlotCount - Len(st.spillSlots), 0})
      k     == IF free = {} THEN Max({Len(st.spillSlots), FixedSlotCount}) + 1 ELSE Min(free)
  IN [st EXCEPT
        !.spillSlots = IF free = {} THEN @ \o [j \in 1..pad |-> kMaxPosition] \o << end >>
                       ELSE [st.spillSlots EXCEPT ![k] = end],
        !.untagged   = IF free = {} THEN @ \o [j \in 1..pad |-> FALSE] \o << needUntagged >> ELSE @,
        !.ranges[id].spill = StackSlot(k - 1),
        !.spilled    = Append(@, id)]

\* MarkAsObjectAtSafepoints: the slot holds an object at every safepoint of
\* every sibling.
\* Variant: the stack map is marked at the safepoint's own position.
MarkAtInstructionStart(st, id) ==
  LET idx == st.ranges[id].spill.idx
      sps == UNION {Range(st.ranges[x].sps) : x \in Range(SiblingChain(st.ranges, id))}
  IN [st EXCEPT !.stackmap = [p \in DOMAIN @ |->
                                IF p \in sps THEN @[p] \cup {idx} ELSE @[p]]]

MarkAsObjectAtSafepoints(st, id) ==
  LET idx == st.ranges[id].spill.idx
      sps == UNION {Range(st.ranges[x].sps) : x \in Range(SiblingChain(st.ranges, id))}
  IN [st EXCEPT !.stackmap = [p \in DOMAIN @ |->
                                IF p + 1 \in sps THEN @[p] \cup {idx} ELSE @[p]]]

\* ConvertAllUses: every use slot receives the assigned location.
ConvertAllUses(st, id) ==
  LET r == st.ranges[id]
      slots == {r.uses[k].slot : k \in DOMAIN r.uses}
  IN IF r.vreg = kNoVirtualRegister THEN st
     ELSE [st EXCEPT !.cell = [s \in DOMAIN @ |-> IF s \in slots THEN r.assigned ELSE @[s]]]

\* FlowGraphAllocator::Spill: the parent gets a spill slot the first time one
\* of its siblings is spilled.
SpillSlotOf(s1, p, tagged) == IF tagged THEN MarkAsObjectAtSafepoints(s1, p) ELSE s1

SpillTo(st1, id) ==
  ConvertAllUses([st1 EXCEPT !.ranges[id].assigned = st1.ranges[st1.ranges[id].vreg].spill], id)

Spill(st, id) ==
  SpillTo(IF IsInvalid(st.ranges[st.ranges[id].vreg].spill)
          THEN SpillSlotOf(AllocateSpillSlotFor(st, st.ranges[id].vreg), st.ranges[id].vreg,
                           st.ranges[id].rep = "tagged")
          ELSE st, id)

(***************************************************************************)
(* Splitting.  SplitRange applies LiveRange::SplitAt to range id and       *)
(* yields [st, tail]; an ASSERT that fails is recorded in fault.           *)
(***************************************************************************)
\* The arena once range id is split as s = SplitAt(..., pos, ...).
SplitRangeBy(st, id, pos, s) ==
  IF pos >= End(st.ranges[id]) /\ Start(st.ranges[id]) # pos
  THEN [st |-> Fail(st, "SplitAt: split_pos < End()"), tail |-> id]
  ELSE IF s.same THEN [st |-> st, tail |-> id]
  ELSE [st |-> [st EXCEPT !.ranges = NewRange([st.ranges EXCEPT ![id] = s.head], s.tail)],
        tail |-> Len(st.ranges) + 1]

SplitRange(st, id, pos) ==
  SplitRangeBy(st, id, pos, SplitAt(st.ranges[id], pos, Len(st.ranges) + 1))

\* FlowGraphAllocator::SplitBetween without loops: at the start of the block
\* of `to`, or at the end of the instruction before `to`.
SplitBetween(st, id, from, to) ==
  LET splitPos == IF from < BlockEntryAt(to) THEN BlockEntryAt(to)
                  ELSE ToInstructionStart(to) - 1
      st1 == IF from < splitPos THEN st ELSE Fail(st, "SplitBetween: from < split_pos")
  IN SplitRange(st1, id, splitPos)

\* FlowGraphAllocator::SpillBetween: s1 is the split at from; its tail is
\* spilled up to the split before to (s2), which is allocated later.
SpillBetweenSplit(s2, tl) == AddToUnallocated(Spill(s2.st, tl), s2.tail)

SpillBetweenTail(s1, to) ==
  IF Start(s1.st.ranges[s1.tail]) < to
  THEN SpillBetweenSplit(SplitBetween(s1.st, s1.tail, Start(s1.st.ranges[s1.tail]), to),
                         s1.tail)
  ELSE AddToUnallocated(s1.st, s1.tail)

SpillBetween(st, id, from, to) ==
  SpillBetweenTail(SplitRange(IF from < to THEN st ELSE Fail(st, "SpillBetween: from < to"),
                              id, from), to)

\* FlowGraphAllocator::SpillAfter (no loop to hoist the spill to).
SpillAfterSplit(s1) == Spill(s1.st, s1.tail)

SpillAfter(st, id, from) == SpillAfterSplit(SplitRange(st, id, from))

(***************************************************************************)
(* Initial definitions (ProcessInitialDefinition).  A parameter is         *)
(* assigned the location it arrives in; one in a register holds it only   *)
(* over the function entry, where the register is blocked, and is split   *)
(* after it.  A parameter on the stack and a constant keep their location *)
(* (the stack slot, the constant) as both assigned location and spill     *)
(* slot until their first register-beneficial use, where a tail that      *)
(* goes through the linear scan begins.  A parameter in the locals area   *)
(* of the frame reserves its slot among the spill slots.                   *)
(***************************************************************************)
\* A use whose location slot still asks for the stack.
IsRequiresStackUse(st, u) == st.cell[u.slot] = Unallocated("RequiresStack")

\* The RequiresStack uses receive the spill slot and leave the use list.
ConvertRequiresStackUses(st, id) ==
  LET r     == st.ranges[id]
      slots == {r.uses[k].slot : k \in {k \in DOMAIN r.uses : IsRequiresStackUse(st, r.uses[k])}}
  IN [st EXCEPT !.cell = [s \in DOMAIN @ |-> IF s \in slots THEN r.spill ELSE @[s]],
                !.ranges[id].uses = SelectSeq(r.uses, LAMBDA u : ~IsRequiresStackUse(st, u))]

\* FlowGraphAllocator::CompleteRange(Definition*, LiveRange*): the
\* safepoints, then a spill slot for a range with uses that require the
\* stack unless it already has a stack index (a constant's pseudo slot is
\* cleared and replaced).
ReserveStackForUses(st, id) ==
  IF st.ranges[id].spill.kind = "stack" THEN st
  ELSE SpillSlotOf(AllocateSpillSlotFor([st EXCEPT !.ranges[id].spill = NoLocation], id),
                   id, st.ranges[id].rep = "tagged")

CompleteRangeDef(st, id) ==
  LET st1 == AssignSafepoints(st, id, id)
  IN IF st1.ranges[id].reqStack
     THEN ConvertRequiresStackUses(ReserveStackForUses(st1, id), id)
     ELSE st1

\* A split tail of an initial definition goes to unallocated_cpu_.
CompleteSplit(s) == CompleteRange(s.st, s.tail)

\* FlowGraphAllocator::SplitInitialDefinitionAt
SplitInitialDefinitionAt(st, id, pos) ==
  IF End(st.ranges[id]) > pos THEN CompleteSplit(SplitRange(st, id, pos)) ELSE st

\* FlowGraphAllocator::AllocateSpillSlotForInitialDefinition: slot k
\* (spill_slots_[k + 1] here) is kept until range_end; the slots below it
\* that did not exist yet are reserved for ever.
AllocateSpillSlotForInitialDefinition(st, k, rangeEnd) ==
  IF k < Len(st.spillSlots)
  THEN [IF st.untagged[k + 1] THEN Fail(st, "initial definition: !untagged_spill_slots_")
        ELSE st EXCEPT !.spillSlots[k + 1] = Max({@, rangeEnd})]
  ELSE [st EXCEPT !.spillSlots = @ \o [j \in 1..k - Len(@) |-> kMaxPosition] \o << rangeEnd >>,
                  !.untagged   = @ \o [j \in 1..k + 1 - Len(@) |-> FALSE]]

\* Variant: the register parameter keeps the whole range instead of being
\* split after the entry.
RegisterParameterUnsplit(st, i, loc, pos) ==
  LET st1 == CompleteRangeDef([st EXCEPT !.ranges[i].assigned = loc], i)
  IN BlockLocation(ConvertAllUses(st1, i), loc, pos, pos + 1)

\* A parameter that arrives in register loc.
RegisterParameter(st, i, loc, pos) ==
  LET st1 == CompleteRangeDef([st EXCEPT !.ranges[i].assigned = loc], i)
  IN BlockLocation(ConvertAllUses(SplitInitialDefinitionAt(st1, i, pos + 1), i), loc, pos, pos + 1)

\* Variant: the slot is reserved but never marked as holding an object.
ReserveParameterSlotUnmarked(st2, i, sl, rangeEnd) ==
  IF IsParam(i) /\ sl.kind = "stack" /\ sl.idx >= 0
  THEN AllocateSpillSlotForInitialDefinition(st2, sl.idx, rangeEnd)
  ELSE st2

\* A parameter on the stack or a constant, its location already set.
\* Only a parameter's slot in the locals area (index >= 0) is reserved and
\* marked; one in the caller's frame belongs to the caller.
ReserveParameterSlot(st2, i, sl, rangeEnd) ==
  IF IsParam(i) /\ sl.kind = "stack" /\ sl.idx >= 0
  THEN MarkAsObjectAtSafepoints(AllocateSpillSlotForInitialDefinition(st2, sl.idx, rangeEnd), i)
  ELSE st2

\* Variant: the uses before the split are left unconverted.
SplitAtBeneficialUseNoConvert(st1, i, pos, k, rangeEnd) ==
  ReserveParameterSlot(
    IF k = 0 THEN st1
    ELSE CompleteSplit(SplitBetween(st1, i, pos, st1.ranges[i].uses[k].pos)),
    i, st1.ranges[i].spill, rangeEnd)

\* st1: the range completed, its finger initialized; k: its first
\* register-beneficial use from the entry's start, where the tail begins.
SplitAtBeneficialUse(st1, i, pos, k, rangeEnd) ==
  ReserveParameterSlot(
    ConvertAllUses(IF k = 0 THEN st1
                   ELSE CompleteSplit(SplitBetween(st1, i, pos, st1.ranges[i].uses[k].pos)), i),
    i, st1.ranges[i].spill, rangeEnd)

LocatedFinger(st1, i, pos, rangeEnd) ==
  SplitAtBeneficialUse(st1, i, pos, FirstRegisterBeneficialUse(st1.ranges[i], pos, st1.cell), rangeEnd)

LocatedInitialDefinition(st, i, pos, rangeEnd) ==
  LocatedFinger([CompleteRangeDef(st, i) EXCEPT !.ranges[i] = Initialize(@)], i, pos, rangeEnd)

ProcessInitialDefinition(st, i) ==
  LET loc == IF IsParam(i) THEN prog[i].out ELSE Constant(i)
  IN IF IsMachineRegister(loc)
     THEN RegisterParameter(st, i, loc, Pos(i))
     ELSE LocatedInitialDefinition([st EXCEPT !.ranges[i].assigned = loc, !.ranges[i].spill = loc],
                                   i, Pos(i), End(st.ranges[i]))

\* BuildLiveRanges for an initial definition of the function entry or the
\* graph entry: an interval over the entry (the graph entry ends at
\* kNormalEntryPos), defined at its start.
InitialDefinition(st, i) ==
  ProcessInitialDefinition([st EXCEPT !.ranges[i] = DefineAt(AddUseInterval(@, Pos(i), Pos(i) + 2),
                                                             Pos(i))], i)


(***************************************************************************)
(* The active and inactive sets: registers_[reg] and the fingers.          *)
(***************************************************************************)
\* The order in which registers are tried: (i + bias) % n.
RegOrder == [i \in 1..NumRegs |-> (i - 1 + Bias) % NumRegs]

\* FlowGraphAllocator::AdvanceActiveIntervals: a range whose intervals all
\* end at or before start leaves its register, its uses receiving the
\* register.
\* Variant: a retired range leaves its register without converting its uses.
AdvanceKeepCells(st, start) ==
  LET onReg   == UNION {Range(st.regs[r]) : r \in Regs}
      adv     == [x \in onReg |-> Advance(st.ranges[x], start)]
  IN [st EXCEPT
        !.ranges = AsSeq([x \in DOMAIN @ |-> IF x \in onReg THEN [st.ranges[x] EXCEPT !.pend = adv[x]]
                                              ELSE st.ranges[x]]),
        !.regs   = [r \in Regs |-> SelectSeq(@[r], LAMBDA x : adv[x] # 0)]]

AdvanceActiveIntervals(st, start) ==
  LET onReg   == UNION {Range(st.regs[r]) : r \in Regs}
      adv     == [x \in onReg |-> Advance(st.ranges[x], start)]
      retired == {x \in onReg : adv[x] = 0 /\ st.ranges[x].vreg # kNoVirtualRegister}
      owner(s) == {x \in retired : \E k \in DOMAIN st.ranges[x].uses :
                                     st.ranges[x].uses[k].slot = s}
  IN [st EXCEPT
        !.ranges = AsSeq([x \in DOMAIN @ |-> IF x \in onReg THEN [st.ranges[x] EXCEPT !.pend = adv[x]]
                                              ELSE st.ranges[x]]),
        !.regs   = [r \in Regs |-> SelectSeq(@[r], LAMBDA x : adv[x] # 0)],
        !.cell   = [s \in DOMAIN @ |->
                      IF owner(s) # {} THEN st.ranges[CHOOSE x \in owner(s) : TRUE].assigned
                      ELSE @[s]]]

PendingIvs(r) == IF r.pend = 0 THEN << >> ELSE SubSeq(r.ivs, r.pend, Len(r.ivs))

\* FlowGraphAllocator::FirstIntersectionWithAllocated
FirstIntersectionWithAllocated(st, reg, id) ==
  LET u == st.ranges[id]
  IN Min({kMaxPosition} \cup
         {FirstIntersection(u.ivs, u.pend, st.ranges[x].ivs, st.ranges[x].pend) :
            x \in Range(st.regs[reg])})

\* The location hint of AllocateFreeRegister: the first hinted use, else
\* the register of the parent when the range continues it directly.
FreeRegisterHint(st, id) ==
  LET u == st.ranges[id]
      h == FirstHint(u, HintCells(st))
  IN IF /\ ~IsMachineRegister(h) /\ u.vreg >= 0
        /\ End(st.ranges[u.vreg]) = Start(u)
        /\ ~IsBlockEntry(Start(u))
        /\ IsMachineRegister(st.ranges[u.vreg].assigned)
     THEN st.ranges[u.vreg].assigned ELSE h

\* A split tail goes back to unallocated_ (AddToUnallocated(tail)).
SplitToUnallocated(s) == AddToUnallocated(s.st, s.tail)

\* Position of register r in the order the loops try registers.
RegIndex(r) == CHOOSE i \in 1..NumRegs : RegOrder[i] = r

\* FlowGraphAllocator::AllocateFreeRegister, as [ok, st].  free[r] is
\* FirstIntersectionWithAllocated(r, unallocated) for every allocatable r.
AssignFreeRegister(st1, id, cand) ==
  [st1 EXCEPT !.regs[cand] = Append(@, id), !.ranges[id].assigned = RegLoc(cand)]

\* The register is taken up to free_until, where the range is split.  A
\* head left without uses whose value is a constant is spilled instead: to
\* the constant itself.
TakeSplitRegister(s1, id, cand) ==
  IF /\ s1.ranges[id].vreg >= 0 /\ s1.ranges[id].uses = << >>
     /\ IsConstant(s1.ranges[s1.ranges[id].vreg].spill)
  THEN Spill(s1, id)
  ELSE AssignFreeRegister(s1, id, cand)

\* Variant: the range is split at free_until even when that is kMaxPosition.
TakeFreeRegisterAlwaysSplit(st, id, cand, freeUntil) ==
  TakeSplitRegister(SplitToUnallocated(SplitRange(st, id, freeUntil)), id, cand)

TakeFreeRegister(st, id, cand, freeUntil) ==
  IF freeUntil = kMaxPosition THEN AssignFreeRegister(st, id, cand)
  ELSE TakeSplitRegister(SplitToUnallocated(SplitRange(st, id, freeUntil)), id, cand)

\* Variant: the hinted register is taken even when it is blocked; a blocked
\* register holds no ranges, so it looks free for ever.
HintIgnoresBlocked(st, id, hint, free) ==
  LET empty == {r \in DOMAIN free : st.regs[r] = << >>}
      \* the hinted register, else the first completely free one
      c0 == IF IsMachineRegister(hint)
            THEN hint.idx
            ELSE IF empty = {} THEN -1
            ELSE RegOrder[Min({RegIndex(r) : r \in empty})]
      f0 == IF IsMachineRegister(hint)
            THEN IF hint.idx \in DOMAIN free THEN free[hint.idx] ELSE kMaxPosition
            ELSE IF empty = {} THEN 0 ELSE kMaxPosition
      \* otherwise the register free for longest, the first in order on a tie
      others == DOMAIN free \ {c0}
      best   == Max({f0} \cup {free[r] : r \in others})
      moved  == f0 # kMaxPosition /\ best > f0
      cand == IF moved THEN RegOrder[Min({RegIndex(r) : r \in {r \in others : free[r] = best}})]
              ELSE c0
      freeUntil == IF moved THEN best ELSE f0
  IN IF freeUntil <= Start(st.ranges[id]) THEN [ok |-> FALSE, st |-> st]
     ELSE [ok |-> TRUE, st |-> TakeFreeRegister(st, id, cand, freeUntil)]

AllocateFreeRegisterWith(st, id, hint, free) ==
  LET empty == {r \in DOMAIN free : st.regs[r] = << >>}
      \* the hinted register, else the first completely free one
      c0 == IF IsMachineRegister(hint)
            THEN IF hint.idx \in Blocked THEN -1 ELSE hint.idx
            ELSE IF empty = {} THEN -1
            ELSE RegOrder[Min({RegIndex(r) : r \in empty})]
      f0 == IF IsMachineRegister(hint)
            THEN IF hint.idx \in Blocked THEN 0 ELSE free[hint.idx]
            ELSE IF empty = {} THEN 0 ELSE kMaxPosition
      \* otherwise the register free for longest, the first in order on a tie
      others == DOMAIN free \ {c0}
      best   == Max({f0} \cup {free[r] : r \in others})
      moved  == f0 # kMaxPosition /\ best > f0
      cand == IF moved THEN RegOrder[Min({RegIndex(r) : r \in {r \in others : free[r] = best}})]
              ELSE c0
      freeUntil == IF moved THEN best ELSE f0
  IN IF freeUntil <= Start(st.ranges[id]) THEN [ok |-> FALSE, st |-> st]
     ELSE [ok |-> TRUE, st |-> TakeFreeRegister(st, id, cand, freeUntil)]

AllocateFreeRegister(st, id) ==
  AllocateFreeRegisterWith(st, id, FreeRegisterHint(st, id),
    [r \in Regs \ Blocked |-> FirstIntersectionWithAllocated(st, r, id)])


(***************************************************************************)
(* FlowGraphAllocator::UpdateFreeUntil for register reg and range id: the  *)
(* register is unusable when an active range in it cannot be spilled (a   *)
(* blocking range, or one used as a register by the current instruction). *)
(* Otherwise it is free until the first register use of an active range   *)
(* or the first intersection with an inactive one; blocked_at is where    *)
(* the blocking range of the register intersects.                          *)
(***************************************************************************)
IsActive(st, x, start) == IntervalContains(st.ranges[x].ivs[st.ranges[x].pend], start)

InterferingUsePos(st, x, start) ==
  LET k == FirstInterferingUse(st.ranges[x], start, st.cell)
  IN IF k = 0 THEN End(st.ranges[x]) ELSE st.ranges[x].uses[k].pos

\* Variant: only blocking ranges are taken to be unspillable.
CannotSpillBlockingOnly(st, x, start) == st.ranges[x].vreg < 0

CannotSpill(st, x, start) ==
  LET k == FirstInterferingUse(st.ranges[x], start, st.cell) IN
  \/ st.ranges[x].vreg < 0
  \/ k # 0 /\ ToInstructionStart(st.ranges[x].uses[k].pos) - start <= 1

InactiveIntersection(st, x, id) ==
  FirstIntersection(st.ranges[x].ivs, st.ranges[x].pend, st.ranges[id].ivs, 1)

RegisterFreeUntil(st, reg, id) ==
  LET start == Start(st.ranges[id]) IN
  Min({kMaxPosition} \cup
      {IF IsActive(st, x, start) THEN InterferingUsePos(st, x, start)
       ELSE InactiveIntersection(st, x, id) : x \in Range(st.regs[reg])})

RegisterBlockedAt(st, reg, id) ==
  LET start == Start(st.ranges[id])
      blk   == {x \in Range(st.regs[reg]) :
                  st.ranges[x].vreg = kNoVirtualRegister /\ ~IsActive(st, x, start)}
  IN Min({kMaxPosition} \cup {InactiveIntersection(st, x, id) : x \in blk})

RegisterUsable(st, reg, id) ==
  ~\E x \in Range(st.regs[reg]) :
      IsActive(st, x, Start(st.ranges[id])) /\ CannotSpill(st, x, Start(st.ranges[id]))

(***************************************************************************)
(* FlowGraphAllocator::EvictIntersection: x gives way to id from the start *)
(* of id's pending interval, until its own next register use.  Yields     *)
(* [evicted, st].                                                          *)
(***************************************************************************)
\* Variant: the evicted range is spilled from its own start.
EvictFromRangeStart(st, x, id) ==
  LET u   == st.ranges[id]
      intersection == FirstIntersection(st.ranges[x].ivs, st.ranges[x].pend, u.ivs, u.pend)
      spillPosition == Start(st.ranges[x])
      k   == FirstInterferingUse(st.ranges[x], spillPosition, st.cell)
      restore == IF spillPosition < intersection
                 THEN MinPosition(intersection, st.ranges[x].uses[k].pos)
                 ELSE st.ranges[x].uses[k].pos
  IN IF intersection = kMaxPosition THEN [evicted |-> FALSE, st |-> st]
     ELSE [evicted |-> TRUE,
           st |-> IF k = 0 THEN SpillAfter(st, x, spillPosition)
                  ELSE SpillBetween(st, x, spillPosition, restore)]

EvictIntersection(st, x, id) ==
  LET u   == st.ranges[id]
      intersection == FirstIntersection(st.ranges[x].ivs, st.ranges[x].pend, u.ivs, u.pend)
      spillPosition == u.ivs[u.pend].start
      k   == FirstInterferingUse(st.ranges[x], spillPosition, st.cell)
      restore == IF spillPosition < intersection
                 THEN MinPosition(intersection, st.ranges[x].uses[k].pos)
                 ELSE st.ranges[x].uses[k].pos
  IN IF intersection = kMaxPosition THEN [evicted |-> FALSE, st |-> st]
     ELSE [evicted |-> TRUE,
           st |-> IF k = 0 THEN SpillAfter(st, x, spillPosition)
                  ELSE SpillBetween(st, x, spillPosition, restore)]

\* FlowGraphAllocator::AssignNonFreeRegister: the ranges of reg, from the
\* last to the first, are evicted where they intersect id.
\* A range evicted but still in its register ends before id starts; its
\* uses receive the register.
\* Variant: the uses of an evicted range that stays in its register are not
\* converted.
ConvertEvictedSkipped(s1, x, id) == s1

ConvertEvicted(s1, x, id) ==
  IF IsMachineRegister(s1.ranges[x].assigned)
  THEN ConvertAllUses(IF End(s1.ranges[x]) <= Start(s1.ranges[id]) THEN s1
                      ELSE Fail(s1, "AssignNonFreeRegister: evicted range ends before"), x)
  ELSE s1

RECURSIVE EvictFrom(_, _, _, _, _), EvictedFrom(_, _, _, _, _, _)
\* Variant: an evicted range is left in registers_.
EvictedKept(st, reg, id, i, kept, e) ==
  IF e.evicted
  THEN EvictFrom(ConvertEvicted(e.st, st.regs[reg][i], id), reg, id, i - 1,
                 << st.regs[reg][i] >> \o kept)
  ELSE EvictFrom(st, reg, id, i - 1, << st.regs[reg][i] >> \o kept)

\* e = EvictIntersection(st.regs[reg][i], id)
EvictedFrom(st, reg, id, i, kept, e) ==
  IF e.evicted THEN EvictFrom(ConvertEvicted(e.st, st.regs[reg][i], id), reg, id, i - 1, kept)
  ELSE EvictFrom(st, reg, id, i - 1, << st.regs[reg][i] >> \o kept)

EvictFrom(st, reg, id, i, kept) ==
  IF i = 0 THEN [st EXCEPT !.regs[reg] = kept \o << id >>,
                           !.ranges[id].assigned = RegLoc(reg)]
  ELSE IF st.ranges[st.regs[reg][i]].vreg < 0
       THEN EvictFrom(st, reg, id, i - 1, << st.regs[reg][i] >> \o kept)
       ELSE EvictedFrom(st, reg, id, i, kept, EvictIntersection(st, st.regs[reg][i], id))

AssignNonFreeRegister(st, id, reg) == EvictFrom(st, reg, id, Len(st.regs[reg]), << >>)

(***************************************************************************)
(* FlowGraphAllocator::AllocateAnyRegister: without a register use the     *)
(* range is spilled; otherwise it takes the register free for longest     *)
(* (first in order on a tie), is spilled until its register use when that *)
(* is too early, and is split before the register's blocking range.        *)
(***************************************************************************)
\* The candidate register, and blocked_at where its blocking range begins.
AssignBlockedRegister(st, id, cand, blockedAt) ==
  AssignNonFreeRegister(IF blockedAt < End(st.ranges[id])
                        THEN SplitToUnallocated(SplitBetween(st, id, Start(st.ranges[id]),
                                                             blockedAt + 1))
                        ELSE st, id, cand)

\* fu[r]: the free_until UpdateFreeUntil finds for register r, 0 when r is
\* held by a range that cannot be spilled.
AllocateBlockedRegister(st, id, usePos, fu) ==
  LET freeUntil == Max({0} \cup {fu[r] : r \in DOMAIN fu})
      cand == RegOrder[Min({RegIndex(r) : r \in {r \in DOMAIN fu : fu[r] = freeUntil}})]
  IN IF freeUntil < usePos
     THEN IF Start(st.ranges[id]) < ToInstructionStart(usePos)
          THEN SpillBetween(st, id, Start(st.ranges[id]), usePos)
          ELSE Fail(st, "AllocateAnyRegister: Start() < ToInstructionStart(use)")
     ELSE AssignBlockedRegister(st, id, cand, RegisterBlockedAt(st, cand, id))

AllocateAnyRegister(st, id) ==
  LET k == FirstRegisterUse(st.ranges[id], Start(st.ranges[id]), st.cell)
  IN IF k = 0 THEN Spill(st, id)
     ELSE AllocateBlockedRegister(st, id, st.ranges[id].uses[k].pos,
            [r \in Regs \ Blocked |-> IF RegisterUsable(st, r, id)
                                      THEN RegisterFreeUntil(st, r, id) ELSE 0])


(***************************************************************************)
(* FlowGraphAllocator::ResolveControlFlow.  Inside blocks, a move joins   *)
(* two touching siblings in different locations unless the second one is *)
(* the spill slot (eager spilling already stored the value there) or they *)
(* touch at a block entry.  Across blocks, every split value live into a  *)
(* block is moved on each incoming edge from where the predecessor left   *)
(* it to where the block expects it.  Then every spilled range is stored *)
(* to its spill slot right after its definition.                           *)
(***************************************************************************)
\* Variant: touching siblings are joined by a move even at a block entry.
LinearMovesAtEntries(st) ==
  LET Pairs(v) == LET c == SiblingChain(st.ranges, v) IN
                  [k \in 1..Len(c) - 1 |-> << st.ranges[c[k]], st.ranges[c[k + 1]] >>]
      Needed(p) == /\ End(p[1]) = Start(p[2])
                   /\ st.ranges[p[1].vreg].spill # p[2].assigned
                   /\ p[1].assigned # p[2].assigned
      Move(p) == [pos |-> Start(p[2]), to |-> p[2].assigned, from |-> p[1].assigned]
  IN FoldLeft(LAMBDA acc, v : acc \o [k \in 1..Len(SelectSeq(Pairs(v), Needed)) |->
                                        Move(SelectSeq(Pairs(v), Needed)[k])],
              << >>, [v \in 1..N |-> v])

LinearMoves(st) ==
  LET Pairs(v) == LET c == SiblingChain(st.ranges, v) IN
                  [k \in 1..Len(c) - 1 |-> << st.ranges[c[k]], st.ranges[c[k + 1]] >>]
      Needed(p) == /\ End(p[1]) = Start(p[2])
                   /\ st.ranges[p[1].vreg].spill # p[2].assigned
                   /\ p[1].assigned # p[2].assigned
                   /\ ~IsBlockEntry(End(p[1]))
      Move(p) == [pos |-> Start(p[2]), to |-> p[2].assigned, from |-> p[1].assigned]
  IN FoldLeft(LAMBDA acc, v : acc \o [k \in 1..Len(SelectSeq(Pairs(v), Needed)) |->
                                        Move(SelectSeq(Pairs(v), Needed)[k])],
              << >>, [v \in 1..N |-> v])

\* FindCover: the sibling of v that covers pos.
FindCover(st, v, pos) ==
  CHOOSE x \in Range(SiblingChain(st.ranges, v)) :
    Exists(st.ranges[x]) /\ Start(st.ranges[x]) <= pos /\ pos < End(st.ranges[x])

\* Variant: every edge move goes to the successor's entry.
EmitMoveIntoSucc(st, succ, pred, to, from) == AddMove(st, BlockStart(succ), to, from)

\* EmitMoveOnEdge: into the Goto's parallel move of the predecessor, else
\* into the successor's (the predecessor branches, or is the graph entry).
EmitMoveOnEdge(st, succ, pred, to, from) ==
  IF pred # 0 /\ IsGoto(cfg[pred].last) THEN AddMove(st, Pos(cfg[pred].last) + 1, to, from)
  ELSE AddMove(st, BlockStart(succ), to, from)

\* Variant: the function entry's edge from the graph entry is not resolved.
EdgePredsNoGraphEntry(b) == PredSeq(b)

\* The predecessors of block b in the resolution loop: the function entry
\* (block 1) has the graph entry (0), which ends at kNormalEntryPos.
EdgePreds(b) == IF b = 1 THEN << 0 >> ELSE PredSeq(b)
PredEnd(p) == IF p = 0 THEN kNormalEntryPos ELSE BlockEnd(p)

\* srcs[j]: where the value leaves the j-th predecessor.  The same source on
\* every edge of a join makes a pending move; otherwise a move on every edge
\* whose source differs.
ResolveEdges(acc, b, dst, srcs) ==
  IF Len(srcs) > 1 /\ \A j \in DOMAIN srcs : srcs[j] = srcs[1]
  THEN IF dst # srcs[1]
       THEN [acc EXCEPT !.pending = Append(@, [to |-> dst, from |-> srcs[1]])]
       ELSE acc
  ELSE [acc EXCEPT !.st = FoldLeft(LAMBDA s, j :
          IF dst = srcs[j] THEN s ELSE EmitMoveOnEdge(s, b, EdgePreds(b)[j], dst, srcs[j]),
          acc.st, [j \in DOMAIN srcs |-> j])]

ResolveLiveInAt(acc, b, v, dst) ==
  IF acc.st.ranges[v].spill = dst THEN acc
  ELSE ResolveEdges(acc, b, dst,
         [j \in 1..Len(EdgePreds(b)) |->
            acc.st.ranges[FindCover(acc.st, v, PredEnd(EdgePreds(b)[j]) - 1)].assigned])

ResolveLiveIn(acc, b, v) ==
  IF acc.st.ranges[v].next = 0 THEN acc
  ELSE ResolveLiveInAt(acc, b, v, acc.st.ranges[FindCover(acc.st, v, BlockStart(b))].assigned)

\* The destinations of the moves in the Goto parallel moves of b's
\* predecessors that are not redundant.
\* Variant: the Goto moves never block a pending move.
GotoDstsIgnored(st, b) == {}

GotoDsts(st, b) ==
  {st.cell[st.moves[k].dst] :
     k \in {k \in DOMAIN st.moves :
              /\ \E p \in Preds(b) : st.moves[k].pos = Pos(cfg[p].last) + 1
              /\ st.cell[st.moves[k].dst] # st.cell[st.moves[k].src]}}

\* A pending move is blocked when a Goto move or a blocked pending move
\* overwrites its source (the complement of can_emit), to a fixpoint.
MoreBlocked(pend, blk) ==
  {j \in DOMAIN pend \ blk : \E k \in blk : pend[k].to = pend[j].from}

RECURSIVE BlockedPending(_, _)
BlockedPending(pend, blk) ==
  IF MoreBlocked(pend, blk) = {} THEN blk
  ELSE BlockedPending(pend, blk \cup MoreBlocked(pend, blk))

\* A pending move that can be emitted goes into the join itself, a blocked
\* one onto every incoming edge.
EmitPending(st, b, pend, blk) ==
  FoldLeft(LAMBDA s, j :
             IF j \notin blk THEN AddMove(s, BlockStart(b), pend[j].to, pend[j].from)
             ELSE FoldLeft(LAMBDA s2, p : EmitMoveOnEdge(s2, b, p, pend[j].to, pend[j].from),
                           s, PredSeq(b)),
           st, [j \in DOMAIN pend |-> j])

ResolvePending(acc, b) ==
  EmitPending(acc.st, b, acc.pending,
    BlockedPending(acc.pending,
      {j \in DOMAIN acc.pending : acc.pending[j].from \in GotoDsts(acc.st, b)}))

\* The live-in values of block b, in increasing vreg order.
ResolveBlock(st, b) ==
  ResolvePending(FoldLeft(LAMBDA acc, v : ResolveLiveIn(acc, b, v),
                          [st |-> st, pending |-> << >>], SetToSortSeq(LiveIn(b), <)), b)

\* Variant: the store to the spill slot is placed before the definition.
EagerSpillBeforeDef(st) ==
  LET need == SelectSeq(st.spilled, LAMBDA x : st.ranges[x].assigned # st.ranges[x].spill)
  IN [k \in 1..Len(need) |-> [pos  |-> Start(st.ranges[need[k]]),
                              to   |-> st.ranges[need[k]].spill,
                              from |-> st.ranges[need[k]].assigned]]

\* A constant (a range starting at the graph entry) is stored after the
\* function entry, the one successor of the graph entry.
EagerSpillPos(r) == IF Start(r) = 0 THEN kNormalEntryPos + 1 ELSE Start(r) + 1

EagerSpillMoves(st) ==
  LET need == SelectSeq(st.spilled, LAMBDA x : st.ranges[x].assigned # st.ranges[x].spill)
  IN [k \in 1..Len(need) |-> [pos  |-> EagerSpillPos(st.ranges[need[k]]),
                              to   |-> st.ranges[need[k]].spill,
                              from |-> st.ranges[need[k]].assigned]]

ResolveControlFlow(st) ==
  LET AddAll(s, ms) == FoldLeft(LAMBDA acc, m : AddMoveAt(acc, m.pos, m.to, m.from), s, ms)
  IN AddAll(FoldLeft(ResolveBlock, AddAll(st, LinearMoves(st)), [b \in 1..NB |-> b]),
            EagerSpillMoves(st))

(***************************************************************************)
(* The specification.                                                      *)
(***************************************************************************)
\* The body of the AllocateUnallocatedRanges loop for range id, once the
\* active ranges are advanced: a free register, else a blocked one.
AllocateRangeWith(st1, id, f) == IF f.ok THEN f.st ELSE AllocateAnyRegister(st1, id)

AllocateRange(st1, id) == AllocateRangeWith(st1, id, AllocateFreeRegister(st1, id))

Init ==
  /\ \E P \in Programs : prog = P.code /\ cfg = P.blocks
  /\ phase = "build"
  /\ cur = Len(prog)
  /\ a = [ranges |-> InitialRanges(prog), ucpu |-> << >>, un |-> << >>,
          regs |-> [r \in Regs |-> << >>], spillSlots |-> << >>, untagged |-> << >>,
          spilled |-> << >>, safepoints |-> << >>,
          stackmap |-> [p \in {Pos(i) : i \in {i \in 1..Len(prog) : IsInstr(i)}} |-> {}],
          cell |-> [s \in UNION {{InitialMoves[m].dst, InitialMoves[m].src} : m \in DOMAIN InitialMoves}
                      |-> NoLocation] @@ InitialCells(prog),
          moves |-> InitialMoves, fault |-> "none", swapped |-> {}, matDone |-> {}]
  /\ built = << >>

(***************************************************************************)
(* ConnectOutgoingPhiMoves at the Goto of block b: the input of each phi  *)
(* of the join on this edge lives from the block's start to the Goto and *)
(* is used there by the phi move's source, hinted to the phi's location. *)
(***************************************************************************)
JoinOf(b) == CHOOSE s \in cfg[b].succ : TRUE
PredIndex(s, b) == CHOOSE j \in DOMAIN PredSeq(s) : PredSeq(s)[j] = b

OutgoingPhiUse(st, b, m, v, k) ==
  SetCell([st EXCEPT !.ranges[v] =
             AddHintedUse(AddUseInterval(@, BlockStart(b), Pos(cfg[b].last)),
                          Pos(cfg[b].last), SrcSlot(m), AssignedSlot(k))],
          SrcSlot(m), Unallocated("PrefersRegister"))

ConnectOutgoingPhiMoves(st, b) ==
  IF ~IsGoto(cfg[b].last) THEN st
  ELSE FoldLeft(LAMBDA acc, k : OutgoingPhiUse(acc, b, PhiMove(acc, b, k),
                                               prog[k].phi[PredIndex(JoinOf(b), b)], k),
                st, PhiSeq(JoinOf(b)))

(***************************************************************************)
(* ConnectIncomingPhiMoves at join b: each phi is defined at the join's   *)
(* entry, where it is used by the destination of its move on every edge; *)
(* its range is then complete.                                            *)
(***************************************************************************)
\* Variant: the move's destination is not added as a use of the phi.
IncomingPhiDestNoUse(st, b, k, m) == SetCell(st, DstSlot(m), Unallocated("PrefersRegister"))

IncomingPhiDest(st, b, k, m) ==
  [SetCell(st, DstSlot(m), Unallocated("PrefersRegister")) EXCEPT
     !.ranges[k] = AddUse(@, BlockStart(b), DstSlot(m))]

\* Variant: the phi's range gets no safepoints.
IncomingPhiNoSafepoints(st, b, k) ==
  CompleteRange(
    FoldLeft(LAMBDA acc, p : IncomingPhiDest(acc, b, k, PhiMove(acc, p, k)),
             [st EXCEPT !.ranges[k] = DefineAt(@, BlockStart(b))], PredSeq(b)), k)

IncomingPhi(st, b, k) ==
  CompleteRange(AssignSafepoints(
    FoldLeft(LAMBDA acc, p : IncomingPhiDest(acc, b, k, PhiMove(acc, p, k)),
             [st EXCEPT !.ranges[k] = DefineAt(@, BlockStart(b))], PredSeq(b)), k, k), k)

ConnectIncomingPhiMoves(st, b) == FoldLeft(LAMBDA acc, k : IncomingPhi(acc, b, k), st, PhiSeq(b))

\* BuildLiveRanges: the blocks from last to first, and the instructions of
\* each from last to first.  Before a block's last instruction come the
\* live-out intervals and ConnectOutgoingPhiMoves, which also passes over
\* the Goto; after its first, ConnectIncomingPhiMoves.  Phis and initial
\* definitions are not instructions of the block.
AtBlockEnd(st, i) ==
  IF i = cfg[BlockOf(i)].last
  THEN ConnectOutgoingPhiMoves(AddLiveOutIntervals(st, BlockOf(i)), BlockOf(i))
  ELSE st

\* The initial definitions of the function entry and of the graph entry,
\* in order.
Parameters == SetToSortSeq({i \in 1..N : IsParam(i)}, <)
Constants  == SetToSortSeq({i \in 1..N : IsConst(i)}, <)

\* Block 1 is the function entry: its parameters follow its instructions.
\* The constants of the graph entry come after every block.
AtBlockEntry(st, i) ==
  IF i # First(BlockOf(i)) THEN st
  ELSE IF BlockOf(i) # 1 THEN ConnectIncomingPhiMoves(st, BlockOf(i))
  ELSE FoldLeft(InitialDefinition, FoldLeft(InitialDefinition, st, Parameters), Constants)

BuildStep(st, i) == IF IsGoto(i) \/ ~IsInstr(i) THEN st ELSE ProcessOneInstruction(st, i)

ProcessInstruction ==
  /\ phase = "build" /\ cur > 0
  /\ a' = AtBlockEntry(BuildStep(AtBlockEnd(a, cur), cur), cur)
  /\ cur' = cur - 1
  /\ UNCHANGED << prog, cfg, phase, built >>

\* PrepareForAllocation(kRegister, ...): the worklist is unallocated_cpu_ and
\* every register starts with its blocking range.
PrepareForAllocation ==
  /\ phase = "build" /\ cur = 0
  /\ a' = [a EXCEPT
             !.un = a.ucpu,
             !.regs = [r \in Regs |-> IF Exists(a.ranges[Blk(r)]) THEN << Blk(r) >> ELSE << >>],
             !.ranges = AsSeq([x \in DOMAIN @ |->
                           IF x \in {Blk(r) : r \in Regs} /\ Exists(a.ranges[x])
                           THEN Initialize(a.ranges[x]) ELSE a.ranges[x]])]
  /\ built' = a.ranges
  /\ phase' = "alloc"
  /\ UNCHANGED << prog, cfg, cur >>

\* One iteration of AllocateUnallocatedRanges (not in intrinsic mode).
AllocateUnallocatedRange ==
  /\ phase = "alloc" /\ a.un # << >> /\ a.fault = "none"
  /\ a' = AllocateRange(AdvanceActiveIntervals([a EXCEPT !.un = Front(@)],
                                               Start(a.ranges[Last(a.un)])),
                        Last(a.un))
  /\ UNCHANGED << prog, cfg, phase, cur, built >>

\* The end of AllocateUnallocatedRanges: every range leaves its register.
FinishAllocation ==
  /\ phase = "alloc" /\ a.un = << >> /\ a.fault = "none"
  /\ a' = AdvanceActiveIntervals(a, kMaxPosition)
  /\ phase' = "resolve"
  /\ UNCHANGED << prog, cfg, cur, built >>

Resolve ==
  /\ phase = "resolve"
  /\ a' = ResolveControlFlow(a)
  /\ phase' = "done"
  /\ UNCHANGED << prog, cfg, cur, built >>

\* Allocation is over, or stopped at a failed ASSERT.
Terminated ==
  /\ phase = "done" \/ a.fault # "none"
  /\ UNCHANGED vars

Next ==
  \/ ProcessInstruction
  \/ PrepareForAllocation
  \/ AllocateUnallocatedRange
  \/ FinishAllocation
  \/ Resolve
  \/ Terminated

Spec == Init /\ [][Next]_vars



(***************************************************************************)
(* Properties.                                                             *)
(***************************************************************************)
Phases == {"build", "alloc", "resolve", "done"}

\* The allocator's fields keep their shapes; in particular the finger of a
\* range (first_pending_use_interval_) is one of its intervals, null, or,
\* for the head of a split in a lifetime hole, the first interval of its
\* next sibling (index Len(ivs) + 1; the head then has a next sibling).
TypeOK ==
  /\ phase \in Phases
  /\ cur \in 0..N
  /\ \A x \in DOMAIN a.ranges :
       LET r == a.ranges[x] IN
       /\ r.vreg \in {kNoVirtualRegister, kTempVirtualRegister} \cup 1..N
       /\ r.assigned.kind \in {"invalid", "reg", "stack", "const"}
       /\ r.next \in 0..Len(a.ranges)
       /\ r.pend \in 0..Len(r.ivs) \/ (r.pend = Len(r.ivs) + 1 /\ r.next # 0)
  /\ \A r \in Regs : \A k \in DOMAIN a.regs[r] : a.regs[r][k] \in DOMAIN a.ranges
  /\ a.fault \in STRING
  /\ a.swapped \subseteq 1..N
  /\ a.matDone \subseteq (1..N) \X Nat

\* No ASSERT of the allocator fails (SplitAt, SplitBetween, SpillBetween,
\* AllocateAnyRegister, AssignNonFreeRegister).
NoAssertionFailure == a.fault = "none"

(***************************************************************************)
(* Two live ranges -- values, split siblings, temporaries or the blocking  *)
(* ranges of fixed registers and calls -- that hold the same register are  *)
(* never live at the same position.  This is what AllocateFreeRegister's  *)
(* intersection search and AllocateAnyRegister's eviction must ensure.    *)
(* The one sharing by design: a parameter arriving in a register holds it *)
(* over the function entry, where BlockLocation blocks it for that        *)
(* parameter.                                                              *)
(***************************************************************************)
HoldsRegister(x) == Exists(a.ranges[x]) /\ IsMachineRegister(a.ranges[x].assigned)

EntryHolder(x, y) == x \in 1..N /\ IsParam(x) /\ y = Blk(a.ranges[x].assigned.idx)

Covered(r) == UNION {r.ivs[k].start..r.ivs[k].end - 1 : k \in DOMAIN r.ivs}

RegisterNoOverlap ==
  \A x, y \in {z \in DOMAIN a.ranges : HoldsRegister(z)} :
    x # y /\ a.ranges[x].assigned = a.ranges[y].assigned /\ ~EntryHolder(x, y) /\ ~EntryHolder(y, x) =>
      Covered(a.ranges[x]) \cap Covered(a.ranges[y]) = {}


(***************************************************************************)
(* The allocated function, replayed along every path of blocks.  The      *)
(* machine has the registers, the spill slots and the caller's argument   *)
(* slots; a location holds the vreg whose value it contains (0 for none), *)
(* and a constant location always reads as its constant.  Parameters are  *)
(* in their locations on entry.  At each position the parallel move of    *)
(* that position runs, then the instruction at that position: it clobbers *)
(* its temp, its writable inputs and, for a call, every register, and     *)
(* writes its output.  A call may move objects: a slot of the frame that  *)
(* its stack map does not mark keeps a stale pointer, so a tagged value   *)
(* there is lost.  The parallel move of a block entry runs on every edge  *)
(* into it, that of a Goto on its one edge.  A phi move on an edge gives  *)
(* its destination the phi's value when its source holds the phi's input *)
(* on that edge, and no value otherwise.                                   *)
(***************************************************************************)
ArgumentSlots == {prog[i].out : i \in {i \in 1..N : IsParam(i) /\ prog[i].out.kind = "stack"}}

Locs == {RegLoc(r) : r \in Regs} \cup {StackSlot(k) : k \in 0..Len(a.spillSlots) - 1}
        \cup ArgumentSlots

Read(m, l) == IF IsConstant(l) THEN l.idx ELSE IF l \in Locs THEN m[l] ELSE 0

EntryMachine ==
  [l \in Locs |-> IF \E i \in 1..N : IsParam(i) /\ prog[i].out = l
                  THEN CHOOSE i \in 1..N : IsParam(i) /\ prog[i].out = l ELSE 0]

MoveResult(mv, m) ==
  IF mv.phi = 0 THEN Read(m, a.cell[mv.src])
  ELSE IF Read(m, a.cell[mv.src]) = mv.val THEN mv.phi ELSE 0

ParallelMove(p, m) ==
  LET at(l) == {k \in DOMAIN a.moves : a.moves[k].pos = p /\ a.cell[a.moves[k].dst] = l}
  IN [l \in Locs |-> IF at(l) = {} THEN m[l]
                     ELSE MoveResult(a.moves[CHOOSE k \in at(l) : TRUE], m)]

\* The frame's slots whose tagged value a call at instruction i loses.
Collected(i, m) ==
  {l \in Locs : /\ l.kind = "stack" /\ l.idx >= 0 /\ l.idx \notin a.stackmap[Pos(i)]
               /\ m[l] \in 1..N /\ prog[m[l]].rep = "tagged"}

\* The machine once instruction i has run but before it writes its output.
Clobber(i, m) ==
  LET clobbered == (IF prog[i].call THEN {RegLoc(r) : r \in Regs} \cup Collected(i, m) ELSE {})
                   \cup {a.cell[TempSlot(i)]}
                   \cup {a.cell[InSlot(i, j)] : j \in {j \in DOMAIN prog[i].ins :
                           prog[i].ins[j].loc = Unallocated("WritableRegister")}}
  IN [l \in Locs |-> IF l \in clobbered THEN 0 ELSE m[l]]

Execute(i, m) ==
  [l \in Locs |-> IF l = a.cell[OutSlot(i)] THEN i ELSE Clobber(i, m)[l]]

\* The paths of blocks from b to the exit.
RECURSIVE PathsFrom(_)
PathsFrom(b) ==
  IF cfg[b].succ = {} THEN {<< b >>}
  ELSE UNION {{<< b >> \o q : q \in PathsFrom(s)} : s \in cfg[b].succ}

\* The positions a run along a path of blocks passes, in order.
PathPositions(path) ==
  FoldLeft(LAMBDA ps, b : ps \o [k \in 1..BlockEnd(b) - BlockStart(b) |-> BlockStart(b) + k - 1],
           << >>, path)

IsInstrPos(p) == \E i \in 1..N : IsInstr(i) /\ Pos(i) = p
InstrAt(p) == CHOOSE i \in 1..N : IsInstr(i) /\ Pos(i) = p

Step(m, p) ==
  IF IsInstrPos(p) THEN Execute(InstrAt(p), ParallelMove(p, m)) ELSE ParallelMove(p, m)

\* Run(ps)[k]: the machine before the parallel move at ps[k].
Run(ps) == FoldLeft(LAMBDA ms, p : Append(ms, Step(ms[Len(ms)], p)), << EntryMachine >>, ps)

(***************************************************************************)
(* Every input of every instruction, read on every path from the location *)
(* the allocator wrote into its slot after the moves the allocator        *)
(* inserted, holds the value of the definition it names.  This is the     *)
(* end-to-end correctness of splitting, spilling, eviction, the moves     *)
(* inside blocks and on the edges between them, and the eager spill       *)
(* stores.  Deoptimization at an instruction, eager or after a call       *)
(* returns, finds every value of its environment in the location of its  *)
(* environment slot, even after the call and the instruction's clobbers.  *)
(***************************************************************************)
InputsRead(i, m) ==
  \A j \in DOMAIN prog[i].ins : Read(m, a.cell[InSlot(i, j)]) = InputValue(a, i, j)

\* The slots deoptimization at i reads, with the value each must hold: the
\* environment's and its materializations' inputs, except materializations.
DeoptSlots(i) ==
  {<< EnvSlot(i, j), EnvValues(prog, i)[j] >> : j \in {j \in DOMAIN EnvValues(prog, i) : ~IsMat(EnvValues(prog, i)[j])}}
  \cup UNION {{<< MatSlot(i, mm, j), prog[i].mats[mm][j] >> :
                 j \in {j \in DOMAIN prog[i].mats[mm] : ~IsMat(prog[i].mats[mm][j])}} : mm \in ReachableMats(i)}

EnvRead(i, m) == \A d \in DeoptSlots(i) : Read(m, a.cell[d[1]]) = d[2]

DataflowOnPath(ps, ms) ==
  \A k \in DOMAIN ps : IsInstrPos(ps[k]) =>
    /\ InputsRead(InstrAt(ps[k]), ParallelMove(ps[k], ms[k]))
    /\ EnvRead(InstrAt(ps[k]), Clobber(InstrAt(ps[k]), ParallelMove(ps[k], ms[k])))

DataflowCorrect ==
  phase = "done" =>
    \A path \in PathsFrom(1) : DataflowOnPath(PathPositions(path), Run(PathPositions(path)))

(***************************************************************************)
(* The stack map of every call (MarkAsObjectAtSafepoints) is exact: every *)
(* tagged value live at the call sits in a stack slot the map marks, and  *)
(* every marked slot holds a tagged value live at the call.  A value may  *)
(* also be its constant (never in the frame) or a parameter in the        *)
(* caller's argument slots, which the caller's frame describes.           *)
(***************************************************************************)
OutsideFrame(l) == IsConstant(l) \/ (l.kind = "stack" /\ l.idx < 0)

LiveAt(v, p) == \E x \in Range(SiblingChain(a.ranges, v)) :
                  Exists(a.ranges[x]) /\ RangeContains(a.ranges[x], p)

CoverAt(v, p) == CHOOSE x \in Range(SiblingChain(a.ranges, v)) :
                   Exists(a.ranges[x]) /\ RangeContains(a.ranges[x], p)

\* m: the machine at call instruction c on some path.
MarkedSlotsLive(c, m) ==
  \A k \in a.stackmap[Pos(c)] :
    LET v == m[StackSlot(k)]
    IN v \in 1..N /\ prog[v].rep = "tagged" /\ LiveAt(v, Pos(c))

StackMapOnPath(ps, ms) ==
  \A k \in DOMAIN ps :
    IsInstrPos(ps[k]) /\ prog[InstrAt(ps[k])].call =>
      MarkedSlotsLive(InstrAt(ps[k]), ParallelMove(ps[k], ms[k]))

StackMapsExact ==
  phase = "done" =>
    /\ \A c \in {i \in 1..N : prog[i].call} :
         \A v \in {v \in 1..N : prog[v].rep = "tagged" /\ LiveAt(v, Pos(c))} :
           LET l == a.ranges[CoverAt(v, Pos(c))].assigned
           IN OutsideFrame(l) \/ (l.kind = "stack" /\ l.idx \in a.stackmap[Pos(c)])
    /\ \A path \in PathsFrom(1) : StackMapOnPath(PathPositions(path), Run(PathPositions(path)))

(***************************************************************************)
(* Splitting never changes what a value's siblings cover: after the build, *)
(* the siblings of each value follow each other, cover exactly the        *)
(* positions the value's live range covered, and between them carry its   *)
(* uses and safepoints in order (SplitAt, SplitBetween, SpillBetween,     *)
(* SpillAfter), whichever interval the finger points at when they split. *)
(***************************************************************************)
\* The uses and the safepoints of the ranges rs[x] of chain c, in order.
ChainUses(rs, c) ==
  FoldLeft(LAMBDA acc, x : acc \o [k \in DOMAIN rs[x].uses |-> << rs[x].uses[k].pos, rs[x].uses[k].slot >>],
           << >>, c)
ChainSafepoints(rs, c) == FoldLeft(LAMBDA acc, x : acc \o rs[x].sps, << >>, c)

SiblingsPartitionLifetime ==
  phase # "build" =>
    \A v \in {v \in 1..N : Exists(built[v])} :
      LET c == SiblingChain(a.ranges, v)
          b == SiblingChain(built, v)
      IN /\ \A k \in 1..Len(c) - 1 : End(a.ranges[c[k]]) <= Start(a.ranges[c[k + 1]])
         /\ UNION {Covered(a.ranges[x]) : x \in Range(c)} = UNION {Covered(built[x]) : x \in Range(b)}
         /\ ChainUses(a.ranges, c) = ChainUses(built, b)
         /\ ChainSafepoints(a.ranges, c) = ChainSafepoints(built, b)

(***************************************************************************)
(* After allocation every location slot of every instruction and move     *)
(* holds a register, a stack slot or a constant, and the slots whose      *)
(* policy asks for a register (RequiresRegister, WritableRegister,         *)
(* SameAsFirstInput, or a fixed register) hold one.                        *)
(***************************************************************************)
ProgramSlots ==
  UNION {{InSlot(i, j) : j \in DOMAIN prog[i].ins} : i \in 1..N}
  \cup {OutSlot(i) : i \in {k \in 1..N : ~IsInvalid(prog[k].out)}}
  \cup {TempSlot(i) : i \in {k \in 1..N : ~IsInvalid(prog[k].temp)}}
  \cup UNION {{d[1] : d \in DeoptSlots(i)} : i \in 1..N}

InitialPolicy(s) == InitialCells(prog)[s]

LocationSummariesAllocated ==
  phase = "done" =>
    /\ \A s \in ProgramSlots \cup {a.moves[k].dst : k \in DOMAIN a.moves}
                             \cup {a.moves[k].src : k \in DOMAIN a.moves} :
         a.cell[s].kind \in {"reg", "stack", "const"}
    /\ \A s \in ProgramSlots :
         InitialPolicy(s).kind \in {"reg", "RequiresRegister", "WritableRegister",
                                    "SameAsFirstInput", "SameAsFirstOrSecondInput",
                                    "MayBeSameAsFirstInput"} => a.cell[s].kind = "reg"
    /\ \A s \in ProgramSlots :
         IsMachineRegister(InitialPolicy(s)) => a.cell[s] = InitialPolicy(s)

(***************************************************************************)
(* An input whose location summary says RequiresStack receives a stack    *)
(* slot: ProcessOneInput records has_uses_which_require_stack_ so that a  *)
(* spill slot is reserved for the value and the use converted to it.      *)
(***************************************************************************)
RequiresStackHonoured ==
  phase = "done" =>
    \A s \in ProgramSlots :
      InitialPolicy(s) = Unallocated("RequiresStack") => a.cell[s].kind = "stack"

\* The outputs that may reuse an input's register.
FlexibleOutputs ==
  {i \in 1..N : prog[i].out \in {Unallocated("MayBeSameAsFirstInput"),
                                 Unallocated("SameAsFirstOrSecondInput")}}

\* The values instruction k reads, itself or through its environment.
UsedAt(k) ==
  {prog[k].ins[j].v : j \in DOMAIN prog[k].ins} \cup {v \in DeepValues(k) : ~IsConst(v)}

\* Value v has no use after instruction i, by the program's liveness.
DeadAfter(i, v) ==
  LET b == BlockOf(i)
  IN v \notin LiveOut(b) \cup PhiInputsFrom(b) \cup UNION {UsedAt(k) : k \in i + 1..cfg[b].last}

\* The value whose input slot the output of i ended up sharing, or 0.
SharedInput(i) == IF a.cell[OutSlot(i)] = a.cell[InSlot(i, 1)] THEN InputValue(a, i, 1) ELSE 0

(***************************************************************************)
(* An output that may reuse an input's register reuses one only when the  *)
(* program no longer needs that value.  kMayBeSameAsFirstInput shares the *)
(* first input's location exactly when that value is dead after the       *)
(* instruction.  kSameAsFirstOrSecondInput always shares an input's       *)
(* location, and when the two inputs have one constraint and only one of  *)
(* them dies there, it shares that one (the inputs are bound the other way *)
(* round).  IsDeadAfterCurrentInstruction decides this from the ranges     *)
(* built so far, relying on BuildLiveRanges visiting blocks in postorder   *)
(* and instructions backwards; DeadAfter is the program's liveness.        *)
(***************************************************************************)
TieFollowsLiveness ==
  phase = "done" =>
    \A i \in FlexibleOutputs :
      LET l == prog[i].ins[1].v
          r == prog[i].ins[2].v
      IN IF prog[i].out = Unallocated("MayBeSameAsFirstInput")
         THEN (SharedInput(i) = l) <=> DeadAfter(i, l)
         ELSE /\ SharedInput(i) \in {l, r}
              /\ prog[i].ins[1].loc = prog[i].ins[2].loc /\ DeadAfter(i, l) # DeadAfter(i, r)
                   => DeadAfter(i, SharedInput(i))

(***************************************************************************)
(* A register blocked for allocation (blocked_cpu_registers_: the thread,  *)
(* pool, stack and frame registers) is never given to a live range, even   *)
(* when a fixed location in a summary names it and so becomes the hint of *)
(* AllocateFreeRegister, or it is the register free for longest.          *)
(***************************************************************************)
BlockedRegistersReserved ==
  \A x \in DOMAIN a.ranges :
    a.ranges[x].vreg # kNoVirtualRegister /\ IsMachineRegister(a.ranges[x].assigned)
      => a.ranges[x].assigned.idx \notin Blocked

(***************************************************************************)
(* A range held by a register (registers_[reg]) has its finger on one of  *)
(* its own intervals.  LiveRange::SplitAt leaves the finger of the head   *)
(* where it was; when an eviction splits a range inside a lifetime hole,  *)
(* that interval now belongs to the new sibling, so the head must leave   *)
(* registers_ (AssignNonFreeRegister, RemoveEvicted) before                *)
(* AdvanceActiveIntervals or UpdateFreeUntil read its finger again.        *)
(***************************************************************************)
RegisterFingersOwnIntervals ==
  \A r \in Regs : \A x \in Range(a.regs[r]) : a.ranges[x].pend \in 1..Len(a.ranges[x].ivs)

(***************************************************************************)
(* The linear scan only moves forward: each range taken from unallocated_ *)
(* starts no earlier than the range taken before it, whatever the splits   *)
(* and evictions of the step put back on the list (AddToSortedListOfRanges *)
(* and the split positions of SpillBetween / SplitBetween).                *)
(***************************************************************************)
CursorMonotone ==
  [][phase = "alloc" /\ a.un # << >> /\ a'.un # << >> /\ phase' = "alloc" =>
       Start(a'.ranges[Last(a'.un)]) >= Start(a.ranges[Last(a.un)])]_vars

(***************************************************************************)
(* Refinement: the allocator implements AllocationSpec.                    *)
(*   live     the positions each value's live range covers once built      *)
(*   cursor   the start of the range AllocateUnallocatedRanges takes next  *)
(*            (0 while building, the block's end once unallocated_ is      *)
(*            empty)                                                       *)
(*   decided  the location of the sibling covering each live position     *)
(*            below the cursor                                             *)
(***************************************************************************)
ScanCursor ==
  CASE phase = "build"                -> 0
    [] phase = "alloc" /\ a.un # << >> -> Start(a.ranges[Last(a.un)])
    [] OTHER                          -> BlockEndPos

\* The built ranges of a value: an initial definition is already split.
LiveSet ==
  IF phase = "build" THEN {}
  ELSE {x \in (1..N) \X (0..BlockEndPos) :
          \E y \in Range(SiblingChain(built, x[1])) : Exists(built[y]) /\ RangeContains(built[y], x[2])}

LocationAt(v, p) ==
  LET xs == {x \in Range(SiblingChain(a.ranges, v)) :
               Exists(a.ranges[x]) /\ RangeContains(a.ranges[x], p)}
  IN IF xs = {} THEN NoLocation ELSE a.ranges[CHOOSE x \in xs : TRUE].assigned

Abstract == INSTANCE AllocationSpec WITH
  Values    <- Nat,
  Locations <- [kind : {"reg"}, idx : Regs \ Blocked] \cup [kind : {"stack"}, idx : Int]
               \cup [kind : {"const"}, idx : Nat],
  live      <- LiveSet,
  cursor    <- ScanCursor,
  decided   <- [x \in {y \in LiveSet : y[2] < ScanCursor} |-> LocationAt(x[1], x[2])]

(***************************************************************************)
(* The scan never revisits a decision: the location a value has at a      *)
(* position the cursor of AllocateUnallocatedRanges has passed is final   *)
(* (evictions split at the current start, SpillBetween / SplitBetween     *)
(* after it), every such position has a register or a stack slot, and no  *)
(* two values share one there.                                             *)
(***************************************************************************)
AllocationRefined == Abstract!Spec

=============================================================================
