# TLA+ models of the Dart VM linear-scan register allocator

This directory models the SSA linear-scan register allocator of the Dart VM
optimizing compiler:

- `src/runtime/vm/compiler/backend/linearscan.cc`
- `src/runtime/vm/compiler/backend/linearscan.h`

The models are checked with TLC.

## The system

`FlowGraphAllocator::AllocateRegisters` runs these passes in order:

1. **NumberInstructions** gives every block entry and instruction a start
   position (even). The position after it is the instruction's end (odd).
   Parallel moves at a position run before the instruction there. A block's
   `end_pos` is the next block's start. Phis take no position: they are
   defined at their join's start. For each phi, every predecessor of the
   join gets an empty move in its Goto's parallel move (one position after
   the Goto).
2. **SSALivenessAnalysis** computes live-in and live-out sets per block.
   `ComputeInitialSets` walks each block backwards: a definition is killed
   and leaves the live-in set, an input enters it unless its location is
   a constant (the instruction reads the constant itself). A join's phis are killed
   there, and each phi input is made live-in to the predecessor it comes
   from unless that predecessor defines it. Every non-constant value of an
   instruction's deoptimization environment enters the live-in set too. The
   fixpoint over the graph is in the `LivenessAnalysis` base class.
3. **BuildLiveRanges** walks the blocks and their instructions backwards.
   - Every value live out of a block first gets an interval over the whole
     block, which its definition later shortens. A value used only on some
     paths therefore gets a range with lifetime holes.
   - At a Goto with phi moves (`ConnectOutgoingPhiMoves`), each phi's input
     gets an interval from the block's start to the Goto and a use at the
     Goto's position. That use is the move's source, hinted by the phi's
     assigned location. After a join's first instruction,
     `ConnectIncomingPhiMoves` defines each phi at the join's start. It gives
     the phi a use for each move's destination, then its safepoints, and
     completes its range.
   - For each value it builds a `LiveRange`: an ordered list of half-open
     `UseInterval`s, a list of `UsePosition`s, and a list of
     `SafepointPosition`s.
   - For each instruction it reads the `LocationSummary`, which holds the
     policy of every input, temp and output:
     - a fixed register;
     - *Any*, *RequiresRegister*, *PrefersRegister*, *WritableRegister*,
       *SameAsFirstInput* or *RequiresStack*;
     - for an output, also *SameAsFirstOrSecondInput* or
       *MayBeSameAsFirstInput*. `ProcessOneInstruction` first normalizes
       these to SameAsFirstInput or RequiresRegister. It asks
       `IsDeadAfterCurrentInstruction`, which looks only at the range built
       so far: a value has a later use exactly when its first interval
       starts before the block's end. For SameAsFirstOrSecondInput with one
       constraint on both inputs, the inputs are exchanged (`Value::BindTo`)
       when only the second dies, so the output reuses the dying one.
   - An instruction that can deoptimize carries an `Environment`: frames of
     values, innermost first (`outer()`). `ProcessEnvironmentUses` runs
     before the inputs. A constant in it is its own location. Any other value
     gets an interval from the block's start to the end of the instruction
     and an *Any* use there, so it survives the instruction's clobbers in
     some location. A `MaterializeObject` in it (an object that
     deoptimization rebuilds) gets `NoLocation`, and its inputs get
     locations of their own in the same way (`ProcessMaterializationUses`).
     A materialization may be named several times and may name others, even
     cyclically; it is processed once.
   - Fixed registers and calls are expressed as intervals of the per-register
     *blocking range* `cpu_regs_[r]`.
   - Completed ranges are kept sorted in `unallocated_cpu_`.
4. **PrepareForAllocation** puts each blocking range in its register.
5. **AllocateUnallocatedRanges** takes ranges in order of start position.
   For each range:
   - **AdvanceActiveIntervals** retires the ranges that have ended. Their uses
     are converted to the register they held.
   - **AllocateFreeRegister** tries the hinted register, then a completely free
     one, then the register that is free for longest. It splits the range
     where that register stops being free.
   - If that fails, **AllocateAnyRegister** runs:
     - a range with no register use is spilled;
     - otherwise it takes the register whose next use by others is furthest
     away (`UpdateFreeUntil`);
     - the ranges already in that register are evicted
       (`AssignNonFreeRegister`, `EvictIntersection`, `SpillBetween`,
       `SpillAfter`);
     - the range is split before the register's blocking range.
   - Splits go through `LiveRange::SplitAt` and `SplitBetween`. Split tails
     return to `unallocated_`.
   - Spilling allocates a stack slot (`AllocateSpillSlotFor`, which reuses
     expired slots). For tagged values it marks the slot in the stack maps of
     every safepoint the value spans (`MarkAsObjectAtSafepoints`).
6. **ResolveControlFlow** adds moves between touching siblings in different
   locations, except at a block entry. Then, for every block and every split
   value live into it, it compares where the value is at the end of each
   predecessor with where the block expects it (`FindCover`):
   - a differing location gives a move on that edge (`EmitMoveOnEdge`): in
     the predecessor's Goto parallel move, or at the successor's entry when
     the predecessor branches;
   - at a join where every predecessor has the same source, the move is
     *pending*: it sinks into the join unless a Goto move of a predecessor
     overwrites its source (`can_emit`, propagated to a fixpoint), in which
     case it goes onto every edge.

   Finally it adds the eager store of each spilled value to its spill slot
   right after the definition. A constant's store goes into the function
   entry, since the constant is defined in the graph entry.

Initial definitions come last in BuildLiveRanges. The function entry's
parameters and the graph entry's constants are processed after every
instruction, so that all call safepoints are known
(`ProcessInitialDefinition`):

- a parameter in a register holds it only over the function entry, where
  the register is blocked, and is split after it;
- a parameter on the stack, or a constant, keeps its location as both its
  assigned location and its spill slot until its first register-beneficial
  use. The tail from there goes through the scan;
- a parameter in the locals area reserves its slot
  (`AllocateSpillSlotForInitialDefinition`). Ordinary spill slots are
  searched above `fixed_slot_count`;
- `CompleteRange(Definition*)` gives a value with uses that require the
  stack a real slot, and converts those uses to it.

A constant split at the function entry reaches its register through a
move on the edge from the graph entry, which ends at `kNormalEntryPos`.

The `AllocationFinger` of each range caches how far the scan has progressed
through it: its pending interval.

## Modules

| Module | Models | State and actions |
|---|---|---|
| `LiveRange.tla` | linearscan.h data structures, `LiveRange`, `UseInterval`, `AllocationFinger`, `SplitListOfPositions`, `LiveRange::SplitAt` | Pure operators on a range record. Fields: `ivs` (intervals), `uses`, `sps` (safepoints), `assigned`, `spill`, `next` (sibling id), `pend` (the finger's pending interval), `reqStack`. |
| `Allocator.tla` | `FlowGraphAllocator` for the CPU register class on an acyclic graph of blocks with phis at joins, with the liveness it needs | Variables `prog` (the instructions), `cfg` (the blocks: last instruction and successors), `phase`, `cur`, `a` (the allocator's fields) and `built` (history). The fields of `a` are listed in the module header. The actions are listed below. |
| `AllocationSpec.tla` | the contract of a linear scan (no code of its own) | Variables `live` (the <<value, position>> pairs of the lifetimes), `cursor` and `decided` (pair -> location). `ComputeLifetimes` fixes the lifetimes once. `Sweep` moves the cursor forward, deciding every live pair it passes, never changing a decision, and never giving two values one location at a position. |
| `MCAllocator.tla` | the programs the runs start from | Eight one-block programs, six diamond programs (branch, two arms ending in a Goto, join), seven diamond programs with phis, eight programs with parameters and constants, eleven programs with deoptimization environments, nine with outputs that may reuse an input's register, `StackUse` and `ConstStack` for the findings. |

Live ranges live in an arena `a.ranges`:

- ids 1..N are `live_ranges_[v]`;
- N+1+r is the blocking range of register r;
- temps and split siblings are appended in order of creation.

A `Location*` slot the allocator writes through is a key of `a.cell`:
`InSlot(i, j)`, `OutSlot(i)`, `TempSlot(i)`, `DstSlot(m)`, `SrcSlot(m)` or
`EnvSlot(i, j)` or `MatSlot(i, m, j)`. `EnvSlot(i, j)` is slot j of
instruction i's environment, with the frames read as one sequence
(`EnvValues`). An instruction's `mats` field holds the inputs of the
materializations of its deoptimization exit. The value -m in a frame or
among their inputs names the m-th of them. `MatSlot(i, m, j)` is input j's
location, and `a.matDone` records which ones have their locations.

Each action is one whole pass or loop iteration of the code:

| Action | Code |
|---|---|
| `ProcessInstruction` | one iteration of BuildLiveRanges. At the last instruction of a block, first the live-out intervals and ConnectOutgoingPhiMoves (`AtBlockEnd`). A Goto or a phi is then skipped (`BuildStep`); any other instruction goes through `ProcessOneInstruction` (`NormalizeOutput`: a SameAsFirstInput output of a fixed input, `NormalizeFirstOrSecond`, `NormalizeMayBe`; then environment uses, inputs, temps, call blocking, the safepoint and the output). After a join's first entry, ConnectIncomingPhiMoves; after the first entry of block 1, the parameters and then the constants (`AtBlockEntry`, `InitialDefinition`). |
| `PrepareForAllocation` | PrepareForAllocation(kRegister, ...). |
| `AllocateUnallocatedRange` | one iteration of the loop in AllocateUnallocatedRanges: RemoveLast, AdvanceActiveIntervals, AllocateFreeRegister, else AllocateAnyRegister. |
| `FinishAllocation` | AdvanceActiveIntervals(kMaxPosition). |
| `Resolve` | ResolveControlFlow: `LinearMoves`, then `ResolveBlock` for each block (`ResolveLiveIn`, `ResolveEdges`, `ResolvePending`), then `EagerSpillMoves`. |
| `Terminated` | Stutters once allocation is done or an ASSERT has failed. |

Blocks follow the code's block order. A program is a record: `code`, the
instructions in block order, and `blocks`, a sequence of `[last, succ]`.
Positions follow NumberInstructions: block b starts at `BlockStart(b)`,
instruction i is at `Pos(i)`. An entry whose `init` is "param" or "const" is a
parameter of the function entry (at its start, 2) or a constant of the
graph entry (at 0), not an instruction. A phi is an entry of `code` with a non-empty
`phi` field (its inputs in predecessor order) at the start of a join; it
has no position of its own. The phi moves of every Goto are in
`a.moves` from the start (`InitialMoves`), as NumberInstructions creates
them. The liveness sets are operators of the
program: `Kill` and `InitialLiveIn` translate ComputeInitialSets, and
`LiveIn`/`LiveOut` are the recursive fixpoint (which the graph's acyclicity
makes a plain recursion). They are marked `spec_modelled`, since the
`LivenessAnalysis` solver is not in the repository.

The ASSERTs of the allocator are not stopped by the model. A failed ASSERT is
recorded in `a.fault`, and `NoAssertionFailure` checks that none fails.

The model data is abstracted as follows:

- Values are vreg numbers.
- Locations are `[kind, idx]` records.
- Representations are only tagged or untagged.
- The finger's cached use pointers are replaced by searches from the query
  position. Each is queried with non-decreasing positions, so the answers
  are the same.

### Style: helpers take values as parameters

Many operators take intermediate states as parameters (`SpillBetweenTail`,
`EvictedFrom`, `AllocateRangeWith`, ...) instead of binding them with a
nested `LET`. This is deliberate. TLC's coverage mode expands every
reference to a `LET` definition, which made the nested calls of the
allocator exponential. Passing the value as an argument keeps the run
linear.

## Runs

| Run | Config | Constants | Properties | Result |
|---|---|---|---|---|
| allocator | `MCAllocator.cfg` | 2 registers, none blocked, bias 0, the 8 programs | TypeOK, NoAssertionFailure, RegisterNoOverlap, DataflowCorrect, StackMapsExact, SiblingsPartitionLifetime, LocationSummariesAllocated, CursorMonotone, AllocationRefined | pass, 114 states |
| blocked | `MCBlocked.cfg` | 3 registers, register 1 blocked, bias 1 | BlockedRegistersReserved, DataflowCorrect | pass, 110 states |
| diamond | `MCDiamond.cfg` | 2 registers, the 6 diamond programs | NoAssertionFailure, DataflowCorrect, StackMapsExact, SiblingsPartitionLifetime, RegisterFingersOwnIntervals, AllocationRefined | pass, 112 states |
| phi | `MCPhi.cfg` | 2 registers, the 7 phi programs | DataflowCorrect, LocationSummariesAllocated, StackMapsExact | pass, 137 states |
| init | `MCInit.cfg` | 2 registers, the 9 programs with parameters and constants | NoAssertionFailure, RegisterNoOverlap, DataflowCorrect, StackMapsExact, SiblingsPartitionLifetime, LocationSummariesAllocated, AllocationRefined | pass, 132 states |
| requires_stack | `MCRequiresStack.cfg` | 2 registers, `StackUse`, `Fixed`, `Chain` | RequiresStackHonoured | violation |
| env | `MCEnv.cfg` | 2 registers, the 11 programs with environments | NoAssertionFailure, RegisterNoOverlap, DataflowCorrect, StackMapsExact, LocationSummariesAllocated, AllocationRefined | pass, 158 states |
| normalize | `MCNormalize.cfg` | 3 registers, the 9 programs with flexible outputs | TieFollowsLiveness, DataflowCorrect, LocationSummariesAllocated | pass, 112 states |
| const_stack | `MCConstStack.cfg` | 2 registers, `ConstStack` | StackMapsExact | violation |

What the properties say:

- **RegisterNoOverlap**: two ranges in the same register never cover a common
  position. This includes blocking ranges.
- **DataflowCorrect** replays the allocated code on a machine of registers
  and stack slots, along every path from the first block to an exit
  (`PathsFrom`):
  - the machine starts with each parameter in its arrival location; a
    constant is read from the constant itself;
  - it runs the parallel moves, and each instruction clobbers its temp, its
    writable inputs and, for a call, every register;
  - at a call, a frame slot that holds a tagged value but is not in the
    call's stack map is clobbered too: the GC neither traces nor updates
    it (`Collected`);
  - it then checks that every input reads the value of its definition;
  - after the instruction's clobbers, and before its output is written,
    every environment slot, and every input slot of a materialization
    reachable from the environment, must hold its value. Deoptimization at a call
    reads the frame as the call left it;
  - this is end-to-end correctness of splitting, eviction, resolution moves
    inside blocks and on edges, spill slot reuse and eager spill stores.
    An edge move placed at a join's entry instead of in the predecessor's
    Goto runs on the other path too, and breaks it.
  - a phi move writes the phi's id into its destination when its source
    holds the input of that edge, so the phi is checked like any value.
- **StackMapsExact**: at every call, on every path, the stack map marks exactly the slots
  that hold live tagged values, and every live tagged value is in a marked
  slot.
- **SiblingsPartitionLifetime**: after any number of splits, the sibling
  chain of a value covers exactly the positions its built range covered.
  It also carries the same uses and safepoints in order.
- **LocationSummariesAllocated**: every slot ends up a register or a stack
  slot. Register policies get a register, and fixed registers are kept.
- **CursorMonotone** (action property): the next range taken from
  `unallocated_` never starts before the previous one.
- **AllocationRefined**: `Allocator` implements `AllocationSpec`. The
  refinement mapping is:
  - `live` is empty while building, then the positions each built range
    covers (`LiveSet`);
  - `cursor` is the start of the last range of `unallocated_`
    (`ScanCursor`), and the block end once the scan is done;
  - `decided` maps each live pair below the cursor to the `assigned` of the
    sibling that covers it (`LocationAt`, which is `FindCover`).

  So an eviction or split may only change locations at or after the range
  being allocated. Spilling an evicted range from its own start instead of
  from the current position breaks it.
- **RegisterFingersOwnIntervals**: every range in `registers_` has a
  finger on one of its own intervals. SplitAt leaves the head of a split in
  a lifetime hole with a finger on an interval the tail now owns; SplitAt
  only recovers from that when the split position is not after that
  interval, so such a head must never be split again. AssignNonFreeRegister
  guarantees this by dropping the evicted head from `registers_`
  (`RemoveEvicted`). `TypeOK` allows the stale finger only on a head that has a
  next sibling.
- **TieFollowsLiveness**: a MayBeSameAsFirstInput output shares the
  first input's location exactly when that value is dead after the
  instruction. A SameAsFirstOrSecondInput output always shares an input's
  location, and when the two inputs have one constraint and only one dies,
  it shares the one that dies. Deadness here is computed from the program
  (`DeadAfter`: not live out, not a phi input at the block's Goto, not read
  later in the block by an input or an environment). The allocator decides
  it from the partly built ranges, which is right only because of the
  backward build order.
- **BlockedRegistersReserved**: no value or temp range is ever given a
  blocked register, even when a fixed location hints it. In the code a
  fixed location names a blocked register only in intrinsic mode, which
  blocks ARGS_DESC_REG and CODE_REG (linearscan.cc:140-147) and cannot
  spill (3048-3052); outside it, the ASSERTs at 1238 and 1311 forbid it.
  The `blocked` programs also spill, so they combine the two to drive the
  guard at 2437 through evictions; the guard itself is the same in
  intrinsic mode.

Each property has a mutant in `PROJECT.json`. A mutant is a plausible slip in
the mapped code that TLC then finds violating the property. The `as`
operators are defined next to the definitions they replace; their comments
start with "Variant:".

### Bounds

Each program is a handful of instructions, with two registers (three in
`blocked`). The programs were chosen so that every path of the allocator is
taken:

- hint use and free-register splits;
- both branches of AllocateAnyRegister, eviction, SpillBetween and
  SpillAfter;
- slot reuse, untagged slots, calls with live tagged and untagged values;
- fixed inputs, outputs and temps;
- SameAsFirstInput, WritableRegister and PrefersRegister.

The diamond programs reach what a single block cannot:

- lifetime holes over one arm (`HoleCall`, `HoleEvict`), a call in an arm
  (`CallArm`), and an eviction that splits a range inside its hole
  (`HoleEvict`, the stale finger);
- siblings touching at a block entry, where SplitBetween split them
  (`HoleCall`, `HoleEvict`, `FixedArms`, `Pressure3`);
- edge moves into an arm's Goto (`EdgeSwap`, `FixedArms`, `Pressure3`),
  into an arm's entry after the branch (`HoleEvict`, `FixedArms`,
  `Pressure3`), and pending moves sunk into the join (`HoleCall`,
  `FixedArms`).

These six were kept from searches over about 4,500 diamond programs (two
and three registers, every combination of a handful of arms and joins), all
of which satisfied every property of the run.

The programs with parameters and constants (`init`) reach:

- both parameters arriving in registers, split after the entry, with an
  eager store of the one live across a call (`RegParams`);
- a parameter in the caller's frame and one in the locals area, whose slot
  is reserved and marked at the call (`StackParams`), and a register
  parameter with a RequiresStack use next to a locals-area one
  (`StackUseParam`): the search above `fixed_slot_count` keeps them apart;
- constants used as themselves, in a register, split at the entry (a move
  on the graph-entry edge) and across a call, where a head without uses is
  spilled to the constant (`Constants2`, `ConstFixed`);
- a caller-frame parameter whose slot takes its RequiresStack use
  (`CallerStack`), and a constant given a real slot with its eager store in
  the function entry (`ConstInSlot`);
- a constant read directly as an operand (`Location::Constant`), which
  neither liveness nor ProcessOneInput counts as a use, and which only a
  later register use keeps live (`ConstOperand`);
- a constant and a parameter live into both arms of a diamond
  (`InitDiamond`).

The phi programs add:

- two phis whose inputs cross, a cycle in each Goto's parallel move
  (`PhiSwap`);
- an input spilled by a call in one arm and moved from its slot on that
  edge only (`PhiCallArm`);
- fixed registers on both sides of the phi moves (`PhiFixed`);
- one value as both inputs (`PhiSame`);
- a phi live across a call at the join, which must be in its stack map
  (`PhiAcrossCall`);
- a value used only as a phi input (`PhiInputOnly`), live from the branch
  to one arm's Goto only through the phi-input liveness of
  ComputeInitialSets;
- a pending move at the join whose source a Goto phi move overwrites
  (`PhiBlocked`). There `can_emit` is false and the move goes onto both
  edges. Sinking it into the join would give the join's fixed use the phi
  instead of value 3.

The programs with environments (`env`) reach:

- values kept only by the environment of a call, which must be spilled and
  marked in its stack map (`EnvCall`);
- nested frames, one of them empty, with a constant and a value that
  appears twice (`EnvNested`);
- environments under register pressure (`EnvPressure`), at an instruction
  with a writable input (`EnvWritable`) and at one with a fixed output
  register (`EnvFixedOut`);
- parameters, in a register and in the caller's frame, and a constant
  kept only by an environment (`EnvParams`);
- a phi in the environment of a call at the join (`EnvPhi`), and values
  kept by environments in the arms of a diamond (`EnvDiamond`, `EnvHole`);
- two materializations at a call that name each other, one of them also
  named by the frame (`MatCall`), and one named twice in an arm
  (`MatArm`). Each is processed once, and its inputs are spilled and
  marked across the call.

TypeOK is checked only by `allocator`: environments and initial
definitions add no range fields, and a second run with the same
`AdvancePastEnd` mutant would say nothing new.

The environment values that ComputeInitialSets adds to live-in (including
the inputs of materializations, `DeepLiveness`) cannot be observed on an
acyclic graph. `DefineAt` resets the first interval's
start to the definition, which covers the same positions. They matter only
across a back edge (see *Not modelled*).

The programs with flexible outputs (`normalize`) reach:

- a first input that dies (`MayBeDead`), lives on (`MayBeLive`), or lives
  on only in a later environment (`MayBeEnv`);
- a SameAsFirstOrSecondInput whose second input alone dies, so the
  inputs are exchanged (`FirstOrSecondSwap`); whose first dies
  (`FirstOrSecondKeep`); where both die or both live on
  (`FirstOrSecondBoth`, `FirstOrSecondLive`); and whose inputs have
  different constraints (`FirstOrSecondMixed`);
- in an arm of a diamond (`MayBeArm`), a value next used in the other arm,
  whose first interval starts exactly at this block's end, and an exchange
  because one input is the phi's input at the arm's Goto.

The run has three registers. With two, a RequiresRegister output next to
two live inputs fails AllocateAnyRegister's ASSERT, so a wrong decision
would never reach the end of allocation, where the property looks.

`PhiBlocked` and `PhiInputOnly` were found by searching families of 1,215
and 1,152 phi programs for a mutant's counterexample. Every program of
both families, and 1,153 more, satisfy every property of the project
(TypeOK through AllocationRefined and CursorMonotone).

The allocator is deterministic. The state space is the union of one
execution per program, and all actions and disjuncts fire.

## Findings

`requires_stack` shows a divergence between the code and spec.md.

- spec.md says a *RequiresStack* input "records the flag so a spill slot is
  reserved".
- `ProcessOneInput` (linearscan.cc:1267) only sets
  `has_uses_which_require_stack_`.
- That flag is read only by `CompleteRange(Definition*, LiveRange*)`
  (788-825), which runs for parameters and constants.
- Instruction outputs are completed by `CompleteRange(LiveRange*, Kind)`
  (called at 1399), which ignores the flag.
- So in `StackUse` the RequiresStack input of instruction 2 is given R0.

`const_stack` shows a second divergence, on the one path where the flag is
read.

- spec.md (line 486) says every safepoint that a tagged spill slot's range
  crosses has that slot set in its stack map.
- `LiveRange::AddSafepoint` (345-353) skips always-calls safepoints when
  the spill slot is a constant. Its comment says constants "will never be
  spilled".
- `CompleteRange(Definition*)` (791-803) then replaces the constant's
  pseudo slot with a real one for a RequiresStack use. It marks the slot
  only at the safepoints already recorded.
- So in `ConstStack` the constant lives in slot 0 across the call at
  position 4, and `stackmap[4]` is empty. A moving GC would leave a stale
  pointer in the slot, and the replay reads a clobbered value.

While modelling the parameters, TLC first showed a register parameter and
a locals-area parameter sharing slot 0. That happens only when the slot
search starts at 0. The code starts it at `fixed_slot_count`
(linearscan.cc:2190), and graph-entry code outside this repository sets
that count to cover the locals area. The model takes that count from the
program (`FixedSlotCount`, spec-modelled), and the run passes.

## Fairness and liveness

The model has no fairness and no liveness property.

- `WF_vars(Next)` makes TLC evaluate `ENABLED` of the whole allocator step
  without caching, which is exponential here.
- Termination is covered in another way:
  - the state graph is finite, and each program has one behaviour;
  - deadlock checking is on, and `Terminated` is enabled only once the
    phase is `done` or an ASSERT failed;
  - `NoAssertionFailure` rules out the second case, so every behaviour
    reaches `done`;
  - `CursorMonotone` shows the scan never goes back.

## Not modelled, and why

- **Loops and catch entries.** Loops need back edges, the interference
  sets of BuildLiveRanges, loop-phi marks and the loop heuristics of
  AllocateFreeRegister, SplitBetween and SpillAfter. Catch entries restore
  values from spill slots. Across a back edge the environment values of
  the initial live-in sets become observable. Phis of constants, pair phis and TryEntry
  predecessors of joins are not modelled either.
- **The liveness fixpoint** is taken from spec.md, since its solver is
  outside the repository. Move arguments, materializations and ReachingDefs
  are not modelled.
- **Catch-entry and OSR-entry initial definitions, the `:suspend_state`
  parameter and pair parameters.** Function-entry parameters and
  graph-entry constants are modelled. The others need catch blocks, OSR
  entries or pair locations. Native leaf calls are not modelled either.
- **Move arguments and pairs in environments.** Move arguments get
  `NoLocation` and need the outgoing argument area. A materialization is
  modelled only on the instruction whose exit it belongs to, as allocation
  sinking creates it. The flags `locations()` and
  `was_visited_for_liveness` would matter only if it were shared. Pairs need pair locations. The `:suspend_state` slot is a
  fixed frame slot of suspendable functions.
- **The FPU register class.** It runs the same code on other registers.
- **Move scheduling, frame layout and outgoing arguments.** The machine of
  `DataflowCorrect` executes each parallel move atomically.
- **`live_registers` of slow-path safepoints.**

## Plan for further work

1. A loop, for the loop heuristics, back-edge interference and loop phis.
   The liveness fixpoint would then need iteration, not recursion. The
   environment and materialization values of ComputeInitialSets, which
   no acyclic program can observe, could then be checked.
2. Chains of blocked pending moves (the `can_emit` fixpoint beyond one
   step). They need several pending moves at one join, one writing the
   source of another; no program of the runs has one.
3. `SplitListOfPositions` and `FirstIntersection` as recursive operators,
   checked against set-based reference definitions.
