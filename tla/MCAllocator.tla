---------------------------- MODULE MCAllocator ----------------------------
(***************************************************************************)
(* Programs for the allocator: one-block functions, and functions whose  *)
(* blocks form a diamond.                                                  *)
(***************************************************************************)
EXTENDS Allocator

RR      == Unallocated("RequiresRegister")
AnyLoc  == Unallocated("Any")
Use(v, l) == [v |-> v, loc |-> l]
Instr(out, ins, temp, call) ==
  [out |-> out, ins |-> ins, temp |-> temp, call |-> call, rep |-> "tagged", phi |-> << >>,
   init |-> "none", env |-> << >>, mats |-> << >>]

\* Three values wanted in registers at once with two registers, a call
\* between their uses, and a fixed-register return.
Pressure ==
  << Instr(RR, << >>, NoLocation, FALSE),
     Instr(RR, << >>, NoLocation, FALSE),
     Instr(Unallocated("SameAsFirstInput"), << Use(1, RR), Use(2, RR) >>, NoLocation, FALSE),
     Instr(RegLoc(0), << Use(1, AnyLoc) >>, NoLocation, TRUE),
     Instr(NoLocation, << Use(3, RR), Use(2, RR) >>, NoLocation, FALSE),
     Instr(NoLocation, << Use(4, RegLoc(0)) >>, NoLocation, FALSE) >>

Untagged(instr) == [instr EXCEPT !.rep = "untagged"]

\* Fixed-register input and output, a writable input copied into a
\* temporary, a fixed temp, and a stack-only use of a value.
Fixed ==
  << Instr(RR, << >>, NoLocation, FALSE),
     Instr(RegLoc(1), << Use(1, RegLoc(0)) >>, NoLocation, FALSE),
     Instr(RR, << Use(2, Unallocated("WritableRegister")), Use(1, AnyLoc) >>,
           NoLocation, FALSE),
     Instr(NoLocation, << Use(3, RR), Use(1, Unallocated("RequiresStack")) >>,
           RegLoc(0), FALSE),
     Instr(NoLocation, << Use(2, Unallocated("PrefersRegister")) >>, NoLocation, FALSE) >>

\* An untagged and a tagged value live across two calls, an unallocated
\* temp, and a value defined and never used.
Calls ==
  << Untagged(Instr(RR, << >>, NoLocation, FALSE)),
     Instr(RR, << >>, RR, FALSE),
     Instr(RegLoc(0), << >>, NoLocation, TRUE),
     Instr(RegLoc(1), << Use(1, AnyLoc), Use(2, Unallocated("RequiresStack")) >>,
           NoLocation, TRUE),
     Instr(NoLocation, << Use(1, AnyLoc), Use(4, RR), Use(2, RR) >>, NoLocation, FALSE) >>

\* A value allocated early and evicted when a fixed input and a fixed temp
\* take both registers, then reloaded for a register use, next to a
\* writable input.
Evict ==
  << Instr(RR, << >>, NoLocation, FALSE),
     Instr(RR, << >>, NoLocation, FALSE),
     Instr(NoLocation, << Use(2, RegLoc(1)) >>, RegLoc(0), FALSE),
     Instr(RR, << Use(1, RR) >>, NoLocation, FALSE),
     Instr(NoLocation, << Use(4, Unallocated("WritableRegister")),
                          Use(1, Unallocated("PrefersRegister")) >>, NoLocation, FALSE) >>

\* A value overwritten in place (same-as-first-input), an output that
\* prefers a register, and a value needed on the stack and later in a
\* register.
Chain ==
  << Instr(RR, << >>, NoLocation, FALSE),
     Instr(Unallocated("SameAsFirstInput"), << Use(1, RR) >>, NoLocation, FALSE),
     Instr(Unallocated("PrefersRegister"), << Use(2, AnyLoc) >>, NoLocation, FALSE),
     Instr(RR, << Use(3, RR), Use(2, Unallocated("RequiresStack")) >>, NoLocation, FALSE),
     Instr(NoLocation, << Use(4, RR), Use(3, AnyLoc), Use(2, RR) >>, NoLocation, FALSE) >>

\* Definitions nothing uses (a fixed call result among them) and an
\* untagged value passed to a call in a fixed register.
Unused ==
  << Untagged(Instr(RR, << >>, NoLocation, FALSE)),
     Instr(RR, << >>, RR, FALSE),
     Instr(RegLoc(0), << Use(1, RegLoc(1)) >>, NoLocation, TRUE),
     Instr(RegLoc(1), << Use(1, AnyLoc) >>, NoLocation, FALSE) >>

\* A fixed output next to a register input of the same instruction, then a
\* fixed temp on the other register.
FixedOut ==
  << Instr(RR, << >>, NoLocation, FALSE),
     Instr(RegLoc(0), << Use(1, RR) >>, NoLocation, FALSE),
     Instr(NoLocation, << Use(2, RR), Use(1, AnyLoc) >>, RegLoc(1), FALSE) >>

\* An output tied to the first input with a writable second input.
Tied ==
  << Instr(RR, << >>, NoLocation, FALSE),
     Instr(RR, << >>, NoLocation, FALSE),
     Instr(Unallocated("SameAsFirstInput"),
           << Use(1, RR), Use(2, Unallocated("WritableRegister")) >>, NoLocation, FALSE),
     Instr(NoLocation, << Use(3, RR) >>, NoLocation, FALSE) >>

\* A function body of one block.
OneBlock(code) == [code |-> code, blocks |-> << [last |-> Len(code), succ |-> {}] >>]

MCPrograms == {OneBlock(c) : c \in {Pressure, Fixed, Calls, Evict, Chain, Unused, FixedOut, Tied}}

\* Control flow.  A Goto ends a block with one successor; a block with two
\* successors ends in a branch on a value.
Goto == Instr(NoLocation, << >>, NoLocation, FALSE)
Branch(v) == Instr(NoLocation, << Use(v, RR) >>, NoLocation, FALSE)

\* B1 branches to B2 and B3, which both go to the join B4.  The arms get
\* their Goto appended.
Diamond(b1, b2, b3, b4) ==
  LET l1 == Len(b1)
      l2 == l1 + Len(b2) + 1
      l3 == l2 + Len(b3) + 1
  IN [code   |-> b1 \o b2 \o << Goto >> \o b3 \o << Goto >> \o b4,
      blocks |-> << [last |-> l1, succ |-> {2, 3}], [last |-> l2, succ |-> {4}],
                    [last |-> l3, succ |-> {4}], [last |-> l3 + Len(b4), succ |-> {}] >>]

Def(p) == Instr(p, << >>, NoLocation, FALSE)
UseIn(v, l) == Instr(NoLocation, << Use(v, l) >>, NoLocation, FALSE)

\* v1 is used only in B3, so its lifetime has a hole over B2, where a call
\* blocks both registers; v2 lives across both arms into the join, spilled
\* at the call and reloaded at the join.
HoleCall ==
  Diamond(<< Instr(RR, << >>, NoLocation, FALSE), Instr(RR, << >>, NoLocation, FALSE),
             Branch(1) >>,
          << Instr(RegLoc(0), << >>, NoLocation, TRUE) >>,
          << Instr(NoLocation, << Use(1, RR) >>, NoLocation, FALSE) >>,
          << Instr(NoLocation, << Use(2, RR) >>, NoLocation, FALSE) >>)

\* v1 again has a hole over B2.  There v5 takes v1's register for the hole
\* and a reload of v3 needs a register while v2 and v5 hold both: the
\* eviction splits v1 inside its hole.
HoleEvict ==
  Diamond(<< Def(RR), Def(AnyLoc), Def(RR), Branch(1) >>,
          << Def(RR), UseIn(2, RR), UseIn(3, RR), UseIn(5, RR) >>,
          << UseIn(1, RR) >>,
          << Instr(NoLocation, << Use(2, AnyLoc), Use(3, RR) >>, NoLocation, FALSE) >>)

\* The arms leave v2 in different registers, and the join wants v2 and v3
\* in fixed registers: moves on the edges, in the Goto of an arm.
EdgeSwap ==
  Diamond(<< Def(RR), Def(RR), Def(AnyLoc), Branch(1) >>,
          << >>,
          << UseIn(2, RegLoc(1)) >>,
          << Instr(NoLocation, << Use(2, RegLoc(0)), Use(3, RegLoc(1)) >>, NoLocation, FALSE) >>)

\* A call in one arm spills the values live across it; the other arm keeps
\* them in registers, so the join is reached with different locations.
CallArm ==
  Diamond(<< Def(RR), Def(RR), Branch(1) >>,
          << Instr(RegLoc(0), << >>, NoLocation, TRUE), UseIn(2, RR) >>,
          << UseIn(1, RR) >>,
          << UseIn(2, RR) >>)

\* Fixed uses in both arms move v2 and v3 between the registers on each
\* side; the join takes them wherever the arms leave them.
FixedArms ==
  Diamond(<< Def(RR), Def(RR), Def(RR), Branch(1) >>,
          << UseIn(3, RegLoc(0)), UseIn(2, RegLoc(1)) >>,
          << UseIn(2, RegLoc(0)) >>,
          << Instr(NoLocation, << Use(2, RR), Use(3, RR) >>, NoLocation, FALSE) >>)

\* Three values live across the branch with two registers: one is spilled
\* at the branch and reloaded in an arm and at the join.
Pressure3 ==
  Diamond(<< Def(RR), Def(RR), Def(RR), Branch(3) >>,
          << UseIn(1, RR) >>,
          << UseIn(2, RR) >>,
          << Instr(NoLocation, << Use(1, RR), Use(2, RR) >>, NoLocation, FALSE) >>)

MCDiamondPrograms == {HoleCall, HoleEvict, EdgeSwap, CallArm, FixedArms, Pressure3}

\* A phi at the start of a join: its inputs, in predecessor order.
Phi(ins) ==
  [out |-> NoLocation, ins |-> << >>, temp |-> NoLocation, call |-> FALSE, rep |-> "tagged", phi |-> ins,
   init |-> "none", env |-> << >>, mats |-> << >>]
Use2(v, p, w, q) == Instr(NoLocation, << Use(v, p), Use(w, q) >>, NoLocation, FALSE)

\* Two phis swap two values: the Goto moves of each arm form a cycle.
PhiSwap ==
  Diamond(<< Def(RR), Def(RR), Def(RR), Branch(1) >>, << >>, << >>,
          << Phi(<< 2, 3 >>), Phi(<< 3, 2 >>), Use2(7, RR, 8, RR) >>)

\* A call in one arm spills the phi's input there; the phi moves it from
\* the stack on that edge and from a register on the other.
PhiCallArm ==
  Diamond(<< Def(RR), Def(RR), Def(RR), Branch(1) >>,
          << Instr(RegLoc(0), << >>, NoLocation, TRUE) >>, << >>,
          << Phi(<< 2, 3 >>), Use2(8, RR, 2, RR) >>)

\* Fixed uses in the arms and at the join pull the phi's inputs and the
\* phi into different registers.
PhiFixed ==
  Diamond(<< Def(RR), Def(RR), Def(RR), Branch(1) >>,
          << UseIn(3, RegLoc(1)) >>, << UseIn(2, RegLoc(0)) >>,
          << Phi(<< 2, 3 >>), Use2(9, RegLoc(1), 3, RegLoc(0)) >>)

\* A phi of one value from both arms, defined in any location.
PhiSame ==
  Diamond(<< Def(RR), Def(RR), Def(AnyLoc), Branch(1) >>, << >>, << >>,
          << Phi(<< 3, 3 >>), Use2(7, RR, 2, RR) >>)

\* The phi is live across a call at the join, so it is spilled there.
PhiAcrossCall ==
  Diamond(<< Def(RR), Def(RR), Def(RR), Branch(1) >>, << >>, << >>,
          << Phi(<< 2, 3 >>), Instr(RegLoc(0), << >>, NoLocation, TRUE), Use2(7, RR, 1, RR) >>)

\* The phi's input leaves each arm in R0 and the phi is in R1, while value
\* 3 leaves the arms in R1 and is used from R0 at the join.  The move of
\* value 3 reads R1, which the Goto moves overwrite, so it cannot be
\* emitted at the join (can_emit false) and goes onto both edges.
PhiBlocked ==
  Diamond(<< Def(RR), Def(RR), Def(RR), Branch(1) >>,
          << UseIn(1, RR), Def(RR) >>, << Def(RegLoc(0)) >>,
          << Phi(<< 6, 8 >>), UseIn(2, RegLoc(1)), UseIn(3, RegLoc(0)) >>)

\* Value 3 is used only as the phi's input from the second arm, so it is
\* live from its definition to that arm's Goto and nowhere else.
PhiInputOnly ==
  Diamond(<< Def(RR), Def(RR), Def(RR), Branch(1) >>, << >>, << UseIn(2, RegLoc(1)) >>,
          << Phi(<< 2, 3 >>), Use2(8, RegLoc(1), 2, RegLoc(0)) >>)

MCPhiPrograms == {PhiSwap, PhiCallArm, PhiFixed, PhiSame, PhiAcrossCall, PhiBlocked, PhiInputOnly}

\* A value used from the stack with no register pressure.
StackUse ==
  << Instr(RR, << >>, NoLocation, FALSE),
     Instr(NoLocation, << Use(1, Unallocated("RequiresStack")) >>, NoLocation, FALSE),
     Instr(NoLocation, << Use(1, RR) >>, NoLocation, FALSE) >>

MCStackPrograms == {OneBlock(c) : c \in {StackUse, Fixed, Chain}}

\* Initial definitions: a parameter arriving in loc, a constant.  They come
\* first in block 1: parameters are the function entry's, constants the
\* graph entry's.  A parameter's slot in
\* the caller's frame has a negative index; one in the locals area (the
\* prologue copied it there) is a spill-area index.
Param(loc) == [Instr(loc, << >>, NoLocation, FALSE) EXCEPT !.init = "param"]
Const == [Instr(NoLocation, << >>, NoLocation, FALSE) EXCEPT !.init = "const"]
ArgSlot(k) == StackSlot(-k)
Call(out) == Instr(out, << >>, NoLocation, TRUE)

\* Parameters in both registers: a definition needs a register at once,
\* and a call separates the uses of the parameters.
RegParams ==
  << Param(RegLoc(0)), Param(RegLoc(1)), Def(RR), Use2(1, RR, 3, RR),
     Call(RegLoc(0)), UseIn(2, RR) >>

\* A parameter in the caller's frame and one in the locals area, live
\* across a call, and a value spilled by the call next to them.
StackParams ==
  << Param(ArgSlot(1)), Param(StackSlot(0)), Def(RR), Call(RegLoc(0)),
     Use2(1, RR, 2, AnyLoc), Use2(3, RR, 2, RR) >>

\* Constants used as Any (the constant itself), in a register, and across
\* a call.
Constants2 ==
  << Const, Const, Def(RR), UseIn(1, AnyLoc), Call(RegLoc(0)),
     Use2(2, RR, 1, RR), UseIn(3, AnyLoc) >>

\* A constant and a register parameter live into both arms of a diamond.
InitDiamond ==
  Diamond(<< Const, Param(RegLoc(0)), Def(RR), Branch(3) >>,
          << UseIn(1, RR) >>, << Call(RegLoc(0)), UseIn(2, RR) >>,
          << Use2(1, AnyLoc, 2, RR) >>)

\* A register parameter with a use that requires the stack, next to a
\* parameter in the locals area: the slot search starts above the slots the
\* entry reserves.
StackUseParam ==
  << Param(RegLoc(0)), Param(StackSlot(0)), UseIn(1, Unallocated("RequiresStack")),
     UseIn(2, AnyLoc), UseIn(1, RR) >>

\* A parameter never used, whose register a constant is then wanted in.
ConstFixed ==
  << Param(RegLoc(1)), Const, Def(RR), Use2(2, RegLoc(1), 3, RR), Call(RegLoc(0)),
     UseIn(2, AnyLoc) >>

\* A parameter in the caller's frame with a use that requires the stack (its
\* slot is reused), and a constant, under register pressure.
CallerStack ==
  << Param(ArgSlot(2)), Const, Def(RR), Def(RR), UseIn(1, Unallocated("RequiresStack")),
     Use2(3, RR, 4, RR), Call(RegLoc(0)), Use2(2, RR, 1, RR) >>

\* A constant whose use requires the stack, with no call: the eager store
\* into its slot goes into the function entry.
ConstInSlot ==
  << Const, Def(RR), UseIn(1, Unallocated("RequiresStack")), Use2(1, RR, 2, RR) >>

\* A constant read directly as an operand (Location::Constant) and also
\* wanted in a register after a call: only the register use keeps it live.
ConstOperand ==
  << Const, Def(RR), Use2(1, Constant(1), 2, RR), Call(RegLoc(0)), UseIn(1, RR) >>

MCInitPrograms ==
  {OneBlock(c) : c \in {RegParams, StackParams, Constants2, StackUseParam, ConstFixed,
                        CallerStack, ConstInSlot, ConstOperand}}
    \cup {InitDiamond}

\* A constant whose use after a call requires the stack: CompleteRange gives
\* it a real spill slot, but AddSafepoint skipped the call while its spill
\* slot was still the constant.
ConstStack ==
  << Const, Call(RegLoc(0)), UseIn(1, Unallocated("RequiresStack")), UseIn(1, RR) >>

MCConstStackPrograms == {OneBlock(ConstStack)}

\* Deoptimization environments: frames of values, innermost first.
WithEnv(ins, frames) == [ins EXCEPT !.env = frames]

\* A value kept only by the environment of a call must survive the call in
\* a slot the stack map marks.
EnvCall ==
  << Def(RR), Def(RR), WithEnv(Call(RegLoc(0)), << << 1, 2 >> >>), UseIn(1, RR) >>

\* A constant in the environment, an empty frame, and an outer frame that
\* names one value twice.
EnvNested ==
  << Const, Def(RR), Def(RR), WithEnv(Use2(2, RR, 3, RR), << << 3, 1 >>, << >>, << 2, 2 >> >>),
     UseIn(2, AnyLoc) >>

\* Values kept only by environments compete with register uses.
EnvPressure ==
  << Def(RR), Def(RR), Def(RR), WithEnv(Use2(1, RR, 2, RR), << << 3 >> >>),
     WithEnv(UseIn(3, RR), << << 1 >> >>) >>

\* v2 is kept across B2 only by an environment there: ComputeInitialSets
\* makes it live into B2 and so across the branch.
EnvDiamond ==
  Diamond(<< Def(RR), Def(RR), Branch(1) >>,
          << WithEnv(Call(RegLoc(0)), << << 2 >> >>) >>, << UseIn(1, RR) >>,
          << UseIn(1, AnyLoc) >>)

\* The instruction clobbers its writable input's copy while both values of
\* its environment must survive it.
EnvWritable ==
  << Def(RR), Def(RR),
     WithEnv(Instr(RR, << Use(1, Unallocated("WritableRegister")) >>,
                   NoLocation, FALSE), << << 1, 2 >> >>),
     UseIn(3, RR) >>

\* The instruction's fixed output register is blocked at its position,
\* where the value kept by its environment must still be.
EnvFixedOut ==
  << Def(RR), Def(RR), WithEnv(Def(RegLoc(0)), << << 1 >>, << 2 >> >>), Use2(3, RR, 2, RR) >>

\* Parameters (one in a register, one in the caller's frame) and a constant
\* kept only by the environment of a call.
EnvParams ==
  << Param(RegLoc(0)), Param(ArgSlot(1)), Const, WithEnv(Call(RegLoc(0)), << << 1, 2, 3 >> >>),
     UseIn(4, RR) >>

\* A phi kept by the environment of a call at the join.
EnvPhi ==
  Diamond(<< Def(RR), Def(RR), Def(RR), Branch(1) >>, << >>, << >>,
          << Phi(<< 2, 3 >>), WithEnv(Call(RegLoc(0)), << << 7 >> >>), UseIn(1, RR) >>)

\* Value 2 is mentioned only by an environment in an arm, not at a call, so
\* it stays in a register while value 3 wants one in the first block.
EnvHole ==
  Diamond(<< Def(RR), Def(RR), Def(RR), Use2(1, RR, 3, RR), Branch(1) >>,
          << WithEnv(UseIn(1, RR), << << 2 >> >>) >>, << >>, << UseIn(1, AnyLoc) >>)

\* Materializations of an exit: -m in a frame names the m-th.
WithMats(ins, frames, mats) == [ins EXCEPT !.env = frames, !.mats = mats]

\* At a call, materialization 1 (value 2, materialization 2 and a
\* constant) and materialization 2 (value 1 and materialization 1) form a
\* cycle; materialization 1 is also named by the frame.
MatCall ==
  << Def(RR), Def(RR), Const,
     WithMats(Call(RegLoc(0)), << << 1, -1 >> >>, << << 2, -2, 3 >>, << 1, -1 >> >>),
     UseIn(1, RR) >>

\* In an arm, one materialization named twice by the frame keeps values 2
\* and 3, while value 1 is used there in a register.
MatArm ==
  Diamond(<< Def(RR), Def(RR), Def(RR), Branch(1) >>,
          << WithMats(UseIn(1, RR), << << -1, -1 >> >>, << << 2, 3 >> >>) >>,
          << UseIn(3, RR) >>, << UseIn(1, AnyLoc) >>)

MCEnvPrograms ==
  {OneBlock(c) : c \in {EnvCall, EnvNested, EnvPressure, EnvWritable, EnvFixedOut, EnvParams, MatCall}}
    \cup {EnvDiamond, EnvPhi, EnvHole, MatArm}

\* Binary operations whose output may reuse an input's register.
MayBe(l, r) ==
  Instr(Unallocated("MayBeSameAsFirstInput"), << Use(l, RR), Use(r, RR) >>, NoLocation, FALSE)
FirstOrSecond(l, r) ==
  Instr(Unallocated("SameAsFirstOrSecondInput"), << Use(l, RR), Use(r, RR) >>, NoLocation, FALSE)

\* The first input dies at the operation, or is used after it.
MayBeDead == << Def(RR), Def(RR), MayBe(1, 2), Use2(3, RR, 2, RR) >>
MayBeLive == << Def(RR), Def(RR), MayBe(1, 2), Use2(3, RR, 1, RR) >>

\* Only the second input dies: the inputs are exchanged.  Then only the
\* first dies, both die, and both live on.
FirstOrSecondSwap == << Def(RR), Def(RR), FirstOrSecond(1, 2), Use2(3, RR, 1, RR) >>
FirstOrSecondKeep == << Def(RR), Def(RR), FirstOrSecond(1, 2), Use2(3, RR, 2, RR) >>
FirstOrSecondBoth ==
  << Def(RR), Def(RR), Def(RR), FirstOrSecond(1, 2), Use2(3, RR, 4, RR) >>
FirstOrSecondLive ==
  << Def(RR), Def(RR), FirstOrSecond(1, 2), Use2(1, RR, 2, RR), UseIn(3, AnyLoc) >>

\* The inputs have different constraints, so they are never exchanged,
\* although only the second dies.
FirstOrSecondMixed ==
  << Def(RR), Def(RR),
     Instr(Unallocated("SameAsFirstOrSecondInput"), << Use(1, RR), Use(2, AnyLoc) >>,
           NoLocation, FALSE),
     Use2(3, RR, 1, RR) >>

\* The first input is used after the operation only by an environment.
MayBeEnv == << Def(RR), Def(RR), MayBe(1, 2), WithEnv(UseIn(3, RR), << << 1 >> >>) >>

\* In an arm: value 2 is used next in the other arm, whose block starts
\* where this one ends, so it dies at the first operation; value 3 is the
\* phi's input from this arm, so the second operation's inputs are swapped.
MayBeArm ==
  Diamond(<< Def(RR), Def(RR), Def(RR), Branch(1) >>,
          << MayBe(2, 1), FirstOrSecond(3, 5) >>, << UseIn(2, RR) >>,
          << Phi(<< 3, 2 >>), Use2(10, RR, 1, RR) >>)

MCNormalizePrograms ==
  {OneBlock(c) : c \in {MayBeDead, MayBeLive, FirstOrSecondSwap, FirstOrSecondKeep,
                        FirstOrSecondBoth, FirstOrSecondLive, FirstOrSecondMixed, MayBeEnv}}
    \cup {MayBeArm}

\* The shape of the control-flow graph: block order is a topological
\* order, there are no critical edges, and a block with one successor ends
\* in a Goto.
ASSUME \A P \in MCDiamondPrograms \cup MCPhiPrograms \cup {EnvDiamond, EnvPhi, EnvHole, MayBeArm, MatArm} : \A b \in DOMAIN P.blocks :
  /\ \A s \in P.blocks[b].succ : s > b
  /\ Cardinality(P.blocks[b].succ) = 1 => P.code[P.blocks[b].last] = Goto
  /\ \A s \in P.blocks[b].succ :
       Cardinality(P.blocks[b].succ) > 1 => Cardinality({p \in DOMAIN P.blocks : s \in P.blocks[p].succ}) = 1

\* Phis come first in a join, one input per predecessor, and each input is
\* defined by an instruction of the program.
ASSUME \A P \in MCPhiPrograms : \A i \in DOMAIN P.code : P.code[i].phi # << >> =>
  \E b \in DOMAIN P.blocks :
    LET first == IF b = 1 THEN 1 ELSE P.blocks[b - 1].last + 1
    IN /\ i \in first..P.blocks[b].last
       /\ \A k \in first..i : P.code[k].phi # << >>
       /\ Len(P.code[i].phi) = Cardinality({p \in DOMAIN P.blocks : b \in P.blocks[p].succ})
       /\ Len(P.code[i].phi) >= 2
       /\ \A k \in DOMAIN P.code[i].phi : P.code[i].phi[k] \in DOMAIN P.code

\* The shape ProcessOneInstruction asserts for a call (DEBUG checks after
\* BlockCpuRegisters): fixed temps and output, inputs fixed, Any or
\* RequiresStack.
ASSUME \A P \in MCPrograms \cup MCStackPrograms \cup MCDiamondPrograms \cup MCPhiPrograms
                \cup MCInitPrograms \cup MCConstStackPrograms \cup MCEnvPrograms : \A i \in DOMAIN P.code : P.code[i].call =>
  /\ ~IsUnallocated(P.code[i].temp) /\ ~IsUnallocated(P.code[i].out)
  /\ \A j \in DOMAIN P.code[i].ins :
       P.code[i].ins[j].loc.kind \in {"reg", "Any", "RequiresStack"}
=============================================================================
