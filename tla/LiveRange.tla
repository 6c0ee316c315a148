----------------------------- MODULE LiveRange -----------------------------
(***************************************************************************)
(* The data structures of linearscan.h -- lifetime positions, locations,   *)
(* UseInterval, UsePosition, SafepointPosition and LiveRange -- and the    *)
(* operations on one live range, as pure operators on a range record.      *)
(*                                                                         *)
(* A live range is a record                                                *)
(*   vreg     virtual register, or kNoVirtualRegister / kTempVirtualRegister*)
(*   rep      "tagged" | "untagged" | "none" (representation_)             *)
(*   ivs      ascending sequence of [start, end] use intervals              *)
(*   uses     ascending sequence of [pos, slot, hint] use positions; slot   *)
(*            and hint name location cells (see Allocator) and hint may be  *)
(*            NoHint                                                       *)
(*   sps      ascending sequence of safepoint positions (instruction ends) *)
(*   assigned assigned_location_,  spill  spill_slot_                      *)
(*   next     id of next_sibling_ in the allocator's arena, 0 for nullptr  *)
(*   pend     the finger's first_pending_use_interval_ as an index into    *)
(*            ivs, 0 for nullptr                                           *)
(*   reqStack has_uses_which_require_stack_                                *)
(* The finger's three cached use pointers are not kept: every query of     *)
(* them on one range is made with a non-decreasing position, so a search   *)
(* from the cache finds what a search of the whole list from that position *)
(* finds (see README).                                                     *)
(***************************************************************************)
EXTENDS Integers, Sequences, SequencesExt

kNoVirtualRegister   == -1
kTempVirtualRegister == -2
kIllegalPosition     == -1
kMaxPosition         == 2147483647

MinPosition(a, b) == IF a < b THEN a ELSE b

IsInstructionStartPosition(pos) == pos % 2 = 0
ToInstructionStart(pos)         == pos - (pos % 2)
ToInstructionEnd(pos)           == IF pos % 2 = 0 THEN pos + 1 ELSE pos

(***************************************************************************)
(* Locations (locations.h).  Unallocated locations carry their policy as   *)
(* the kind.                                                               *)
(***************************************************************************)
Policies == {"Any", "RequiresRegister", "PrefersRegister", "RequiresStack",
             "SameAsFirstInput", "SameAsFirstOrSecondInput", "MayBeSameAsFirstInput",
             "WritableRegister"}
NoLocation     == [kind |-> "invalid", idx |-> 0]
Unallocated(p) == [kind |-> p, idx |-> 0]
RegLoc(r)      == [kind |-> "reg", idx |-> r]
StackSlot(i)   == [kind |-> "stack", idx |-> i]
\* Location::Constant of the constant defined by instruction v.
Constant(v)    == [kind |-> "const", idx |-> v]
IsUnallocated(l)     == l.kind \in Policies
IsMachineRegister(l) == l.kind = "reg"
IsInvalid(l)         == l.kind = "invalid"
IsConstant(l)        == l.kind = "const"

NoHint == [i |-> 0, k |-> "none", j |-> 0]

Interval(s, e) == [start |-> s, end |-> e]

NewLiveRange(vreg, rep) ==
  [vreg |-> vreg, rep |-> rep, ivs |-> << >>, uses |-> << >>, sps |-> << >>,
   assigned |-> NoLocation, spill |-> NoLocation, next |-> 0, pend |-> 0,
   reqStack |-> FALSE]

Start(r) == r.ivs[1].start
End(r)   == r.ivs[Len(r.ivs)].end

\* UseInterval::Contains and LiveRange::CanCover / LiveRange::Contains.
IntervalContains(iv, pos) == iv.start <= pos /\ pos < iv.end
CanCover(r, pos) == Start(r) <= pos /\ pos < End(r)
RangeContains(r, pos) ==
  CanCover(r, pos) /\ \E k \in DOMAIN r.ivs : IntervalContains(r.ivs[k], pos)

(***************************************************************************)
(* LiveRange::AddUseInterval: intervals are prepended in decreasing order, *)
(* so a new interval merges with, extends or precedes the first one.       *)
(***************************************************************************)
AddUseInterval(r, s, e) ==
  IF r.ivs = << >> THEN [r EXCEPT !.ivs = << Interval(s, e) >>]
  ELSE LET f == r.ivs[1] IN
       CASE s > f.start -> r
         [] s = f.start -> IF e <= f.end THEN r ELSE [r EXCEPT !.ivs[1].end = e]
         [] e = f.start \/ e = f.end -> [r EXCEPT !.ivs[1].start = s]
         [] OTHER -> [r EXCEPT !.ivs = << Interval(s, e) >> \o @]

\* LiveRange::DefineAt
DefineAt(r, pos) ==
  IF r.ivs = << >> THEN [r EXCEPT !.ivs = << Interval(pos, pos + 1) >>]
  ELSE [r EXCEPT !.ivs[1].start = pos]

(***************************************************************************)
(* LiveRange::AddUse / AddHintedUse.  An existing use of the same slot at  *)
(* the same position is reused; a use after the head is inserted before    *)
(* the other uses at its position.  h = NoHint leaves the hint alone.      *)
(***************************************************************************)
AddHintedUse(r, pos, slot, h) ==
  LET us   == r.uses
      U    == [pos |-> pos, slot |-> slot, hint |-> h]
      SetHint(k) == IF h = NoHint THEN r ELSE [r EXCEPT !.uses[k].hint = h]
  IN IF us # << >> /\ us[1].pos = pos /\ us[1].slot = slot THEN SetHint(1)
     ELSE IF us # << >> /\ us[1].pos < pos
     THEN LET after == Max({k \in 1..Len(us) : us[k].pos < pos})
              same  == {k \in after + 1..Len(us) :
                          /\ \A m \in after + 1..k : us[m].pos = pos
                          /\ us[k].slot = slot}
          IN IF same # {} THEN SetHint(Min(same))
             ELSE [r EXCEPT !.uses = InsertAt(us, after + 1, U)]
     ELSE [r EXCEPT !.uses = << U >> \o us]

AddUse(r, pos, slot) == AddHintedUse(r, pos, slot, NoHint)

\* LiveRange::AddSafepoint (a safepoint is kept at the instruction's end).
AddSafepoint(r, pos) == [r EXCEPT !.sps = Append(@, ToInstructionEnd(pos))]

(***************************************************************************)
(* UseInterval::Intersect and FirstIntersection: the merge walk over two   *)
(* interval lists, from index ia of a and index iu of u.                   *)
(***************************************************************************)
\* Variant: the intersection test treats an interval's end as inclusive.
IntersectShort(a, o) ==
  IF a.start <= o.start
  THEN IF o.start < a.end - 1 THEN o.start ELSE kIllegalPosition
  ELSE IF a.start < o.end - 1 THEN a.start ELSE kIllegalPosition

Intersect(a, o) ==
  IF a.start <= o.start
  THEN IF o.start < a.end THEN o.start ELSE kIllegalPosition
  ELSE IF a.start < o.end THEN a.start ELSE kIllegalPosition

RECURSIVE FirstIntersection(_, _, _, _)
FirstIntersection(a, ia, u, iu) ==
  IF ia = 0 \/ iu = 0 \/ ia > Len(a) \/ iu > Len(u) THEN kMaxPosition
  ELSE LET pos == Intersect(a[ia], u[iu]) IN
       IF pos # kIllegalPosition THEN pos
       ELSE IF a[ia].start < u[iu].start
            THEN FirstIntersection(a, ia + 1, u, iu)
            ELSE FirstIntersection(a, ia, u, iu + 1)

(***************************************************************************)
(* AllocationFinger::Initialize and Advance: the pending interval is the   *)
(* first one that does not end at or before start; 0 once none is left.   *)
(***************************************************************************)
Initialize(r) == [r EXCEPT !.pend = 1]

\* Variant: the finger, having passed every interval, points past the end
\* instead of becoming null.
AdvancePastEnd(r, start) ==
  LET later == {k \in 1..Len(r.ivs) : k >= r.pend /\ r.ivs[k].end > start}
  IN IF r.pend = 0 THEN 0 ELSE IF later = {} THEN Len(r.ivs) + 1 ELSE Min(later)

Advance(r, start) ==
  LET later == {k \in 1..Len(r.ivs) : k >= r.pend /\ r.ivs[k].end > start}
  IN IF r.pend = 0 \/ later = {} THEN 0 ELSE Min(later)

(***************************************************************************)
(* The finger's use queries; cell maps a slot to its current location.     *)
(***************************************************************************)
HasHint(u, cell) == u.hint # NoHint /\ ~IsUnallocated(cell[u.hint])

\* AllocationFinger::FirstHint
FirstHint(r, cell) ==
  LET ks == {k \in 1..Len(r.uses) : HasHint(r.uses[k], cell)}
  IN IF ks = {} THEN NoLocation ELSE cell[r.uses[Min(ks)].hint]

\* AllocationFinger::FirstRegisterUse: index of the first use at or after
\* `after` whose cell still asks for a register, 0 if there is none.
FirstRegisterUse(r, after, cell) ==
  LET ks == {k \in 1..Len(r.uses) :
               /\ r.uses[k].pos >= after
               /\ cell[r.uses[k].slot] = Unallocated("RequiresRegister")}
  IN IF ks = {} THEN 0 ELSE Min(ks)

\* Location::IsRegisterBeneficial: every policy but Any.
IsRegisterBeneficial(l) == l # Unallocated("Any")

\* AllocationFinger::FirstRegisterBeneficialUse: index of the first use at
\* or after `after` whose cell is an unallocated, register-beneficial
\* policy, 0 if there is none.
FirstRegisterBeneficialUse(r, after, cell) ==
  LET ks == {k \in 1..Len(r.uses) :
               /\ r.uses[k].pos >= after
               /\ IsUnallocated(cell[r.uses[k].slot])
               /\ IsRegisterBeneficial(cell[r.uses[k].slot])}
  IN IF ks = {} THEN 0 ELSE Min(ks)

\* AllocationFinger::FirstInterferingUse: a use at an end position `after`
\* does not interfere.
FirstInterferingUse(r, after, cell) ==
  FirstRegisterUse(r, IF IsInstructionStartPosition(after) THEN after
                      ELSE after + 1, cell)

(***************************************************************************)
(* SplitListOfPositions over an ascending sequence of positions: the      *)
(* length of the prefix kept before split_pos (the rest moves after it).  *)
(***************************************************************************)
KeepBefore(p, split_pos, at_start) ==
  IF at_start THEN p < split_pos ELSE p <= split_pos

SplitListOfPositions(ps, split_pos, at_start) ==
  Len(SelectSeq(ps, LAMBDA p : KeepBefore(p, split_pos, at_start)))

(***************************************************************************)
(* LiveRange::SplitAt.  Returns [head, tail, same]: same when split_pos is *)
(* the range's start (SplitAt returns this).  Otherwise head is the        *)
(* truncated range linked to the new sibling tailId, and tail carries the  *)
(* intervals, uses and safepoints from split_pos on.  The walk starts at   *)
(* the finger's pending interval (initializing a null finger) and starts   *)
(* over when split_pos does not lie after it.  The head's finger keeps its *)
(* pending interval; UpdateAfterSplit only touches the use caches.         *)
(***************************************************************************)
\* Variant: the new sibling is not linked to the rest of the chain.
SplitAtUnlinked(r, split_pos, tailId) ==
  IF Start(r) = split_pos THEN [head |-> r, tail |-> r, same |-> TRUE]
  ELSE
  LET pend  == IF r.pend = 0 THEN 1 ELSE r.pend
      from  == IF split_pos <= r.ivs[pend].start THEN 1 ELSE pend
      i     == Min({k \in from..Len(r.ivs) : r.ivs[k].end > split_pos})
      iv    == r.ivs[i]
      atStart == iv.start = split_pos
      cut   == ~atStart /\ IntervalContains(iv, split_pos)
      headIvs == IF cut THEN SubSeq(r.ivs, 1, i - 1) \o << Interval(iv.start, split_pos) >>
                 ELSE SubSeq(r.ivs, 1, i - 1)
      tailIvs == IF cut THEN << Interval(split_pos, iv.end) >> \o SubSeq(r.ivs, i + 1, Len(r.ivs))
                 ELSE SubSeq(r.ivs, i, Len(r.ivs))
      nu  == SplitListOfPositions([k \in DOMAIN r.uses |-> r.uses[k].pos], split_pos, atStart)
      ns  == SplitListOfPositions(r.sps, split_pos, atStart)
      tail == [NewLiveRange(r.vreg, r.rep) EXCEPT
                 !.ivs = tailIvs, !.uses = SubSeq(r.uses, nu + 1, Len(r.uses)),
                 !.sps = SubSeq(r.sps, ns + 1, Len(r.sps))]
  IN [head |-> [r EXCEPT !.ivs = headIvs, !.uses = SubSeq(r.uses, 1, nu),
                          !.sps = SubSeq(r.sps, 1, ns),
                          !.next = tailId, !.pend = pend],
      tail |-> tail, same |-> FALSE]

SplitAt(r, split_pos, tailId) ==
  IF Start(r) = split_pos THEN [head |-> r, tail |-> r, same |-> TRUE]
  ELSE
  LET pend  == IF r.pend = 0 THEN 1 ELSE r.pend
      from  == IF split_pos <= r.ivs[pend].start THEN 1 ELSE pend
      i     == Min({k \in from..Len(r.ivs) : r.ivs[k].end > split_pos})
      iv    == r.ivs[i]
      atStart == iv.start = split_pos
      cut   == ~atStart /\ IntervalContains(iv, split_pos)
      headIvs == IF cut THEN SubSeq(r.ivs, 1, i - 1) \o << Interval(iv.start, split_pos) >>
                 ELSE SubSeq(r.ivs, 1, i - 1)
      tailIvs == IF cut THEN << Interval(split_pos, iv.end) >> \o SubSeq(r.ivs, i + 1, Len(r.ivs))
                 ELSE SubSeq(r.ivs, i, Len(r.ivs))
      nu  == SplitListOfPositions([k \in DOMAIN r.uses |-> r.uses[k].pos], split_pos, atStart)
      ns  == SplitListOfPositions(r.sps, split_pos, atStart)
      tail == [NewLiveRange(r.vreg, r.rep) EXCEPT
                 !.ivs = tailIvs, !.uses = SubSeq(r.uses, nu + 1, Len(r.uses)),
                 !.sps = SubSeq(r.sps, ns + 1, Len(r.sps)), !.next = r.next]
  IN [head |-> [r EXCEPT !.ivs = headIvs, !.uses = SubSeq(r.uses, 1, nu),
                          !.sps = SubSeq(r.sps, 1, ns),
                          !.next = tailId, !.pend = pend],
      tail |-> tail, same |-> FALSE]

=============================================================================
