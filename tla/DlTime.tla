------------------------------ MODULE DlTime ------------------------------
(***************************************************************************)
(* Downlink time: (frame, subframe) pairs with the frame counted modulo    *)
(* LTE_NO_FRAMES, and the functions of MAC/mac_tx_helper.c that compare    *)
(* them and pick the subframe of the next packet.                          *)
(***************************************************************************)
EXTENDS Integers

CONSTANTS
  NoFrames,         (* LTE_NO_FRAMES, 1024 in the code                       *)
  MaxTimeHorizon,   (* MAX_TIME_HORIZON, 20 frames in the code               *)
  DataSubF          (* the subframes listed by --Data-SubF; the list of the  *)
                    (* code is ascending, so "the first entry that is large  *)
                    (* enough" is the least member that is                   *)

\* The code's 512 is NoFrames \div 2.  The window of compareTime has to be
\* wider than the horizon, and 8 divides NoFrames (SIB2 goes out in the
\* frames that 8 divides, also across the wrap).
ASSUME TimeAssumption ==
  /\ NoFrames \in Nat /\ NoFrames % 8 = 0
  /\ MaxTimeHorizon \in Nat /\ 2 * (MaxTimeHorizon + 2) <= NoFrames
  /\ DataSubF # {} /\ DataSubF \subseteq 0 .. 9

Frames == 0 .. NoFrames - 1
Subframes == 0 .. 9
Times == [frame : Frames, subframe : Subframes]

At(f, sf) == [frame |-> f, subframe |-> sf]

plusFrames(f, k) == (f + k) % NoFrames

\* Frames from f1 forward to f2.
framesAhead(f1, f2) == (NoFrames + f2 - f1) % NoFrames

\* The PHY's subframe counter: one subframe later, the frame wrapping.
nextSubframe(t) ==
  IF t.subframe = 9 THEN At(plusFrames(t.frame, 1), 0)
  ELSE At(t.frame, t.subframe + 1)

\* 0 - equal, 1 - t2 before t1, 2 - t2 after t1
compareTime(t1, t2) ==
  IF t1 = t2 THEN 0
  ELSE IF \/ /\ t1.frame # t2.frame
             /\ framesAhead(t1.frame, t2.frame) < NoFrames \div 2
          \/ t1.frame = t2.frame /\ t2.subframe > t1.subframe
  THEN 2
  ELSE 1

\* A slip in checkTimeHorizon: there is no horizon.
noTimeHorizon(t1, t2) == TRUE

\* May one more packet be scheduled when the last one went to t2?
checkTimeHorizon(t1, t2) ==
  ~ (compareTime(t1, t2) = 2 /\ framesAhead(t1.frame, t2.frame) > MaxTimeHorizon)

\* The first subframe 2 after t.
nextRRCSubframe(t) ==
  At(IF t.subframe + 1 > 2 THEN plusFrames(t.frame, 1) ELSE t.frame, 2)

leastOf(S) == CHOOSE x \in S : \A y \in S : x <= y

\* A slip in nextIPSubframe: t's own subframe is taken for a later one.
sameIPSubframe(t) ==
  LET later == {s \in DataSubF : s >= t.subframe} IN
  IF later = {} THEN At(plusFrames(t.frame, 1), leastOf(DataSubF))
  ELSE At(t.frame, leastOf(later))

\* The first data subframe after t.
nextIPSubframe(t) ==
  LET later == {s \in DataSubF : s >= t.subframe + 1} IN
  IF later = {} THEN At(plusFrames(t.frame, 1), leastOf(DataSubF))
  ELSE At(t.frame, leastOf(later))

\* A slip in the schedulers: the last scheduled time may lag behind.
leftLagging(now, last) == last

\* "Make sure these are not lagging behind": the last scheduled time is
\* pulled up to the current one.
notLagging(now, last) == IF compareTime(now, last) = 1 THEN now ELSE last

\* u is t or later, at most k frames.
within(t, u, k) ==
  \/ t.frame = u.frame /\ t.subframe <= u.subframe
  \/ framesAhead(t.frame, u.frame) \in 1 .. k
===========================================================================
