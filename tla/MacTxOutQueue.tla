-------------------------- MODULE MacTxOutQueue --------------------------
(***************************************************************************)
(* The downlink out queue of MAC/mac_tx_out_queue.c: an array of slots in  *)
(* which every scheduled packet waits for its (frame, subframe).           *)
(*                                                                         *)
(* A slot of the code is a pair (pkt, taken); here it is the packet, or    *)
(* Free when taken is false: no function reads pkt of a slot that is not   *)
(* taken.  outQueueSize is one more than the highest index in use; add     *)
(* fills the first gap below it, or extends it.                            *)
(***************************************************************************)
EXTENDS Integers

CONSTANTS
  QueueSize,   (* TX_OUT_QUEUE_SIZE *)
  Packets,     (* records with at least the fields frame and subframe *)
  Free         (* the content of a slot that is not taken *)

ASSUME QueueAssumption ==
  /\ QueueSize \in Nat \ {0}
  /\ Free \notin Packets

VARIABLES outQueue, outQueueSize

queueVars == <<outQueue, outQueueSize>>

Slots == 0 .. QueueSize - 1

DueAt(p, f, sf) == p.frame = f /\ p.subframe = sf

\* A slot the searches stop at: taken, and for this (frame, subframe).
Matches(q, i, f, sf) == q[i] # Free /\ DueAt(q[i], f, sf)

(***************************************************************************)
(* add: the first slot below n that is not taken, or n itself.             *)
(***************************************************************************)
\* A slip in add: gaps are not looked for, a packet always goes at the end.
AppendOnly(q, n) == n

FirstFit(q, n) ==
  CHOOSE i \in 0 .. n :
    /\ i = n \/ q[i] = Free
    /\ \A j \in 0 .. i - 1 : q[j] # Free

\* A slip in add: the bound test lets one packet too many in.
FitsOffByOne == FirstFit(outQueue, outQueueSize) <= QueueSize

\* The return value of add_mac_tx_out_queue is 1 exactly when Fits.
Fits == FirstFit(outQueue, outQueueSize) < QueueSize

add(p) ==
  LET i == FirstFit(outQueue, outQueueSize) IN
  \/ /\ Fits
     /\ outQueue' = [outQueue EXCEPT ![i] = p]
     /\ outQueueSize' = IF i = outQueueSize THEN i + 1 ELSE outQueueSize
  \/ ~ Fits /\ UNCHANGED queueVars

(***************************************************************************)
(* find and get_next: the two halves of the iteration over the packets due *)
(* at one (frame, subframe).  -1 is "none".                                *)
(***************************************************************************)
LeastMatch(q, from, n, f, sf) ==
  IF \E i \in from .. n - 1 : Matches(q, i, f, sf)
  THEN CHOOSE i \in from .. n - 1 :
         /\ Matches(q, i, f, sf)
         /\ \A j \in from .. i - 1 : ~ Matches(q, j, f, sf)
  ELSE -1

findIn(q, n, f, sf) == LeastMatch(q, 0, n, f, sf)

\* A slip in get_next: the slot right after start is skipped.
getNextSkip(q, n, start) ==
  LeastMatch(q, start + 2, n, q[start].frame, q[start].subframe)

getNextIn(q, n, start) ==
  LeastMatch(q, start + 1, n, q[start].frame, q[start].subframe)

find(f, sf) == findIn(outQueue, outQueueSize, f, sf)

(***************************************************************************)
(* delete: every packet due at (f, sf) goes, then the tail is trimmed.     *)
(***************************************************************************)
\* A slip in delete: "if" where the code has "while".
TrimmedOnce(q, n) == IF n > 0 /\ q[n - 1] = Free THEN n - 1 ELSE n

Trimmed(q, n) ==
  CHOOSE m \in 0 .. n :
    /\ m = 0 \/ q[m - 1] # Free
    /\ \A j \in m .. n - 1 : q[j] = Free

\* A slip in delete: the subframe is not compared.
UntakenFrame(q, n, f, sf) ==
  [i \in DOMAIN q |-> IF i < n /\ q[i] # Free /\ q[i].frame = f THEN Free ELSE q[i]]

Untaken(q, n, f, sf) ==
  [i \in DOMAIN q |-> IF i < n /\ Matches(q, i, f, sf) THEN Free ELSE q[i]]

delete(f, sf) ==
  LET q == Untaken(outQueue, outQueueSize, f, sf) IN
  /\ outQueue' = q
  /\ outQueueSize' = Trimmed(q, outQueueSize)

--------------------------------------------------------------------------
init ==
  /\ outQueue = [i \in Slots |-> Free]
  /\ outQueueSize = 0

\* The queue alone, under a client that calls its operations in any order.
Next ==
  \/ \E p \in Packets : add(p)
  \/ \E p \in Packets : delete(p.frame, p.subframe)

QueueSpec == init /\ [][Next]_queueVars

--------------------------------------------------------------------------
QueueTypeOK ==
  /\ outQueue \in [Slots -> Packets \union {Free}]
  /\ outQueueSize \in 0 .. QueueSize

\* No packet sits at or beyond outQueueSize, where no search would see it
\* until add reused the slot, and the last slot counted is taken: the bound
\* every loop of the file relies on is exact after any mix of calls.
SizeIsExact ==
  /\ \A i \in Slots : i >= outQueueSize => outQueue[i] = Free
  /\ outQueueSize > 0 => outQueue[outQueueSize - 1] # Free

\* The 0 that add returns means what its callers take it for, a full queue:
\* a packet is refused only when every slot is taken, however the slots were
\* freed and outQueueSize was trimmed.
RefusesOnlyWhenFull == Fits \/ \A i \in Slots : outQueue[i] # Free

(***************************************************************************)
(* The slots the loop "find, then get_next until -1" visits, in order:     *)
(* visit[k] is the k-th index, -1 once the iteration has ended.            *)
(***************************************************************************)
Visits(f, sf) ==
  LET visit[k \in 0 .. QueueSize] ==
        IF k = 0 THEN find(f, sf)
        ELSE IF visit[k - 1] = -1 THEN -1
        ELSE getNextIn(outQueue, outQueueSize, visit[k - 1])
  IN  visit

\* The iteration of mac_tx_schedule_next_SF over a subframe reaches every
\* packet due then exactly once and ends, whatever gaps earlier deletions left.
IterationVisitsAll ==
  \A p \in Packets :
    LET v == Visits(p.frame, p.subframe)
        due == {i \in Slots : Matches(outQueue, i, p.frame, p.subframe)}
    IN  /\ {v[k] : k \in 0 .. QueueSize} = due \union {-1}
        /\ \A k \in 1 .. QueueSize : v[k] # -1 => v[k - 1] < v[k]

(***************************************************************************)
(* Refinement: the slots in use, as a table of packets.                    *)
(***************************************************************************)
heldSlots == {i \in Slots : outQueue[i] # Free}

Table == INSTANCE PacketTable WITH
  Handles <- Slots,
  held    <- [i \in heldSlots |-> outQueue[i]]

\* The array, its gaps and its trimming implement the table: no call of add or
\* delete loses, moves or overwrites another packet.
ImplementsPacketTable == Table!Spec
==========================================================================
