---------------------------- MODULE DlSchedule ----------------------------
(***************************************************************************)
(* What the downlink promises a phone that has locked on to the cell: the  *)
(* "Scheduling overview" of MAC/mac_tx_helper.c, subframe by subframe,     *)
(* with no queue and no thread.  Each subframe is first Built (its content *)
(* is settled) and then the cell moves on to the next one.                 *)
(***************************************************************************)
EXTENDS DlTime, FiniteSets

CONSTANTS EmptySubF, SIB1SF, SIB2SF, RARSF

VARIABLES
  now,     (* the subframe *)
  built,   (* is its content settled? *)
  onAir    (* how many packets of each kind it carries, once built *)

scheduleVars == <<now, built, onAir>>

Control == {"SIB1", "SIB2", "RAR", "DCI0", "EMPTY"}

\* Does control packet k belong in subframe t?
Belongs(k, t) ==
  CASE k = "SIB2"  -> t.subframe = SIB2SF /\ t.frame % 8 = 0
    [] k = "SIB1"  -> t.subframe = SIB1SF /\ t.frame % 2 = 0
    [] k = "RAR"   -> t.subframe = RARSF
    [] k = "DCI0"  -> t.subframe = 0
    [] k = "EMPTY" -> t.subframe \in EmptySubF

\* The data streams that may use subframe t.
MayCarry(t) ==
  {s \in {"RRC", "IP"} : \/ s = "RRC" /\ t.subframe = 2
                         \/ s = "IP" /\ t.subframe \in DataSubF}

\* Every control packet once where it belongs and nowhere else; of each data
\* stream at most one packet, and only in its own subframes.
GoodContent(c, t) ==
  /\ \A k \in Control : c[k] = IF Belongs(k, t) THEN 1 ELSE 0
  /\ \A s \in {"RRC", "IP"} : c[s] = 0 \/ (c[s] = 1 /\ s \in MayCarry(t))

Nothing == [k \in Control \union {"RRC", "IP"} |-> 0]

Init == now = At(0, 0) /\ built = FALSE /\ onAir = Nothing

Build ==
  /\ ~ built
  /\ built' = TRUE
  /\ DOMAIN onAir' = DOMAIN Nothing
  /\ GoodContent(onAir', now)
  /\ UNCHANGED now

Advance ==
  /\ built
  /\ now' = nextSubframe(now)
  /\ built' = FALSE
  /\ onAir' = Nothing

Next == Build \/ Advance

Spec == Init /\ [][Next]_scheduleVars
===========================================================================
