--------------------------- MODULE LteuDutyCycle ---------------------------
(***************************************************************************)
(* The duty cycle of the LTE-U build.  A controller on another machine     *)
(* sends on-times in UDP datagrams.  The UDP thread (mac_udpsocket.c)      *)
(* publishes each in lteu_context; the TX thread (mac_tx.c,                *)
(* mac_tx_schedule_next_SF_LTEU) adopts what is published and sends one    *)
(* packet per subframe, of 1 ms: CTS frames and then data in the ON part   *)
(* of the cycle, data on a side frequency in the OFF part.                 *)
(***************************************************************************)
EXTENDS Integers

CONSTANTS
  Interval,     (* interval of main.cc, the cycle the controller asks for    *)
  OnTimes,      (* the on-times the controller may choose                    *)
  OnCycle,      (* --onCycle: the cycle before the first datagram            *)
  OffCycle,     (* --offCycle                                                *)
  CtsSubframes, (* --TX-ctssubframes                                         *)
  MaxSends      (* bound: datagrams                                          *)

\* There is an ON part, and the CTS frames fit in it.
ASSUME DutyAssumption ==
  /\ Interval \in Nat /\ OnCycle \in Nat /\ OffCycle \in Nat
  /\ CtsSubframes \in Nat /\ MaxSends \in Nat
  /\ OnTimes \subseteq 1 .. Interval
  /\ OnCycle >= 1
  /\ \A on \in OnTimes \union {OnCycle} : CtsSubframes <= on

\* The triple (onCycle, offCycle, interval) of lteu_context.
Cycle(on, off, interval) == [on |-> on, off |-> off, interval |-> interval]

Cycles == {Cycle(on, Interval - on, Interval) : on \in OnTimes}
            \union {Cycle(OnCycle, OffCycle, OnCycle + OffCycle)}

noCycle == Cycle(0, 0, 0)

VARIABLES
  net, sends,         (* datagrams under way, datagrams sent                 *)
  udp, inCycle,       (* the UDP thread, and the values it parsed last       *)
  published, updated, (* lteu_context                                        *)
  tx,                 (* "init", "run", or "exited" with the process         *)
  cycle, counter, sync,  (* outoncycle, outoffcyle, outinterval; counter;..  *)
  channel,            (* the frequency of the radio                          *)
  sent,               (* what the last subframe carried                      *)
  nav,                (* subframes for which the last CTS still silences     *)
                      (* Wi-Fi; -1 for none                                  *)
  clean               (* has the cycle been the same since it began?         *)

udpVars == <<net, sends, udp, inCycle>>
txVars == <<tx, cycle, counter, sync, channel, sent, nav, clean>>
dutyVars == <<udpVars, published, updated, txVars>>

InitDuty ==
  /\ net = {} /\ sends = 0
  /\ udp = "setup" /\ inCycle = noCycle
  /\ published = Cycle(OnCycle, OffCycle, 0) /\ updated = FALSE
  /\ tx = "init"
  /\ cycle = noCycle /\ counter = 0 /\ sync = FALSE
  /\ channel = "centre" /\ sent = "none" /\ nav = -1 /\ clean = FALSE

----------------------------------------------------------------------------
(* The controller and the network: datagrams can be lost and overtaken. *)

\* getJsonMessage
SendCycle ==
  /\ sends < MaxSends
  /\ sends' = sends + 1
  /\ \E on \in OnTimes : net' = net \union {Cycle(on, Interval - on, Interval)}
  /\ UNCHANGED <<udp, inCycle, published, updated, txVars>>

Lose ==
  /\ \E m \in net : net' = net \ {m}
  /\ UNCHANGED <<sends, udp, inCycle, published, updated, txVars>>

----------------------------------------------------------------------------
(* go_thread_udpsocket *)

OpenSocket ==
  /\ udp = "setup" /\ udp' = "recv"
  /\ UNCHANGED <<net, sends, inCycle, published, updated, txVars>>

\* The address is taken: the thread returns, and the TX thread goes on with
\* the cycle it has.
BindFails ==
  /\ udp = "setup" /\ udp' = "ended"
  /\ UNCHANGED <<net, sends, inCycle, published, updated, txVars>>

\* WSAStartup or recvfrom fails: the process exits.
ProcessExits ==
  /\ udp \in {"setup", "recv"} /\ udp' = "ended" /\ tx' = "exited"
  /\ UNCHANGED <<net, sends, inCycle, published, updated, cycle, counter, sync,
                 channel, sent, nav, clean>>

\* recvfrom returns, and parseJson stores the values in the statics.
Receive ==
  /\ udp = "recv"
  /\ \E m \in net : inCycle' = m /\ net' = net \ {m}
  /\ udp' = "publish"
  /\ UNCHANGED <<sends, published, updated, txVars>>

\* A slip: the off-time is not copied.
toPublishWithoutOff(c) == [c EXCEPT !.off = published.off]

toPublish(c) == c

\* The statics are copied into lteu_context, in its critical section.
Publish ==
  /\ udp = "publish"
  /\ published' = toPublish(inCycle)
  /\ updated' = TRUE
  /\ udp' = "recv"
  /\ UNCHANGED <<net, sends, inCycle, txVars>>

----------------------------------------------------------------------------
(* mac_tx: the TX thread initialises, in the same critical section. *)
InitTx ==
  /\ tx = "init"
  /\ tx' = "run"
  /\ published' = [published EXCEPT !.interval = published.on + published.off]
  /\ updated' = TRUE
  /\ UNCHANGED <<udpVars, cycle, counter, sync, channel, sent, nav, clean>>

(***************************************************************************)
(* mac_tx_schedule_next_SF_LTEU.  Only the critical section at its start   *)
(* touches shared state, so the subframe is one step.                      *)
(***************************************************************************)
\* The cycle in force, and the counter it is applied to: the first update
\* restarts the cycle, later ones take effect in the middle of it.
adopted == IF updated THEN published ELSE cycle
startCounter == IF updated /\ ~ sync THEN 0 ELSE counter

\* The central frequency of the parameters, or 40 MHz above it.
Sora_SwitchTXFrequency(center) == IF center THEN "centre" ELSE "side"

\* A slip: the radio is switched to the side frequency one subframe late.
switchedLate(c, k) ==
  IF k = c.on + 1 /\ c.off > 0 THEN Sora_SwitchTXFrequency(FALSE)
  ELSE IF k = 0 /\ c.on > 0 THEN Sora_SwitchTXFrequency(TRUE)
  ELSE channel

\* A slip: the radio is never switched back.
neverBack(c, k) ==
  IF k = c.on /\ c.off > 0 THEN Sora_SwitchTXFrequency(FALSE) ELSE channel

\* The frequency for subframe k of cycle c: switched when a part begins.
switched(c, k) ==
  IF k = c.on /\ c.off > 0 THEN Sora_SwitchTXFrequency(FALSE)
  ELSE IF k = 0 /\ c.on > 0 THEN Sora_SwitchTXFrequency(TRUE)
  ELSE channel

packet(c, k) ==
  IF k < CtsSubframes THEN "cts" ELSE IF k < c.on THEN "on" ELSE "off"

\* A slip: the duration in the CTS is that of a cycle one subframe shorter.
ctsTooShort(c, k) == c.on - (k + 2)

\* outctsduration, in subframes.
ctsDuration(c, k) == c.on - (k + 1)

\* A slip: the cycle is one subframe longer than its interval.
countedLate(c, k) == IF k > c.interval THEN 0 ELSE k + 1

counted(c, k) == IF k + 1 >= c.interval THEN 0 ELSE k + 1

ScheduleNextSF ==
  LET c == adopted
      k == startCounter
      p == packet(c, k)
  IN
  /\ tx = "run"
  /\ cycle' = c
  /\ updated' = FALSE
  /\ sync' = (sync \/ updated)
  /\ channel' = switched(c, k)
  /\ sent' = p
  /\ counter' = counted(c, k)
  /\ nav' = IF p = "cts" THEN ctsDuration(c, k) ELSE IF nav >= 0 THEN nav - 1 ELSE -1
  /\ clean' = (k = 0 \/ (clean /\ ~ updated))
  /\ UNCHANGED <<udpVars, published, tx>>

txStep == InitTx \/ ScheduleNextSF

Exited == tx = "exited" /\ UNCHANGED dutyVars

NextDuty ==
  \/ SendCycle \/ Lose
  \/ OpenSocket \/ BindFails \/ ProcessExits \/ Receive \/ Publish
  \/ txStep \/ Exited

DutySpec == InitDuty /\ [][NextDuty]_dutyVars

\* The radio keeps asking the TX thread for subframes.
FairDutySpec == DutySpec /\ WF_dutyVars(txStep)

----------------------------------------------------------------------------
LteuTypeOK ==
  /\ net \subseteq Cycles /\ sends \in 0 .. MaxSends
  /\ udp \in {"setup", "recv", "publish", "ended"} /\ inCycle \in Cycles \union {noCycle}
  /\ published \in Cycles \union {Cycle(OnCycle, OffCycle, 0)}
  /\ updated \in BOOLEAN
  /\ tx \in {"init", "run", "exited"}
  /\ cycle \in Cycles \union {noCycle}
  /\ counter \in 0 .. (IF Interval > OnCycle + OffCycle THEN Interval
                       ELSE OnCycle + OffCycle) - 1
  /\ sync \in BOOLEAN
  /\ channel \in {"centre", "side"}
  /\ sent \in {"none", "cts", "on", "off"}
  /\ nav \in -1 .. (IF Interval > OnCycle THEN Interval ELSE OnCycle)
  /\ clean \in BOOLEAN

\* The radio is on the Wi-Fi channel in the ON part and off it otherwise.
onAirMatches ==
  /\ sent \in {"cts", "on"} => channel = "centre"
  /\ sent = "off" => channel = "side"

\* In a cycle that ran undisturbed since it began, the radio has been on the
\* Wi-Fi channel exactly in the ON part, whatever cycle was in force before
\* and wherever the change to this one came.
FrequencyFollowsPhase == clean => onAirMatches

\* "the CTS requested duration is less than the outoncycle": it lasts exactly
\* as long as the data that follows, in an undisturbed cycle.  No subframe of
\* data goes out after Wi-Fi has been released, and Wi-Fi is not kept silent
\* in the OFF part.
CtsCoversOnPart ==
  clean /\ CtsSubframes > 0 =>
    /\ sent = "on" => nav >= 0
    /\ sent = "off" => nav = -1

\* The triple the TX thread works with is never a mixture of two: it adds up.
CycleAddsUp == sync => cycle.on + cycle.off = cycle.interval

\* Updates disturb the cycle they come in and no later one: once datagrams
\* stop, the frequency follows the phase for good, also when the UDP thread
\* could not open its socket.
Converges == <>[](tx = "exited" \/ (sent # "none" /\ onAirMatches))

\* "turn off by switching channel" (mac_tx_schedule_next_SF_LTEU): what is sent
\* in the OFF part is not sent on the Wi-Fi channel.
OffIsQuiet == sent = "off" => channel = "side"
============================================================================
