----------------------------- MODULE Controller -----------------------------
(***************************************************************************)
(* The LTE-U controller, LTE-U/controller: the thread WifiSniffer captures *)
(* Wi-Fi frames into the window packets_, the thread LTEUScheduler         *)
(* measures the window every rounds * interval ms, chooses the on-time and *)
(* sends the cycle to the base station.  They share the window under a     *)
(* spin lock, and the ends of the threads without one.                     *)
(*                                                                         *)
(* The clock is not modelled: the scheduler finds its running time over at *)
(* any round.  Frames come from the constant Frames, at distances of Gaps. *)
(***************************************************************************)
EXTENDS Csat

CONSTANTS
  kInitontime,           (* the on-time to start with, from the command line *)
  PerMs,                 (* rounds * 1000: off-time of a window per ms       *)
  sensing_,              (* setSensingThreshold; -62                         *)
  Frames, Gaps,          (* environment: frames captured, and their distances*)
  MaxWindow              (* bound: packets in a window                       *)

ASSUME ControllerAssumption ==
  /\ kInitontime \in calculateMin .. t_on_max_
  /\ PerMs \in Nat \ {0} /\ MaxWindow \in Nat
  /\ Gaps \subseteq Nat \ {0}

ASSUME FramesAssumption ==
  \A f \in Frames :
    /\ f.long \in BOOLEAN
    /\ {f.len, f.hlen, f.rate, f.behind, f.duration} \subseteq Nat

VARIABLES
  packets_,              (* the window                                       *)
  nodes_,                (* nodes_ and types_: what is known of each address *)
  spinlock,              (* "free", "sniffer" or "scheduler"                 *)
  handle_,               (* "none", "open", "closed"                         *)
  broken,                (* pcap_breakloop was called                        *)
  sniffer,               (* where WifiSniffer is                             *)
  pkt,                   (* the packet it is about to insert                 *)
  scheduler,             (* where LTEUScheduler is                           *)
  window,                (* history: the window gmu was measured from        *)
  mu, gmu,               (* of the window; mu is only printed                *)
  last,                  (* lastmu_ and tlaston_                             *)
  ontime,
  runtime,               (* FALSE when it was set to 0                       *)
  sentOntime             (* the on-time sent last, -1 before                 *)

snifferVars == <<handle_, sniffer, pkt, nodes_>>
measureVars == <<window, mu, gmu>>
vars == <<packets_, snifferVars, spinlock, broken, scheduler, measureVars,
          last, ontime, runtime, sentOntime>>

NoPacket == [type |-> "none"]

----------------------------------------------------------------------------
(* Monitor: what is known of the stations, in monitor.cc. *)

Known(nodes, mac) ==
  IF mac \in DOMAIN nodes THEN nodes ELSE
    [m \in DOMAIN nodes \union {mac} |->
       IF m = mac THEN [mac |-> mac, type |-> "UNKNOWN", ap |-> ""] ELSE nodes[m]]

\* The types of the two addresses of a packet after classifyNodeType.
classifyNodeType(nodes, p) ==
  LET t == nodes[p.tmac].type
      r == nodes[p.rmac].type
      set(mac, type) == [nodes EXCEPT ![mac].type = type]
  IN  CASE p.type = "BEACON" -> set(p.tmac, "AP")
        [] p.type = "PROBE_REQUEST" -> set(p.tmac, "STA")
        [] p.type = "PROBE_RESPONSE" ->
             [set(p.tmac, "AP") EXCEPT ![p.rmac].type = "STA"]
        [] p.type \in {"BLOCKACK", "BLOCKREQ", "QOSDATA", "RTS"} ->
             IF t = "AP" /\ r = "UNKNOWN" THEN set(p.rmac, "STA")
             ELSE IF r = "AP" /\ t = "UNKNOWN" THEN set(p.tmac, "STA")
             ELSE nodes
        [] OTHER -> nodes

\* A station belongs to the access point it exchanged a packet with.
Attached(nodes, p) ==
  LET t == nodes[p.tmac].type
      r == nodes[p.rmac].type
  IN  CASE t = "STA" /\ r = "AP" -> [nodes EXCEPT ![p.tmac].ap = p.rmac]
        [] t = "AP" /\ r = "STA" -> [nodes EXCEPT ![p.rmac].ap = p.tmac]
        [] OTHER -> nodes

\* Only the distances of the times in a window matter: the time of capture
\* is chosen here.
insertPacket(p) ==
  /\ \E gap \in Gaps :
       LET now == IF packets_ = <<>> THEN 0 ELSE packets_[Len(packets_)].time + gap
       IN  packets_' = Append(packets_, [p EXCEPT !.time = now])
  /\ nodes_' = Attached(classifyNodeType(Known(Known(nodes_, p.tmac), p.rmac), p), p)

----------------------------------------------------------------------------
(* WifiSniffer: startCapture and realtimeProcess. *)

\* Anything that fails before the capture ends the process; see Exit.
Open ==
  /\ sniffer = "opening"
  /\ handle_' = "open" /\ sniffer' = "capturing"
  /\ UNCHANGED <<packets_, nodes_, spinlock, broken, pkt, scheduler, measureVars,
                 last, ontime, runtime, sentOntime>>

Exit ==
  /\ sniffer = "opening"
  /\ sniffer' = "exited" /\ scheduler' = "exited"
  /\ UNCHANGED <<packets_, nodes_, handle_, spinlock, broken, pkt, measureVars,
                 last, ontime, runtime, sentOntime>>

\* pcap_loop hands over a frame.  A weak one is dropped.  With a window that
\* is full, the bound of the model, no more frames come.
Capture ==
  /\ sniffer = "capturing" /\ ~broken /\ Len(packets_) < MaxWindow
  /\ \E f \in Frames :
       LET p == parsePacket(f) IN
       IF p.rssi >= sensing_ THEN pkt' = p /\ sniffer' = "locking"
       ELSE UNCHANGED <<pkt, sniffer>>
  /\ UNCHANGED <<packets_, nodes_, handle_, spinlock, broken, scheduler,
                 measureVars, last, ontime, runtime, sentOntime>>

SnifferLocks ==
  /\ sniffer = "locking" /\ spinlock = "free"
  /\ spinlock' = "sniffer" /\ sniffer' = "inserting"
  /\ UNCHANGED <<packets_, nodes_, handle_, broken, pkt, scheduler, measureVars,
                 last, ontime, runtime, sentOntime>>

\* A slip: the lock is not taken.
InsertUnlocked ==
  /\ sniffer \in {"locking", "inserting"}
  /\ insertPacket(pkt)
  /\ pkt' = NoPacket /\ sniffer' = "capturing"
  /\ spinlock' = IF spinlock = "sniffer" THEN "free" ELSE spinlock
  /\ UNCHANGED <<handle_, broken, scheduler, measureVars, last, ontime, runtime, sentOntime>>

Insert ==
  /\ sniffer = "inserting"
  /\ insertPacket(pkt)
  /\ pkt' = NoPacket /\ sniffer' = "capturing" /\ spinlock' = "free"
  /\ UNCHANGED <<handle_, broken, scheduler, measureVars, last, ontime, runtime, sentOntime>>

\* pcap_loop returns: it was broken, or the device failed.
LeaveLoop ==
  /\ sniffer = "capturing"
  /\ handle_' = "closed" /\ sniffer' = "closing"
  /\ UNCHANGED <<packets_, nodes_, spinlock, broken, pkt, scheduler, measureVars,
                 last, ontime, runtime, sentOntime>>

\* A slip: the end of the capture does not end the program.
SnifferEndsQuietly ==
  /\ sniffer = "closing" /\ sniffer' = "ended"
  /\ UNCHANGED <<packets_, nodes_, handle_, spinlock, broken, pkt, scheduler,
                 measureVars, last, ontime, runtime, sentOntime>>

SnifferEnds ==
  /\ sniffer = "closing" /\ sniffer' = "ended" /\ runtime' = FALSE
  /\ UNCHANGED <<packets_, nodes_, handle_, spinlock, broken, pkt, scheduler,
                 measureVars, last, ontime, sentOntime>>

----------------------------------------------------------------------------
(* LTEUScheduler. *)

SchedulerLocks ==
  /\ scheduler = "sleeping" /\ spinlock = "free"
  /\ spinlock' = "scheduler" /\ scheduler' = "measuring"
  /\ UNCHANGED <<packets_, snifferVars, broken, measureVars, last, ontime, runtime, sentOntime>>

Measure ==
  /\ scheduler = "measuring" /\ scheduler' = "clearing"
  /\ window' = packets_
  /\ mu' = calculateCSATMU(packets_, PerMs * (interval - ontime))
  /\ gmu' = groundtruthMU(packets_, PerMs * (interval - ontime))
  /\ UNCHANGED <<packets_, snifferVars, spinlock, broken, last, ontime, runtime, sentOntime>>

clearBuffer ==
  /\ scheduler = "clearing" /\ scheduler' = "deciding"
  /\ packets_' = <<>> /\ spinlock' = "free"
  /\ window' = <<>> /\ mu' = 0
  /\ UNCHANGED <<snifferVars, broken, gmu, last, ontime, runtime, sentOntime>>

\* The running time is over, or the capture has ended: the base station is
\* sent back to the cycle of the start.
Finish ==
  /\ scheduler = "deciding" /\ scheduler' = "leaving"
  /\ sentOntime' = kInitontime /\ gmu' = 0
  /\ UNCHANGED <<packets_, snifferVars, spinlock, broken, window, mu, last, ontime, runtime>>

Decide ==
  /\ scheduler = "deciding" /\ runtime /\ scheduler' = "sending"
  /\ LET before == IF last.on < 0 THEN ontime ELSE last.on
         next == getOnCycle(gmu, [last EXCEPT !.on = before])
     IN  last' = next /\ ontime' = next.on
  /\ gmu' = 0   \* not used again
  /\ UNCHANGED <<packets_, snifferVars, spinlock, broken, window, mu, runtime, sentOntime>>

Send ==
  /\ scheduler = "sending" /\ scheduler' = "sleeping"
  /\ sentOntime' = ontime
  /\ UNCHANGED <<packets_, snifferVars, spinlock, broken, measureVars, last, ontime, runtime>>

\* sendto fails: the loop is left.
SendFails ==
  /\ scheduler = "sending" /\ scheduler' = "leaving"
  /\ UNCHANGED <<packets_, snifferVars, spinlock, broken, measureVars, last, ontime,
                 runtime, sentOntime>>

\* Without an open handle the call is undefined; it is taken to do nothing.
pcap_breakloop ==
  /\ scheduler = "leaving" /\ scheduler' = "ended"
  /\ broken' = (handle_ = "open")
  /\ UNCHANGED <<packets_, snifferVars, spinlock, measureVars, last, ontime, runtime, sentOntime>>

\* main has joined both threads, or the process has exited.
Stopped ==
  /\ <<sniffer, scheduler>> \in {<<"ended", "ended">>, <<"exited", "exited">>}
  /\ UNCHANGED vars

----------------------------------------------------------------------------
Init ==
  /\ packets_ = <<>> /\ nodes_ = <<>> /\ spinlock = "free"
  /\ handle_ = "none" /\ broken = FALSE
  /\ sniffer = "opening" /\ pkt = NoPacket
  /\ scheduler = "sleeping" /\ window = <<>> /\ mu = 0 /\ gmu = 0
  /\ last = [mu |-> -1, on |-> -1] /\ ontime = kInitontime
  /\ runtime = TRUE /\ sentOntime = -1

SnifferStep == Open \/ Capture \/ SnifferLocks \/ Insert \/ LeaveLoop \/ SnifferEnds

SchedulerStep ==
  \/ SchedulerLocks \/ Measure \/ clearBuffer \/ Finish \/ Decide
  \/ Send \/ SendFails \/ pcap_breakloop

Next == SnifferStep \/ Exit \/ SchedulerStep \/ Stopped

Spec == Init /\ [][Next]_vars

\* The scheduler wakes up from its sleeps and does not spin for ever for a
\* lock that is held for microseconds; nor does the sniffer.  A loop that
\* was broken is left.
FairSpec ==
  /\ Spec
  /\ SF_vars(SchedulerLocks) /\ WF_vars(Measure) /\ WF_vars(clearBuffer)
  /\ WF_vars(Finish \/ Decide) /\ WF_vars(Send \/ SendFails) /\ WF_vars(pcap_breakloop)
  /\ SF_vars(SnifferLocks) /\ WF_vars(Insert)
  /\ WF_vars(broken /\ LeaveLoop) /\ WF_vars(SnifferEnds)

----------------------------------------------------------------------------
(* Properties. *)

\* The on-time stays between half the cycle and the maximum, so that there
\* always is an off-time to divide by: getOnCycle.  The lock is held by the
\* thread that is inside it, every node carries its own address (the
\* assertion in wifi_node.cc:58), and only a station has an access point.
ControllerTypeOK ==
  /\ ontime \in calculateMin .. t_on_max_
  /\ sentOntime \in {-1} \union (calculateMin .. t_on_max_)
  /\ last.on \in {-1, ontime} /\ last.mu >= -1
  /\ runtime \in BOOLEAN /\ broken \in BOOLEAN
  /\ handle_ \in {"none", "open", "closed"}
  /\ (sniffer = "inserting") = (spinlock = "sniffer")
  /\ \/ (scheduler \in {"measuring", "clearing"}) = (spinlock = "scheduler")
     \/ scheduler = "exited"
  /\ \A m \in DOMAIN nodes_ : nodes_[m].mac = m

\* No frame is thrown away before it was measured: what clearBuffer removes
\* is the window that gmu was computed from, although frames arrive at any
\* time (main.cc, spinlock).
MeasuredWhole == scheduler = "clearing" => packets_ = window

SameStation(w) ==
  \A i, j \in 1 .. Len(w) :
    {w[i].type, w[j].type} \subseteq {"CTS", "ACK", "BLOCKACK"} => w[i].rmac = w[j].rmac

Close(w) == \A i \in 1 .. Len(w) - 1 : Apart(w, i, i + 1) <= DataWindow

\* Time in which a frame may have been missed is charged only once: for the
\* exchanges of one station, what calculateCSATMU adds for frames it has not
\* heard is no longer than the window itself ("avoid double calculation",
\* csat.cc:183).
HiddenTimeFits ==
  window # <<>> /\ SameStation(window) /\ Close(window) =>
    HiddenTime(window) <= Apart(window, 1, Len(window))

\* LTE-U takes more of the medium only after it was less used than the first
\* threshold, now or before: getOnCycle with its smoothing, whatever the
\* windows and the on-time were.
RisesOnQuietAir ==
  [][ontime' > ontime => gmu < mu_thr1_ \/ last.mu \in 0 .. mu_thr1_ - 1]_vars

\* When Wi-Fi falls silent, LTE-U gets the longest on-time in the end, unless
\* the controller stops or a use that is not finite was smoothed in before.
IdleAirGivesFullShare ==
  <>[](packets_ = <<>>) =>
    <>(\/ ontime = t_on_max_ \/ last.mu = Inf
       \/ scheduler \in {"leaving", "ended", "exited"})

\* When one thread ends, so does the other, whichever is the first: the
\* scheduler breaks the loop of the sniffer, the sniffer ends the running
\* time of the scheduler.
ThreadsEnd ==
  (sniffer = "ended" \/ (scheduler = "ended" /\ broken)) ~>
    (sniffer = "ended" /\ scheduler = "ended")
=============================================================================
