-------------------------------- MODULE Csat --------------------------------
(***************************************************************************)
(* getOnCycle of LTE-U/controller/csat.cc: the next on-time from the       *)
(* medium use, "original Qualcomm CSAT".  Times are in milliseconds and    *)
(* uses in units of 1 / Scale; -1 stands for no value yet.                 *)
(***************************************************************************)
EXTENDS MediumUse

CONSTANTS
  interval,              (* the cycle; 24                                    *)
  t_on_min_, t_on_max_,  (* 4 and 20                                         *)
  mu_thr1_, mu_thr2_     (* thresholds, from the command line                *)

ASSUME CsatAssumption ==
  /\ {interval, t_on_min_, t_on_max_, mu_thr1_, mu_thr2_} \subseteq Nat
  /\ 0 < t_on_min_ /\ t_on_min_ <= t_on_max_ /\ t_on_max_ < interval
  /\ interval \div 2 <= t_on_max_
  /\ mu_thr1_ <= mu_thr2_ /\ mu_thr2_ < Inf

Larger(a, b) == IF a > b THEN a ELSE b

\* With one Wi-Fi node: half the cycle, but not less than t_on_min_.
calculateMin == Larger(t_on_min_, interval \div 2)

\* alpha_mu_ is 0.7.  A use that is not finite stays so for ever.
Smoothed(mu, lastmu) ==
  CASE lastmu < 0 -> mu
    [] mu = Inf \/ lastmu = Inf -> Inf
    [] OTHER -> (7 * mu + 3 * lastmu) \div 10

\* A slip: the thresholds are compared with the wrong sign.
getOnCycleInverted(mu, last) ==
  LET newmu == Smoothed(mu, last.mu) IN
  [mu |-> newmu,
   on |-> CASE newmu > mu_thr2_ -> Lesser(last.on + 1, t_on_max_)
            [] newmu \in mu_thr1_ .. mu_thr2_ -> last.on
            [] OTHER -> Larger(last.on - 1, calculateMin)]

\* A slip: the minimum is forgotten.
getOnCycleUnbounded(mu, last) ==
  LET newmu == Smoothed(mu, last.mu) IN
  [mu |-> newmu,
   on |-> CASE newmu < mu_thr1_ -> Lesser(last.on + 1, t_on_max_)
            [] newmu \in mu_thr1_ .. mu_thr2_ -> last.on
            [] OTHER -> last.on - 1]

\* delta_tup_ and delta_tdown_ are 1.  last is lastmu_ and tlaston_.
getOnCycle(mu, last) ==
  LET newmu == Smoothed(mu, last.mu) IN
  [mu |-> newmu,
   on |-> CASE newmu < mu_thr1_ -> Lesser(last.on + 1, t_on_max_)
            [] newmu \in mu_thr1_ .. mu_thr2_ -> last.on
            [] OTHER -> Larger(last.on - 1, calculateMin)]
=============================================================================
