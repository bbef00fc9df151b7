--------------------------- MODULE RollingCounter ---------------------------
(***************************************************************************)
(* One RollingNumberImpl driven by its callers while the system clock runs. *)
(* The clock normally advances; system time may also be set back, which the *)
(* code does not rule out because it reads systemTime().                    *)
(***************************************************************************)
EXTENDS RollingNumber

CONSTANTS
  MaxTick,      \* bound: the last unix second of a behaviour
  Window,       \* window_size_, in whole seconds
  Amounts,      \* the amounts passed to Increment
  MaxTotal,     \* bound: the largest total recorded in one second
  StepBacks     \* bound: how often the system clock is set back

ASSUME WindowAssumption == Window \in Nat /\ MaxTick \in Nat
ASSUME AmountAssumption == Amounts \subseteq Nat /\ MaxTotal \in Nat
ASSUME StepBackAssumption == StepBacks \in Nat

VARIABLES
  now,      \* unixTimeNowSeconds()
  buckets,  \* buckets_
  log,      \* history: everything ever recorded, by second
  back      \* how often the clock has been set back

vars == <<now, buckets, log, back>>

Ticks == 0 .. MaxTick

Init ==
  /\ now = 0
  /\ buckets = EmptyBuckets
  /\ log = [t \in Ticks |-> 0]
  /\ back = 0

\* The reading removeOldBuckets takes is at least as late as the earlier one of
\* the same call.
DoIncrement(i, later) ==
  /\ later \in now .. MaxTick
  /\ log[now] + i <= MaxTotal
  /\ buckets' = Increment(buckets, now, later, Window, i)
  /\ log' = [log EXCEPT ![now] = @ + i]
  /\ now' = later
  /\ UNCHANGED back

\* Sum(now) returns SumOf and then prunes.
DoSum(later) ==
  /\ later \in now .. MaxTick
  /\ buckets' = RemoveOldBuckets(buckets, later, Window)
  /\ now' = later
  /\ UNCHANGED <<log, back>>

Tick ==
  /\ now < MaxTick
  /\ now' = now + 1
  /\ UNCHANGED <<buckets, log, back>>

StepBack(t) ==
  /\ back < StepBacks
  /\ t < now
  /\ now' = t
  /\ back' = back + 1
  /\ UNCHANGED <<buckets, log>>

Next ==
  \/ \E i \in Amounts, later \in Ticks : DoIncrement(i, later)
  \/ \E later \in Ticks : DoSum(later)
  \/ Tick
  \/ \E t \in Ticks : StepBack(t)

Spec == Init /\ [][Next]_vars

-----------------------------------------------------------------------------
\* While the clock has not been set back, Sum returns the total recorded within
\* the window, no more and no less: pruning never touches a second that a later
\* Sum still counts.  Setting the clock back loses recorded amounts at worst: a
\* Sum never reports more than was recorded in the seconds it counts.
SumExact ==
  LET recorded == MapThenSumSet(LAMBDA t : log[t], {t \in Ticks : t > now - Window})
  IN  /\ back = 0 => SumOf(buckets, now, Window) = recorded
      /\ SumOf(buckets, now, Window) <= recorded

=============================================================================
