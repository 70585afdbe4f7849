--------------------------- MODULE ParachainStats ---------------------------
(***************************************************************************)
(* What the parachain tracer counts: ParachainStats of stats.rs, printed   *)
(* when a tracker ends, and the Prometheus metrics of prometheus.rs, which *)
(* observe the same events.  Both are records here and every operation is  *)
(* an operator from the old record to the new one; Tracker applies them.   *)
(*                                                                         *)
(* A moving average is kept as sum and number of its samples, a histogram  *)
(* as the same two.  Times are in seconds.                                 *)
(***************************************************************************)
EXTENDS Integers, Sequences

CONSTANT LastSkipped   \* --last-skipped-slot-blocks

ASSUME LastSkippedAssumption == LastSkipped \in Nat \ {0}

Nothing == -1          \* Option::None of a number
Outcomes == {"Valid", "Invalid", "TimedOut"}   \* SubxtDisputeResult
Highest == 65535       \* the maximum of the type, above every sample

saturating_sub(a, b) == IF a > b THEN a - b ELSE 0
as_u16(n) == n % 65536
time_diff(lhs, rhs) == IF Nothing \in {lhs, rhs} THEN Nothing ELSE saturating_sub(lhs, rhs)
-----------------------------------------------------------------------------
(* AvgBucket *)
NewBucket == [sum |-> 0, max |-> 0, min |-> Highest, num |-> 0]

update(b, v) == [sum |-> b.sum + v,
                 max |-> IF b.max < v THEN v ELSE b.max,
                 min |-> IF b.min > v THEN v ELSE b.min,
                 num |-> b.num + 1]

updateIfSome(b, v) == IF v = Nothing THEN b ELSE update(b, v)
-----------------------------------------------------------------------------
(* ParachainStats *)
NewStats == [backed_count |-> 0, included_count |-> 0, skipped_slots |-> 0,
             slow_avail_count |-> 0, low_bitfields_count |-> 0,
             disputed |-> [o \in Outcomes |-> 0], last_skipped |-> <<>>,
             misbehaving_validators |-> NewBucket, resolution_time |-> NewBucket,
             block_times |-> NewBucket, bitfields |-> NewBucket,
             included_times |-> NewBucket, backed_times |-> NewBucket]

Buckets == {"misbehaving_validators", "resolution_time", "block_times", "bitfields",
            "included_times", "backed_times"}

on_backed(s) == [s EXCEPT !.backed_count = @ + 1]

on_included(s, number, previous, backedIn) ==
  LET time == IF previous = Nothing THEN Nothing ELSE as_u16(saturating_sub(number, previous))
  IN [s EXCEPT !.included_count = @ + 1,
               !.included_times = updateIfSome(@, time),
               !.backed_times = updateIfSome(@, IF backedIn = Nothing THEN Nothing ELSE as_u16(backedIn))]

on_disputed(s, d) ==
  [s EXCEPT !.disputed[d.outcome] = @ + 1,
            !.misbehaving_validators = update(@, d.misbehaving),
            !.resolution_time = update(@, d.resolve_time)]

on_block(s, time) == [s EXCEPT !.block_times = update(@, time)]

on_bitfields(s, bits, low) ==
  [s EXCEPT !.bitfields = update(@, bits), !.low_bitfields_count = IF low THEN @ + 1 ELSE @]

on_slow_availability(s) == [s EXCEPT !.slow_avail_count = @ + 1]

(* A wrong version that never makes room. *)
on_skipped_slot_growing(s, block) ==
  [s EXCEPT !.skipped_slots = @ + 1, !.last_skipped = Append(@, block)]

(* The oldest entry makes room before the new one is added. *)
on_skipped_slot(s, block) ==
  LET kept == IF Len(s.last_skipped) >= LastSkipped THEN Tail(s.last_skipped) ELSE s.last_skipped
  IN [s EXCEPT !.skipped_slots = @ + 1, !.last_skipped = Append(kept, block)]
-----------------------------------------------------------------------------
(* Metrics *)
NewHistogram == [num |-> 0, sum |-> 0]
observe(h, v) == [num |-> h.num + 1, sum |-> h.sum + v]
observeIfSome(h, v) == IF v = Nothing THEN h ELSE observe(h, v)

(* init_counters() resets the counters of a parachain when its tracker starts. *)
init_counters ==
  [backed_count |-> 0, included_count |-> 0, skipped_slots |-> 0,
   slow_avail_count |-> 0, low_bitfields_count |-> 0,
   disputed |-> [o \in Outcomes |-> 0], misbehaving_validators |-> 0,
   resolution_time |-> NewHistogram, para_block_times |-> NewHistogram,
   para_backing_times |-> NewHistogram, para_block_times_sec |-> NewHistogram,
   bitfields |-> Nothing, finality_lag |-> Nothing]

metrics_on_backed(m) == [m EXCEPT !.backed_count = @ + 1]

metrics_on_included(m, number, previous, backedIn, seconds) ==
  [m EXCEPT !.included_count = @ + 1,
            !.para_block_times =
                observeIfSome(@, IF previous = Nothing THEN Nothing
                                 ELSE saturating_sub(number, previous)),
            !.para_block_times_sec = observeIfSome(@, seconds),
            !.para_backing_times = observeIfSome(@, backedIn)]

metrics_on_disputed(m, d) ==
  [m EXCEPT !.disputed[d.outcome] = @ + 1,
            !.resolution_time = observe(@, d.resolve_time),
            !.misbehaving_validators = @ + d.misbehaving]

metrics_on_bitfields(m, bits, low) ==
  [m EXCEPT !.bitfields = bits, !.low_bitfields_count = IF low THEN @ + 1 ELSE @]

metrics_on_slow_availability(m) == [m EXCEPT !.slow_avail_count = @ + 1]
metrics_on_skipped_slot(m) == [m EXCEPT !.skipped_slots = @ + 1]
metrics_on_finality_lag(m, lag) == IF lag = Nothing THEN m ELSE [m EXCEPT !.finality_lag = lag]

(* The relay chain watcher's part: a block later than one slot after the last
   one means skipped slots, rounded to whole slots of 6 seconds. *)
NewRelayMetrics == [backed |-> NewHistogram, included |-> NewHistogram,
                    timed_out |-> NewHistogram, relay_block_times |-> NewHistogram,
                    relay_skipped_slots |-> 0, session |-> Nothing]

on_new_relay_block(m, backed, included, timedOut, blockTime) ==
  [m EXCEPT !.backed = observe(@, backed), !.included = observe(@, included),
            !.timed_out = observe(@, timedOut),
            !.relay_block_times = observeIfSome(@, blockTime),
            !.relay_skipped_slots =
                IF blockTime = Nothing THEN @ ELSE @ + saturating_sub((blockTime + 3) \div 6, 1)]

on_new_session(m, session) == [m EXCEPT !.session = session]
=============================================================================
