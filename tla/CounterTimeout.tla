--------------------------- MODULE CounterTimeout ---------------------------
(***************************************************************************)
(* Timer::CounterTimeout (src/timer/CounterTimeout.cpp): a time stamp of   *)
(* the FreeRTOS tick counter and the test that more than a given number of *)
(* ticks have passed since.  TickType_t is a 32 bit unsigned number, so    *)
(* the counter returns to 0 after TickMod ticks and the subtraction in the *)
(* test is the unsigned one.  One tick is one millisecond on the target    *)
(* (configTICK_RATE_HZ = 1000), hence pdMS_TO_TICKS(ms) = ms there; a      *)
(* model may take a coarser tick as long as all its periods are whole      *)
(* numbers of ticks.                                                       *)
(***************************************************************************)
EXTENDS Naturals

CONSTANT TickMod   \* number of values of TickType_t, 2^32 on the target

ASSUME TickModAssumption == TickMod \in Nat \ {0}

Ticks == 0 .. TickMod - 1

\* The tick counter after one more tick.
NextTick(t) == IF t + 1 = TickMod THEN 0 ELSE t + 1

\* xTaskGetTickCount() - m_Timestamp in unsigned arithmetic.
Since(now, stamp) == IF now >= stamp THEN now - stamp
                                     ELSE now + TickMod - stamp

\* CounterTimeout::operator(): strictly more than ms.
Expired(now, stamp, ms) == Since(now, stamp) > ms

=============================================================================
