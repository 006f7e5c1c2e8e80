----------------------------- MODULE ValveDosing -----------------------------
(***************************************************************************)
(* What the CO2 controller promises about the injection valve, with no     *)
(* word about queues, timers or memory: a dose lasts at most MaxOpen units *)
(* of time, and a new dose starts only when the valve has been closed for  *)
(* more than MinGap units, so that the CO2 of the last dose has dispersed. *)
(* The ages saturate at AgeCap; the valve may be shut at any time (target  *)
(* reached, dose over, power lost).                                        *)
(***************************************************************************)
EXTENDS Naturals

CONSTANTS MaxOpen,  \* longest dose
          MinGap,   \* a dose starts only after more than this much time closed
          AgeCap    \* ages are not told apart beyond this one

VARIABLES valve,      \* 1 when the valve is open
          openFor,    \* how long it has been open, 0 when closed
          closedFor   \* how long it has been closed, 0 when open

dosing == <<valve, openFor, closedFor>>

Older(age) == IF age < AgeCap THEN age + 1 ELSE AgeCap

\* At start the valve is closed and nothing is known of an earlier dose.
Init == valve = 0 /\ openFor = 0 /\ closedFor = 0

Open == /\ valve = 0
        /\ closedFor > MinGap
        /\ valve' = 1
        /\ openFor' = 0
        /\ closedFor' = 0

Close == /\ valve = 1
         /\ valve' = 0
         /\ openFor' = 0
         /\ closedFor' = 0

PassOpen == /\ valve = 1
            /\ openFor < MaxOpen
            /\ openFor' = Older(openFor)
            /\ UNCHANGED <<valve, closedFor>>

PassClosed == /\ valve = 0
              /\ closedFor' = Older(closedFor)
              /\ UNCHANGED <<valve, openFor>>

Next == Open \/ Close \/ PassOpen \/ PassClosed

Spec == Init /\ [][Next]_dosing

=============================================================================
