---------------------------- MODULE MCTimerQueue -----------------------------
(* TimerQueue for TLC: timers are started and stopped by any thread, or by    *)
(* the IO thread only, in which case the progress of it is checked as well.   *)
EXTENDS TimerQueue

\* The fairness of FairSpec, when the timers are not shared.
MCSpec == /\ Spec
          /\ WF_vars(~shared /\ TimePasses)
          /\ WF_vars(~shared /\ Tick)

\* NoTimerStarves, in that case and with frequencies of at least one second:
\* tick_timers() takes every entry whose time has come.
NoTimerStarvesAlone == ~shared => NoTimerStarves
==============================================================================
