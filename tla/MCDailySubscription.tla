------------------------ MODULE MCDailySubscription ------------------------
(* Small instances of DailySubscription for TLC. *)
EXTENDS DailySubscription

CONSTANTS d1,      \* a daily subscription
          x,       \* a deleted subscription of another component
          loop, pay, bot, cab, mini
=============================================================================
