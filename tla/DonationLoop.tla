---------------------------- MODULE DonationLoop ----------------------------
(***************************************************************************)
(* run_donation_loop (src/src/donation/mod.rs), a tokio task of its own:   *)
(* when a period is over it installs or removes the override pool, and in  *)
(* a separate step signals the stratum client.  Time is counted in the     *)
(* minutes the periods are measured in, and a task that is due runs before *)
(* the next minute passes; how much of the client's work falls in a minute *)
(* is left open, so that a flip may come at any moment of its sessions.    *)
(*                                                                         *)
(* tokio's Notify hands a signal to a registered listener or stores one    *)
(* permit.  A listener already handed a signal is no longer registered, so *)
(* a second notify_one then stores a permit: two signals can be            *)
(* outstanding.  A listener dropped with its signal passes it on, which    *)
(* merges with a stored permit.                                            *)
(***************************************************************************)
EXTENDS PoolFailover

CONSTANTS
  Cycle,  \* minutes of a user and a dev period together: 100
  Level   \* donate_level, at least 1 and perhaps above 100

ASSUME LevelAssumption == Cycle \in Nat /\ Level \in Nat \ {0}

(* dev_duration and user_duration                                          *)
DevSlice == Level
UserSlice == IF Level < Cycle THEN Cycle - Level ELSE 0

(* The first user period is drawn from half to one and a half of the       *)
(* usual length.                                                           *)
FirstSlices ==
  {f \in 0 .. 2 * UserSlice : UserSlice <= 2 * f /\ 2 * f <= 3 * UserSlice}

VARIABLES
  dpc,       \* the donation task: asleep, or about to notify_one()
  signals,   \* signals of the Notify not yet consumed
  left,      \* minutes of current_duration still to pass
  balance    \* history: Level per user minute less UserSlice per dev minute

clockVars == <<left, balance>>

donationVars == <<dpc, signals, left, balance>>

DonationInit ==
  /\ dpc = "sleep"
  /\ signals = 0
  /\ left \in FirstSlices
  /\ balance = 0

DonationTypeOK ==
  /\ dpc \in {"sleep", "notify"}
  /\ signals \in 0 .. 2
  /\ left \in Nat
  /\ balance \in Int

(* The task sleeps for what is left of the period.                         *)
TimePasses ==
  /\ dpc = "sleep"
  /\ left > 0
  /\ left' = left - 1
  /\ balance' = IF override THEN balance - UserSlice ELSE balance + DevSlice
  /\ UNCHANGED <<dpc, signals, current, redirect, override>>

(* Faulty Flip: the slot is written but nobody is told.                    *)
FlipSilently ==
  /\ dpc = "sleep"
  /\ left = 0
  /\ override' = ~override
  /\ left' = IF override THEN UserSlice ELSE DevSlice
  /\ UNCHANGED <<dpc, signals, balance, current, redirect>>

(* Faulty Flip: the period that is over lends its length to the next.      *)
FlipSwappingSlices ==
  /\ dpc = "sleep"
  /\ left = 0
  /\ override' = ~override
  /\ left' = IF override THEN DevSlice ELSE UserSlice
  /\ dpc' = "notify"
  /\ UNCHANGED <<signals, balance, current, redirect>>

(* tick() returned a new state: DevMining installs the dev pool,           *)
(* UserMining clears the slot.                                             *)
Flip ==
  /\ dpc = "sleep"
  /\ left = 0
  /\ override' = ~override
  /\ left' = IF override THEN UserSlice ELSE DevSlice
  /\ dpc' = "notify"
  /\ UNCHANGED <<signals, balance, current, redirect>>

(* Faulty NotifyOne: notify_waiters, which stores no permit.               *)
NotifyListenersOnly(listening) ==
  /\ dpc = "notify"
  /\ dpc' = "sleep"
  /\ signals' = IF listening THEN 1 ELSE signals
  /\ UNCHANGED <<clockVars, current, redirect, override>>

(* reconnect_signal.notify_one(), while the client is or is not waiting.   *)
NotifyOne(listening) ==
  /\ dpc = "notify"
  /\ dpc' = "sleep"
  /\ \/ signals = 0 /\ signals' = 1
     \/ signals > 0 /\ signals' = signals
     \/ listening /\ signals = 1 /\ signals' = 2
  /\ UNCHANGED <<clockVars, current, redirect, override>>

(* The client's notified() future resolves.                                *)
ConsumeSignal ==
  /\ signals > 0
  /\ signals' = signals - 1

(* The client drops its notified() future unresolved.                      *)
DropListener == signals' = IF signals = 0 THEN 0 ELSE 1

(* The donation takes its percentage of the time and no more: however many *)
(* cycles have passed, user and dev minutes stand in the proportion of     *)
(* their periods, up to the randomness of the first and one period.        *)
DonationIsFair ==
  /\ -(UserSlice * DevSlice) <= 2 * balance
  /\ 2 * balance <= 3 * UserSlice * DevSlice
=============================================================================
