------------------------------- MODULE Startup -------------------------------
(***************************************************************************)
(* The commands of the program and what they share on disk: the config     *)
(* file (src/src/config/mod.rs) that the wizard and the benchmark write    *)
(* and every miner reads, and the launchd service (src/src/service/mod.rs) *)
(* that starts a miner again whenever there is none (src/src/main.rs).     *)
(*                                                                         *)
(* One terminal runs a command at a time; the service runs beside it, and  *)
(* the user may edit the file in an editor meanwhile.  A config is its     *)
(* first pool (URL and wallet) and its thread count: the rest of it takes  *)
(* the same way.                                                           *)
(***************************************************************************)
EXTENDS Benchmark

CONSTANTS
  Pools,       \* PoolConfigs with a wallet and a URL
  BadPools,    \* those whose URL is not host:port
  Empty,       \* a PoolConfig whose wallet is empty
  Absent,      \* no config file
  Torn,        \* a file that does not parse: truncated, not yet written
  MinThreads,  \* min_threads
  MaxEdits,    \* bound: edits by hand
  MaxCrashes   \* bound: crashes and reboots

ASSUME PoolsAssumption == BadPools \subseteq Pools /\ Empty \notin Pools
ASSUME MinThreadsAssumption == MinThreads \in Nat \ {0}

(* Option<usize> is a set of at most one element.                          *)
Configs == [pool : Pools \cup {Empty}, threads : SUBSET Nat]

ASSUME FileAssumption == Absent \notin Configs /\ Torn \notin Configs

VARIABLES
  file,         \* ~/.sleepyminer/config.json
  plist,        \* the service's plist exists
  loaded,       \* launchd has the service loaded
  service,      \* the miner launchd runs, or None
  term,         \* where the terminal's command is, "off" between commands
  command,      \* the command it runs
  draft,        \* the Config it is about to save, or mines with
  named,        \* history: the pool last saved by the wizard or an editor
  overtaken,    \* history: an edit fell between a benchmark's load and save
  interrupted,  \* history: a save was cut short
  edits, crashes

None == {}
diskVars == <<file, plist, loaded>>
termVars == <<term, command, draft>>
historyVars == <<named, overtaken, interrupted>>
budgetVars == <<refusals, edits, crashes>>
vars == <<sweepVars, diskVars, service, termVars, historyVars, budgetVars>>

Init ==
  /\ NativeInit
  /\ BenchInit
  /\ file = Absent
  /\ plist = FALSE
  /\ loaded = FALSE
  /\ service = None
  /\ term = "off"
  /\ command = "none"
  /\ draft = Absent
  /\ named = Empty
  /\ overtaken = FALSE
  /\ interrupted = FALSE
  /\ refusals = 0
  /\ edits = 0
  /\ crashes = 0

-----------------------------------------------------------------------------
(* Config.                                                                 *)

(* Config::load: the file parses and validate() has no objection.          *)
Usable(f) == f \notin {Absent, Torn} /\ f.pool # Empty

(* PoolConnection::from_config, which run_miner calls on what it loaded.   *)
Starts(f) == Usable(f) /\ f.pool \notin BadPools

MaxThreadsOf(c) ==
  IF c.threads = None
  THEN IF Cores > 1 THEN Cores - 1 ELSE 1
  ELSE CHOOSE n \in c.threads : TRUE

(* What run_miner makes of its config: the threads it creates, and the     *)
(* target they start from.                                                 *)
MinerOf(c) ==
  [pool |-> c.pool, threads |-> MaxThreadsOf(c),
   target |-> IF c.threads = None THEN MinThreads ELSE MaxThreadsOf(c)]

(* The terminal's command is over; with the process go its memory and what *)
(* it held.                                                                *)
EndCommand ==
  /\ term' = "off"
  /\ command' = "none"
  /\ draft' = Absent

FreshSweep ==
  /\ phase' = "none" /\ native' = {} /\ team' = 1 /\ filling' = {}
  /\ written' = {} /\ refs' = {} /\ vms' = {}
  /\ stage' = "idle" /\ limit' = 0 /\ round' = 0 /\ running' = FALSE
  /\ total' = 0 /\ results' = <<>> /\ hashes' = <<>> /\ at' = <<>> /\ made' = <<>>
  /\ best' = [threads |-> 1, rate |-> 0]

(* fs::write truncates the file, then writes it.                           *)
Truncate(c) ==
  /\ file' = Torn
  /\ draft' = c
  /\ term' = "saving"

-----------------------------------------------------------------------------
(* setup, and the wizard that run falls into when there is no file.        *)

Setup ==
  /\ term = "off"
  /\ term' = "asking"
  /\ command' = "setup"
  /\ UNCHANGED <<sweepVars, diskVars, service, draft, historyVars, budgetVars>>

(* Adaptive, or the number typed in, clamped to 1 .. num_cpus.             *)
ThreadChoices ==
  {None} \cup {{IF n < 1 THEN 1 ELSE IF n > Cores THEN Cores ELSE n} :
                 n \in 0 .. Cores + 1}

(* Faulty Answer: an empty wallet is saved too.                            *)
AnswerAnything ==
  /\ term = "asking"
  /\ \E p \in Pools \cup {Empty}, t \in ThreadChoices :
       Truncate([pool |-> p, threads |-> t])
  /\ UNCHANGED <<sweepVars, plist, loaded, service, command, historyVars,
                 budgetVars>>

(* The questions are answered, none with an empty line, and the file is    *)
(* opened for writing.  A pool typed in may be any.                        *)
Answer ==
  /\ term = "asking"
  /\ \E p \in Pools, t \in ThreadChoices :
       Truncate([pool |-> p, threads |-> t])
  /\ UNCHANGED <<sweepVars, plist, loaded, service, command, historyVars,
                 budgetVars>>

(* "Monero wallet address is required."                                    *)
AnswerNothing ==
  /\ term = "asking"
  /\ EndCommand
  /\ UNCHANGED <<sweepVars, diskVars, service, historyVars, budgetVars>>

(* The write is complete.  run goes on to load what it has just saved.     *)
SaveEnds ==
  /\ term = "saving"
  /\ file' = draft
  /\ interrupted' = FALSE
  /\ IF command = "benchmark"
     THEN UNCHANGED <<named, overtaken>>
     ELSE named' = draft.pool /\ overtaken' = FALSE
  /\ IF command = "run"
     THEN term' = "loading" /\ draft' = Absent /\ UNCHANGED command
     ELSE EndCommand
  /\ UNCHANGED <<sweepVars, plist, loaded, service, budgetVars>>

-----------------------------------------------------------------------------
(* run.                                                                    *)

Run ==
  /\ term = "off"
  /\ command' = "run"
  /\ term' = IF file = Absent THEN "asking" ELSE "loading"
  /\ UNCHANGED <<sweepVars, diskVars, service, draft, historyVars, budgetVars>>

(* --url, --user and --threads replace the config's values; only the URL   *)
(* is looked at again.                                                     *)
Overrides(c) ==
  [pool : {c.pool, Empty} \cup Pools, threads : {c.threads, {0}, {Cores}}]

(* run_miner, from its config on: from_config may fail.                    *)
Mine(c) ==
  IF c.pool \in BadPools
  THEN EndCommand
  ELSE draft' = c /\ term' = "mining" /\ command' = "run"

(* No file, but -o and -u: generate_default_config.                        *)
RunFromFlags ==
  /\ term = "off"
  /\ file = Absent
  /\ \E p \in Pools : Mine([pool |-> p, threads |-> None])
  /\ UNCHANGED <<sweepVars, diskVars, service, historyVars, budgetVars>>

(* Config::load, which fails on what is not usable; then the overrides.    *)
LoadAndMine ==
  /\ term = "loading"
  /\ IF Usable(file)
     THEN \E c \in Overrides(file) : Mine(c)
     ELSE EndCommand
  /\ UNCHANGED <<sweepVars, diskVars, service, historyVars, budgetVars>>

Interrupt ==
  /\ term = "mining"
  /\ EndCommand
  /\ UNCHANGED <<sweepVars, diskVars, service, historyVars, budgetVars>>

-----------------------------------------------------------------------------
(* benchmark.                                                              *)

StartBenchmark ==
  /\ term = "off"
  /\ term' = "sweeping"
  /\ command' = "benchmark"
  /\ \E n \in Limits : StartSweep(n)
  /\ UNCHANGED <<diskVars, service, draft, historyVars, edits, crashes>>

Sweep ==
  /\ term = "sweeping"
  /\ SweepStep
  /\ UNCHANGED <<diskVars, service, termVars, historyVars, edits, crashes>>

(* Faulty UseBest: the thread count goes into a config of defaults.        *)
UseBestWithDefaults ==
  /\ term = "sweeping" /\ stage \in {"chosen", "failed"}
  /\ IF stage = "chosen" /\ Usable(file)
     THEN /\ draft' = [pool |-> CHOOSE p \in Pools : TRUE,
                       threads |-> {best.threads}]
          /\ term' = "updating" /\ UNCHANGED command
     ELSE EndCommand
  /\ FreshSweep
  /\ UNCHANGED <<diskVars, service, historyVars, budgetVars>>

(* The sweep has returned: if there is a file it is loaded now, and its    *)
(* thread count replaced.                                                  *)
UseBest ==
  /\ term = "sweeping"
  /\ stage \in {"chosen", "failed"}
  /\ IF stage = "chosen" /\ Usable(file)
     THEN /\ draft' = [file EXCEPT !.threads = {best.threads}]
          /\ term' = "updating"
          /\ UNCHANGED command
     ELSE EndCommand
  /\ FreshSweep
  /\ UNCHANGED <<diskVars, service, historyVars, budgetVars>>

SaveBest ==
  /\ term = "updating"
  /\ Truncate(draft)
  /\ UNCHANGED <<sweepVars, plist, loaded, service, command, historyVars,
                 budgetVars>>

-----------------------------------------------------------------------------
(* install-service, uninstall-service and launchd.                         *)

(* launchctl load may fail, which is a warning.                            *)
InstallService ==
  /\ term = "off"
  /\ plist' = TRUE
  /\ loaded' \in {loaded, TRUE}
  /\ UNCHANGED <<sweepVars, file, service, termVars, historyVars, budgetVars>>

(* launchctl unload may fail, which is ignored; so may the removal.        *)
UninstallService ==
  /\ term = "off"
  /\ plist
  /\ \/ loaded' = FALSE /\ service' = None /\ plist' \in BOOLEAN
     \/ plist' = FALSE /\ UNCHANGED <<loaded, service>>
  /\ UNCHANGED <<sweepVars, file, termVars, historyVars, budgetVars>>

(* KeepAlive: launchd starts the miner.  Without a file that will do, that *)
(* ends with an error, the wizard's included, for its stdin is empty.      *)
StartService ==
  /\ loaded
  /\ service = None
  /\ Starts(file)
  /\ service' = {MinerOf(file)}
  /\ UNCHANGED <<sweepVars, diskVars, termVars, historyVars, budgetVars>>

-----------------------------------------------------------------------------
(* The user's editor, and failures.                                        *)

EditFile ==
  /\ edits < MaxEdits
  /\ edits' = edits + 1
  /\ \E p \in Pools :
       /\ file' = [pool |-> p, threads |-> None]
       /\ named' = p
  /\ overtaken' = (term \in {"updating", "saving"})
  /\ interrupted' = FALSE
  /\ UNCHANGED <<sweepVars, plist, loaded, service, termVars, refusals,
                 crashes>>

Crash == crashes < MaxCrashes /\ crashes' = crashes + 1

(* The terminal's process is killed.                                       *)
TerminalDies ==
  /\ term # "off"
  /\ Crash
  /\ interrupted' = (interrupted \/ term = "saving")
  /\ EndCommand
  /\ FreshSweep
  /\ UNCHANGED <<diskVars, service, named, overtaken, refusals, edits>>

ServiceDies ==
  /\ service # None
  /\ Crash
  /\ service' = None
  /\ UNCHANGED <<sweepVars, diskVars, termVars, historyVars, refusals, edits>>

(* At login launchd loads what has a plist.                                *)
Reboot ==
  /\ Crash
  /\ interrupted' = (interrupted \/ term = "saving")
  /\ EndCommand
  /\ FreshSweep
  /\ service' = None
  /\ loaded' = plist
  /\ UNCHANGED <<file, plist, named, overtaken, refusals, edits>>

-----------------------------------------------------------------------------
Next ==
  \/ Setup \/ Answer \/ AnswerNothing \/ SaveEnds
  \/ Run \/ RunFromFlags \/ LoadAndMine \/ Interrupt
  \/ StartBenchmark \/ Sweep \/ UseBest \/ SaveBest
  \/ InstallService \/ UninstallService \/ StartService
  \/ EditFile
  \/ TerminalDies \/ ServiceDies \/ Reboot

Spec == Init /\ [][Next]_vars

-----------------------------------------------------------------------------
Miners == [pool : Pools, threads : Nat, target : Nat]

StartupTypeOK ==
  /\ NativeTypeOK
  /\ BenchTypeOK
  /\ file \in Configs \cup {Absent, Torn}
  /\ {plist, loaded, overtaken, interrupted} \subseteq BOOLEAN
  /\ service \subseteq Miners
  /\ term \in {"off", "asking", "saving", "loading", "mining", "sweeping",
               "updating"}
  /\ command \in {"none", "setup", "run", "benchmark"}
  /\ draft \in Configs \cup {Absent}
  /\ named \in Pools \cup {Empty}
  /\ {edits, crashes} \subseteq Nat

(* What is saved can be loaded: no sequence of commands, errors and edits  *)
(* leaves a file that every later start refuses, except a save that was    *)
(* cut short (save truncates the file it replaces).                        *)
SavedConfigsLoad ==
  file # Absent /\ ~Usable(file) => term = "saving" \/ interrupted

(* The benchmark, minutes long, never undoes an edit made while it swept:  *)
(* the file names the pool that was last set in it, unless the edit fell   *)
(* between the benchmark's load and the end of its save.                   *)
EditsSurvive == Usable(file) /\ ~overtaken => file.pool = named

-----------------------------------------------------------------------------
(* What the documentation claims and the code does not do.                 *)

(* "The config gets saved to ~/.sleepyminer/config.json. After that, every *)
(* subsequent ./sleepyminer invocation reads it and starts mining straight *)
(* away" (README.md:105): run can start from what setup has saved.         *)
SavedConfigsMine ==
  term = "off" /\ ~interrupted /\ edits = 0 /\ file # Absent => Starts(file)
=============================================================================
