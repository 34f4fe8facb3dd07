------------------------------ MODULE Commands ------------------------------
(***************************************************************************)
(* A command that a project configures: its steps are Buck commands, run   *)
(* one after another, the last in place of tine itself; signals come at    *)
(* any time, TERM (or HUP) to tine alone and INT to the terminal's whole   *)
(* group.  A Buck command first hands over to the wrapper the project      *)
(* configures, in a namespace with the project's mounts.                   *)
(***************************************************************************)
EXTENDS Naturals

CONSTANTS MaxSteps, MaxSignals

CommandAssumption == MaxSteps \in Nat /\ MaxSignals \in Nat

VARIABLES
  steps, current, \* how many there are, and which is next or running
  phase,          \* of tine
  stepState,      \* the step that runs beside tine
  told,           \* whether a signal has reached it
  forwarded,      \* whether run_step has seen one
  returned,       \* what run_step has settled on returning
  signals,        \* how many came
  missed,         \* and how many of them to run_step after it had settled that
  late,           \* whether a step began after any other
  lost,           \* whether one came before tine listened for it
  exit,           \* what tine ended with
  setup,          \* what the project configures: its wrapper, and whether it has mounts
  wrapper,        \* the wrapper that runs, ...
  inMounts        \* and whether it does in the namespace

commandVars == <<steps, current, phase, stepState, told, forwarded, returned, signals,
                 missed, late, lost, exit, setup, wrapper, inMounts>>
stepVars == <<steps, current, stepState, told, forwarded, returned, missed, late, lost>>
setupVars == <<setup, wrapper, inMounts>>

\* A mount may put another checkout at the path of the wrapper that runs.
Configured == IF setup.mounts /\ inMounts THEN setup.mounted ELSE setup.checkout

CommandInit ==
  /\ steps \in 1..MaxSteps /\ current = 1
  /\ phase = "ready" /\ stepState = "none"
  /\ told = FALSE /\ forwarded = FALSE /\ returned = "none"
  /\ signals = 0 /\ missed = 0 /\ late = FALSE /\ lost = FALSE
  /\ exit = "none"
  /\ setup \in [mounts : BOOLEAN, checkout : {"own", "other"}, mounted : {"own", "other", "third"}]
  /\ wrapper = "own" /\ inMounts = FALSE

----------------------------------------------------------------------------
\* run_step: from Popen to the handlers the default is in force.
Spawn ==
  /\ phase = "ready" /\ current < steps
  /\ phase' = "spawned" /\ stepState' = "running"
  /\ told' = FALSE /\ forwarded' = FALSE
  /\ late' = (late \/ signals > missed)
  /\ UNCHANGED <<steps, current, returned, signals, missed, lost, exit, setupVars>>

SpawnFails ==
  /\ phase = "ready" /\ current < steps
  /\ phase' = "gone" /\ exit' = "failed"
  /\ UNCHANGED <<stepVars, signals, setupVars>>

Listen ==
  /\ phase = "spawned" /\ phase' = "watching"
  /\ UNCHANGED <<stepVars, signals, exit, setupVars>>

\* A step may take a signal as its end, as a failure or not at all.
ChildEnds ==
  /\ stepState = "running" /\ stepState' \in {"ok", "failed"}
  /\ UNCHANGED <<steps, current, phase, told, forwarded, returned, signals, missed, late, lost, exit,
                 setupVars>>

Reap ==
  /\ phase \in {"watching", "interrupted"} /\ stepState # "running"
  /\ phase' = "reaped"
  /\ UNCHANGED <<stepVars, signals, exit, setupVars>>

\* What the step ended with, whoever else was to be stopped.
ResultMutant == IF stepState = "ok" THEN "ok" ELSE IF forwarded THEN "signalled" ELSE "failed"

\* A signal that was forwarded counts, not what the step made of it.
Result == IF forwarded THEN "signalled" ELSE stepState

\* The value is settled first, and the handlers are put back after that.
Return ==
  /\ phase = "reaped" /\ phase' = "returning"
  /\ returned' = Result
  /\ UNCHANGED <<steps, current, stepState, told, forwarded, signals, missed, late, lost, exit, setupVars>>

\* run_project_command goes on with the next step, or ends with this status.
Restore ==
  /\ phase = "returning"
  /\ IF returned = "ok" THEN current' = current + 1 /\ phase' = "ready" /\ UNCHANGED exit
                        ELSE phase' = "gone" /\ exit' = returned /\ UNCHANGED current
  /\ UNCHANGED <<steps, stepState, told, forwarded, returned, signals, missed, late, lost, setupVars>>

\* The last step takes the place of tine.
Exec ==
  /\ phase = "ready" /\ current = steps
  /\ phase' = "wrapper"
  /\ late' = (late \/ signals > missed)
  /\ UNCHANGED <<steps, current, stepState, told, forwarded, returned, signals, missed, lost, exit,
                 setupVars>>

----------------------------------------------------------------------------
Dies(how) == phase' = "gone" /\ exit' = how

\* To tine alone: the handlers forward it, to no effect once the value is
\* settled; anywhere else it ends tine.
Terminate ==
  /\ phase # "gone" /\ signals < MaxSignals /\ signals' = signals + 1
  /\ missed' = IF phase = "returning" THEN missed + 1 ELSE missed
  /\ IF phase \in {"watching", "interrupted", "reaped", "returning"}
       THEN /\ forwarded' = TRUE /\ told' = (told \/ stepState = "running")
            /\ UNCHANGED <<phase, exit, lost>>
       ELSE /\ Dies("killed") /\ lost' = (phase = "spawned")
            /\ UNCHANGED <<forwarded, told>>
  /\ UNCHANGED <<steps, current, stepState, returned, late, setupVars>>

\* From the terminal: run_step waits for its step once more, anything else raises.
Interrupt ==
  /\ phase # "gone" /\ signals < MaxSignals /\ signals' = signals + 1
  /\ told' = (told \/ stepState = "running")
  /\ IF phase = "watching"
       THEN phase' = "interrupted" /\ forwarded' = TRUE /\ UNCHANGED exit
       ELSE Dies("interrupted") /\ UNCHANGED forwarded
  /\ UNCHANGED <<steps, current, stepState, returned, missed, late, lost, setupVars>>

----------------------------------------------------------------------------
\* reexec_configured_wrapper: after mounting always, or else if it is another's.
EnterMounts ==
  /\ phase = "wrapper" /\ setup.mounts /\ ~inMounts
  /\ inMounts' = TRUE
  /\ wrapper' = setup.mounted
  /\ UNCHANGED <<phase, stepVars, signals, exit, setup>>

HandOver ==
  /\ phase = "wrapper" /\ (inMounts \/ ~setup.mounts) /\ wrapper # Configured
  /\ wrapper' = Configured
  /\ UNCHANGED <<phase, stepVars, signals, exit, setup, inMounts>>

\* buck_command: Buck itself, with the configuration of this wrapper.
RunBuck ==
  /\ phase = "wrapper" /\ (inMounts \/ ~setup.mounts) /\ wrapper = Configured
  /\ phase' = "buck"
  /\ UNCHANGED <<stepVars, signals, exit, setupVars>>

BuckEnds ==
  /\ phase = "buck" /\ Dies("ok")
  /\ UNCHANGED <<stepVars, signals, setupVars>>

CommandNext ==
  \/ Spawn \/ SpawnFails \/ Listen \/ ChildEnds \/ Reap \/ Return \/ Restore \/ Exec
  \/ Terminate \/ Interrupt \/ EnterMounts \/ HandOver \/ RunBuck \/ BuckEnds

CommandSpec == CommandInit /\ [][CommandNext]_commandVars

----------------------------------------------------------------------------
CommandTypeOK ==
  /\ current \in 1..steps
  /\ phase \in {"ready", "spawned", "watching", "interrupted", "reaped", "returning",
               "wrapper", "buck", "gone"}
  /\ stepState \in {"none", "running", "ok", "failed"}
  /\ told \in BOOLEAN /\ forwarded \in BOOLEAN

(* After a signal no further step begins, and tine does not end as if all  *)
(* had been well - but for one that comes between run_step settling what   *)
(* it returns and putting the handlers back, which is forgotten (`missed`).*)
(* A step that runs on after tine is gone has been told of a signal,       *)
(* unless tine was killed before it listened for any.  Buck is run by the  *)
(* wrapper the project configures, in the project's mounts.                *)
CommandSound ==
  /\ ~late
  /\ phase = "gone" /\ exit = "ok" => signals = missed /\ current = steps /\ stepState \in {"none", "ok"}
  /\ phase = "gone" /\ stepState = "running" => told \/ lost
  /\ phase = "buck" => wrapper = Configured /\ inMounts = setup.mounts
=============================================================================
