----------------------------- MODULE Launcher ------------------------------
(***************************************************************************)
(* Builds that share one shim: bin/cache_shim.py (ensure, start, ask), and *)
(* the life of a shim, remote_cache/shim.py (main, serve, wait, Activity)  *)
(* with the status socket of remote_cache/status.py.                       *)
(*                                                                         *)
(* Every build is a process of its own, configured with the same store and *)
(* possibly other settings.  It asks the status socket whether a shim      *)
(* serves the store and registers there in the same request; if none       *)
(* answers it builds and starts one.  A build starts at most one shim, so  *)
(* a shim is known by the build that started it.                           *)
(*                                                                         *)
(* Time is not counted: nothing is asked of a shim for idle_timeout, and   *)
(* START_TIMEOUT passes, whenever the model says so.                       *)
(***************************************************************************)
EXTENDS FiniteSets

CONSTANTS Build,      \* processes of `tine buck` that use the store
          Settings,   \* what the command line of a shim can be
          settings,   \* settings[c]: what the configuration of c makes it
          None

ASSUME SettingsAssumption == settings \in [Build -> Settings] /\ None \notin Build

VARIABLES pc,         \* how far each build is
          shim,       \* how far the shim that each build started is
          lock,       \* the shim that holds the store's flock
          socket,     \* the shim whose socket is at the store's socket path
          registered, \* registered[s]: Activity._building of s
          uses        \* the shim whose report a build went on with

vars == <<pc, shim, lock, socket, registered, uses>>

BuildSteps == {"new", "ask", "build", "poll", "check", "last", "running",
               "failed", "over"}
ShimSteps == {"off", "started", "claimed", "serving", "mute", "leaving",
              "stopping", "lost", "gone"}

TypeOK ==
  /\ pc \in [Build -> BuildSteps]
  /\ shim \in [Build -> ShimSteps]
  /\ lock \in Build \cup {None}
  /\ socket \in Build \cup {None}
  /\ registered \in [Build -> SUBSET Build]
  /\ uses \in [Build -> Build \cup {None}]

Init ==
  /\ pc = [c \in Build |-> "new"]
  /\ shim = [s \in Build |-> "off"]
  /\ lock = None
  /\ socket = None
  /\ registered = [s \in Build |-> {}]
  /\ uses = [c \in Build |-> None]

\* alive: a process that failed, ended or was interrupted is not.
Alive(c) == pc[c] \notin {"new", "failed", "over"}

\* "lost": it found the store taken.
Exited(s) == shim[s] \in {"lost", "gone"}

-----------------------------------------------------------------------------
(* A build: ensure, start and ask.                                         *)

\* What is at the socket path answers: its listener is not closed yet.
Answers(s) == s # None /\ shim[s] \in {"serving", "leaving"}

\* Mutant: whichever shim answers is the one to use.
AskedMutant(c, s) ==
  /\ registered' = [registered EXCEPT ![s] = @ \cup {c}]
  /\ pc' = [pc EXCEPT ![c] = "running"]
  /\ uses' = [uses EXCEPT ![c] = s]

\* POST /clients/<pid>: registered, and going on if the shim is the one meant.
Asked(c, s) ==
  /\ registered' = [registered EXCEPT ![s] = @ \cup {c}]
  /\ IF settings[s] = settings[c]
     THEN /\ pc' = [pc EXCEPT ![c] = "running"]
          /\ uses' = [uses EXCEPT ![c] = s]
     ELSE pc' = [pc EXCEPT ![c] = "failed"] /\ UNCHANGED uses

Begin(c) ==
  /\ pc[c] = "new"
  /\ pc' = [pc EXCEPT ![c] = "ask"]
  /\ UNCHANGED <<shim, lock, socket, registered, uses>>

\* ensure.
Ask(c) ==
  /\ pc[c] = "ask"
  /\ IF Answers(socket) THEN Asked(c, socket)
     ELSE pc' = [pc EXCEPT ![c] = "build"] /\ UNCHANGED <<registered, uses>>
  /\ UNCHANGED <<shim, lock, socket>>

\* start: Buck builds the shim, or fails to.
Start(c) ==
  /\ pc[c] = "build"
  /\ \/ /\ pc' = [pc EXCEPT ![c] = "poll"]
        /\ shim' = [shim EXCEPT ![c] = "started"]
     \/ /\ pc' = [pc EXCEPT ![c] = "failed"]
        /\ UNCHANGED shim
  /\ UNCHANGED <<lock, socket, registered, uses>>

Poll(c) ==
  /\ pc[c] = "poll"
  /\ IF Answers(socket) THEN Asked(c, socket)
     ELSE pc' = [pc EXCEPT ![c] = "check"] /\ UNCHANGED <<registered, uses>>
  /\ UNCHANGED <<shim, lock, socket>>

\* process.poll() and, if it is still running, 0.2 seconds of sleep.
Check(c) ==
  /\ pc[c] = "check"
  /\ pc' = [pc EXCEPT ![c] = IF Exited(c) THEN "last" ELSE "poll"]
  /\ UNCHANGED <<shim, lock, socket, registered, uses>>

\* The shim that c started has exited: is there another?
AskLast(c) ==
  /\ pc[c] = "last"
  /\ IF Answers(socket) THEN Asked(c, socket)
     ELSE pc' = [pc EXCEPT ![c] = "failed"] /\ UNCHANGED <<registered, uses>>
  /\ UNCHANGED <<shim, lock, socket>>

\* A process that is gone: the kernel lets go of its lock.
Die(s) ==
  /\ shim' = [shim EXCEPT ![s] = "gone"]
  /\ lock' = IF lock = s THEN None ELSE lock

\* Mutant: a launcher waits for as long as its shim is running.
TimeOutMutant(c) ==
  /\ pc[c] = "check"
  /\ Exited(c)
  /\ pc' = [pc EXCEPT ![c] = "failed"]
  /\ UNCHANGED <<shim, lock, socket, registered, uses>>

\* START_TIMEOUT.
TimeOut(c) ==
  /\ pc[c] = "check"
  /\ ~Exited(c)
  /\ Die(c)
  /\ pc' = [pc EXCEPT ![c] = "failed"]
  /\ UNCHANGED <<socket, registered, uses>>

\* Buck is done, or someone pressed Ctrl-C.
End(c) ==
  /\ Alive(c)
  /\ pc' = [pc EXCEPT ![c] = "over"]
  /\ UNCHANGED <<shim, lock, socket, registered, uses>>

-----------------------------------------------------------------------------
(* A shim: main, serve and wait.                                           *)

\* Store._claim: one that finds the store taken says so and exits.
Claim(s) ==
  /\ shim[s] = "started"
  /\ IF lock = None
     THEN shim' = [shim EXCEPT ![s] = "claimed"] /\ lock' = s
     ELSE shim' = [shim EXCEPT ![s] = "lost"] /\ UNCHANGED lock
  /\ UNCHANGED <<pc, socket, registered, uses>>

\* The keys are wrong, the bucket refuses the certificate, the port is taken.
Refuse(s) ==
  /\ shim[s] = "claimed"
  /\ Die(s)
  /\ UNCHANGED <<pc, socket, registered, uses>>

\* serving: whatever is at the path is unlinked, then bound.  A shim that
\* cannot bind it serves without.
Listen(s) ==
  /\ shim[s] = "claimed"
  /\ \/ shim' = [shim EXCEPT ![s] = "serving"] /\ socket' = s
     \/ shim' = [shim EXCEPT ![s] = "mute"] /\ socket' = None
  /\ UNCHANGED <<pc, lock, registered, uses>>

\* A launcher that has started its shim asks every 0.2 seconds, much sooner
\* than any idle timeout: while one does, a shim it can reach is not idle.
Quiet(s) == shim[s] = "mute" \/ \A c \in Build : pc[c] \notin {"poll", "check", "last"}

\* Mutant: builds that are gone still count as running.
IdleOutMutant(s) ==
  /\ shim[s] \in {"serving", "mute"}
  /\ Quiet(s)
  /\ registered[s] = {}
  /\ shim' = [shim EXCEPT ![s] = "leaving"]
  /\ UNCHANGED <<pc, lock, socket, registered, uses>>

\* wait: the timeout has passed, and building() is what is left of the builds.
IdleOut(s) ==
  LET building == {c \in registered[s] : Alive(c)}
  IN  /\ shim[s] \in {"serving", "mute"}
      /\ Quiet(s)
      /\ registered' = [registered EXCEPT ![s] = building]
      /\ building = {}
      /\ shim' = [shim EXCEPT ![s] = "leaving"]
      /\ UNCHANGED <<pc, lock, socket, uses>>

\* Mutant: the store is let go of before the socket.
UnlistenMutant(s) ==
  /\ shim[s] \in {"leaving", "stopping"}
  /\ IF shim[s] = "leaving" THEN lock' = None /\ UNCHANGED socket
     ELSE socket' = None /\ UNCHANGED lock
  /\ shim' = [shim EXCEPT ![s] = IF @ = "leaving" THEN "stopping" ELSE "gone"]
  /\ UNCHANGED <<pc, registered, uses>>

\* The end of `serving`: no more answers, and the path is unlinked.
Unlisten(s) ==
  /\ shim[s] = "leaving"
  /\ shim' = [shim EXCEPT ![s] = "stopping"]
  /\ socket' = None
  /\ UNCHANGED <<pc, lock, registered, uses>>

\* server.stop(0), and the store is closed.
Exit(s) ==
  /\ shim[s] = "stopping"
  /\ Die(s)
  /\ UNCHANGED <<pc, socket, registered, uses>>

\* Killed from outside: what it bound is left behind.
Kill(s) ==
  /\ shim[s] # "off" /\ ~Exited(s)
  /\ Die(s)
  /\ UNCHANGED <<pc, socket, registered, uses>>

BuildStep(c) ==
  Begin(c) \/ Ask(c) \/ Start(c) \/ Poll(c) \/ Check(c) \/ AskLast(c) \/ TimeOut(c) \/ End(c)

ShimStep(s) ==
  Claim(s) \/ Refuse(s) \/ Listen(s) \/ IdleOut(s) \/ Unlisten(s) \/ Exit(s) \/ Kill(s)

Next == \E c \in Build : BuildStep(c) \/ ShimStep(c)

Spec == Init /\ [][Next]_vars

\* A launcher that can go on does, and Buck ends building the shim.  The clock
\* of a launcher that keeps asking reaches START_TIMEOUT.  Nothing is assumed
\* of how long a shim takes to start.  One that is serving nobody's build gets
\* to its idle timeout, and one that is stopping stops.
Fairness ==
  \A c \in Build :
    /\ WF_vars(Ask(c)) /\ WF_vars(Start(c)) /\ WF_vars(Poll(c))
    /\ WF_vars(Check(c)) /\ WF_vars(AskLast(c)) /\ SF_vars(TimeOut(c))
    /\ WF_vars(IdleOut(c)) /\ WF_vars(Unlisten(c)) /\ WF_vars(Exit(c))

FairSpec == Spec /\ Fairness

-----------------------------------------------------------------------------

\* Whoever serves the store can be found: a shim that goes out never takes the
\* socket of the next one with it, since it lets go of the socket before the
\* store (serving, main).
ServerReachable ==
  \A s \in Build : shim[s] = "serving" => lock = s /\ socket = s

\* A build goes on only with a shim that runs with its own settings: one that
\* may sign as someone else is never shared (cache_shim.arguments).
OwnSettings ==
  \A c \in Build : pc[c] = "running" =>
    uses[c] # None /\ settings[uses[c]] = settings[c] /\ shim[uses[c]] # "off"

\* A launcher does not wait for ever, however long a shim takes to start.
LauncherEnds ==
  \A c \in Build : pc[c] = "ask" ~> pc[c] \in {"running", "failed", "over"}

\* A shim outlives the last build that wanted it by its idle timeout and no
\* more, also when builds ended without saying so.
IdleShimExits ==
  \A s \in Build :
    shim[s] \in {"serving", "mute"} ~> shim[s] = "gone" \/ \E c \in Build : Alive(c)

\* A build that registered is not left behind: "this shim must outlive it"
\* (shim.py:809), so one that stops of its own accord serves no build.
OutlivesBuilds ==
  \A c \in Build : pc[c] = "running" => shim[uses[c]] # "stopping"

\* A start that loses the store to a shim with the same settings uses that one
\* (cache_shim.py:337): its launcher does not fail while such a shim has it.
LoserUsesWinner ==
  [][\A c \in Build :
       pc[c] = "last" /\ pc'[c] = "failed" /\ shim[c] = "lost" /\ lock # None
         => settings[lock] # settings[c]]_vars
=============================================================================
