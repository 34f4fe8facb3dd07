------------------------------ MODULE BotGate ------------------------------
(***************************************************************************)
(* The runs that open pull requests on their own (tools/bot_pr.py).  A     *)
(* workflow's concurrency group lets one run go at a time, so the state of *)
(* a run is one record; a run may be killed anywhere, people merge and     *)
(* close what it opened whenever they like.  GitHub is modelled by what    *)
(* the script asks of it.                                                  *)
(***************************************************************************)
EXTENDS Naturals, FiniteSets

CONSTANT Runs        \* how many runs are started at most

NoCommit == 0        \* a run's commits are named by its number

VARIABLES
  started,    \* runs started so far; the last one is the current one
  stage,      \* where it is; "idle" between runs
  commit,     \* what its command committed, NoCommit if nothing
  status,     \* whether its command failed
  branch,     \* remote: what the branch of this kind of run holds
  amended,    \* remote: whether that was pushed a second time, for CI
  pulls,      \* pull requests: [run, open, draft, tested]
  issues      \* failure issues: [run, open]

botVars == <<started, stage, commit, status, branch, amended, pulls, issues>>

BotInit ==
  /\ started = 0 /\ stage = "idle" /\ commit = NoCommit /\ status = "ok"
  /\ branch = NoCommit /\ amended = FALSE /\ pulls = {} /\ issues = {}

Open(items) == {i \in items : i.open}

StartRun ==
  /\ stage = "idle" /\ started < Runs
  /\ started' = started + 1
  /\ stage' = "gate" /\ commit' = NoCommit /\ status' = "ok"
  /\ UNCHANGED <<branch, amended, pulls, issues>>

\* A faulty gate that looks for pull requests only.
BlockedMutant == Open(pulls) # {}

\* blocked()
Blocked == Open(pulls) # {} \/ Open(issues) # {}

Gate ==
  /\ stage = "gate"
  /\ stage' = IF Blocked THEN "idle" ELSE "change"
  /\ UNCHANGED <<started, commit, status, branch, amended, pulls, issues>>

\* commit_change() and what main() makes of it.
Change ==
  /\ stage = "change"
  /\ commit' \in {NoCommit, started}
  /\ status' \in {"ok", "failed"}
  /\ stage' = CASE commit' # NoCommit -> "push"
             [] commit' = NoCommit /\ status' = "failed" -> "report"
             [] OTHER -> "idle"
  /\ UNCHANGED <<started, branch, amended, pulls, issues>>

\* report_failure()
Report ==
  /\ stage = "report"
  /\ issues' = issues \cup {[run |-> started, open |-> TRUE]}
  /\ stage' = "idle"
  /\ UNCHANGED <<started, commit, status, branch, amended, pulls>>

\* open_pull_request(): the branch is overwritten, whatever it held ...
Push ==
  /\ stage = "push"
  /\ branch' = commit /\ amended' = FALSE
  /\ stage' = "create"
  /\ UNCHANGED <<started, commit, status, pulls, issues>>

\* ... the pull request is opened, a draft of a failed command without CI ...
Create ==
  /\ stage = "create"
  /\ pulls' = pulls \cup {[run |-> started, open |-> TRUE, draft |-> status = "failed",
                           tested |-> FALSE]}
  /\ stage' = IF status = "failed" THEN "idle" ELSE "wait"
  /\ UNCHANGED <<started, commit, status, branch, amended, issues>>

\* ... and start_ci() pushes again once GitHub has made the first run of it; a
\* wait of five minutes without one ends the script.
StartCI ==
  /\ stage = "wait"
  /\ branch' = commit /\ amended' = TRUE
  /\ pulls' = {IF p.run = started /\ p.open THEN [p EXCEPT !.tested = TRUE] ELSE p : p \in pulls}
  /\ stage' = "idle"
  /\ UNCHANGED <<started, commit, status, issues>>

\* A call fails, the wait runs out, or the runner dies.
RunKilled ==
  /\ stage # "idle"
  /\ stage' = "idle"
  /\ UNCHANGED <<started, commit, status, branch, amended, pulls, issues>>

\* Someone merges or closes a pull request, or closes an issue.
Settle ==
  /\ \/ \E p \in Open(pulls) :
          pulls' = (pulls \ {p}) \cup {[p EXCEPT !.open = FALSE]} /\ UNCHANGED issues
     \/ \E i \in Open(issues) :
          issues' = (issues \ {i}) \cup {[i EXCEPT !.open = FALSE]} /\ UNCHANGED pulls
  /\ UNCHANGED <<started, stage, commit, status, branch, amended>>

BotNext == StartRun \/ Gate \/ Change \/ Report \/ Push \/ Create \/ StartCI \/ RunKilled \/ Settle

BotSpec == BotInit /\ [][BotNext]_botVars

----------------------------------------------------------------------------

BotTypeOK ==
  /\ started \in 0..Runs
  /\ stage \in {"idle", "gate", "change", "report", "push", "create", "wait"}
  /\ commit \in 0..Runs /\ branch \in 0..Runs
  /\ status \in {"ok", "failed"} /\ amended \in BOOLEAN
  /\ pulls \subseteq [run : 1..Runs, open : BOOLEAN, draft : BOOLEAN, tested : BOOLEAN]
  /\ issues \subseteq [run : 1..Runs, open : BOOLEAN]

\* Whatever runs are killed and whenever people merge or close, one item of a kind
\* is open at a time, an open pull request's branch holds what the run that opened
\* it committed, and a draft, known to be broken, never had CI started for it.
OneInFlight ==
  /\ Cardinality(Open(pulls)) + Cardinality(Open(issues)) <= 1
  /\ \A p \in Open(pulls) : branch = p.run /\ (p.draft => ~p.tested /\ ~amended)
=============================================================================
