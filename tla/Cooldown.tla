------------------------------ MODULE Cooldown ------------------------------
(***************************************************************************)
(* Several threads read through one Reader (remote_cache/bucket.py) from   *)
(* an endpoint that comes and goes.  One that could not be reached at all  *)
(* is left alone for COOLDOWN, by all of them.  Time is what is left of    *)
(* the rest, in coarse units; contents and the size limit are left out.    *)
(***************************************************************************)
EXTENDS Naturals

CONSTANTS Asker, CoolFor

CoolAssumption == CoolFor \in Nat

VARIABLES
  reachable,  \* whether the endpoint can be reached
  resting,    \* how long it is still left alone
  asking      \* per thread: not asking, or asking, begun with or without an endpoint

cooldownVars == <<reachable, resting, asking>>

Init ==
  /\ reachable \in BOOLEAN
  /\ resting = 0
  /\ asking = [t \in Asker |-> "no"]

\* A rest refused at the door starts another.
GetMutant(t) ==
  /\ asking[t] = "no"
  /\ IF resting > 0
       THEN resting' = CoolFor /\ UNCHANGED asking
       ELSE /\ asking' = [asking EXCEPT ![t] = IF reachable THEN "reached" ELSE "lost"]
            /\ UNCHANGED resting
  /\ UNCHANGED reachable

(* Reader.get up to urlopen: a rest is an error at once, outside the try   *)
(* whose handler would start the rest again.                               *)
Get(t) ==
  /\ asking[t] = "no"
  /\ IF resting > 0
       THEN UNCHANGED <<resting, asking>>
       ELSE /\ asking' = [asking EXCEPT ![t] = IF reachable THEN "reached" ELSE "lost"]
            /\ UNCHANGED resting
  /\ UNCHANGED reachable

\* An answer, a 404 or another status: the endpoint is there, the rest as it was.
Answer(t) ==
  /\ asking[t] = "reached"
  /\ asking' = [asking EXCEPT ![t] = "no"]
  /\ UNCHANGED <<reachable, resting>>

(* OSError: refused, timed out or reset.  A request may have been begun    *)
(* long before; the rest is counted from when it failed.                   *)
Unreachable(t) ==
  /\ asking[t] = "lost" \/ (asking[t] = "reached" /\ ~reachable)
  /\ asking' = [asking EXCEPT ![t] = "no"]
  /\ resting' = CoolFor
  /\ UNCHANGED reachable

Pass == resting > 0 /\ resting' = resting - 1 /\ UNCHANGED <<reachable, asking>>

Endpoint == reachable' = ~reachable /\ UNCHANGED <<resting, asking>>

Finish(t) == Answer(t) \/ Unreachable(t)

Next ==
  \/ \E t \in Asker : Get(t)
  \/ \E t \in Asker : Answer(t)
  \/ \E t \in Asker : Unreachable(t)
  \/ Pass
  \/ Endpoint

(* A socket operation ends within TIMEOUT, and time passes.                *)
Fairness ==
  /\ \A t \in Asker : WF_cooldownVars(Finish(t))
  /\ WF_cooldownVars(Pass)

Spec == Init /\ [][Next]_cooldownVars /\ Fairness

(* Once the endpoint can be reached for good, no thread is turned away for *)
(* ever: requests begun before then may fail late and start the rest once  *)
(* more, but the rest does not feed on the threads it turns away.          *)
AskedAgain == <>[]reachable => <>[](resting = 0)
=============================================================================
