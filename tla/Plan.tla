-------------------------------- MODULE Plan --------------------------------
(***************************************************************************)
(* From names of packages to a lock: the plan drivers of the three package *)
(* systems around their solvers, and the closure a lock selects for a box  *)
(* that is layered over its parent.                                        *)
(*                                                                         *)
(* A request w has: system; repos, in declaration order, each with its     *)
(* priority and the version of a name it holds (0 if none); install, what  *)
(* is asked for; installed, the versions in the layers below (0 if none);  *)
(* and of every name what it needs, provides and replaces.                 *)
(***************************************************************************)
EXTENDS Integers, FiniteSets

Names(w) == DOMAIN w.needs
Carried(w) == {n \in Names(w) : w.installed[n] # 0}
Satisfies(w, n, spec) == n = spec \/ spec \in w.provides[n]
Held(w, n) == {i \in DOMAIN w.repos : w.repos[i].holds[n] # 0}

----------------------------------------------------------------------------
(***************************************************************************)
(* What the drivers tell the solvers of priorities                         *)
(***************************************************************************)
Priority(w, i) == w.repos[i].priority

\* Without the sort the order is that of the declarations.
EarlierMutant(w, i, k) == i < k

\* The sort of deb's main and of alpm's load_repositories: stable.
Earlier(w, i, k) ==
  \/ Priority(w, i) < Priority(w, k)
  \/ Priority(w, i) = Priority(w, k) /\ i < k

\* stage_repositories: the pin of a repository, above 1000 so that it overrides versions.
AptPin(w, i) ==
  LET priorities == {Priority(w, k) : k \in DOMAIN w.repos} IN
  1001 + Cardinality(priorities) - Cardinality({p \in priorities : p < Priority(w, i)})

----------------------------------------------------------------------------
(***************************************************************************)
(* What the solvers do with it                                             *)
(***************************************************************************)
NewestAmong(w, n, among) == {i \in among : \A k \in among : w.repos[k].holds[n] <= w.repos[i].holds[n]}

First(w, among) == {i \in among : \A k \in among \ {i} : Earlier(w, i, k)}

\* APT: the highest pin, then the newest version, then the first in sources.list.
AptCandidates(w, n) ==
  First(w, NewestAmong(w, n, {i \in Held(w, n) : \A k \in Held(w, n) : AptPin(w, k) <= AptPin(w, i)}))

\* alpm: the first database that was registered and holds it.
AlpmCandidates(w, n) == First(w, Held(w, n))

\* dnf: the newest of those with the lowest priority number.
DnfCandidates(w, n) ==
  NewestAmong(w, n, {i \in Held(w, n) : \A k \in Held(w, n) : Priority(w, i) <= Priority(w, k)})

Candidates(w, n) ==
  CASE w.system = "deb" -> AptCandidates(w, n)
    [] w.system = "alpm" -> AlpmCandidates(w, n)
    [] w.system = "rpm" -> DnfCandidates(w, n)

\* Whether a candidate is installed over what a lower layer has: pins allow downgrades.
Needed(w, n, i) ==
  IF w.system = "deb" THEN w.installed[n] # w.repos[i].holds[n] ELSE w.installed[n] < w.repos[i].holds[n]

Removed(w, added) == {m \in Carried(w) : \E n \in added : m \in w.replaces[n]}
After(w, added) == (Carried(w) \ Removed(w, added)) \cup added

\* dnf takes a package that replaces the one it was asked for as an answer.
Answers(w, added, spec) ==
  \/ \E n \in After(w, added) : Satisfies(w, n, spec)
  \/ w.system = "rpm" /\ \E n \in added : spec \in w.replaces[n]

Solves(w, added) ==
  /\ \A n \in added : \E i \in Candidates(w, n) : Needed(w, n, i)
  /\ \A spec \in w.install : Answers(w, added, spec)
  /\ \A n \in After(w, added) : \A need \in w.needs[n] : \E m \in After(w, added) : Satisfies(w, m, need)
  /\ \A n, m \in After(w, added) : m \notin w.replaces[n]

\* Weak dependencies and recommendations are off: nothing is added that is not needed.
Solutions(w) ==
  LET solves == {added \in SUBSET Names(w) : Solves(w, added)}
  IN {added \in solves : \A other \in solves : other \subseteq added => other = added}

----------------------------------------------------------------------------
(***************************************************************************)
(* What the drivers make of an answer                                      *)
(***************************************************************************)
\* What names alone bring, with nobody choosing between providers.
Named(w) ==
  LET named[k \in 0..Cardinality(Names(w))] ==
        IF k = 0 THEN w.install \cap Names(w)
        ELSE named[k - 1] \cup UNION {w.needs[n] \cap Names(w) : n \in named[k - 1]}
  IN named[Cardinality(Names(w))]

\* _on_question: several provide what no name has settled.
Ambiguous(w, added) ==
  \E spec \in w.install \cup UNION {w.needs[n] : n \in added} :
    /\ spec \notin Names(w)
    /\ Cardinality({n \in Names(w) : Held(w, n) # {} /\ spec \in w.provides[n]}) > 1
    /\ ~\E n \in Carried(w) \cup Named(w) : spec \in w.provides[n]

Undelivered(w, added) ==
  {spec \in w.install : ~\E n \in added \cup Carried(w) : Satisfies(w, n, spec)}

\* solve of deb has --no-remove, and fails without packages where nothing is installed.
AptAccepts(w, added) == Removed(w, added) = {} /\ (added # {} \/ Carried(w) # {})

\* resolve of alpm, after the solver had to be given some answer.
AlpmAccepts(w, added) == ~Ambiguous(w, added) /\ Removed(w, added) = {}

\* plan of rpm: removals go unread.
DnfAccepts(w, added) == Undelivered(w, added) = {}

Accepted(w, added) ==
  CASE w.system = "deb" -> AptAccepts(w, added)
    [] w.system = "alpm" -> AlpmAccepts(w, added)
    [] w.system = "rpm" -> DnfAccepts(w, added)

\* entry: what a lock says of a package.  deb reads the repository off the position of the URI.
Entry(w, n, i) ==
  [name |-> n, repo |-> i, version |-> w.repos[i].holds[n]]

Locks(w) ==
  UNION {{{Entry(w, n, pick[n]) : n \in added} :
           pick \in {f \in [added -> DOMAIN w.repos] : \A n \in added : f[n] \in Candidates(w, n)}} :
         added \in {a \in Solutions(w) : Accepted(w, a)}}

(***************************************************************************)
(* _select_package_artifacts_impl: a layer installs what the lock has and  *)
(* the parent's lock has not, which the lock must have all of.             *)
(***************************************************************************)
Layers(lock, below) == IF below \subseteq lock THEN {lock \ below} ELSE {}

----------------------------------------------------------------------------
(* An accepted plan makes a root that has what was asked for by name, and  *)
(* all that needs, without taking anything from the layers below unless    *)
(* rpm replaces it.  In every system a package comes from the repositories *)
(* of the lowest priority number that hold it, and alpm has no choice.     *)
(* `undelivered` counts what the layers below have, so rpm does not notice *)
(* what was asked for and is there when the transaction replaces it.       *)
Unnoticed(w, added, spec) ==
  w.system = "rpm" /\ \E n \in Removed(w, added) : Satisfies(w, n, spec)

DeliversFor(w) ==
  \A lock \in Locks(w) :
    LET added == {e.name : e \in lock}
        root == After(w, added)
    IN /\ \A spec \in w.install : (\E n \in root : Satisfies(w, n, spec)) \/ Unnoticed(w, added, spec)
       /\ \A n \in root : \A need \in w.needs[n] : \E m \in root : Satisfies(w, m, need)
       /\ w.system # "rpm" => Carried(w) \subseteq root
       /\ \A e \in lock : \A i \in Held(w, e.name) : Priority(w, e.repo) <= Priority(w, i)

PlanSoundFor(w) ==
  DeliversFor(w) /\ (w.system = "alpm" => Cardinality(Locks(w)) <= 1)

(* A box that builds in layers has in them what its own lock has, one      *)
(* version of each, whenever the parent was resolved.                      *)
LayersMakeLockFor(w, older) ==
  \A lock \in Locks(w), below \in Locks(older) :
    \A layer \in Layers(lock, below) :
      /\ layer \cup below = lock
      /\ \A d, e \in layer \cup below : d.name = e.name => d = e
=============================================================================
