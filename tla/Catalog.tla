------------------------------ MODULE Catalog ------------------------------
(***************************************************************************)
(* A refresh of a package catalog (tools/catalog.py): advance the pins of  *)
(* the repositories, take a snapshot of each at its pin, resolve the boxes *)
(* against the snapshots, and put everything back when any of that fails.  *)
(*                                                                         *)
(* A pin is the literal a declaration holds.  Of it only its day varies;   *)
(* Series says which repositories' literals are otherwise spelled alike.   *)
(* The files of the checkout are the declaration (Buck, every pin), a lock *)
(* for each repository and box, and the signing keys; a day of 0 in one is *)
(* a file that is not there.  What a mirror serves is whatever it serves   *)
(* at the moment it is asked.                                              *)
(***************************************************************************)
EXTENDS Naturals, Sequences, FiniteSets, FiniteSetsExt, Functions

CONSTANTS
  Repo, Kinds,    \* the repositories; <<set, set, ..>>: those each pass of an advance is about
  Archives,       \* the passes whose mirror is a dated archive rather than an rpmrepo gateway
  Series,         \* repository -> what its pin is spelled like
  Deps,           \* box -> the repositories it is resolved against
  Buck,           \* the file that declares the pins
  GoReleases,     \* the go.releases targets, each a file with the releases it pins
  SigningKey,     \* the keys the repositories declare, each a file
  Since, Days     \* how far the pins are at first, and how far the mirrors go

Boxes == DOMAIN Deps

\* A repository is declared in one way, and spelled like others of its kind only; no
\* two of what a refresh writes are one file.
CatalogAssumption ==
  /\ \A b \in Boxes : Deps[b] \subseteq Repo
  /\ Kinds \in Seq(SUBSET Repo) /\ Kinds # <<>> /\ Archives \subseteq DOMAIN Kinds
  /\ \A i, j \in DOMAIN Kinds : i # j => Kinds[i] \cap Kinds[j] = {}
  /\ \A i \in DOMAIN Kinds : \A r \in Repo, s \in Kinds[i] : Series[r] = Series[s] => r \in Kinds[i]
  /\ Buck \notin Repo \cup Boxes \cup GoReleases \cup SigningKey
  /\ Repo \cap (Boxes \cup GoReleases \cup SigningKey) = {}
  /\ Boxes \cap (GoReleases \cup SigningKey) = {} /\ GoReleases \cap SigningKey = {}
  /\ Since \in Nat /\ Days \in Nat /\ Since <= Days

VARIABLES
  checkout,   \* file -> what it holds
  originals,  \* _Checkout._originals
  refresh     \* the run that is going on, or the last one and how it ended

catalogVars == <<checkout, originals, refresh>>

PinOf(r) == checkout[Buck][r]
ResolvedLock(b) == [r \in Deps[b] |-> checkout[r]]
Ends == {"idle", "done", "restored", "torn", "verified", "stale"}
Resting == [at |-> "idle", pass |-> 0, boxes |-> {}, repos |-> {}, go |-> {}, advance |-> FALSE,
            moves |-> {}, todo |-> {}, found |-> <<>>]

CatalogInit ==
  \E pins \in [Repo -> 1..Since] :
    /\ checkout = [f \in {Buck} \cup Repo \cup Boxes \cup GoReleases \cup SigningKey |->
                     CASE f = Buck -> pins
                       [] f \in Repo -> pins[f]
                       [] f \in Boxes -> [r \in Deps[f] |-> pins[r]]
                       [] f \in GoReleases -> 1
                       [] OTHER -> 0]
    /\ originals = <<>> /\ refresh = Resting

\* _plan(): nothing selected is everything; boxes bring the repositories they depend on.
Plan(boxes, go) ==
  LET all == boxes = {} /\ ~go IN
  [boxes |-> IF all THEN Boxes ELSE boxes,
   repos |-> IF all THEN Repo ELSE UNION {Deps[b] : b \in boxes},
   go |-> IF all \/ go THEN GoReleases ELSE {}]

\* What _regenerate goes through, in this order; a key is fetched only where none is.
MissingKeys(repos) == IF repos = {} THEN {} ELSE {k \in SigningKey : checkout[k] = 0}
Regenerated(plan) ==
  <<MissingKeys(plan.repos), plan.repos, plan.go, plan.boxes>>

\* main() up to where it starts to write.
StartRefresh ==
  \E boxes \in SUBSET Boxes, go \in BOOLEAN, advance \in BOOLEAN :
    LET plan == Plan(boxes, go) IN
    /\ refresh.at \in Ends \ {"torn"}
    /\ refresh' = [Resting EXCEPT
         !.at = IF advance /\ plan.repos # {} THEN "advance" ELSE "write", !.pass = 1,
         !.boxes = plan.boxes, !.repos = plan.repos, !.go = plan.go, !.advance = advance,
         !.todo = UNION Range(Regenerated(plan)), !.found = checkout[Buck]]
    /\ UNCHANGED <<checkout, originals>>

\* --verify: the same commands, compared with what is there and written nowhere.
Verify ==
  \E boxes \in SUBSET Boxes, go \in BOOLEAN :
    LET plan == Plan(boxes, go)
        same == /\ MissingKeys(plan.repos) = {}
                /\ \A r \in plan.repos : checkout[r] = PinOf(r)
                /\ \A b \in plan.boxes : checkout[b] = ResolvedLock(b)
    IN  /\ refresh.at \in Ends \ {"torn"}
        /\ refresh' = [Resting EXCEPT !.at = IF same THEN "verified" ELSE "stale"]
        /\ UNCHANGED <<checkout, originals>>

(***************************************************************************)
(* Advancing                                                               *)
(***************************************************************************)
\* The repositories written from one literal.
Group(r) == {s \in Repo : Series[s] = Series[r] /\ PinOf(s) = PinOf(r)}
Groups(pass) == {Group(r) : r \in Kinds[pass]}
Day(group) == PinOf(CHOOSE r \in group : TRUE)
Alike(g, h) == \E r \in g, s \in h : Series[r] = Series[s]

\* Only the selected members of a group are asked about.
MovableMutant(group) == group \cap refresh.repos # {}

\* A group moves as a whole: all of it is about to be snapshotted, or it stays.
Movable(group) == group \subseteq refresh.repos

\* _newest_archive_snapshot, _newest_debian_snapshot: of the mirror of one, never backwards.
NewestArchive(group, served) == {Max({served[r], Day(group)}) : r \in group}

\* _newest_rpmrepo_snapshot: what every member offers; none when they differ.
NewestRpmrepo(group, served) ==
  {d \in 1..Days : \A r \in group : served[r] = d}

Newest(pass, group, served) ==
  IF pass \in Archives THEN NewestArchive(group, served) ELSE NewestRpmrepo(group, served)

\* Landing on a literal another group holds, or is about to.
Collides(pass, moves) ==
  \E m \in moves :
    \/ \E g \in Groups(pass) \ {m.group} : Alike(g, m.group) /\ Day(g) = m.day
    \/ \E n \in moves \ {m} : Alike(n.group, m.group) /\ n.day = m.day

\* _advance(), up to its rewrites.
PlanAdvance ==
  LET movable == {g \in Groups(refresh.pass) : Movable(g)} IN
  /\ refresh.at = "advance"
  /\ \E served \in [Kinds[refresh.pass] -> 1..Days], wanted \in [movable -> 1..Days] :
       LET moves == {[group |-> g, day |-> wanted[g]] : g \in {h \in movable : wanted[h] # Day(h)}} IN
       /\ \A g \in movable : wanted[g] \in Newest(refresh.pass, g, served)
       /\ ~Collides(refresh.pass, moves)
       /\ refresh' = [refresh EXCEPT !.at = "rewrite", !.moves = moves]
  /\ UNCHANGED <<checkout, originals>>

\* _Checkout.write(): what a file held before the first write.
Before(f) == IF f \in DOMAIN originals THEN originals[f] ELSE checkout[f]
Remember(f) == [g \in DOMAIN originals \cup {f} |-> Before(g)]

WriteFile(f, content) ==
  /\ originals' = Remember(f)
  /\ checkout' = [checkout EXCEPT ![f] = content]

\* _rewrite_pin(): every declaration with the literal moves.
Rewrite ==
  /\ refresh.at = "rewrite"
  /\ \E m \in refresh.moves :
       /\ WriteFile(Buck, [r \in Repo |-> IF r \in Group(CHOOSE s \in m.group : TRUE) THEN m.day ELSE PinOf(r)])
       /\ refresh' = [refresh EXCEPT !.moves = @ \ {m}]

NextPass ==
  /\ refresh.at = "rewrite" /\ refresh.moves = {}
  /\ refresh' = [refresh EXCEPT !.at = IF refresh.pass < Len(Kinds) THEN "advance" ELSE "write",
                                !.pass = @ + 1]
  /\ UNCHANGED <<checkout, originals>>

(***************************************************************************)
(* Regenerating and writing                                                *)
(***************************************************************************)
\* Whose turn it is in _regenerate, lazily: nothing is computed before the loop asks.
Turn(f) ==
  LET order == <<SigningKey, Repo, GoReleases, Boxes>>
      rank(g) == CHOOSE i \in DOMAIN order : g \in order[i]
  IN  \A g \in refresh.todo : rank(f) <= rank(g)

ContentsOf(f) ==
  CASE f \in SigningKey -> {1}
    [] f \in Repo -> {PinOf(f)}
    [] f \in GoReleases -> IF refresh.advance THEN 1..Days ELSE {checkout[f]}
    [] f \in Boxes -> {ResolvedLock(f)}

WriteNext ==
  /\ refresh.at = "write"
  /\ \E f \in refresh.todo :
       /\ Turn(f)
       /\ \E content \in ContentsOf(f) : WriteFile(f, content)
       /\ refresh' = [refresh EXCEPT !.todo = @ \ {f}]

FinishRefresh ==
  /\ refresh.at = "write" /\ refresh.todo = {}
  /\ refresh' = [refresh EXCEPT !.at = "done"]
  /\ originals' = <<>>
  /\ UNCHANGED checkout

(* Any step may fail, and so may the user's patience; what restore() may   *)
(* not write it leaves, after putting back all the others.                 *)
FailRefresh ==
  /\ refresh.at \notin Ends
  /\ \E refused \in SUBSET DOMAIN originals :
       /\ checkout' = [f \in DOMAIN checkout |->
                         IF f \in DOMAIN originals \ refused THEN originals[f] ELSE checkout[f]]
       /\ refresh' = [refresh EXCEPT !.at = IF refused = {} THEN "restored" ELSE "torn"]
  /\ originals' = <<>>

CatalogNext ==
  \/ StartRefresh \/ Verify \/ PlanAdvance \/ Rewrite \/ NextPass
  \/ WriteNext \/ FinishRefresh \/ FailRefresh

CatalogSpec == CatalogInit /\ [][CatalogNext]_catalogVars

(***************************************************************************)
(* Properties                                                              *)
(***************************************************************************)
CatalogTypeOK ==
  /\ checkout[Buck] \in [Repo -> 1..Days]
  /\ DOMAIN originals \subseteq DOMAIN checkout
  /\ refresh.at \in Ends \cup {"advance", "rewrite", "write"}
  /\ refresh.repos \subseteq Repo /\ refresh.boxes \subseteq Boxes

(* However a refresh ended, unless the checkout itself refused to be put   *)
(* back, every repository's lock was taken at the pin it is declared with, *)
(* and a box it resolved names what those locks hold: the selection, the   *)
(* grouping of the pins, the order of the writes and the restore together. *)
LocksMatchPins ==
  /\ refresh.at \in Ends \ {"torn"} => \A r \in Repo : checkout[r] = PinOf(r)
  /\ refresh.at = "done" => \A b \in refresh.boxes : checkout[b] = ResolvedLock(b)

(* A finished refresh has not merged two pins that were apart when it      *)
(* started, has kept together those that were one, and has moved no pin of *)
(* an archive backwards.                                                   *)
PinsStayApart ==
  refresh.at = "done" =>
    LET before == refresh.found IN
    /\ \A r, s \in Repo : Series[r] = Series[s] => (before[r] = before[s] <=> PinOf(r) = PinOf(s))
    /\ \A i \in Archives : \A r \in Kinds[i] : PinOf(r) >= before[r]

(* Both: a refresh leaves pins, locks and boxes that belong together.      *)
CatalogSound == LocksMatchPins /\ PinsStayApart
=============================================================================
