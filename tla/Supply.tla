------------------------------- MODULE Supply -------------------------------
(***************************************************************************)
(* How packages come from an archive into a box: a refresh pins one        *)
(* repository's metadata and resolves some boxes against it, a build       *)
(* verifies what a box's lock selects, by the pinned metadata and by what  *)
(* the locks of other days retain.  Any mirror is between the archive and  *)
(* a refresh.  A package is its checksum, a download of it either it or an *)
(* error, and an index the set of packages it lists.                       *)
(***************************************************************************)
EXTENDS Naturals, Sequences, FiniteSets

CONSTANTS
  Package,
  Release,        \* what the archive has published and signed
  OfDeclaredKey,  \* the releases signed by a key the repository declares
  Holds,          \* per release: the packages of its index
  Suite, From, Until,  \* per release: whose it is, when it was signed, when it expires
  Wanted,         \* the suite the repository declares
  Genuine,        \* packages that carry a signature of a declared key, ...
  KeyUntil,       \* ... which expires
  Box,
  MaxDay, MaxLies, MaxPicked,
  Never, NoPin

\* A mirror can make up an index, listing anything, but no signature.
Forged == "forged"
Unsigned == "unsigned"

SupplyAssumption ==
  /\ OfDeclaredKey \subseteq Release /\ Genuine \subseteq Package
  /\ Holds \in [Release -> SUBSET Package]
  /\ From \in [Release -> Nat] /\ Until \in [Release -> Nat]
  /\ KeyUntil \in [Genuine -> Nat]
  /\ IsFiniteSet(Box) /\ MaxDay \in Nat
  /\ Forged \notin Release /\ Never \notin Nat
  /\ NoPin \notin [signed : Release \cup {Unsigned}, index : Release \cup {Forged}, at : Nat \cup {Never}]

VARIABLES
  system,   \* the package system
  rolling,  \* whether the mirror serves one tree that changes, and none per date
  today,
  pin,      \* the metadata pinned: the signed release, the index, and as of when
  locks,    \* per box: its packages, and the metadata they were resolved against
  built,    \* per box: what its last build made of its lock, and when
  lies      \* how often a mirror served anything but what was current

supplyVars == <<system, rolling, today, pin, locks, built, lies>>

Listed(index) == IF index = Forged THEN Package ELSE Holds[index]

NoLock == [packages |-> {}, kept |-> {}]
NotBuilt == [verdict |-> "none", at |-> 0]

SupplyInit ==
  /\ system \in {"deb", "alpm", "rpm"}
  /\ rolling \in BOOLEAN
  /\ today = 0 /\ pin = NoPin
  /\ locks = [b \in Box |-> NoLock]
  /\ built = [b \in Box |-> NotBuilt]
  /\ lies = 0

----------------------------------------------------------------------------
(***************************************************************************)
(* Refreshing                                                              *)
(***************************************************************************)
\* snapshot_repository of deb: the signed release is pinned as it is, unread.  What
\* it is to cover is followed from an unsigned copy, that only has to name the suite.
Releases(date) ==
  {[signed |-> s, index |-> i, at |-> date] :
     s \in {r \in Release : From[r] <= today},
     i \in {r \in Release : From[r] <= today /\ Suite[r] = Wanted} \cup {Forged}}

\* ... of pacman: the database, which nothing that is pinned signs.
Databases(date) ==
  {[signed |-> Unsigned, index |-> i, at |-> date] : i \in {r \in Release : From[r] <= today} \cup {Forged}}

\* ... of rpm: the streams a repomd.xml names, down to those a solve needs.
Streams(date) == Databases(date)

Snapshots(date) ==
  CASE system = "deb" -> Releases(date)
    [] system = "alpm" -> Databases(date)
    [] system = "rpm" -> Streams(date)

\* _materialize_metadata writes a manifest for a resolve to record, where the
\* metadata vouches for packages; resolved_against leaves out what has no date.
Recorded(snapshot) ==
  IF system # "rpm" /\ snapshot.at # Never THEN {snapshot} ELSE {}

\* What the solver selects is its own business, the index is all it knows of.
Resolved(snapshot) ==
  {[packages |-> ps, kept |-> Recorded(snapshot)] :
     ps \in {qs \in SUBSET Listed(snapshot.index) : Cardinality(qs) \in 1..MaxPicked}}

Honest(snapshot, date) ==
  /\ snapshot.index \in OfDeclaredKey /\ Suite[snapshot.index] = Wanted
  /\ snapshot.signed \in {snapshot.index, Unsigned}
  /\ LET by == IF date = Never THEN today ELSE date IN
     /\ From[snapshot.index] <= by
     /\ \A r \in Release : Suite[r] = Wanted /\ From[r] <= by => From[r] <= From[snapshot.index]

(* catalog.py: the repository is pinned anew, the boxes that were asked    *)
(* for are resolved against it, and the locks of the others stay.          *)
Refresh ==
  /\ \E asked \in (SUBSET Box) \ {{}},
        date \in IF rolling THEN {Never} ELSE {t \in 0..today : pin = NoPin \/ pin.at <= t} :
       \E s \in Snapshots(date) :
         /\ pin' = s
         /\ lies' = lies + (IF Honest(s, date) THEN 0 ELSE 1) /\ lies' <= MaxLies
         /\ \E made \in [asked -> Resolved(s)] :
              locks' = [b \in Box |-> IF b \in asked THEN made[b] ELSE locks[b]]
         /\ built' = [b \in Box |-> IF b \in asked THEN NotBuilt ELSE built[b]]
  /\ UNCHANGED <<system, rolling, today>>

NextDay ==
  /\ today < MaxDay /\ today' = today + 1
  /\ UNCHANGED <<system, rolling, pin, locks, built, lies>>

----------------------------------------------------------------------------
(***************************************************************************)
(* Building                                                                *)
(***************************************************************************)
\* Whatever is retained is judged as of the repository's pin.
AsOfMutant(generation) == IF pin.at = Never THEN today ELSE pin.at

\* As of when vouched_packages judges a generation: its own pin, or the present.
AsOf(generation) == IF generation.at = Never THEN today ELSE generation.at

(* vouched_packages of deb: a declared key signed the release, by then;    *)
(* it is of the suite, has not expired, and states the index.              *)
VouchedFor(generation, at) ==
  /\ generation.signed \in OfDeclaredKey
  /\ From[generation.signed] <= at
  /\ Suite[generation.signed] = Wanted
  /\ Until[generation.signed] >= at
  /\ generation.index = generation.signed

\* _retained_metadata: what was recorded by locks that select what is not current, ...
Retained ==
  UNION {locks[b].kept : b \in {c \in Box : ~(locks[c].packages \subseteq Listed(pin.index))}}

SameFiles(g, h) == g.signed = h.signed /\ g.index = h.index

\* ... without the files that are pinned, and the same files once, of whichever day.
Generations ==
  {gs \in SUBSET {g \in Retained : ~SameFiles(g, pin)} :
     \A g \in Retained : SameFiles(g, pin) \/ Cardinality({h \in gs : SameFiles(g, h)}) = 1}

(* Vouching: the pinned generation is read at once, the retained ones in   *)
(* the order of their directories and only as far as a package asks.       *)
Consulted(order, packages) ==
  {pin} \cup
  {order[i] : i \in {j \in 1..Len(order) : \E p \in packages :
     /\ p \notin Listed(pin.index)
     /\ \A k \in 1..(j - 1) : p \notin Listed(order[k].index)}}

Stated(generations) == UNION {Listed(g.index) : g \in generations}

\* gpg validates the packager's key as of the pin the keyring was built for.
Trusted(p) == p \in Genuine /\ KeyUntil[p] >= (IF pin.at = Never THEN today ELSE pin.at)

\* verify of the three systems, of which an rpm's package carries all it takes.
Accepts(order, packages) ==
  LET read == Consulted(order, packages) IN
  CASE system = "rpm" -> packages \subseteq Genuine
    [] system = "alpm" -> packages \subseteq Stated(read) /\ \A p \in packages : Trusted(p)
    [] system = "deb" -> (\A g \in read : VouchedFor(g, AsOf(g))) /\ packages \subseteq Stated(read)

\* Directories in an order that says nothing of what they hold.
Orders ==
  UNION {{s \in [1..Cardinality(gs) -> gs] : \A g \in gs : \E i \in DOMAIN s : s[i] = g} : gs \in Generations}

BuildBox(b) ==
  /\ pin # NoPin /\ locks[b].packages # {}
  /\ \E order \in Orders :
       built' = [built EXCEPT ![b] =
         [verdict |-> IF Accepts(order, locks[b].packages) THEN "accepted" ELSE "refused", at |-> today]]
  /\ UNCHANGED <<system, rolling, today, pin, locks, lies>>

SupplyNext == Refresh \/ NextDay \/ \E b \in Box : BuildBox(b)

SupplySpec == SupplyInit /\ [][SupplyNext]_supplyVars

----------------------------------------------------------------------------

SupplyTypeOK ==
  /\ today \in 0..MaxDay
  /\ \/ pin = NoPin
     \/ pin \in [signed : Release \cup {Unsigned}, index : Release \cup {Forged}, at : (0..MaxDay) \cup {Never}]
  /\ \A b \in Box : locks[b].packages \subseteq Package
  /\ built \in [Box -> [verdict : {"none", "accepted", "refused"}, at : 0..MaxDay]]

(* Whatever mirrors served, when a box was refreshed and what others       *)
(* retain: what is built was vouched for by somebody who was declared.  A  *)
(* deb is listed by a release of the suite that was current on a day up to *)
(* the build, and from a mirror without days on that of the build; the     *)
(* others carry a signature.                                               *)
OnlyVouched ==
  \A b \in Box : built[b].verdict = "accepted" =>
    \A p \in locks[b].packages :
      IF system = "deb"
        THEN \E r \in OfDeclaredKey : \E date \in From[r]..Until[r] :
               /\ Suite[r] = Wanted /\ p \in Holds[r] /\ date <= built[b].at
               /\ rolling => date = built[b].at
        ELSE p \in Genuine

(* A lock of a dated tree that was built once can be built when the pin    *)
(* has moved on for other boxes, if what it moved to and what locks retain *)
(* is what the archive had signed by the day it is of, and no packager's   *)
(* key has expired.                                                        *)
LockOutlivesPin ==
  \A b \in Box : built[b].verdict = "accepted" /\ ~rolling =>
    \/ system = "deb" /\ \E g \in {pin} \cup UNION {locks[c].kept : c \in Box} : ~VouchedFor(g, g.at)
    \/ system = "alpm" /\ \E p \in locks[b].packages : ~Trusted(p)
    \/ \A order \in Orders : Accepts(order, locks[b].packages)

(* Both: what is built was vouched for, and goes on being.                 *)
SupplySound == OnlyVouched /\ LockOutlivesPin
=============================================================================
