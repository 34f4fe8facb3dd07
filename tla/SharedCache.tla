---------------------------- MODULE SharedCache ----------------------------
(***************************************************************************)
(* Several shims over one bucket: remote_cache/shim.py.                    *)
(*                                                                         *)
(* A result is the set of blobs it names, and a bundle is named by what is *)
(* in it, so a bundle's name is that set too.  The bucket holds pointers   *)
(* under ac/ (signed over the action they answer) and bundles under        *)
(* bundle/; an object there can expire, fail to be read, or turn out not   *)
(* to be what its key says.  A shim keeps blobs, the bundle each can be    *)
(* fetched from again, and results; of its store the model keeps what      *)
(* module Store shows it to promise: any blob may be evicted at any time,  *)
(* and only then may the row saying where it came from be forgotten.       *)
(*                                                                         *)
(* Each thread of a shim serves one call at a time.  An action is a        *)
(* stretch of the call up to the next request to the bucket, the next lock *)
(* or the next step of the store.                                          *)
(***************************************************************************)
EXTENDS FiniteSets

CONSTANTS Blob, Action,
          Results,      \* the blob sets builds produce, as results and bundles
          NoBundle, NoPointer, NoAction,
          Gone,         \* no object under the key
          Unreadable,   \* an object that is no bundle
          Shim, Thread,
          Home,         \* the shim a thread belongs to
          Builders      \* the shims that accept results and write the bucket

ASSUME ResultsAssumption == Results \subseteq (SUBSET Blob) \ {{}}
ASSUME HomeAssumption == Home \in [Thread -> Shim] /\ Builders \subseteq Shim
ASSUME NoneAssumption ==
  /\ NoBundle \notin Results /\ NoAction \notin Action
  /\ NoPointer \notin [action : Action, names : Results]
  /\ Gone # Unreadable /\ \A S \in SUBSET Blob : Gone # S /\ Unreadable # S

Pointer == [action : Action, names : Results]

VARIABLES ac,       \* ac[a]: the pointer under ac/<a>
          object,   \* object[n]: what is under bundle/<n>
          have,     \* have[s]: the blobs on the disk of s
          present,  \* present[s]: the blobs the index of s says are there
          from,     \* from[s][b]: the bundle s can fetch b from again
          result,   \* result[s][a]: the pointer in the store of s
          tainted,  \* tainted[s]: bundles s found not to be what they are named
          op,       \* what each thread is in the middle of
          signed,   \* every pointer a builder has signed
          disturbed \* bundles the bucket lost or damaged since the last upload

bucket == <<ac, object>>
stores == <<have, present, from, result>>
ghosts == <<signed, disturbed>>
vars == <<ac, object, have, present, from, result, tainted, op, signed, disturbed>>

Steps == {"idle", "fetch", "lockfetch", "download", "judge", "admit", "link",
          "ensure", "next", "read", "lockupload", "put", "point", "remember"}
Answers == {"none", "hit", "miss", "bytes", "missing", "stored", "failed"}
Plan == [name : Results, needed : SUBSET Blob]

\* want: the blobs the call needs.  key: the bundle it is at, locked if lock
\* names which of the two tables of locks.  got: a bundle's members in memory.
\* refill: the bundle is fetched for `ensure`, which has todo left after it.
\* retried: `blob` is at its second attempt.
Call == [pc : Steps, action : Action \cup {NoAction}, want : SUBSET Blob,
         key : Results \cup {NoBundle}, refill : BOOLEAN, lock : {"no", "fetching", "upload"},
         got : {Gone, Unreadable} \cup SUBSET Blob, todo : SUBSET Plan,
         retried : BOOLEAN, answer : Answers]

Done(answer) ==
  [pc |-> "idle", action |-> NoAction, want |-> {}, key |-> NoBundle,
   refill |-> FALSE, lock |-> "no", got |-> {}, todo |-> {}, retried |-> FALSE, answer |-> answer]

TypeOK ==
  /\ ac \in [Action -> Pointer \cup {NoPointer}]
  /\ object \in [Results -> {Gone, Unreadable} \cup SUBSET Blob]
  /\ have \in [Shim -> SUBSET Blob]
  /\ present \in [Shim -> SUBSET Blob]
  /\ from \in [Shim -> [Blob -> Results \cup {NoBundle}]]
  /\ result \in [Shim -> [Action -> Pointer \cup {NoPointer}]]
  /\ tainted \in [Shim -> SUBSET Results]
  /\ op \in [Thread -> Call]
  /\ signed \in SUBSET Pointer
  /\ disturbed \in SUBSET Results

Init ==
  /\ ac = [a \in Action |-> NoPointer]
  /\ object = [n \in Results |-> Gone]
  /\ have = [s \in Shim |-> {}]
  /\ present = [s \in Shim |-> {}]
  /\ from = [s \in Shim |-> [b \in Blob |-> NoBundle]]
  /\ result = [s \in Shim |-> [a \in Action |-> NoPointer]]
  /\ tainted = [s \in Shim |-> {}]
  /\ op = [t \in Thread |-> Done("none")]
  /\ signed = {}
  /\ disturbed = {}

Finish(t, answer) == op' = [op EXCEPT ![t] = Done(answer)]
Goto(t, pc) == op' = [op EXCEPT ![t].pc = pc]
Release(t, pc) ==
  op' = [op EXCEPT ![t] = [@ EXCEPT !.pc = pc, !.key = NoBundle, !.lock = "no",
                                    !.got = {}, !.refill = FALSE]]

\* KeyedLocks: one thread of a shim at a time per table and bundle.
Free(t, table, n) ==
  \A u \in Thread \ {t} :
    ~(Home[u] = Home[t] /\ op[u].lock = table /\ op[u].key = n)

\* The store attributes the blobs of S to the bundle n.
Attribute(s, S, n) ==
  from' = [from EXCEPT ![s] = [b \in Blob |-> IF b \in S THEN n ELSE @[b]]]

-----------------------------------------------------------------------------
(* ActionCache.get                                                         *)

\* _kept answers from the store, else _fetch asks the bucket.
Lookup(t, a) ==
  LET kept == result[Home[t]][a]
  IN  /\ op[t].pc = "idle"
      /\ op' = [op EXCEPT ![t] =
           IF kept = NoPointer
           THEN [Done("none") EXCEPT !.pc = "fetch", !.action = a]
           ELSE [Done("none") EXCEPT !.pc = "ensure", !.action = a,
                                     !.want = kept.names]]
      /\ UNCHANGED <<bucket, stores, tainted, ghosts>>

\* Mutant: a signed pointer is taken whatever key it was found under.
TrustedMutant(a, pointer) == pointer # NoPointer

\* _trusted: the pointer is signed over this action.
Trusted(a, pointer) == pointer # NoPointer /\ pointer.action = a

FetchPointer(t) ==
  LET a == op[t].action
  IN  /\ op[t].pc = "fetch"
      /\ IF Trusted(a, ac[a])
         THEN op' = [op EXCEPT ![t] = [@ EXCEPT !.pc = "lockfetch",
                       !.want = ac[a].names, !.key = ac[a].names]]
         ELSE Finish(t, "miss")
      /\ UNCHANGED <<bucket, stores, tainted, ghosts>>

\* Under the lock of the bundle: what it names may all be here already.
Prove(t) ==
  /\ op[t].pc = "lockfetch"
  /\ Free(t, "fetching", op[t].key)
  /\ op' = [op EXCEPT ![t] =
       [@ EXCEPT !.lock = "fetching",
                 !.pc = IF op[t].want \subseteq have[Home[t]] THEN "link" ELSE "download"]]
  /\ UNCHANGED <<bucket, stores, tainted, ghosts>>

\* The result is kept, and when nothing was downloaded its blobs may know no
\* bundle yet.
Link(t) ==
  /\ op[t].pc = "link"
  /\ result' = [result EXCEPT ![Home[t]][op[t].action] =
                  [action |-> op[t].action, names |-> op[t].want]]
  /\ IF op[t].got = {} THEN Goto(t, "remember") ELSE Release(t, "ensure")
  /\ UNCHANGED <<bucket, have, present, from, tainted, ghosts>>

-----------------------------------------------------------------------------
(* Local.fetch_bundle and admit, for _fetch and for `ensure`.              *)

GiveUp(t) == IF op[t].refill THEN Release(t, "next") ELSE Finish(t, "miss")

\* A read that fails is answered like an object that is gone.
Download(t) ==
  /\ op[t].pc = "download"
  /\ \E got \in {object[op[t].key], Gone} :
       IF got = Gone THEN GiveUp(t)
       ELSE op' = [op EXCEPT ![t] = [@ EXCEPT !.pc = "judge", !.got = got]]
  /\ UNCHANGED <<bucket, stores, tainted, ghosts>>

\* _fetch takes a bundle that is exactly what the result names.
Proven(t) == op[t].got = op[t].key
\* Mutant: a refilled bundle is taken whole.
KnownMutant(t) == op[t].got
\* `ensure` takes from one what the store already attributes to it.
Known(t) == {b \in op[t].got : from[Home[t]][b] = op[t].key}

Refuse(t) ==
  /\ op[t].pc = "judge"
  /\ op[t].got = Unreadable \/ (~op[t].refill /\ ~Proven(t))
  /\ tainted' = [tainted EXCEPT ![Home[t]] = @ \cup {op[t].key}]
  /\ GiveUp(t)
  /\ UNCHANGED <<bucket, stores, ghosts>>

\* put_blobs: the files, then the rows.
AdmitFiles(t) ==
  /\ op[t].pc = "judge" /\ op[t].got # Unreadable
  /\ op[t].refill \/ Proven(t)
  /\ LET members == IF op[t].refill THEN Known(t) ELSE op[t].got
     IN  /\ have' = [have EXCEPT ![Home[t]] = @ \cup members]
         /\ op' = [op EXCEPT ![t] = [@ EXCEPT !.pc = "admit", !.got = members]]
  /\ UNCHANGED <<bucket, present, from, result, tainted, ghosts>>

AdmitRows(t) ==
  /\ op[t].pc = "admit"
  /\ Attribute(Home[t], op[t].got, op[t].key)
  /\ present' = [present EXCEPT ![Home[t]] = @ \cup op[t].got]
  /\ IF op[t].refill THEN Release(t, "next") ELSE Goto(t, "link")
  /\ UNCHANGED <<bucket, have, result, tainted, ghosts>>

-----------------------------------------------------------------------------
(* Local.ensure and Local.blob.                                            *)

\* What `ensure` says ends a lookup, or lets `blob` read the file.
Ensured(t, yes) ==
  IF op[t].action # NoAction THEN Finish(t, IF yes THEN "hit" ELSE "miss")
  ELSE IF yes THEN Goto(t, "read")
  ELSE Finish(t, "missing")

\* The missing blobs, by the bundle each arrived in.
Plans(t) ==
  LET s == Home[t]
      missing == op[t].want \ have[s]
      sources == {from[s][b] : b \in missing} \ {NoBundle}
  IN  {[name |-> n, needed |-> {b \in missing : from[s][b] = n}] : n \in sources}

Ensure(t) ==
  /\ op[t].pc = "ensure"
  /\ IF op[t].want \subseteq have[Home[t]]
     THEN Ensured(t, TRUE)
     ELSE op' = [op EXCEPT ![t] = [@ EXCEPT !.pc = "next", !.todo = Plans(t)]]
  /\ UNCHANGED <<bucket, stores, tainted, ghosts>>

\* The next bundle: another thread may have refilled it while this one waited.
Refill(t) ==
  /\ op[t].pc = "next"
  /\ \E p \in op[t].todo :
       /\ Free(t, "fetching", p.name)
       /\ op' = [op EXCEPT ![t] =
            IF p.needed \subseteq have[Home[t]]
            THEN [@ EXCEPT !.todo = op[t].todo \ {p}]
            ELSE [@ EXCEPT !.todo = op[t].todo \ {p}, !.pc = "download", !.key = p.name,
                           !.lock = "fetching", !.refill = TRUE]]
  /\ UNCHANGED <<bucket, stores, tainted, ghosts>>

Refilled(t) ==
  /\ op[t].pc = "next"
  /\ op[t].todo = {}
  /\ Ensured(t, op[t].want \subseteq have[Home[t]])
  /\ UNCHANGED <<bucket, stores, tainted, ghosts>>

\* batch_read and Read: no bytes after the first `ensure` get one more.
AskBlob(t, b) ==
  /\ op[t].pc = "idle"
  /\ op' = [op EXCEPT ![t] = [Done("none") EXCEPT !.pc = "ensure", !.want = {b}]]
  /\ UNCHANGED <<bucket, stores, tainted, ghosts>>

ReadBlob(t) ==
  /\ op[t].pc = "read"
  /\ IF op[t].want \subseteq have[Home[t]] THEN Finish(t, "bytes")
     ELSE IF op[t].retried THEN Finish(t, "missing")
     ELSE op' = [op EXCEPT ![t] = [@ EXCEPT !.pc = "ensure", !.retried = TRUE]]
  /\ UNCHANGED <<bucket, stores, tainted, ghosts>>

-----------------------------------------------------------------------------
(* batch_update, Write and ActionCache.update.                             *)

Accepting(s) == s \in Builders

Upload(t, S) ==
  /\ op[t].pc = "idle"
  /\ Accepting(Home[t])
  /\ have' = [have EXCEPT ![Home[t]] = @ \cup S]
  /\ present' = [present EXCEPT ![Home[t]] = @ \cup S]
  /\ Finish(t, "stored")
  /\ UNCHANGED <<bucket, from, result, tainted, ghosts>>

\* _prepare, the signature and put_result.
Update(t, a, S) ==
  LET pointer == [action |-> a, names |-> S]
  IN  /\ op[t].pc = "idle"
      /\ Accepting(Home[t])
      /\ S \subseteq have[Home[t]]
      /\ signed' = signed \cup {pointer}
      /\ result' = [result EXCEPT ![Home[t]][a] = pointer]
      /\ op' = [op EXCEPT ![t] = [Done("none") EXCEPT !.pc = "lockupload",
                  !.action = a, !.want = S, !.key = S]]
      /\ UNCHANGED <<bucket, have, present, from, tainted, disturbed>>

\* Re-dating a bundle that is there saves uploading it, unless it is tainted.
Shared(t) == op[t].key \notin tainted[Home[t]] /\ object[op[t].key] # Gone

\* Mutant: the lock is let go before the upload it is for.
RefreshMutant(t) ==
  /\ op[t].pc = "lockupload"
  /\ Free(t, "upload", op[t].key)
  /\ IF Shared(t) THEN Release(t, "point")
     ELSE IF op[t].want \subseteq have[Home[t]] THEN Goto(t, "put")
     ELSE Finish(t, "failed")
  /\ UNCHANGED <<bucket, stores, tainted, ghosts>>

\* Mutant: a second publisher assumes that the first will finish.
RefreshAheadMutant(t) ==
  /\ op[t].pc = "lockupload"
  /\ IF Shared(t) \/ ~Free(t, "upload", op[t].key) THEN Release(t, "point")
     ELSE IF op[t].want \subseteq have[Home[t]]
     THEN op' = [op EXCEPT ![t] = [@ EXCEPT !.pc = "put", !.lock = "upload"]]
     ELSE Finish(t, "failed")
  /\ UNCHANGED <<bucket, stores, tainted, ghosts>>

Refresh(t) ==
  /\ op[t].pc = "lockupload"
  /\ Free(t, "upload", op[t].key)
  /\ IF Shared(t) THEN Release(t, "point")
     ELSE IF op[t].want \subseteq have[Home[t]]
     THEN op' = [op EXCEPT ![t] = [@ EXCEPT !.pc = "put", !.lock = "upload"]]
     ELSE Finish(t, "failed")
  /\ UNCHANGED <<bucket, stores, tainted, ghosts>>

PutBundle(t) ==
  /\ op[t].pc = "put"
  /\ object' = [object EXCEPT ![op[t].key] = op[t].want]
  /\ tainted' = [tainted EXCEPT ![Home[t]] = @ \ {op[t].key}]
  /\ disturbed' = disturbed \ {op[t].key}
  /\ Release(t, "point")
  /\ UNCHANGED <<ac, stores, signed>>

PutPointer(t) ==
  /\ op[t].pc = "point"
  /\ ac' = [ac EXCEPT ![op[t].action] =
              [action |-> op[t].action, names |-> op[t].want]]
  /\ Goto(t, "remember")
  /\ UNCHANGED <<object, stores, tainted, ghosts>>

\* A request to the bucket that fails ends the publication where it is.
PublishFails(t) ==
  /\ op[t].pc \in {"lockupload", "put", "point"}
  /\ Finish(t, "failed")
  /\ UNCHANGED <<bucket, stores, tainted, ghosts>>

\* remember_all, at the end of a publication or with the fetching lock held.
Remember(t) ==
  /\ op[t].pc = "remember"
  /\ Attribute(Home[t], op[t].want, op[t].want)
  /\ IF op[t].lock = "fetching" THEN Release(t, "ensure") ELSE Finish(t, "stored")
  /\ UNCHANGED <<bucket, have, present, result, tainted, ghosts>>

-----------------------------------------------------------------------------
(* The stores, the processes and the bucket.                               *)

Evict(s, b) ==
  /\ b \in present[s]
  /\ have' = [have EXCEPT ![s] = @ \ {b}]
  /\ present' = [present EXCEPT ![s] = @ \ {b}]
  /\ UNCHANGED <<bucket, from, result, tainted, op, ghosts>>

\* Mutant: a row is forgotten whether or not the bytes are here.
ForgetBlobMutant(s, b) ==
  /\ from' = [from EXCEPT ![s][b] = NoBundle]
  /\ UNCHANGED <<bucket, have, present, result, tainted, op, ghosts>>

\* _evict_rows: of the blobs whose bytes are gone, and of the results.
ForgetBlob(s, b) ==
  /\ b \notin present[s]
  /\ from' = [from EXCEPT ![s][b] = NoBundle]
  /\ UNCHANGED <<bucket, have, present, result, tainted, op, ghosts>>

ForgetResult(s, a) ==
  /\ result' = [result EXCEPT ![s][a] = NoPointer]
  /\ UNCHANGED <<bucket, have, present, from, tainted, op, ghosts>>

\* _reconcile settles on what is both on disk and in the index; what was
\* tainted is not remembered.
Restart(s) ==
  LET both == have[s] \cap present[s]
  IN  /\ have' = [have EXCEPT ![s] = both]
      /\ present' = [present EXCEPT ![s] = both]
      /\ tainted' = [tainted EXCEPT ![s] = {}]
      /\ op' = [t \in Thread |-> IF Home[t] = s THEN Done("none") ELSE op[t]]
      /\ UNCHANGED <<bucket, from, result, ghosts>>

ExpirePointer(a) ==
  /\ ac' = [ac EXCEPT ![a] = NoPointer]
  /\ UNCHANGED <<object, stores, tainted, op, ghosts>>

\* A bundle expires, or comes to be something else than what it is named.
Disturb(n) ==
  /\ object[n] # Gone
  /\ \E what \in {Gone, Unreadable} \cup Results : object' = [object EXCEPT ![n] = what]
  /\ disturbed' = disturbed \cup {n}
  /\ UNCHANGED <<ac, stores, tainted, op, signed>>

\* A pointer turns up under another action's key.
Misfile(a, pointer) ==
  /\ pointer.action # a
  /\ ac' = [ac EXCEPT ![a] = pointer]
  /\ UNCHANGED <<object, stores, tainted, op, ghosts>>

Serve(t) ==
  \/ \E a \in Action : Lookup(t, a)
  \/ FetchPointer(t)
  \/ Prove(t)
  \/ Link(t)
  \/ Download(t)
  \/ Refuse(t)
  \/ AdmitFiles(t)
  \/ AdmitRows(t)
  \/ Ensure(t)
  \/ Refill(t)
  \/ Refilled(t)
  \/ \E b \in Blob : AskBlob(t, b)
  \/ ReadBlob(t)
  \/ \E S \in Results : Upload(t, S)
  \/ \E a \in Action, S \in Results : Update(t, a, S)
  \/ Refresh(t)
  \/ PutBundle(t)
  \/ PutPointer(t)
  \/ PublishFails(t)
  \/ Remember(t)

Environment ==
  \/ \E s \in Shim :
       \/ \E b \in Blob : Evict(s, b) \/ ForgetBlob(s, b)
       \/ \E a \in Action : ForgetResult(s, a)
       \/ Restart(s)
  \/ \E a \in Action : ExpirePointer(a) \/ \E p \in signed : Misfile(a, p)
  \/ \E n \in Results : Disturb(n)

Next == (\E t \in Thread : Serve(t)) \/ Environment

Spec == Init /\ [][Next]_vars

-----------------------------------------------------------------------------

\* A hit answers with a result some builder built for that very action,
\* however pointers are misfiled, bundles damaged, stores evicted or shims
\* restarted (_trusted, _kept).  `want` of the step that answers is the result.
HitIsAuthentic ==
  \A t \in Thread :
    op[t].action # NoAction /\ op[t].pc \in {"ensure", "next"}
      => [action |-> op[t].action, names |-> op[t].want] \in signed

\* What a store says about where a blob came from is true: the bundle it names
\* has that blob in it.  A damaged bundle never re-points another's blobs at
\* itself (Local.ensure, _proven).
AttributionSound ==
  \A s \in Shim, b \in Blob : from[s][b] # NoBundle => b \in from[s][b]

\* On a reader every blob on disk came in a bundle it can be fetched from
\* again after eviction, or is about to say so (Local, _evict_rows).
ReaderProvenance ==
  \A s \in Shim \ Builders : \A b \in have[s] :
    \/ from[s][b] # NoBundle
    \/ \E t \in Thread : Home[t] = s /\ op[t].pc = "admit" /\ b \in op[t].got

\* A pointer is never in the bucket ahead of its contents: the bundle it names
\* is there and right, unless the bucket lost or damaged it since the last
\* upload (_publish: the one ordering that can be seen as a broken hit).
PointerBacked ==
  \A a \in Action :
    Trusted(a, ac[a]) /\ ac[a].names \notin disturbed
      => object[ac[a].names] = ac[a].names

\* Two results that share a bundle do not both send it (_upload_lock).
UploadedOnce ==
  \A t, u \in Thread :
    t # u /\ op[t].pc = "put" /\ op[u].pc = "put" /\ Home[t] = Home[u]
      => op[t].key # op[u].key

\* A bundle that a shim has refused, and that is still not what it is named,
\* is uploaded by the next publication of it, not pointed at as it is
\* (docs/user/remote-cache.md:154).
RefusedIsReuploaded ==
  [][\A t \in Thread :
       op[t].pc = "lockupload" /\ op'[t].pc = "point"
         => \/ object[op[t].key] = op[t].key
            \/ \A s \in Shim : op[t].key \notin tainted[s]]_vars
=============================================================================
