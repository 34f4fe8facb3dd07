-------------------------- MODULE SharedCacheProofs --------------------------
(***************************************************************************)
(* What shims that share a bucket keep true (SharedCache.tla), for any     *)
(* number of shims, threads, results and blobs.                            *)
(***************************************************************************)
EXTENDS SharedCache, TLAPS

\* What a bundle is: right, or known to the bucket's history to have been disturbed.
Right(n) == n \in disturbed \/ object[n] = n

(***************************************************************************)
(* The inductive invariant                                                 *)
(***************************************************************************)
(* Where a call is says what it has in hand: a result that is being looked *)
(* up or published has been signed for its action; the bundle it is at is  *)
(* the one it names; and what it points at has been seen to be right.      *)
CallInv(o) ==
  /\ o.action # NoAction /\ o.pc # "fetch" => [action |-> o.action, names |-> o.want] \in signed
  /\ o.pc \in {"fetch", "lockfetch", "link", "lockupload", "put", "point", "remember"} => o.action \in Action
  /\ o.pc \in {"lockfetch", "link", "lockupload", "put"} => o.key = o.want
  /\ o.pc \in {"lockfetch", "link", "lockupload", "put", "point", "remember"} => o.want \in Results
  /\ o.pc \in {"download", "judge", "admit"} =>
       o.key \in Results /\ (~o.refill => o.action \in Action /\ o.key = o.want)
  /\ o.pc = "judge" => o.got # Gone
  /\ o.pc = "admit" => o.got \subseteq o.key
  /\ o.pc = "put" => o.lock = "upload"
  /\ o.pc \in {"idle", "fetch", "lockfetch", "ensure", "next", "read", "lockupload", "point"} => o.lock = "no"
  /\ o.pc = "point" => Right(o.want)

CallsInv == \A t \in Thread : CallInv(op[t])

\* KeyedLocks exclude one another.
LockInv ==
  \A t, u \in Thread :
    t # u /\ Home[t] = Home[u] /\ op[t].lock = op[u].lock /\ op[t].lock # "no" => op[t].key # op[u].key

\* Stores keep, and the bucket serves, only what was signed.
KeptInv ==
  \A s \in Shim, a \in Action : result[s][a] # NoPointer => result[s][a] \in signed /\ result[s][a].action = a
ServedInv == \A a \in Action : ac[a] # NoPointer => ac[a] \in signed

\* Nobody but the bucket makes a bundle other than it is named.
ObjectInv == \A n \in Results : object[n] # Gone => Right(n)

Admitting(s, b) == \E t \in Thread : Home[t] = s /\ op[t].pc = "admit" /\ b \in op[t].got

\* A file is counted, or a thread is about to count it.
FilesInv == \A s \in Shim : \A b \in have[s] : b \in present[s] \/ Admitting(s, b)

\* What a reader counts has come in a bundle.
ReaderInv == \A s \in Shim \ Builders : \A b \in present[s] : from[s][b] # NoBundle

IInv ==
  /\ TypeOK /\ CallsInv /\ LockInv /\ KeptInv /\ ServedInv /\ ObjectInv
  /\ FilesInv /\ ReaderInv /\ AttributionSound /\ PointerBacked

LEMMA InvariantImplies ==
  ASSUME IInv
  PROVE HitIsAuthentic /\ AttributionSound /\ ReaderProvenance /\ PointerBacked /\ UploadedOnce
<1>1. HitIsAuthentic
  BY DEF IInv, CallsInv, CallInv, HitIsAuthentic
<1>2. ReaderProvenance
  BY DEF IInv, FilesInv, ReaderInv, Admitting, ReaderProvenance
<1>3. UploadedOnce
  BY ZenonT(60) DEF IInv, CallsInv, CallInv, LockInv, UploadedOnce
<1> QED BY <1>1, <1>2, <1>3 DEF IInv

(***************************************************************************)
(* Records of calls                                                        *)
(***************************************************************************)
LEMMA DoneIsCall ==
  ASSUME NEW x \in Answers
  PROVE /\ Done(x) \in Call
        /\ Done(x).pc = "idle" /\ Done(x).action = NoAction /\ Done(x).lock = "no"
  BY DEF Done, Call, Steps

LEMMA OwnRecord ==
  ASSUME TypeOK, NEW t \in Thread, NEW r, op' = [op EXCEPT ![t] = r]
  PROVE op'[t] = r /\ op' = [op EXCEPT ![t] = op'[t]]
  BY DEF TypeOK

LEMMA FinishRecord ==
  ASSUME TypeOK, NEW t \in Thread, NEW x \in Answers, Finish(t, x)
  PROVE /\ op'[t] = Done(x) /\ op' = [op EXCEPT ![t] = op'[t]]
        /\ op'[t] \in Call /\ op'[t].lock = "no" /\ CallInv(op[t])'
<1>1. op'[t] = Done(x) /\ op' = [op EXCEPT ![t] = op'[t]]
  BY OwnRecord DEF Finish
<1>2. CallInv(op[t])'
  BY <1>1, DoneIsCall DEF CallInv
<1> QED BY <1>1, <1>2, DoneIsCall

LEMMA GotoRecord ==
  ASSUME TypeOK, NEW t \in Thread, NEW pc \in Steps, Goto(t, pc)
  PROVE /\ op' = [op EXCEPT ![t] = op'[t]] /\ op'[t] \in Call
        /\ op'[t] = [op[t] EXCEPT !.pc = pc]
  BY ZenonT(60) DEF TypeOK, Goto, Call

LEMMA ReleaseRecord ==
  ASSUME TypeOK, NEW t \in Thread, NEW pc \in Steps, Release(t, pc)
  PROVE /\ op' = [op EXCEPT ![t] = op'[t]] /\ op'[t] \in Call
        /\ op'[t].pc = pc /\ op'[t].lock = "no"
        /\ op'[t].action = op[t].action /\ op'[t].want = op[t].want
<1> DEFINE r == [op[t] EXCEPT !.pc = pc, !.key = NoBundle, !.lock = "no", !.got = {}, !.refill = FALSE]
<1>1. op[t] \in Call /\ op' = [op EXCEPT ![t] = r]
  BY DEF TypeOK, Release
<1>2. op'[t] = r /\ op' = [op EXCEPT ![t] = op'[t]]
  BY <1>1, OwnRecord
<1>3. r \in Call
  BY <1>1 DEF Call
<1>4. /\ r.pc = pc /\ r.lock = "no"
      /\ r.action = op[t].action /\ r.want = op[t].want
  BY <1>1 DEF Call
<1> QED BY <1>2, <1>3, <1>4

\* Nothing more is asked of a call that holds no bundle.
LEMMA RestingCall ==
  ASSUME NEW t \in Thread, signed \subseteq signed', CallInv(op[t]), op[t].pc # "fetch",
         op'[t].pc \in {"ensure", "next", "read"}, op'[t].lock = "no",
         op'[t].action = op[t].action, op'[t].want = op[t].want
  PROVE CallInv(op[t])'
  BY DEF CallInv

\* A step of one thread keeps the calls of all, when its own new record is right.
LEMMA CallStep ==
  ASSUME IInv, NEW t \in Thread, op' = [op EXCEPT ![t] = op'[t]], op'[t] \in Call, CallInv(op[t])',
         signed \subseteq signed',
         \A n \in Results : Right(n) => Right(n)',
         \/ op'[t].lock = "no"
         \/ op'[t].lock = op[t].lock /\ op'[t].key = op[t].key
         \/ Free(t, op'[t].lock, op'[t].key)
  PROVE op' \in [Thread -> Call] /\ CallsInv' /\ LockInv'
<1> USE DEF IInv
<1>1. op' \in [Thread -> Call] /\ \A u \in Thread \ {t} : op'[u] = op[u]
  BY DEF TypeOK
<1>2. ASSUME NEW u \in Thread \ {t} PROVE CallInv(op[u])'
  <2>1. CallInv(op[u]) /\ op'[u] = op[u]
    BY <1>1 DEF CallsInv
  <2> QED BY <2>1 DEF CallInv
<1>3. CallsInv'
  BY <1>2 DEF CallsInv
<1>4. LockInv'
  BY <1>1 DEF LockInv, Free
<1> QED BY <1>1, <1>3, <1>4

\* A step of one thread that touches only its call and leaves no blob uncounted.
LEMMA QuietStep ==
  ASSUME IInv, NEW t \in Thread, op' = [op EXCEPT ![t] = op'[t]], op'[t] \in Call, CallInv(op[t])',
         UNCHANGED <<bucket, stores, ghosts>>, tainted' \in [Shim -> SUBSET Results],
         op[t].pc # "admit",
         \/ op'[t].lock = "no"
         \/ op'[t].lock = op[t].lock /\ op'[t].key = op[t].key
         \/ Free(t, op'[t].lock, op'[t].key)
  PROVE IInv'
<1>1. UNCHANGED <<ac, object, have, present, from, result, signed, disturbed>>
  BY DEF bucket, stores, ghosts
<1>2. \A n \in Results : Right(n) => Right(n)'
  BY <1>1 DEF Right
<1>3. op' \in [Thread -> Call] /\ CallsInv' /\ LockInv'
  BY <1>1, <1>2, CallStep
<1>4. TypeOK'
  BY <1>1, <1>3 DEF IInv, TypeOK
<1>5. KeptInv' /\ ServedInv' /\ ObjectInv' /\ ReaderInv' /\ AttributionSound' /\ PointerBacked'
  BY <1>1 DEF IInv, KeptInv, ServedInv, ObjectInv, ReaderInv, AttributionSound, PointerBacked, Right, Trusted
<1>6. FilesInv'
  <2>1. ASSUME NEW s \in Shim, NEW b, Admitting(s, b) PROVE Admitting(s, b)'
    BY <2>1 DEF Admitting, IInv, TypeOK
  <2> QED BY <1>1, <2>1 DEF FilesInv, IInv
<1> QED BY <1>3, <1>4, <1>5, <1>6 DEF IInv

(***************************************************************************)
(* Looking up and refilling                                                *)
(***************************************************************************)
LEMMA LookupKeeps ==
  ASSUME IInv, NEW t \in Thread, NEW a \in Action, Lookup(t, a) PROVE IInv'
<1> DEFINE kept == result[Home[t]][a]
           r == IF kept = NoPointer
                THEN [Done("none") EXCEPT !.pc = "fetch", !.action = a]
                ELSE [Done("none") EXCEPT !.pc = "ensure", !.action = a, !.want = kept.names]
<1>1. Home[t] \in Shim /\ kept \in Pointer \cup {NoPointer} /\ TypeOK
  BY HomeAssumption DEF IInv, TypeOK
<1>2. /\ op[t].pc = "idle" /\ UNCHANGED <<bucket, stores, ghosts>> /\ UNCHANGED tainted
      /\ op' = [op EXCEPT ![t] = r]
  BY DEF Lookup
<1>3. op'[t] = r /\ op' = [op EXCEPT ![t] = op'[t]]
  BY <1>1, <1>2, OwnRecord, ZenonT(60)
<1>4. r \in Call /\ r.lock = "no"
  BY <1>1, ResultsAssumption DEF Done, Call, Steps, Answers, Pointer
<1>5. CallInv(op[t])'
  <2>1. CASE kept = NoPointer
    BY <1>3, <2>1 DEF CallInv, Done
  <2>2. CASE kept # NoPointer
    <3>1. kept \in signed /\ kept.action = a /\ kept \in Pointer
      BY <1>1, <2>2 DEF IInv, KeptInv
    <3>2. [action |-> a, names |-> kept.names] = kept
      BY <3>1 DEF Pointer
    <3>3. signed' = signed
      BY <1>2 DEF ghosts
    <3>4. r.pc = "ensure" /\ r.action = a /\ r.want = kept.names /\ r.lock = "no"
      BY <2>2 DEF Done
    <3> HIDE DEF kept, r
    <3> QED BY <1>3, <3>1, <3>2, <3>3, <3>4 DEF CallInv
  <2> QED BY <2>1, <2>2
<1> HIDE DEF kept, r
<1> QED BY <1>1, <1>2, <1>3, <1>4, <1>5, QuietStep DEF TypeOK

LEMMA FetchPointerKeeps ==
  ASSUME IInv, NEW t \in Thread, FetchPointer(t) PROVE IInv'
<1> DEFINE o == op[t]
           a == op[t].action
           r == [o EXCEPT !.pc = "lockfetch", !.want = ac[a].names, !.key = ac[a].names]
<1>1. TypeOK /\ o \in Call /\ o.pc = "fetch" /\ CallInv(o) /\ a \in Action /\ tainted' \in [Shim -> SUBSET Results]
  BY DEF FetchPointer, IInv, TypeOK, CallsInv, CallInv
<1>2. UNCHANGED <<bucket, stores, ghosts>>
  BY DEF FetchPointer
<1>3. CASE Trusted(a, ac[a])
  <2>1. ac[a] \in Pointer /\ ac[a] \in signed /\ ac[a].action = a
    BY <1>1, <1>3 DEF Trusted, IInv, TypeOK, ServedInv
  <2>2. ac[a].names \in Results /\ [action |-> a, names |-> ac[a].names] = ac[a]
    BY <2>1 DEF Pointer
  <2>3. op' = [op EXCEPT ![t] = r]
    BY <1>3 DEF FetchPointer
  <2>4. op'[t] = r /\ op' = [op EXCEPT ![t] = op'[t]]
    BY <1>1, <2>3, OwnRecord
  <2>5. /\ r \in Call /\ r.lock = "no" /\ r.pc = "lockfetch" /\ r.action = a
        /\ r.want = ac[a].names /\ r.key = ac[a].names
    BY <1>1, <2>2, ResultsAssumption DEF Call, Steps, CallInv
  <2>6. signed' = signed
    BY <1>2 DEF ghosts
  <2> HIDE DEF o, r
  <2>7. CallInv(op[t])'
    BY <1>1, <2>1, <2>2, <2>4, <2>5, <2>6 DEF CallInv
  <2> QED BY <1>1, <1>2, <2>4, <2>5, <2>7, QuietStep DEF o
<1>4. CASE ~Trusted(a, ac[a])
  <2>1. Finish(t, "miss")
    BY <1>4 DEF FetchPointer
  <2> QED BY <1>1, <1>2, <2>1, FinishRecord, QuietStep DEF Answers
<1> QED BY <1>3, <1>4

LEMMA ProveKeeps ==
  ASSUME IInv, NEW t \in Thread, Prove(t) PROVE IInv'
<1> DEFINE o == op[t]
           r == [o EXCEPT !.lock = "fetching",
                          !.pc = IF o.want \subseteq have[Home[t]] THEN "link" ELSE "download"]
<1>1. TypeOK /\ o \in Call /\ o.pc = "lockfetch" /\ CallInv(o) /\ tainted' \in [Shim -> SUBSET Results]
  BY DEF Prove, IInv, TypeOK, CallsInv
<1>2. UNCHANGED <<bucket, stores, ghosts>> /\ Free(t, "fetching", o.key) /\ op' = [op EXCEPT ![t] = r]
  BY DEF Prove
<1>3. op'[t] = r /\ op' = [op EXCEPT ![t] = op'[t]]
  BY <1>1, <1>2, OwnRecord, ZenonT(60)
<1>4. /\ r \in Call /\ r.lock = "fetching" /\ r.pc \in {"link", "download"}
      /\ r.action = o.action /\ r.want = o.want /\ r.key = o.key
  BY <1>1 DEF Call, Steps
<1> HIDE DEF o, r
<1>5. CallInv(op[t])'
  BY <1>1, <1>2, <1>3, <1>4 DEF CallInv, ghosts
<1> QED BY <1>1, <1>2, <1>3, <1>4, <1>5, QuietStep DEF o

LEMMA GiveUpCall ==
  ASSUME IInv, NEW t \in Thread, op[t].pc \in {"download", "judge"}, GiveUp(t), signed' = signed
  PROVE /\ op' = [op EXCEPT ![t] = op'[t]] /\ op'[t] \in Call
        /\ op'[t].lock = "no" /\ CallInv(op[t])'
<1>1. TypeOK /\ CallInv(op[t])
  BY DEF IInv, CallsInv
<1>2. CASE op[t].refill
  BY <1>1, <1>2, ReleaseRecord, RestingCall DEF GiveUp, Steps
<1>3. CASE ~op[t].refill
  BY <1>1, <1>3, FinishRecord DEF GiveUp, Answers
<1> QED BY <1>2, <1>3

LEMMA DownloadKeeps ==
  ASSUME IInv, NEW t \in Thread, Download(t) PROVE IInv'
<1> DEFINE o == op[t]
<1>1. TypeOK /\ o \in Call /\ o.pc = "download" /\ CallInv(o) /\ tainted' \in [Shim -> SUBSET Results]
  BY DEF Download, IInv, TypeOK, CallsInv
<1>2. UNCHANGED <<bucket, stores, ghosts>> /\ signed' = signed
  BY DEF Download, ghosts
<1>3. CASE GiveUp(t)
  BY <1>1, <1>2, <1>3, GiveUpCall, QuietStep
<1>4. CASE ~GiveUp(t)
  <2> PICK got \in {object[o.key], Gone} :
        got # Gone /\ op' = [op EXCEPT ![t] = [@ EXCEPT !.pc = "judge", !.got = got]]
    BY <1>4 DEF Download
  <2> DEFINE r == [o EXCEPT !.pc = "judge", !.got = got]
  <2>1. op' = [op EXCEPT ![t] = r]
    OBVIOUS
  <2>2. op'[t] = r /\ op' = [op EXCEPT ![t] = op'[t]]
    BY <1>1, <2>1, OwnRecord
  <2>3. got \in {Gone, Unreadable} \cup SUBSET Blob
    BY <1>1 DEF CallInv, TypeOK
  <2>4. /\ r \in Call /\ r.lock = o.lock /\ r.pc = "judge" /\ r.got = got /\ (r.refill <=> o.refill)
        /\ r.action = o.action /\ r.want = o.want /\ r.key = o.key
    BY <1>1, <2>3 DEF Call, Steps
  <2> HIDE DEF o, r
  <2>7. /\ o.action # NoAction => [action |-> o.action, names |-> o.want] \in signed'
        /\ o.key \in Results /\ (~o.refill => o.action \in Action /\ o.key = o.want)
    BY <1>1, <1>2 DEF CallInv
  <2>5. CallInv(op[t])'
    BY <2>2, <2>4, <2>7 DEF CallInv
  <2>6. /\ op[t].pc # "admit" /\ op'[t] \in Call
        /\ op'[t].lock = op[t].lock /\ op'[t].key = op[t].key
    BY <1>1, <2>2, <2>4 DEF o
  <2> QED BY <1>1, <1>2, <2>2, <2>5, <2>6, QuietStep
<1> QED BY <1>3, <1>4

LEMMA RefuseKeeps ==
  ASSUME IInv, NEW t \in Thread, Refuse(t) PROVE IInv'
<1>1. Home[t] \in Shim /\ op[t].pc = "judge" /\ op[t].key \in Results
  BY HomeAssumption DEF Refuse, IInv, CallsInv, CallInv
<1>2. UNCHANGED <<bucket, stores, ghosts>> /\ signed' = signed /\ GiveUp(t)
  BY DEF Refuse, ghosts
<1>3. tainted' \in [Shim -> SUBSET Results]
  BY <1>1 DEF Refuse, IInv, TypeOK
<1> QED BY <1>1, <1>2, <1>3, GiveUpCall, QuietStep

\* What `ensure` ends in.
LEMMA EnsuredCall ==
  ASSUME IInv, NEW t \in Thread, op[t].pc \in {"ensure", "next"}, NEW yes \in BOOLEAN, Ensured(t, yes),
         signed' = signed
  PROVE /\ op' = [op EXCEPT ![t] = op'[t]] /\ op'[t] \in Call
        /\ op'[t].lock = "no" /\ CallInv(op[t])'
<1>1. TypeOK /\ CallInv(op[t]) /\ op[t] \in Call
  BY DEF IInv, CallsInv, TypeOK
<1>2. CASE \E x \in Answers : Finish(t, x)
  BY <1>1, <1>2, FinishRecord
<1>3. CASE Goto(t, "read")
  <2>1. op' = [op EXCEPT ![t] = op'[t]] /\ op'[t] \in Call /\ op'[t] = [op[t] EXCEPT !.pc = "read"]
    BY <1>1, <1>3, GotoRecord DEF Steps
  <2>2. /\ op'[t].pc = "read" /\ op'[t].lock = op[t].lock
        /\ op'[t].action = op[t].action /\ op'[t].want = op[t].want
    BY <1>1, <2>1 DEF Call
  <2>3. op[t].lock = "no"
    BY <1>1 DEF CallInv
  <2> QED BY <1>1, <2>1, <2>2, <2>3, RestingCall
<1> QED BY <1>2, <1>3 DEF Ensured, Answers

LEMMA EnsureKeeps ==
  ASSUME IInv, NEW t \in Thread, Ensure(t) PROVE IInv'
<1> DEFINE o == op[t]
           s == Home[t]
           r == [o EXCEPT !.pc = "next", !.todo = Plans(t)]
<1>1. /\ TypeOK /\ o \in Call /\ o.pc = "ensure" /\ CallInv(o) /\ s \in Shim
      /\ tainted' \in [Shim -> SUBSET Results]
  BY HomeAssumption DEF Ensure, IInv, TypeOK, CallsInv
<1>2. UNCHANGED <<bucket, stores, ghosts>> /\ signed' = signed
  BY DEF Ensure, ghosts
<1>3. CASE o.want \subseteq have[s]
  <2>1. Ensured(t, TRUE)
    BY <1>3 DEF Ensure
  <2> QED BY <1>1, <1>2, <2>1, TRUE \in BOOLEAN, EnsuredCall, QuietStep
<1>4. CASE ~(o.want \subseteq have[s])
  <2>1. op' = [op EXCEPT ![t] = r]
    BY <1>4 DEF Ensure
  <2>2. op'[t] = r /\ op' = [op EXCEPT ![t] = op'[t]]
    BY <1>1, <2>1, OwnRecord
  <2>3. Plans(t) \subseteq Plan
    BY <1>1 DEF Plans, Plan, TypeOK, Call
  <2>4. /\ r \in Call /\ r.lock = o.lock /\ r.pc = "next" /\ r.action = o.action /\ r.want = o.want
    BY <1>1, <2>3 DEF Call, Steps
  <2>5. r.lock = "no"
    BY <1>1, <2>4 DEF CallInv
  <2> HIDE DEF r
  <2> QED BY <1>1, <1>2, <2>2, <2>4, <2>5, RestingCall, QuietStep
<1> QED BY <1>3, <1>4

LEMMA RefillKeeps ==
  ASSUME IInv, NEW t \in Thread, Refill(t) PROVE IInv'
<1> DEFINE o == op[t]
<1>1. TypeOK /\ o \in Call /\ o.pc = "next" /\ CallInv(o) /\ tainted' \in [Shim -> SUBSET Results]
  BY DEF Refill, IInv, TypeOK, CallsInv
<1>2. UNCHANGED <<bucket, stores, ghosts>> /\ signed' = signed
  BY DEF Refill, ghosts
<1> PICK p \in o.todo :
      /\ Free(t, "fetching", p.name)
      /\ op' = [op EXCEPT ![t] =
            IF p.needed \subseteq have[Home[t]]
            THEN [@ EXCEPT !.todo = op[t].todo \ {p}]
            ELSE [@ EXCEPT !.todo = op[t].todo \ {p}, !.pc = "download", !.key = p.name,
                           !.lock = "fetching", !.refill = TRUE]]
  BY DEF Refill
<1> DEFINE rest == [o EXCEPT !.todo = o.todo \ {p}]
           next == [o EXCEPT !.todo = o.todo \ {p}, !.pc = "download", !.key = p.name,
                             !.lock = "fetching", !.refill = TRUE]
           r == IF p.needed \subseteq have[Home[t]] THEN rest ELSE next
<1>3. o.lock = "no" /\ p.name \in Results
  BY <1>1 DEF CallInv, Call, Plan
<1>4. op' = [op EXCEPT ![t] = r]
  OBVIOUS
<1>5. op'[t] = r /\ op' = [op EXCEPT ![t] = op'[t]]
  BY <1>1, <1>4, OwnRecord, ZenonT(60)
<1>6. CASE r = rest
  <2>1. rest \in Call /\ rest.lock = "no" /\ rest.pc = "next" /\ rest.action = o.action /\ rest.want = o.want
    BY <1>1, <1>3 DEF Call
  <2> HIDE DEF rest, r
  <2> QED BY <1>1, <1>2, <1>5, <1>6, <2>1, RestingCall, QuietStep, ZenonT(60)
<1>7. CASE r = next
  <2>1. /\ next \in Call /\ next.lock = "fetching" /\ next.pc = "download" /\ next.action = o.action
        /\ next.want = o.want /\ next.key = p.name /\ next.refill
    BY <1>1, <1>3 DEF Call, Steps
  <2> HIDE DEF next, r
  <2>2. CallInv(op[t])'
    BY <1>1, <1>2, <1>3, <1>5, <1>7, <2>1 DEF CallInv
  <2>3. op[t].pc # "admit" /\ op'[t] \in Call /\ op'[t].lock = "fetching" /\ op'[t].key = p.name
    BY <1>1, <1>5, <1>7, <2>1
  <2> QED BY <1>1, <1>2, <1>5, <2>2, <2>3, QuietStep
<1> QED BY <1>6, <1>7

LEMMA RefilledKeeps ==
  ASSUME IInv, NEW t \in Thread, Refilled(t) PROVE IInv'
<1>1. UNCHANGED <<bucket, stores, ghosts>> /\ signed' = signed /\ op[t].pc = "next"
  BY DEF Refilled, ghosts
<1>2. PICK yes \in BOOLEAN : Ensured(t, yes)
  BY DEF Refilled
<1>3. tainted' \in [Shim -> SUBSET Results]
  BY DEF Refilled, IInv, TypeOK
<1> QED BY <1>1, <1>2, <1>3, EnsuredCall, QuietStep

LEMMA ReadKeeps ==
  ASSUME IInv, NEW t \in Thread, ReadBlob(t) \/ \E b \in Blob : AskBlob(t, b) PROVE IInv'
<1> DEFINE o == op[t]
<1>1. /\ TypeOK /\ o \in Call /\ o.pc \in {"idle", "read"} /\ CallInv(o)
      /\ tainted' \in [Shim -> SUBSET Results]
  BY DEF ReadBlob, AskBlob, IInv, TypeOK, CallsInv
<1>2. UNCHANGED <<bucket, stores, ghosts>> /\ signed' = signed
  BY DEF ReadBlob, AskBlob, ghosts
<1>3. CASE \E x \in Answers : Finish(t, x)
  BY <1>1, <1>2, <1>3, FinishRecord, QuietStep
<1>4. CASE \E b \in Blob : AskBlob(t, b)
  <2> PICK b \in Blob : AskBlob(t, b)
    BY <1>4
  <2> DEFINE r == [Done("none") EXCEPT !.pc = "ensure", !.want = {b}]
  <2>1. op'[t] = r /\ op' = [op EXCEPT ![t] = op'[t]]
    BY <1>1, OwnRecord DEF AskBlob
  <2>2. r \in Call /\ r.pc = "ensure" /\ r.action = NoAction /\ r.lock = "no"
    BY DEF Done, Call, Steps, Answers
  <2> HIDE DEF r
  <2>3. CallInv(op[t])'
    BY <2>1, <2>2 DEF CallInv
  <2> QED BY <1>1, <1>2, <2>1, <2>2, <2>3, QuietStep
<1>5. CASE ReadBlob(t) /\ ~\E x \in Answers : Finish(t, x)
  <2> DEFINE r == [o EXCEPT !.pc = "ensure", !.retried = TRUE]
  <2>1. op' = [op EXCEPT ![t] = r] /\ o.pc = "read"
    BY <1>5 DEF ReadBlob, Answers
  <2>2. op'[t] = r /\ op' = [op EXCEPT ![t] = op'[t]]
    BY <1>1, <2>1, OwnRecord
  <2>3. r \in Call /\ r.lock = o.lock /\ r.pc = "ensure" /\ r.action = o.action /\ r.want = o.want
    BY <1>1 DEF Call, Steps
  <2>4. o.lock = "no"
    BY <1>1, <2>1 DEF CallInv
  <2> HIDE DEF r
  <2> QED BY <1>1, <1>2, <2>1, <2>2, <2>3, <2>4, RestingCall, QuietStep
<1> QED BY <1>3, <1>4, <1>5

LEMMA RefreshKeeps ==
  ASSUME IInv, NEW t \in Thread, Refresh(t) \/ PublishFails(t) PROVE IInv'
<1> DEFINE o == op[t]
<1>1. /\ TypeOK /\ o \in Call /\ o.pc \in {"lockupload", "put", "point"} /\ CallInv(o)
      /\ tainted' \in [Shim -> SUBSET Results]
  BY DEF Refresh, PublishFails, IInv, TypeOK, CallsInv
<1>2. UNCHANGED <<bucket, stores, ghosts>> /\ signed' = signed /\ disturbed' = disturbed /\ object' = object
  BY DEF Refresh, PublishFails, ghosts, bucket
<1>3. CASE Finish(t, "failed")
  BY <1>1, <1>2, <1>3, FinishRecord, QuietStep DEF Answers
<1>4. CASE Refresh(t) /\ Shared(t)
  <2>1. Release(t, "point") /\ o.pc = "lockupload" /\ object[o.key] # Gone
    BY <1>4 DEF Refresh, Shared
  <2>2. o.key = o.want /\ o.want \in Results /\ o.action \in Action
    BY <1>1, <2>1 DEF CallInv
  <2>3. Right(o.want)
    BY <2>1, <2>2 DEF IInv, ObjectInv
  <2>4. /\ op' = [op EXCEPT ![t] = op'[t]] /\ op'[t] \in Call
        /\ op'[t].pc = "point" /\ op'[t].lock = "no"
        /\ op'[t].action = o.action /\ op'[t].want = o.want
    BY <1>1, <2>1, ReleaseRecord DEF Steps
  <2>5. CallInv(op[t])'
    BY <1>1, <1>2, <2>1, <2>2, <2>3, <2>4 DEF CallInv, Right
  <2> QED BY <1>1, <1>2, <2>4, <2>5, QuietStep
<1>5. CASE Refresh(t) /\ ~Shared(t) /\ ~Finish(t, "failed")
  <2> DEFINE r == [o EXCEPT !.pc = "put", !.lock = "upload"]
  <2>1. op' = [op EXCEPT ![t] = r] /\ o.pc = "lockupload" /\ Free(t, "upload", o.key)
    BY <1>5 DEF Refresh
  <2>2. op'[t] = r /\ op' = [op EXCEPT ![t] = op'[t]]
    BY <1>1, <2>1, OwnRecord
  <2>3. /\ r \in Call /\ r.lock = "upload" /\ r.pc = "put" /\ r.action = o.action
        /\ r.want = o.want /\ r.key = o.key
    BY <1>1 DEF Call, Steps
  <2> HIDE DEF r
  <2>4. CallInv(op[t])'
    BY <1>1, <1>2, <2>1, <2>2, <2>3 DEF CallInv
  <2> QED BY <1>1, <1>2, <2>1, <2>2, <2>3, <2>4, QuietStep
<1> QED BY <1>3, <1>4, <1>5 DEF PublishFails

(***************************************************************************)
(* Steps that change a store or the bucket                                 *)
(***************************************************************************)
\* A file that is about to be counted stays so while other threads go on.
LEMMA AdmittingStays ==
  ASSUME NEW t \in Thread, TypeOK, op' = [op EXCEPT ![t] = op'[t]], op[t].pc # "admit",
         NEW s \in Shim, NEW b, Admitting(s, b)
  PROVE Admitting(s, b)'
  BY DEF Admitting, TypeOK

LEMMA LinkKeeps ==
  ASSUME IInv, NEW t \in Thread, Link(t) PROVE IInv'
<1> DEFINE o == op[t]
           s == Home[t]
           pointer == [action |-> o.action, names |-> o.want]
<1>1. TypeOK /\ o \in Call /\ o.pc = "link" /\ CallInv(o) /\ s \in Shim
  BY HomeAssumption DEF Link, IInv, TypeOK, CallsInv
<1>2. UNCHANGED <<ac, object, have, present, from, tainted, signed, disturbed>>
  BY DEF Link, bucket, ghosts
<1>3. o.action \in Action /\ o.action # NoAction /\ o.want \in Results
  BY <1>1, NoneAssumption DEF CallInv
<1>4. pointer \in signed /\ pointer \in Pointer
  BY <1>1, <1>3 DEF CallInv, Pointer
<1>5. /\ op' = [op EXCEPT ![t] = op'[t]] /\ op'[t] \in Call /\ CallInv(op[t])'
      /\ \/ op'[t].lock = "no"
         \/ op'[t].lock = o.lock /\ op'[t].key = o.key
  <2>1. CASE Goto(t, "remember")
    <3>1. op' = [op EXCEPT ![t] = op'[t]] /\ op'[t] \in Call /\ op'[t] = [o EXCEPT !.pc = "remember"]
      BY <1>1, <2>1, GotoRecord DEF Steps
    <3>2. /\ op'[t].pc = "remember" /\ op'[t].lock = o.lock /\ op'[t].key = o.key
          /\ op'[t].action = o.action /\ op'[t].want = o.want
      BY <1>1, <3>1 DEF Call
    <3> HIDE DEF o
    <3> QED BY <1>1, <1>2, <1>3, <1>4, <3>1, <3>2 DEF CallInv
  <2>2. CASE Release(t, "ensure")
    BY <1>1, <1>2, <2>2, ReleaseRecord, RestingCall DEF Steps
  <2> QED BY <2>1, <2>2 DEF Link
<1>6. \A n \in Results : Right(n) => Right(n)'
  BY <1>2 DEF Right
<1>7. op' \in [Thread -> Call] /\ CallsInv' /\ LockInv'
  BY <1>2, <1>5, <1>6, CallStep
<1>8. result' = [result EXCEPT ![s][o.action] = pointer]
  BY DEF Link
<1> HIDE DEF pointer, o
<1>9. TypeOK'
  <2>1. result' \in [Shim -> [Action -> Pointer \cup {NoPointer}]]
    BY <1>1, <1>3, <1>4, <1>8 DEF TypeOK
  <2> QED BY <1>2, <1>7, <2>1 DEF IInv, TypeOK
<1>10. KeptInv'
  <2>1. pointer.action = o.action
    BY DEF pointer
  <2>2. \A x \in Shim, a \in Action :
          result'[x][a] = IF x = s /\ a = o.action THEN pointer ELSE result[x][a]
    BY <1>1, <1>3, <1>8 DEF TypeOK
  <2> HIDE DEF s
  <2> QED BY <1>2, <1>4, <2>1, <2>2 DEF KeptInv, IInv
<1>11. ServedInv' /\ ObjectInv' /\ ReaderInv' /\ AttributionSound' /\ PointerBacked'
  BY <1>2 DEF IInv, ServedInv, ObjectInv, ReaderInv, AttributionSound, PointerBacked, Right, Trusted
<1>12. FilesInv'
  BY <1>1, <1>2, <1>5, AdmittingStays DEF FilesInv, IInv, o
<1> QED BY <1>7, <1>9, <1>10, <1>11, <1>12 DEF IInv

LEMMA AdmitFilesKeeps ==
  ASSUME IInv, NEW t \in Thread, AdmitFiles(t) PROVE IInv'
<1> DEFINE o == op[t]
           s == Home[t]
           members == IF o.refill THEN Known(t) ELSE o.got
           r == [o EXCEPT !.pc = "admit", !.got = members]
<1>1. TypeOK /\ o \in Call /\ o.pc = "judge" /\ CallInv(o) /\ s \in Shim /\ o.got # Unreadable
  BY HomeAssumption DEF AdmitFiles, IInv, TypeOK, CallsInv
<1>2. /\ UNCHANGED <<ac, object, present, from, result, tainted, signed, disturbed>>
      /\ have' = [have EXCEPT ![s] = @ \cup members] /\ op' = [op EXCEPT ![t] = r]
  BY DEF AdmitFiles, bucket, ghosts
<1>3. o.key \in Results /\ o.key \subseteq Blob
  BY <1>1, ResultsAssumption DEF CallInv
<1>4. members \subseteq o.key
  <2>1. CASE o.refill
    <3>1. Known(t) = {b \in o.got : from[s][b] = o.key}
      BY DEF Known
    <3>2. ASSUME NEW b \in o.got, from[s][b] = o.key, b \in Blob PROVE b \in o.key
      BY <1>1, <1>3, <3>2, NoneAssumption DEF IInv, AttributionSound
    <3>3. o.got \subseteq Blob \/ o.got = Gone
      BY <1>1 DEF Call
    <3>4. o.got \subseteq Blob
      BY <1>1, <3>3 DEF CallInv
    <3> QED BY <2>1, <3>1, <3>2, <3>4
  <2>2. CASE ~o.refill
    BY <2>2 DEF AdmitFiles, Proven
  <2> QED BY <2>1, <2>2
<1> HIDE DEF members
<1>5. op'[t] = r /\ op' = [op EXCEPT ![t] = op'[t]]
  BY <1>1, <1>2, OwnRecord
<1>6. /\ r \in Call /\ r.pc = "admit" /\ r.got = members /\ (r.refill <=> o.refill) /\ r.lock = o.lock
      /\ r.key = o.key /\ r.action = o.action /\ r.want = o.want
  BY <1>1, <1>3, <1>4 DEF Call, Steps
<1> HIDE DEF r
<1>7. CallInv(op[t])'
  <2>1. /\ o.action # NoAction => [action |-> o.action, names |-> o.want] \in signed'
        /\ ~o.refill => o.action \in Action /\ o.key = o.want
    BY <1>1, <1>2 DEF CallInv
  <2> HIDE DEF o
  <2> QED BY <1>3, <1>4, <1>5, <1>6, <2>1 DEF CallInv
<1>8. \A n \in Results : Right(n) => Right(n)'
  BY <1>2 DEF Right
<1>9. op' \in [Thread -> Call] /\ CallsInv' /\ LockInv'
  BY <1>2, <1>5, <1>6, <1>7, <1>8, CallStep
<1>10. TypeOK'
  <2>1. have' \in [Shim -> SUBSET Blob]
    BY <1>1, <1>2, <1>3, <1>4 DEF TypeOK
  <2> QED BY <1>2, <1>9, <2>1 DEF IInv, TypeOK
<1>11. KeptInv' /\ ServedInv' /\ ObjectInv' /\ ReaderInv' /\ AttributionSound' /\ PointerBacked'
  BY <1>2 DEF IInv, KeptInv, ServedInv, ObjectInv, ReaderInv, AttributionSound, PointerBacked, Right, Trusted
<1>12. FilesInv'
  <2>1. ASSUME NEW x \in Shim, NEW b \in have'[x] PROVE b \in present'[x] \/ Admitting(x, b)'
    <3>1. CASE b \in have[x]
      BY <1>1, <1>2, <1>5, <3>1, AdmittingStays DEF FilesInv, IInv
    <3>2. CASE b \notin have[x]
      <4>1. x = s /\ b \in members
        BY <1>1, <1>2, <2>1, <3>2 DEF TypeOK
      <4> QED BY <1>5, <1>6, <4>1 DEF Admitting
    <3> QED BY <3>1, <3>2
  <2> QED BY <2>1 DEF FilesInv
<1> QED BY <1>9, <1>10, <1>11, <1>12 DEF IInv

\* Attributing blobs to a bundle that has them.
LEMMA AttributeSound ==
  ASSUME IInv, NEW s \in Shim, NEW n \in Results, NEW S \in SUBSET n, Attribute(s, S, n)
  PROVE /\ from' \in [Shim -> [Blob -> Results \cup {NoBundle}]]
        /\ AttributionSound'
        /\ \A x \in Shim, b \in Blob : from'[x][b] = IF x = s /\ b \in S THEN n ELSE from[x][b]
        /\ \A x \in Shim, b \in Blob : from[x][b] # NoBundle => from'[x][b] # NoBundle
<1> DEFINE row == [b \in Blob |-> IF b \in S THEN n ELSE from[s][b]]
<1>1. from' = [from EXCEPT ![s] = row]
  BY DEF Attribute
<1>2. from \in [Shim -> [Blob -> Results \cup {NoBundle}]] /\ row \in [Blob -> Results \cup {NoBundle}]
  BY DEF IInv, TypeOK
<1>3. \A b \in Blob : row[b] = IF b \in S THEN n ELSE from[s][b]
  OBVIOUS
<1> HIDE DEF row
<1>4. from' \in [Shim -> [Blob -> Results \cup {NoBundle}]]
  BY <1>1, <1>2
<1>5. \A x \in Shim, b \in Blob : from'[x][b] = IF x = s /\ b \in S THEN n ELSE from[x][b]
  BY <1>1, <1>2, <1>3
<1> QED BY <1>4, <1>5, NoneAssumption DEF IInv, AttributionSound

LEMMA AdmitRowsKeeps ==
  ASSUME IInv, NEW t \in Thread, AdmitRows(t) PROVE IInv'
<1> DEFINE o == op[t]
           s == Home[t]
<1>1. TypeOK /\ o \in Call /\ o.pc = "admit" /\ CallInv(o) /\ s \in Shim
  BY HomeAssumption DEF AdmitRows, IInv, TypeOK, CallsInv
<1>2. /\ UNCHANGED <<ac, object, have, result, tainted, signed, disturbed>>
      /\ present' = [present EXCEPT ![s] = @ \cup o.got] /\ Attribute(s, o.got, o.key)
  BY DEF AdmitRows, bucket, ghosts
<1>3. o.key \in Results /\ o.key \subseteq Blob /\ o.got \in SUBSET o.key
  BY <1>1, ResultsAssumption DEF CallInv
<1>4. /\ op' = [op EXCEPT ![t] = op'[t]] /\ op'[t] \in Call /\ CallInv(op[t])'
      /\ op'[t].pc # "admit"
      /\ \/ op'[t].lock = "no"
         \/ op'[t].lock = o.lock /\ op'[t].key = o.key
  <2>1. CASE o.refill
    <3>1. Release(t, "next")
      BY <2>1 DEF AdmitRows
    <3> QED BY <1>1, <1>2, <3>1, ReleaseRecord, RestingCall DEF Steps
  <2>2. CASE ~o.refill
    <3>1. Goto(t, "link")
      BY <2>2 DEF AdmitRows
    <3>2. op' = [op EXCEPT ![t] = op'[t]] /\ op'[t] \in Call /\ op'[t] = [o EXCEPT !.pc = "link"]
      BY <1>1, <3>1, GotoRecord DEF Steps
    <3>3. /\ op'[t].pc = "link" /\ op'[t].lock = o.lock /\ op'[t].key = o.key
          /\ op'[t].action = o.action /\ op'[t].want = o.want
      BY <1>1, <3>2 DEF Call
    <3>4. /\ o.action # NoAction => [action |-> o.action, names |-> o.want] \in signed'
          /\ o.action \in Action /\ o.key = o.want
      BY <1>1, <1>2, <2>2 DEF CallInv
    <3> HIDE DEF o
    <3> QED BY <1>3, <3>2, <3>3, <3>4 DEF CallInv
  <2> QED BY <2>1, <2>2
<1>5. \A n \in Results : Right(n) => Right(n)'
  BY <1>2 DEF Right
<1>6. op' \in [Thread -> Call] /\ CallsInv' /\ LockInv'
  BY <1>2, <1>4, <1>5, CallStep
<1> HIDE DEF o
<1>7. /\ from' \in [Shim -> [Blob -> Results \cup {NoBundle}]] /\ AttributionSound'
      /\ \A x \in Shim, b \in Blob : from'[x][b] = IF x = s /\ b \in o.got THEN o.key ELSE from[x][b]
      /\ \A x \in Shim, b \in Blob : from[x][b] # NoBundle => from'[x][b] # NoBundle
  BY <1>1, <1>2, <1>3, AttributeSound
<1>8. /\ present' \in [Shim -> SUBSET Blob]
      /\ \A x \in Shim : present'[x] = IF x = s THEN present[s] \cup o.got ELSE present[x]
  BY <1>1, <1>2, <1>3 DEF TypeOK
<1>9. TypeOK'
  BY <1>2, <1>6, <1>7, <1>8 DEF IInv, TypeOK
<1>10. KeptInv' /\ ServedInv' /\ ObjectInv' /\ PointerBacked'
  BY <1>2 DEF IInv, KeptInv, ServedInv, ObjectInv, PointerBacked, Right, Trusted
<1>11. ReaderInv'
  <2> SUFFICES ASSUME NEW x \in Shim \ Builders, NEW b \in present'[x] PROVE from'[x][b] # NoBundle
    BY DEF ReaderInv
  <2>1. b \in Blob
    BY <1>8
  <2>2. CASE b \in present[x]
    BY <1>7, <2>1, <2>2 DEF IInv, ReaderInv
  <2>3. CASE b \notin present[x]
    BY <1>3, <1>7, <1>8, <2>1, <2>3, NoneAssumption
  <2> QED BY <2>2, <2>3
<1>12. FilesInv'
  <2> SUFFICES ASSUME NEW x \in Shim, NEW b \in have[x] PROVE b \in present'[x] \/ Admitting(x, b)'
    BY <1>2 DEF FilesInv
  <2>1. CASE b \in present[x]
    BY <1>8, <2>1
  <2>2. CASE b \notin present[x]
    <3>1. PICK u \in Thread : Home[u] = x /\ op[u].pc = "admit" /\ b \in op[u].got
      BY <2>2 DEF IInv, FilesInv, Admitting
    <3>2. CASE u = t
      BY <1>8, <3>1, <3>2 DEF o
    <3>3. CASE u # t
      BY <1>1, <1>4, <3>1, <3>3 DEF Admitting, TypeOK
    <3> QED BY <3>2, <3>3
  <2> QED BY <2>1, <2>2
<1> QED BY <1>6, <1>7, <1>9, <1>10, <1>11, <1>12 DEF IInv

LEMMA RememberKeeps ==
  ASSUME IInv, NEW t \in Thread, Remember(t) PROVE IInv'
<1> DEFINE o == op[t]
           s == Home[t]
<1>1. TypeOK /\ o \in Call /\ o.pc = "remember" /\ CallInv(o) /\ s \in Shim
  BY HomeAssumption DEF Remember, IInv, TypeOK, CallsInv
<1>2. /\ UNCHANGED <<ac, object, have, present, result, tainted, signed, disturbed>>
      /\ Attribute(s, o.want, o.want)
  BY DEF Remember, bucket, ghosts
<1>3. o.want \in Results /\ o.want \in SUBSET o.want
  BY <1>1 DEF CallInv
<1>4. /\ op' = [op EXCEPT ![t] = op'[t]] /\ op'[t] \in Call /\ CallInv(op[t])' /\ op'[t].lock = "no"
  <2>1. CASE Release(t, "ensure")
    BY <1>1, <1>2, <2>1, ReleaseRecord, RestingCall DEF Steps
  <2>2. CASE Finish(t, "stored")
    BY <1>1, <2>2, FinishRecord DEF Answers
  <2> QED BY <2>1, <2>2 DEF Remember
<1>5. \A n \in Results : Right(n) => Right(n)'
  BY <1>2 DEF Right
<1>6. op' \in [Thread -> Call] /\ CallsInv' /\ LockInv'
  BY <1>2, <1>4, <1>5, CallStep
<1> HIDE DEF o
<1>7. /\ from' \in [Shim -> [Blob -> Results \cup {NoBundle}]] /\ AttributionSound'
      /\ \A x \in Shim, b \in Blob : from[x][b] # NoBundle => from'[x][b] # NoBundle
  BY <1>1, <1>2, <1>3, AttributeSound
<1>8. TypeOK'
  BY <1>2, <1>6, <1>7 DEF IInv, TypeOK
<1>9. KeptInv' /\ ServedInv' /\ ObjectInv' /\ PointerBacked'
  BY <1>2 DEF IInv, KeptInv, ServedInv, ObjectInv, PointerBacked, Right, Trusted
<1>10. ReaderInv'
  <2>1. \A x \in Shim : present[x] \subseteq Blob
    BY <1>1 DEF TypeOK
  <2> QED BY <1>2, <1>7, <2>1 DEF IInv, ReaderInv
<1>11. FilesInv'
  BY <1>1, <1>2, <1>4, AdmittingStays DEF FilesInv, IInv, o
<1> QED BY <1>6, <1>7, <1>8, <1>9, <1>10, <1>11 DEF IInv

LEMMA UploadKeeps ==
  ASSUME IInv, NEW t \in Thread, NEW S \in Results, Upload(t, S) PROVE IInv'
<1> DEFINE s == Home[t]
<1>1. TypeOK /\ op[t].pc = "idle" /\ s \in Builders /\ s \in Shim /\ S \subseteq Blob
  BY HomeAssumption, ResultsAssumption DEF Upload, Accepting, IInv
<1>2. /\ UNCHANGED <<ac, object, from, result, tainted, signed, disturbed>>
      /\ have' = [have EXCEPT ![s] = @ \cup S] /\ present' = [present EXCEPT ![s] = @ \cup S]
      /\ Finish(t, "stored")
  BY DEF Upload, bucket, ghosts
<1>3. op' = [op EXCEPT ![t] = op'[t]] /\ op'[t] \in Call /\ CallInv(op[t])' /\ op'[t].lock = "no"
  BY <1>1, <1>2, FinishRecord DEF Answers
<1>4. \A n \in Results : Right(n) => Right(n)'
  BY <1>2 DEF Right
<1>5. op' \in [Thread -> Call] /\ CallsInv' /\ LockInv'
  BY <1>2, <1>3, <1>4, CallStep
<1>6. /\ have' \in [Shim -> SUBSET Blob] /\ present' \in [Shim -> SUBSET Blob]
      /\ \A x \in Shim : have'[x] = IF x = s THEN have[s] \cup S ELSE have[x]
      /\ \A x \in Shim : present'[x] = IF x = s THEN present[s] \cup S ELSE present[x]
  BY <1>1, <1>2 DEF TypeOK
<1>7. TypeOK'
  BY <1>2, <1>5, <1>6 DEF IInv, TypeOK
<1>8. KeptInv' /\ ServedInv' /\ ObjectInv' /\ AttributionSound' /\ PointerBacked'
  BY <1>2 DEF IInv, KeptInv, ServedInv, ObjectInv, AttributionSound, PointerBacked, Right, Trusted
<1>9. ReaderInv'
  BY <1>1, <1>2, <1>6 DEF IInv, ReaderInv
<1>10. FilesInv'
  BY <1>1, <1>3, <1>6, AdmittingStays DEF FilesInv, IInv
<1> QED BY <1>5, <1>7, <1>8, <1>9, <1>10 DEF IInv

LEMMA UpdateKeeps ==
  ASSUME IInv, NEW t \in Thread, NEW a \in Action, NEW S \in Results, Update(t, a, S) PROVE IInv'
<1> DEFINE s == Home[t]
           pointer == [action |-> a, names |-> S]
           r == [Done("none") EXCEPT !.pc = "lockupload", !.action = a, !.want = S, !.key = S]
<1>1. TypeOK /\ op[t].pc = "idle" /\ s \in Shim /\ S \subseteq Blob
  BY HomeAssumption, ResultsAssumption DEF Update, IInv
<1>2. /\ UNCHANGED <<ac, object, have, present, from, tainted, disturbed>>
      /\ signed' = signed \cup {pointer} /\ result' = [result EXCEPT ![s][a] = pointer]
      /\ op' = [op EXCEPT ![t] = r]
  BY DEF Update, bucket
<1>3. pointer \in Pointer /\ pointer.action = a
  BY DEF Pointer
<1>4. op'[t] = r /\ op' = [op EXCEPT ![t] = op'[t]]
  BY <1>1, <1>2, OwnRecord
<1>5. r \in Call /\ r.pc = "lockupload" /\ r.action = a /\ r.want = S /\ r.key = S /\ r.lock = "no"
  BY <1>1 DEF Done, Call, Steps, Answers
<1> HIDE DEF r
<1>6. CallInv(op[t])'
  BY <1>2, <1>4, <1>5 DEF CallInv
<1>7. \A n \in Results : Right(n) => Right(n)'
  BY <1>2 DEF Right
<1>8. op' \in [Thread -> Call] /\ CallsInv' /\ LockInv'
  BY <1>2, <1>4, <1>5, <1>6, <1>7, CallStep
<1> HIDE DEF pointer
<1>9. /\ result' \in [Shim -> [Action -> Pointer \cup {NoPointer}]]
      /\ \A x \in Shim, b \in Action :
           result'[x][b] = IF x = s /\ b = a THEN pointer ELSE result[x][b]
  BY <1>1, <1>2, <1>3 DEF TypeOK
<1>10. TypeOK'
  BY <1>2, <1>3, <1>8, <1>9 DEF IInv, TypeOK
<1>11. KeptInv'
  BY <1>2, <1>3, <1>9 DEF IInv, KeptInv
<1>12. ServedInv' /\ ObjectInv' /\ ReaderInv' /\ AttributionSound' /\ PointerBacked'
  BY <1>2 DEF IInv, ServedInv, ObjectInv, ReaderInv, AttributionSound, PointerBacked, Right, Trusted
<1>13. FilesInv'
  BY <1>1, <1>2, <1>4, AdmittingStays DEF FilesInv, IInv
<1> QED BY <1>8, <1>10, <1>11, <1>12, <1>13 DEF IInv

LEMMA PutBundleKeeps ==
  ASSUME IInv, NEW t \in Thread, PutBundle(t) PROVE IInv'
<1> DEFINE o == op[t]
           n == o.key
<1>1. TypeOK /\ o \in Call /\ o.pc = "put" /\ CallInv(o) /\ Home[t] \in Shim
  BY HomeAssumption DEF PutBundle, IInv, TypeOK, CallsInv
<1>2. n \in Results /\ o.want = n /\ o.action \in Action /\ n \subseteq Blob
  BY <1>1, ResultsAssumption DEF CallInv
<1>3. /\ UNCHANGED <<ac, have, present, from, result, signed>>
      /\ object' = [object EXCEPT ![n] = n] /\ disturbed' = disturbed \ {n}
      /\ tainted' = [tainted EXCEPT ![Home[t]] = @ \ {n}] /\ Release(t, "point")
  BY <1>2 DEF PutBundle, stores
<1>4. object' \in [Results -> {Gone, Unreadable} \cup SUBSET Blob] /\ tainted' \in [Shim -> SUBSET Results]
      /\ disturbed' \in SUBSET Results
  BY <1>1, <1>2, <1>3 DEF TypeOK
<1>5. \A m \in Results : object'[m] = IF m = n THEN n ELSE object[m]
  BY <1>1, <1>3 DEF TypeOK
<1>6. \A m \in Results : Right(m) => Right(m)'
  BY <1>3, <1>5 DEF Right
<1>7. object'[n] = n
  BY <1>2, <1>5
<1>8. /\ op' = [op EXCEPT ![t] = op'[t]] /\ op'[t] \in Call /\ op'[t].pc = "point" /\ op'[t].lock = "no"
      /\ op'[t].action = o.action /\ op'[t].want = n
  BY <1>1, <1>2, <1>3, ReleaseRecord DEF Steps
<1>9. CallInv(op[t])'
  BY <1>1, <1>2, <1>3, <1>7, <1>8 DEF CallInv, Right
<1>10. op' \in [Thread -> Call] /\ CallsInv' /\ LockInv'
  BY <1>3, <1>6, <1>8, <1>9, CallStep
<1>11. TypeOK'
  BY <1>3, <1>4, <1>10 DEF IInv, TypeOK
<1>12. KeptInv' /\ ServedInv' /\ ReaderInv' /\ AttributionSound'
  BY <1>3 DEF IInv, KeptInv, ServedInv, ReaderInv, AttributionSound
<1>13. ObjectInv'
  BY <1>3, <1>5, <1>7 DEF IInv, ObjectInv, Right
<1>14. PointerBacked'
  <2> SUFFICES ASSUME NEW a \in Action, Trusted(a, ac[a]), ac[a].names \notin disturbed'
      PROVE object'[ac[a].names] = ac[a].names
    BY <1>3 DEF PointerBacked, Trusted
  <2>1. ac[a].names \in Results
    BY <1>1 DEF Trusted, TypeOK, Pointer
  <2> QED BY <1>3, <1>5, <2>1 DEF IInv, PointerBacked
<1>15. FilesInv'
  BY <1>1, <1>3, <1>8, AdmittingStays DEF FilesInv, IInv
<1> QED BY <1>10, <1>11, <1>12, <1>13, <1>14, <1>15 DEF IInv

LEMMA PutPointerKeeps ==
  ASSUME IInv, NEW t \in Thread, PutPointer(t) PROVE IInv'
<1> DEFINE o == op[t]
           pointer == [action |-> o.action, names |-> o.want]
<1>1. TypeOK /\ o \in Call /\ o.pc = "point" /\ CallInv(o)
  BY DEF PutPointer, IInv, TypeOK, CallsInv
<1>2. o.want \in Results /\ o.action \in Action /\ o.action # NoAction /\ o.lock = "no" /\ Right(o.want)
  BY <1>1, NoneAssumption DEF CallInv
<1>3. /\ UNCHANGED <<object, have, present, from, result, tainted, signed, disturbed>>
      /\ ac' = [ac EXCEPT ![o.action] = pointer] /\ Goto(t, "remember")
  BY DEF PutPointer, stores, ghosts
<1>4. pointer \in Pointer /\ pointer \in signed /\ pointer.names = o.want
  BY <1>1, <1>2 DEF Pointer, CallInv
<1>5. /\ op' = [op EXCEPT ![t] = op'[t]] /\ op'[t] \in Call
      /\ op'[t].pc = "remember" /\ op'[t].lock = "no"
      /\ op'[t].action = o.action /\ op'[t].want = o.want
  <2>1. op' = [op EXCEPT ![t] = op'[t]] /\ op'[t] \in Call /\ op'[t] = [o EXCEPT !.pc = "remember"]
    BY <1>1, <1>3, GotoRecord DEF Steps
  <2> QED BY <1>1, <1>2, <2>1 DEF Call
<1>6. CallInv(op[t])'
  BY <1>2, <1>3, <1>4, <1>5 DEF CallInv
<1>7. \A n \in Results : Right(n) => Right(n)'
  BY <1>3 DEF Right
<1>8. op' \in [Thread -> Call] /\ CallsInv' /\ LockInv'
  BY <1>3, <1>5, <1>6, <1>7, CallStep
<1> HIDE DEF pointer
<1>9. /\ ac' \in [Action -> Pointer \cup {NoPointer}]
      /\ \A a \in Action : ac'[a] = IF a = o.action THEN pointer ELSE ac[a]
  BY <1>1, <1>2, <1>3, <1>4 DEF TypeOK
<1>10. TypeOK'
  BY <1>3, <1>8, <1>9 DEF IInv, TypeOK
<1>11. KeptInv' /\ ObjectInv' /\ ReaderInv' /\ AttributionSound'
  BY <1>3 DEF IInv, KeptInv, ObjectInv, ReaderInv, AttributionSound, Right
<1>12. ServedInv'
  BY <1>3, <1>4, <1>9 DEF IInv, ServedInv
<1>13. PointerBacked'
  BY <1>2, <1>3, <1>4, <1>9 DEF IInv, PointerBacked, Right, Trusted
<1>14. FilesInv'
  BY <1>1, <1>3, <1>5, AdmittingStays DEF FilesInv, IInv
<1> QED BY <1>8, <1>10, <1>11, <1>12, <1>13, <1>14 DEF IInv

(***************************************************************************)
(* The stores, the processes and the bucket                                *)
(***************************************************************************)
\* Calls go on as they were.
LEMMA OthersStep ==
  ASSUME IInv, op' = op, signed' = signed, \A n \in Results : Right(n) => Right(n)'
  PROVE /\ op' \in [Thread -> Call] /\ CallsInv' /\ LockInv'
        /\ \A s \in Shim : \A b : Admitting(s, b) => Admitting(s, b)'
<1>1. CallsInv'
  <2> SUFFICES ASSUME NEW t \in Thread PROVE CallInv(op[t])'
    BY DEF CallsInv
  <2>1. CallInv(op[t]) /\ op'[t] = op[t]
    BY DEF IInv, CallsInv
  <2> QED BY <2>1 DEF CallInv
<1> QED BY <1>1 DEF IInv, TypeOK, LockInv, Admitting

LEMMA StoreKeeps ==
  ASSUME IInv, NEW s \in Shim,
         \/ \E b \in Blob : Evict(s, b) \/ ForgetBlob(s, b)
         \/ \E a \in Action : ForgetResult(s, a)
  PROVE IInv'
<1>1. UNCHANGED <<ac, object, tainted, op, signed, disturbed>>
  BY DEF Evict, ForgetBlob, ForgetResult, bucket, ghosts
<1>2. \A n \in Results : Right(n) => Right(n)'
  BY <1>1 DEF Right
<1>3. /\ op' \in [Thread -> Call] /\ CallsInv' /\ LockInv'
      /\ \A x \in Shim : \A b : Admitting(x, b) => Admitting(x, b)'
  BY <1>1, <1>2, OthersStep
<1>4. ServedInv' /\ ObjectInv' /\ PointerBacked'
  BY <1>1 DEF IInv, ServedInv, ObjectInv, PointerBacked, Right, Trusted
<1>5. CASE \E b \in Blob : Evict(s, b)
  <2> PICK b \in Blob : Evict(s, b)
    BY <1>5
  <2>1. /\ have' = [have EXCEPT ![s] = @ \ {b}] /\ present' = [present EXCEPT ![s] = @ \ {b}]
        /\ from' = from /\ result' = result
    BY DEF Evict
  <2>2. /\ TypeOK' /\ \A x \in Shim : have'[x] = IF x = s THEN have[s] \ {b} ELSE have[x]
        /\ \A x \in Shim : present'[x] = IF x = s THEN present[s] \ {b} ELSE present[x]
    BY <1>1, <1>3, <2>1 DEF IInv, TypeOK
  <2>3. KeptInv' /\ AttributionSound' /\ ReaderInv' /\ FilesInv'
    BY <1>1, <1>3, <2>1, <2>2 DEF IInv, KeptInv, AttributionSound, ReaderInv, FilesInv
  <2> QED BY <1>3, <1>4, <2>2, <2>3 DEF IInv
<1>6. CASE \E b \in Blob : ForgetBlob(s, b)
  <2> PICK b \in Blob : ForgetBlob(s, b)
    BY <1>6
  <2>1. /\ have' = have /\ present' = present /\ result' = result
        /\ b \notin present[s] /\ from' = [from EXCEPT ![s][b] = NoBundle]
    BY DEF ForgetBlob
  <2>2. /\ TypeOK'
        /\ \A x \in Shim, c \in Blob : from'[x][c] = IF x = s /\ c = b THEN NoBundle ELSE from[x][c]
    BY <1>1, <1>3, <2>1 DEF IInv, TypeOK
  <2>3. ReaderInv'
    BY <2>1, <2>2 DEF IInv, ReaderInv, TypeOK
  <2>4. KeptInv' /\ AttributionSound' /\ FilesInv'
    BY <1>1, <1>3, <2>1, <2>2 DEF IInv, KeptInv, AttributionSound, FilesInv
  <2> QED BY <1>3, <1>4, <2>2, <2>3, <2>4 DEF IInv
<1>7. CASE \E a \in Action : ForgetResult(s, a)
  <2> PICK a \in Action : ForgetResult(s, a)
    BY <1>7
  <2>1. /\ have' = have /\ present' = present /\ from' = from
        /\ result' = [result EXCEPT ![s][a] = NoPointer]
    BY DEF ForgetResult
  <2>2. /\ TypeOK'
        /\ \A x \in Shim, c \in Action : result'[x][c] = IF x = s /\ c = a THEN NoPointer ELSE result[x][c]
    BY <1>1, <1>3, <2>1 DEF IInv, TypeOK
  <2>3. KeptInv' /\ AttributionSound' /\ ReaderInv' /\ FilesInv'
    BY <1>1, <1>3, <2>1, <2>2 DEF IInv, KeptInv, AttributionSound, ReaderInv, FilesInv
  <2> QED BY <1>3, <1>4, <2>2, <2>3 DEF IInv
<1> QED BY <1>5, <1>6, <1>7

LEMMA RestartKeeps ==
  ASSUME IInv, NEW s \in Shim, Restart(s) PROVE IInv'
<1> DEFINE both == have[s] \cap present[s]
<1>1. /\ UNCHANGED <<ac, object, from, result, signed, disturbed>>
      /\ have' = [have EXCEPT ![s] = both] /\ present' = [present EXCEPT ![s] = both]
      /\ tainted' = [tainted EXCEPT ![s] = {}]
      /\ op' = [t \in Thread |-> IF Home[t] = s THEN Done("none") ELSE op[t]]
  BY DEF Restart, bucket, ghosts
<1>2. "none" \in Answers
  BY DEF Answers
<1>3. op' \in [Thread -> Call] /\ \A t \in Thread : op'[t] = IF Home[t] = s THEN Done("none") ELSE op[t]
  BY <1>1, <1>2, DoneIsCall DEF IInv, TypeOK
<1>4. CallsInv'
  <2> SUFFICES ASSUME NEW t \in Thread PROVE CallInv(op[t])'
    BY DEF CallsInv
  <2>1. CASE Home[t] = s
    BY <1>2, <1>3, <2>1, DoneIsCall DEF CallInv
  <2>2. CASE Home[t] # s
    <3>1. CallInv(op[t]) /\ op'[t] = op[t]
      BY <1>3, <2>2 DEF IInv, CallsInv
    <3> QED BY <1>1, <3>1 DEF CallInv, Right
  <2> QED BY <2>1, <2>2
<1>5. LockInv'
  <2> SUFFICES ASSUME NEW t \in Thread, NEW u \in Thread, t # u, Home[t] = Home[u],
                      op'[t].lock = op'[u].lock, op'[t].lock # "no"
      PROVE op'[t].key # op'[u].key
    BY DEF LockInv
  <2>1. Home[t] # s
    BY <1>2, <1>3, DoneIsCall
  <2> QED BY <1>3, <2>1 DEF IInv, LockInv
<1>6. /\ \A x \in Shim : have'[x] = IF x = s THEN both ELSE have[x]
      /\ \A x \in Shim : present'[x] = IF x = s THEN both ELSE present[x]
      /\ have' \in [Shim -> SUBSET Blob] /\ present' \in [Shim -> SUBSET Blob]
      /\ tainted' \in [Shim -> SUBSET Results]
  BY <1>1 DEF IInv, TypeOK
<1>7. TypeOK'
  BY <1>1, <1>3, <1>6 DEF IInv, TypeOK
<1>8. KeptInv' /\ ServedInv' /\ ObjectInv' /\ AttributionSound' /\ PointerBacked'
  BY <1>1 DEF IInv, KeptInv, ServedInv, ObjectInv, AttributionSound, PointerBacked, Right, Trusted
<1>9. ReaderInv'
  BY <1>1, <1>6 DEF IInv, ReaderInv
<1>10. FilesInv'
  <2> SUFFICES ASSUME NEW x \in Shim, NEW b \in have'[x] PROVE b \in present'[x] \/ Admitting(x, b)'
    BY DEF FilesInv
  <2>1. CASE x = s
    BY <1>6, <2>1
  <2>2. CASE x # s
    BY <1>3, <1>6, <2>2 DEF IInv, FilesInv, Admitting
  <2> QED BY <2>1, <2>2
<1> QED BY <1>4, <1>5, <1>7, <1>8, <1>9, <1>10 DEF IInv

LEMMA BucketKeeps ==
  ASSUME IInv,
         \/ \E a \in Action : ExpirePointer(a) \/ \E p \in signed : Misfile(a, p)
         \/ \E n \in Results : Disturb(n)
  PROVE IInv'
<1>1. UNCHANGED <<have, present, from, result, tainted, op, signed>>
  BY DEF ExpirePointer, Misfile, Disturb, stores, ghosts
<1>2. CASE \E n \in Results : Disturb(n)
  <2> PICK n \in Results : Disturb(n)
    BY <1>2
  <2>1. ac' = ac /\ disturbed' = disturbed \cup {n}
    BY DEF Disturb
  <2> PICK what \in {Gone, Unreadable} \cup Results : object' = [object EXCEPT ![n] = what]
    BY DEF Disturb
  <2>2. /\ object' \in [Results -> {Gone, Unreadable} \cup SUBSET Blob]
        /\ \A m \in Results : m # n => object'[m] = object[m]
    BY ResultsAssumption DEF IInv, TypeOK
  <2>3. \A m \in Results : Right(m) => Right(m)'
    BY <2>1, <2>2 DEF Right
  <2>4. /\ op' \in [Thread -> Call] /\ CallsInv' /\ LockInv'
        /\ \A x \in Shim : \A b : Admitting(x, b) => Admitting(x, b)'
    BY <1>1, <2>3, OthersStep
  <2>5. TypeOK'
    BY <1>1, <2>1, <2>2 DEF IInv, TypeOK
  <2>6. ObjectInv'
    BY <2>1, <2>2 DEF IInv, ObjectInv, Right
  <2>7. PointerBacked'
    <3> SUFFICES ASSUME NEW a \in Action, Trusted(a, ac[a]), ac[a].names \notin disturbed'
        PROVE object'[ac[a].names] = ac[a].names
      BY <2>1 DEF PointerBacked, Trusted
    <3>1. ac[a].names \in Results
      BY DEF IInv, Trusted, TypeOK, Pointer
    <3> QED BY <2>1, <2>2, <3>1 DEF IInv, PointerBacked
  <2>8. KeptInv' /\ ServedInv' /\ AttributionSound' /\ ReaderInv' /\ FilesInv'
    BY <1>1, <2>1, <2>4 DEF IInv, KeptInv, ServedInv, AttributionSound, ReaderInv, FilesInv
  <2> QED BY <2>4, <2>5, <2>6, <2>7, <2>8 DEF IInv
<1>3. CASE \E a \in Action : ExpirePointer(a) \/ \E p \in signed : Misfile(a, p)
  <2> PICK a \in Action : ExpirePointer(a) \/ \E p \in signed : Misfile(a, p)
    BY <1>3
  <2>1. object' = object /\ disturbed' = disturbed
    BY DEF ExpirePointer, Misfile, ghosts
  <2>2. PICK p \in signed \cup {NoPointer} :
          ac' = [ac EXCEPT ![a] = p] /\ (p # NoPointer => p.action # a)
    BY DEF ExpirePointer, Misfile
  <2>3. p \in Pointer \cup {NoPointer}
    BY <2>2 DEF IInv, TypeOK
  <2>4. /\ ac' \in [Action -> Pointer \cup {NoPointer}]
        /\ \A c \in Action : ac'[c] = IF c = a THEN p ELSE ac[c]
    BY <2>2, <2>3 DEF IInv, TypeOK
  <2>5. \A m \in Results : Right(m) => Right(m)'
    BY <2>1 DEF Right
  <2>6. /\ op' \in [Thread -> Call] /\ CallsInv' /\ LockInv'
        /\ \A x \in Shim : \A b : Admitting(x, b) => Admitting(x, b)'
    BY <1>1, <2>5, OthersStep
  <2>7. TypeOK'
    BY <1>1, <2>1, <2>4 DEF IInv, TypeOK
  <2>8. PointerBacked' /\ ServedInv'
    BY <1>1, <2>1, <2>2, <2>4 DEF IInv, PointerBacked, ServedInv, Trusted
  <2>9. KeptInv' /\ ObjectInv' /\ AttributionSound' /\ ReaderInv' /\ FilesInv'
    BY <1>1, <2>1, <2>6 DEF IInv, KeptInv, ObjectInv, AttributionSound, ReaderInv, FilesInv, Right
  <2> QED BY <2>6, <2>7, <2>8, <2>9 DEF IInv
<1> QED BY <1>2, <1>3

(***************************************************************************)
(* The theorems                                                            *)
(***************************************************************************)
LEMMA InitIInv == Init => IInv
<1> SUFFICES ASSUME Init PROVE IInv
  OBVIOUS
<1>1. "none" \in Answers
  BY DEF Answers
<1>2. op = [t \in Thread |-> Done("none")] /\ op \in [Thread -> Call]
  BY <1>1, DoneIsCall DEF Init
<1>3. \A t \in Thread : op[t].pc = "idle" /\ op[t].action = NoAction /\ op[t].lock = "no"
  BY <1>1, <1>2, DoneIsCall
<1>4. TypeOK
  BY <1>2 DEF Init, TypeOK
<1>5. CallsInv /\ LockInv
  BY <1>3 DEF CallsInv, CallInv, LockInv
<1>6. KeptInv /\ ServedInv /\ ObjectInv /\ FilesInv /\ ReaderInv /\ AttributionSound /\ PointerBacked
  BY DEF Init, KeptInv, ServedInv, ObjectInv, FilesInv, ReaderInv, AttributionSound, PointerBacked, Trusted
<1> QED BY <1>4, <1>5, <1>6 DEF IInv

LEMMA NextIInv == IInv /\ [Next]_vars => IInv'
<1> SUFFICES ASSUME IInv, [Next]_vars PROVE IInv'
  OBVIOUS
<1>1. ASSUME NEW t \in Thread, Serve(t) PROVE IInv'
  BY <1>1, LookupKeeps, FetchPointerKeeps, ProveKeeps, LinkKeeps, DownloadKeeps, RefuseKeeps,
     AdmitFilesKeeps, AdmitRowsKeeps, EnsureKeeps, RefillKeeps, RefilledKeeps, ReadKeeps, UploadKeeps,
     UpdateKeeps, RefreshKeeps, PutBundleKeeps, PutPointerKeeps, RememberKeeps DEF Serve
<1>2. CASE Environment
  BY <1>2, StoreKeeps, RestartKeeps, BucketKeeps DEF Environment
<1>3. CASE UNCHANGED vars
  <2>1. UNCHANGED <<ac, object, have, present, from, result, tainted, op, signed, disturbed>>
    BY <1>3 DEF vars
  <2>2. /\ op' \in [Thread -> Call] /\ CallsInv' /\ LockInv'
        /\ \A s \in Shim : \A b : Admitting(s, b) => Admitting(s, b)'
    BY <2>1, OthersStep DEF Right
  <2> QED BY <2>1, <2>2 DEF IInv, TypeOK, KeptInv, ServedInv, ObjectInv, FilesInv, ReaderInv,
          AttributionSound, PointerBacked, Right, Trusted
<1> QED BY <1>1, <1>2, <1>3 DEF Next

LEMMA Inductive == Spec => []IInv
  BY InitIInv, NextIInv, PTL DEF Spec

(* A hit is a result built for that action, on every shim and whatever     *)
(* happens to the bucket and the stores (_trusted, _kept).                 *)
THEOREM HitsAuthentic == Spec => []HitIsAuthentic
  BY Inductive, InvariantImplies, PTL

(* A store never says of a blob that it is in a bundle it is not in        *)
(* (Local.ensure, _proven).                                                *)
THEOREM Attributed == Spec => []AttributionSound
  BY Inductive, InvariantImplies, PTL

(* What a reader has on disk it can fetch again, whichever threads refill  *)
(* it and whatever is evicted (Local, _evict_rows).                        *)
THEOREM Refillable == Spec => []ReaderProvenance
  BY Inductive, InvariantImplies, PTL

(* No pointer is in the bucket ahead of its bundle (_publish).             *)
THEOREM Backed == Spec => []PointerBacked
  BY Inductive, InvariantImplies, PTL

(* Threads of one builder never upload one bundle together (_upload_lock). *)
THEOREM UploadedOneAtATime == Spec => []UploadedOnce
  BY Inductive, InvariantImplies, PTL
=============================================================================
