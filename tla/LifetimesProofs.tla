--------------------------- MODULE LifetimesProofs ---------------------------
(***************************************************************************)
(* The parts of a result outlive it together, and readers accept a key     *)
(* exactly while it is current (Lifetimes.tla), for any number of keys,    *)
(* authorities, readers and results and any lifetimes.                     *)
(***************************************************************************)
EXTENDS Lifetimes, TLAPS

\* What is issued has begun and ends within its authority's own window.
IssuedInv ==
  \A c \in issued : /\ c \in Certificate
                    /\ c.from <= now
                    /\ c.until <= CaUntil[c.ca]

\* The configuration has the last certificate of its key.
FileInv == file \in issued /\ \A c \in issued : c.key = file.key => c.until <= file.until

KeysInv == \A k \in Key : keys[k] # NoCert => keys[k] \in issued /\ keys[k].key = k

\* The running builder's certificate is the one published under its key.
HandInv == inHand # NoCert => inHand \in issued /\ keys[inHand.key] = inHand

KeptInv ==
  \A r \in Reader, k \in Key : kept[r][k] # NoCert => kept[r][k] \in issued /\ kept[r][k].key = k

\* A signature made at t is readable for the object's lifetime.
Covered(k, t) == t <= now /\ keys[k] # NoCert /\ t + ObjectLife <= keys[k].until

\* A bundle dated for a signature made at t is there for the object's lifetime.
Fresh(n, t) == IF dated[n] = Gone THEN now >= t + ObjectLife ELSE dated[n] >= t

PubInv ==
  pub.step # "idle" =>
    /\ inHand # NoCert /\ pub.key = inHand.key
    /\ Covered(pub.key, pub.signed)
    /\ pub.step = "pointer" => Fresh(pub.bundle, pub.signed)

PointerInv ==
  \A a \in Action : ac[a] # NoPointer =>
    Covered(ac[a].key, ac[a].signed) /\ Fresh(ac[a].bundle, ac[a].signed)

IInv ==
  /\ LifeTypeOK /\ IssuedInv /\ FileInv /\ KeysInv /\ HandInv /\ KeptInv /\ PubInv /\ PointerInv
  /\ KeysCurrent


LEMMA InitIInv == ASSUME LifeAssumption, LifeInit PROVE IInv
<1> USE DEF LifeInit, LifeAssumption
<1>1. LifeTypeOK
  <2>1. file \in Certificate
    BY DEF Certificate, Time
  <2>2. pub \in Publication
    BY DEF Publication, Steps, Time
  <2>3. answer \in Answers
    BY DEF NoAnswer, Answers
  <2>4. trusted \in [Reader -> SUBSET CA]
    BY DEF Current
  <2> QED BY <2>1, <2>2, <2>3, <2>4 DEF LifeTypeOK, Time
<1>2. IssuedInv /\ FileInv
  BY <1>1 DEF IssuedInv, FileInv, LifeTypeOK, Certificate
<1>3. KeysInv /\ HandInv /\ KeptInv /\ PubInv /\ PointerInv
  BY DEF KeysInv, HandInv, KeptInv, PubInv, PointerInv
<1>4. KeysCurrent
  BY DEF KeysCurrent, NoExpiredKey, RenewalNoticed, NoAnswer
<1> QED BY <1>1, <1>2, <1>3, <1>4 DEF IInv

\* A step that answers no lookup leaves nothing to be wrong about.
LEMMA NoAnswerSound == ASSUME answer' = NoAnswer PROVE KeysCurrent'
  BY DEF KeysCurrent, NoExpiredKey, RenewalNoticed, NoAnswer

\* What is covered and fresh stays so while the clock goes on and no key is taken down.
LEMMA ClockKeeps ==
  ASSUME LifeAssumption, LifeTypeOK, now' \in Time, now <= now', keys' = keys, dated' = dated,
         NEW k \in Key, NEW n \in Bundle, NEW t \in Time
  PROVE (Covered(k, t) => Covered(k, t)') /\ (Fresh(n, t) => Fresh(n, t)')
  BY DEF LifeTypeOK, Covered, Fresh, LifeAssumption, Time

(***************************************************************************)
(* The builder and the age rule                                            *)
(***************************************************************************)
LEMMA TickKeeps == ASSUME LifeAssumption, IInv, Tick PROVE IInv'
<1> USE DEF IInv, Tick, builder, bucket, readers
<1>1. now' \in Time /\ now <= now' /\ keys' = keys /\ dated' = dated
  BY DEF LifeTypeOK, Time, LifeAssumption
<1>2. LifeTypeOK'
  BY <1>1 DEF LifeTypeOK, NoAnswer, Answers, LifeAssumption
<1>3. IssuedInv' /\ FileInv' /\ KeysInv' /\ HandInv' /\ KeptInv'
  BY <1>1 DEF LifeTypeOK, Time, LifeAssumption, IssuedInv, FileInv, KeysInv, HandInv, KeptInv, Certificate
<1>4. PubInv'
  BY <1>1, ClockKeeps DEF PubInv, LifeTypeOK, Publication
<1>5. PointerInv'
  BY <1>1, ClockKeeps DEF PointerInv, LifeTypeOK, Pointer
<1> QED BY <1>2, <1>3, <1>4, <1>5, NoAnswerSound

LEMMA ProvisionKeeps == ASSUME LifeAssumption, IInv, Provision PROVE IInv'
<1> USE DEF IInv
<1> PICK k \in Key, c \in CA, u \in Time :
       /\ Leaf(k, c, now, u)
       /\ \A old \in issued : old.key = k => old.until < u
       /\ issued' = issued \cup {file'}
       /\ answer' = NoAnswer
       /\ UNCHANGED <<now, inHand, pub, bucket, readers>>
  BY DEF Provision
<1>1. /\ file' \in Certificate /\ file'.from = now /\ file'.until <= CaUntil[file'.ca]
      /\ file'.key = k /\ file'.until = u
  BY DEF Leaf, Certificate, LifeTypeOK, Time, LifeAssumption
<1>2. /\ keys' = keys /\ ac' = ac /\ dated' = dated /\ trusted' = trusted /\ kept' = kept
      /\ local' = local /\ now' = now /\ inHand' = inHand /\ pub' = pub
  BY DEF bucket, readers
<1>3. LifeTypeOK'
  BY <1>1, <1>2 DEF LifeTypeOK, NoAnswer, Answers, LifeAssumption
<1>4. IssuedInv'
  BY <1>1, <1>2 DEF IssuedInv, LifeTypeOK, Time, LifeAssumption
<1>5. FileInv'
  BY <1>1, <1>2 DEF FileInv, IssuedInv, LifeTypeOK, Certificate, Time, LifeAssumption
<1>6. KeysInv' /\ HandInv' /\ KeptInv' /\ PubInv' /\ PointerInv'
  BY <1>2 DEF KeysInv, HandInv, KeptInv, PubInv, PointerInv, Covered, Fresh
<1> QED BY <1>3, <1>4, <1>5, <1>6, NoAnswerSound

\* The certificate under a name in the bucket only ever gives way to one that lasts longer.
LEMMA StartBuilderKeeps == ASSUME LifeAssumption, IInv, StartBuilder PROVE IInv'
<1> USE DEF IInv
<1>1. /\ file \in issued /\ file \in Certificate
      /\ keys' = [keys EXCEPT ![file.key] = file] /\ inHand' = file /\ answer' = NoAnswer
      /\ inHand = NoCert
      /\ UNCHANGED <<now, file, issued, ac, dated, pub, readers>>
  BY DEF StartBuilder, FileInv, LifeTypeOK
<1>2. file.key \in Key /\ file # NoCert
  BY <1>1 DEF Certificate, LifeAssumption, Time
<1>3. LifeTypeOK'
  BY <1>1, <1>2 DEF LifeTypeOK, NoAnswer, Answers, readers, LifeAssumption
<1>4. IssuedInv' /\ FileInv' /\ KeptInv'
  BY <1>1 DEF IssuedInv, FileInv, KeptInv, readers
<1>5. KeysInv' /\ HandInv'
  BY <1>1, <1>2 DEF KeysInv, HandInv, LifeTypeOK
<1>6. PubInv'
  BY <1>1 DEF PubInv
<1>7. ASSUME NEW k \in Key, NEW t \in Time, Covered(k, t) PROVE Covered(k, t)'
  <2>1. CASE k = file.key
    <3>1. keys[k] \in issued /\ keys[k].key = k /\ keys[k] \in Certificate
      BY <1>7 DEF KeysInv, Covered, IssuedInv
    <3>2. keys[k].until <= file.until
      BY <3>1, <2>1 DEF FileInv
    <3>3. keys'[k] = file
      BY <1>1, <2>1 DEF LifeTypeOK
    <3> QED BY <1>1, <1>2, <1>7, <3>1, <3>2, <3>3 DEF Covered, Certificate, Time, LifeAssumption
  <2>2. CASE k # file.key
    BY <1>1, <1>7, <2>2 DEF Covered, LifeTypeOK
  <2> QED BY <2>1, <2>2
<1>8. PointerInv'
  BY <1>1, <1>7 DEF PointerInv, Fresh, LifeTypeOK, Pointer
<1> QED BY <1>1, <1>3, <1>4, <1>5, <1>6, <1>8, NoAnswerSound

LEMMA StopBuilderKeeps == ASSUME LifeAssumption, IInv, StopBuilder \/ PublishFails PROVE IInv'
<1> USE DEF IInv
<1>1. /\ inHand' \in {inHand, NoCert} /\ pub' = [pub EXCEPT !.step = "idle"] /\ answer' = NoAnswer
      /\ UNCHANGED <<now, file, issued, keys, ac, dated, trusted, kept, local>>
  BY DEF StopBuilder, PublishFails, bucket, readers
<1>2. pub' \in Publication /\ pub'.step = "idle"
  BY <1>1 DEF LifeTypeOK, Publication, Steps
<1>3. LifeTypeOK'
  BY <1>1, <1>2 DEF LifeTypeOK, NoAnswer, Answers, LifeAssumption
<1>4. IssuedInv' /\ FileInv' /\ KeysInv' /\ KeptInv' /\ PointerInv' /\ HandInv' /\ PubInv'
  BY <1>1, <1>2 DEF IssuedInv, FileInv, KeysInv, KeptInv, PointerInv, Covered, Fresh, HandInv, PubInv
<1> QED BY <1>1, <1>3, <1>4, NoAnswerSound

LEMMA SignKeeps ==
  ASSUME LifeAssumption, IInv, NEW a \in Action, NEW n \in Bundle, Sign(a, n) PROVE IInv'
<1> USE DEF IInv
<1>1. /\ inHand # NoCert /\ MaySign(inHand, now) /\ answer' = NoAnswer
      /\ pub' = [step |-> "bundle", action |-> a, bundle |-> n, key |-> inHand.key, signed |-> now]
      /\ UNCHANGED <<now, file, inHand, issued, keys, ac, dated, trusted, kept, local>>
  BY DEF Sign, bucket, readers
<1>2. inHand \in Certificate /\ inHand.key \in Key /\ keys[inHand.key] = inHand
  BY <1>1 DEF HandInv, IssuedInv, Certificate
<1>3. LifeTypeOK'
  BY <1>1, <1>2 DEF LifeTypeOK, NoAnswer, Answers, LifeAssumption, Publication, Steps
<1>4. IssuedInv' /\ FileInv' /\ KeysInv' /\ KeptInv' /\ PointerInv' /\ HandInv'
  BY <1>1 DEF IssuedInv, FileInv, KeysInv, KeptInv, PointerInv, Covered, Fresh, HandInv
<1>5. PubInv'
  BY <1>1, <1>2 DEF PubInv, Covered, MaySign, LifeTypeOK, Time, LifeAssumption
<1> QED BY <1>1, <1>3, <1>4, <1>5, NoAnswerSound

LEMMA DateBundleKeeps == ASSUME LifeAssumption, IInv, DateBundle PROVE IInv'
<1> USE DEF IInv
<1>1. /\ pub.step = "bundle" /\ dated' = [dated EXCEPT ![pub.bundle] = now] /\ answer' = NoAnswer
      /\ pub' = [pub EXCEPT !.step = "pointer"]
      /\ UNCHANGED <<now, file, inHand, issued, keys, ac, trusted, kept, local>>
  BY DEF DateBundle, readers
<1>2. pub' \in Publication /\ pub.bundle \in Bundle /\ pub.signed \in Time /\ now \in Time /\ now # Gone
  <2>1. pub \in Publication /\ now \in Time
    BY DEF LifeTypeOK
  <2>2. pub' \in Publication /\ pub.bundle \in Bundle /\ pub.signed \in Time
    BY <1>1, <2>1 DEF Publication, Steps
  <2>3. QED
    BY <2>1, <2>2 DEF Time, LifeAssumption
<1>3. /\ pub'.step = "pointer" /\ pub'.bundle = pub.bundle /\ pub'.key = pub.key
      /\ pub'.signed = pub.signed
  <2>1. pub \in Publication
    BY DEF LifeTypeOK
  <2>2. QED
    BY <1>1, <2>1 DEF Publication
<1>4. LifeTypeOK'
  BY <1>1, <1>2 DEF LifeTypeOK, NoAnswer, Answers, LifeAssumption
<1>5. IssuedInv' /\ FileInv' /\ KeysInv' /\ KeptInv' /\ HandInv'
  BY <1>1 DEF IssuedInv, FileInv, KeysInv, KeptInv, HandInv
<1>6. ASSUME NEW n \in Bundle, NEW t \in Time, t <= now, Fresh(n, t) PROVE Fresh(n, t)'
  BY <1>1, <1>2, <1>6 DEF Fresh, LifeTypeOK, Time, LifeAssumption
<1>7. PubInv'
  BY <1>1, <1>2, <1>3 DEF PubInv, Covered, Fresh, LifeTypeOK
<1>8. PointerInv'
  BY <1>1, <1>6 DEF PointerInv, Covered, LifeTypeOK, Pointer
<1> QED BY <1>1, <1>4, <1>5, <1>7, <1>8, NoAnswerSound

LEMMA PutPointerKeeps == ASSUME LifeAssumption, IInv, PutPointer PROVE IInv'
<1> USE DEF IInv
<1> DEFINE p == [key |-> pub.key, bundle |-> pub.bundle, signed |-> pub.signed, written |-> now]
<1>1. /\ pub.step = "pointer" /\ ac' = [ac EXCEPT ![pub.action] = p] /\ answer' = NoAnswer
      /\ pub' = [pub EXCEPT !.step = "idle"]
      /\ UNCHANGED <<now, file, inHand, issued, keys, dated, trusted, kept, local>>
  BY DEF PutPointer, readers
<1>2. p \in Pointer /\ pub.action \in Action
  BY DEF LifeTypeOK, Publication, Pointer
<1>3. pub' \in Publication /\ pub'.step = "idle"
  BY <1>1 DEF LifeTypeOK, Publication, Steps
<1>4. LifeTypeOK'
  <2>1. ac' \in [Action -> Pointer \cup {NoPointer}]
    BY <1>1, <1>2 DEF LifeTypeOK
  <2> QED BY <1>1, <1>3, <2>1 DEF LifeTypeOK, NoAnswer, Answers, LifeAssumption
<1>5. IssuedInv' /\ FileInv' /\ KeysInv' /\ KeptInv' /\ HandInv' /\ PubInv'
  BY <1>1, <1>3 DEF IssuedInv, FileInv, KeysInv, KeptInv, HandInv, PubInv
<1>6. Covered(p.key, p.signed) /\ Fresh(p.bundle, p.signed)
  BY <1>1 DEF PubInv
<1>7. \A a \in Action : ac'[a] = IF a = pub.action THEN p ELSE ac[a]
  BY <1>1 DEF LifeTypeOK
<1>8. PointerInv'
  BY <1>1, <1>6, <1>7 DEF PointerInv, Covered, Fresh
<1> QED BY <1>1, <1>4, <1>5, <1>8, NoAnswerSound

LEMMA ExpireKeeps ==
  ASSUME LifeAssumption, IInv,
         (\E a \in Action : ExpirePointer(a)) \/ (\E n \in Bundle : ExpireBundle(n))
  PROVE IInv'
<1> USE DEF IInv
<1>1. /\ answer' = NoAnswer
      /\ UNCHANGED <<now, file, inHand, issued, pub, keys, trusted, kept, local>>
  BY DEF ExpirePointer, ExpireBundle, builder, readers
<1>2. IssuedInv' /\ FileInv' /\ KeysInv' /\ KeptInv' /\ HandInv'
  BY <1>1 DEF IssuedInv, FileInv, KeysInv, KeptInv, HandInv
<1>3. CASE \E a \in Action : ExpirePointer(a)
  <2> PICK a \in Action : ExpirePointer(a)
    BY <1>3
  <2>1. ac' = [ac EXCEPT ![a] = NoPointer] /\ dated' = dated
    BY DEF ExpirePointer
  <2>2. LifeTypeOK'
    BY <1>1, <2>1 DEF LifeTypeOK, NoAnswer, Answers, LifeAssumption
  <2>3. PubInv' /\ PointerInv'
    BY <1>1, <2>1 DEF PubInv, PointerInv, Covered, Fresh, LifeTypeOK
  <2> QED BY <1>1, <1>2, <2>2, <2>3, NoAnswerSound
<1>4. CASE \E n \in Bundle : ExpireBundle(n)
  <2> PICK n \in Bundle : ExpireBundle(n)
    BY <1>4
  <2>1. /\ dated[n] # Gone /\ now >= dated[n] + ObjectLife
        /\ dated' = [dated EXCEPT ![n] = Gone] /\ ac' = ac
    BY DEF ExpireBundle
  <2>2. LifeTypeOK'
    BY <1>1, <2>1 DEF LifeTypeOK, NoAnswer, Answers, LifeAssumption
  <2>3. ASSUME NEW m \in Bundle, NEW t \in Time, Fresh(m, t) PROVE Fresh(m, t)'
    BY <1>1, <2>1, <2>3 DEF Fresh, LifeTypeOK, Time, LifeAssumption
  <2>4. PubInv'
    BY <1>1, <2>3 DEF PubInv, Covered, LifeTypeOK, Publication
  <2>5. PointerInv'
    BY <1>1, <2>1, <2>3 DEF PointerInv, Covered, LifeTypeOK, Pointer
  <2> QED BY <1>1, <1>2, <2>2, <2>4, <2>5, NoAnswerSound
<1> QED BY <1>3, <1>4

(***************************************************************************)
(* A reader                                                                *)
(***************************************************************************)
\* What a verdict on a key rests on.
LEMMA VerdictSound ==
  ASSUME LifeAssumption, IInv, NEW r \in Reader, NEW k \in Key, NEW up \in BOOLEAN
  PROVE LET v == KeyFor(r, k, up) IN
        /\ v.kind = "hit" => v.cert \in issued /\ v.cert.key = k /\ Acceptable(trusted[r], v.cert, k, now)
        /\ v.kind = "refused" => ~Acceptable(trusted[r], keys[k], k, now)
  BY DEF KeyFor, Acceptable, IInv, KeysInv, KeptInv

LEMMA LookUpKeeps ==
  ASSUME LifeAssumption, IInv, NEW r \in Reader, NEW a \in Action, NEW up \in BOOLEAN, LookUp(r, a, up)
  PROVE IInv'
<1> USE DEF IInv
<1> DEFINE p == local[r][a]
           first == IF p = NoPointer THEN [kind |-> "none"] ELSE KeyFor(r, p.key, up)
           asks == first.kind # "hit" /\ up /\ ac[a] # NoPointer
           q == IF asks THEN ac[a] ELSE NoPointer
           second == IF asks THEN KeyFor(r, q.key, TRUE) ELSE [kind |-> "none"]
           whole == second.kind = "hit" /\ dated[q.bundle] # Gone
           newKept == [k \in Key |-> IF second.kind = "hit" /\ k = q.key THEN second.cert
                                     ELSE IF first.kind = "hit" /\ k = p.key THEN first.cert
                                     ELSE kept[r][k]]
           newLocal == IF whole THEN q ELSE IF first.kind = "refused" THEN NoPointer ELSE p
           served == IF first.kind = "hit" THEN {p.key} ELSE IF whole THEN {q.key} ELSE {}
           refused == (IF first.kind = "refused" THEN {p.key} ELSE {})
                      \cup (IF second.kind = "refused" THEN {q.key} ELSE {})
<1>1. /\ kept' = [kept EXCEPT ![r] = newKept]
      /\ local' = [local EXCEPT ![r][a] = newLocal]
      /\ answer' = [reader |-> r, served |-> served, refused |-> refused]
      /\ UNCHANGED <<now, file, inHand, issued, pub, keys, ac, dated, trusted>>
  BY DEF LookUp, builder, bucket
<1>2. p \in Pointer \cup {NoPointer} /\ ac[a] \in Pointer \cup {NoPointer}
  BY DEF LifeTypeOK
<1>3. /\ first.kind \in {"hit", "refused"} => p \in Pointer /\ p.key \in Key /\ first = KeyFor(r, p.key, up)
      /\ second.kind \in {"hit", "refused"} => q \in Pointer /\ q.key \in Key /\ second = KeyFor(r, q.key, TRUE)
  BY <1>2 DEF Pointer
<1> HIDE DEF p, first, asks, q, second, whole
<1>4. /\ first.kind = "hit" => first.cert \in issued /\ first.cert.key = p.key
                               /\ Acceptable(trusted[r], first.cert, p.key, now)
      /\ first.kind = "refused" => ~Acceptable(trusted[r], keys[p.key], p.key, now)
  BY <1>3, VerdictSound
<1>5. /\ second.kind = "hit" => second.cert \in issued /\ second.cert.key = q.key
                                /\ Acceptable(trusted[r], second.cert, q.key, now)
      /\ second.kind = "refused" => ~Acceptable(trusted[r], keys[q.key], q.key, now)
  <2>1. \A k \in Key : LET v == KeyFor(r, k, TRUE) IN
          /\ v.kind = "hit" => v.cert \in issued /\ v.cert.key = k /\ Acceptable(trusted[r], v.cert, k, now)
          /\ v.kind = "refused" => ~Acceptable(trusted[r], keys[k], k, now)
    BY TRUE \in BOOLEAN, VerdictSound
  <2> QED BY <1>3, <2>1
<1>6. newKept \in [Key -> Certificate \cup {NoCert}]
  BY <1>4, <1>5 DEF LifeTypeOK
<1>7. newLocal \in Pointer \cup {NoPointer}
  BY <1>2, <1>3 DEF whole
<1>8. served \subseteq Key /\ refused \subseteq Key
  BY <1>3 DEF whole
<1> HIDE DEF newKept, newLocal, served, refused
<1>9. LifeTypeOK'
  <2>1. kept' \in [Reader -> [Key -> Certificate \cup {NoCert}]]
    BY <1>1, <1>6 DEF LifeTypeOK
  <2>2. local' \in [Reader -> [Action -> Pointer \cup {NoPointer}]]
    BY <1>1, <1>7 DEF LifeTypeOK
  <2>3. answer' \in Answers
    BY <1>1, <1>8 DEF Answers
  <2> QED BY <1>1, <2>1, <2>2, <2>3 DEF LifeTypeOK
<1>10. IssuedInv' /\ FileInv' /\ KeysInv' /\ HandInv' /\ PubInv' /\ PointerInv'
  BY <1>1 DEF IssuedInv, FileInv, KeysInv, HandInv, PubInv, PointerInv, Covered, Fresh
<1>11. KeptInv'
  <2>1. \A k \in Key : newKept[k] # NoCert => newKept[k] \in issued /\ newKept[k].key = k
    BY <1>4, <1>5 DEF newKept, KeptInv
  <2>2. \A x \in Reader : kept'[x] = IF x = r THEN newKept ELSE kept[x]
    BY <1>1 DEF LifeTypeOK
  <2> QED BY <1>1, <2>1, <2>2 DEF KeptInv
<1>12. NoExpiredKey'
  BY <1>1, <1>4, <1>5 DEF NoExpiredKey, served, whole, Acceptable, InWindow
<1>13. RenewalNoticed'
  BY <1>1, <1>4, <1>5 DEF RenewalNoticed, refused, Acceptable, InWindow
<1> QED BY <1>9, <1>10, <1>11, <1>12, <1>13 DEF KeysCurrent

LEMMA RestartReaderKeeps ==
  ASSUME LifeAssumption, IInv, NEW r \in Reader, RestartReader(r) PROVE IInv'
<1> USE DEF IInv
<1>1. /\ trusted' = [trusted EXCEPT ![r] = Current(now)] /\ answer' = NoAnswer
      /\ UNCHANGED <<now, file, inHand, issued, pub, keys, ac, dated, kept, local>>
  BY DEF RestartReader, builder, bucket
<1>2. LifeTypeOK'
  BY <1>1 DEF LifeTypeOK, NoAnswer, Answers, Current, LifeAssumption
<1>3. IssuedInv' /\ FileInv' /\ KeysInv' /\ HandInv' /\ KeptInv' /\ PubInv' /\ PointerInv'
  BY <1>1 DEF IssuedInv, FileInv, KeysInv, HandInv, KeptInv, PubInv, PointerInv, Covered, Fresh
<1> QED BY <1>1, <1>2, <1>3, NoAnswerSound

LEMMA NextIInv == ASSUME LifeAssumption, IInv, [LifeNext]_lifeVars PROVE IInv'
<1>1. CASE UNCHANGED lifeVars
  BY <1>1 DEF lifeVars, IInv, LifeTypeOK, IssuedInv, FileInv, KeysInv, HandInv, KeptInv, PubInv, PointerInv,
     Covered, Fresh, KeysCurrent, NoExpiredKey, RenewalNoticed, Acceptable, InWindow
<1>2. CASE LifeNext
  BY <1>2, TickKeeps, ProvisionKeeps, StartBuilderKeeps, StopBuilderKeeps, SignKeeps, DateBundleKeeps,
     PutPointerKeeps, ExpireKeeps, LookUpKeeps, RestartReaderKeeps DEF LifeNext
<1> QED BY <1>1, <1>2

LEMMA Inductive == ASSUME LifeAssumption PROVE LifeSpec => []IInv
<1>1. LifeInit => IInv
  BY InitIInv
<1>2. IInv /\ [LifeNext]_lifeVars => IInv'
  BY NextIInv
<1> QED BY <1>1, <1>2, PTL DEF LifeSpec

(***************************************************************************)
(* The theorems                                                            *)
(***************************************************************************)
(* While a pointer is inside its lifetime its bundle is there, and so is a *)
(* certificate its key is acceptable by, whatever was rotated, restarted   *)
(* or expired meanwhile (_publish, check_current, publish_certificate).    *)
THEOREM Together == ASSUME LifeAssumption PROVE LifeSpec => []PartsLiveTogether
<1>1. IInv => PartsLiveTogether
  <2> SUFFICES ASSUME IInv, NEW a \in Action, ac[a] # NoPointer, now < ac[a].signed + ObjectLife
      PROVE dated[ac[a].bundle] # Gone /\ Acceptable(CA, keys[ac[a].key], ac[a].key, now)
    BY DEF PartsLiveTogether
  <2> DEFINE k == ac[a].key
             c == keys[k]
  <2>1. ac[a] \in Pointer /\ k \in Key /\ ac[a].signed \in Time /\ now \in Time
    BY DEF IInv, LifeTypeOK, Pointer
  <2>2. c # NoCert /\ ac[a].signed + ObjectLife <= c.until /\ Fresh(ac[a].bundle, ac[a].signed)
    BY DEF IInv, PointerInv, Covered
  <2>3. c \in Certificate /\ c.from <= now /\ c.until <= CaUntil[c.ca] /\ c.key = k
    BY <2>1, <2>2 DEF IInv, KeysInv, IssuedInv
  <2>4. dated[ac[a].bundle] # Gone
    BY <2>1, <2>2 DEF Fresh, Time, LifeAssumption
  <2>5. now <= c.until /\ now <= CaUntil[c.ca] /\ c.ca \in CA
    BY <2>1, <2>2, <2>3 DEF Certificate, Time, LifeAssumption
  <2> HIDE DEF c, k
  <2>6. Acceptable(CA, c, k, now)
    BY <2>2, <2>3, <2>5 DEF Acceptable, InWindow
  <2> QED BY <2>4, <2>6 DEF c, k
<1> QED BY Inductive, <1>1, PTL

(* What a reader serves has a current certificate it trusts, and it        *)
(* refuses nothing that has one in the bucket (Authority.key_for).         *)
THEOREM KeysAreCurrent == ASSUME LifeAssumption PROVE LifeSpec => []KeysCurrent
<1>1. IInv => KeysCurrent
  BY DEF IInv
<1> QED BY Inductive, <1>1, PTL
=============================================================================
