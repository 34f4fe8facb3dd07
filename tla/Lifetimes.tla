----------------------------- MODULE Lifetimes -----------------------------
(***************************************************************************)
(* How long the parts of a cached result live: the pointer, the bundle it  *)
(* names, and the leaf certificate of the key that signed it               *)
(* (remote_cache/signing.py, and the parts of shim.py and bucket.py that   *)
(* date, publish and expire objects).  Time is counted in the unit of the  *)
(* bucket's age rule; a lookup takes none of it, a publication may.        *)
(* Signatures and X.509 encodings are left out: a certificate is the key,  *)
(* the authority it is under and its window.                               *)
(***************************************************************************)
EXTENDS Naturals

CONSTANTS
  Key,          \* leaf keys the builder may be provisioned with
  CA,           \* certificate authorities
  CaUntil,      \* last moment of each authority's own window
  Reader,       \* shims without a signing key
  Action,       \* what results are filed under
  Bundle,       \* names of bundles
  ObjectLife,   \* the age at which the bucket drops `ac/` and `bundle/`
  MaxTime,      \* bound on the clock
  NoCert, NoPointer, Gone

LifeAssumption ==
  /\ ObjectLife \in Nat /\ MaxTime \in Nat
  /\ CaUntil \in [CA -> Nat]
  /\ Gone \notin Nat
  /\ Reader # {} /\ Action # {} /\ Bundle # {} /\ Key # {}
  /\ NoCert \notin [key : Key, ca : CA, from : Nat, until : Nat]
  /\ NoPointer \notin [key : Key, bundle : Bundle, signed : Nat, written : Nat]

VARIABLES
  now,      \* every machine's clock
  file,     \* the certificate in the builder's configuration
  inHand,   \* the one its running shim loaded, NoCert when none runs
  issued,   \* history: every certificate ever provisioned
  keys,     \* bucket: keys/<id>
  ac,       \* bucket: ac/<action>
  dated,    \* bucket: when bundle/<name> was last written
  pub,      \* the builder's publication under way
  trusted,  \* per reader: authorities that were current when it started
  kept,     \* per reader: remembered leaf certificates (in its store)
  local,    \* per reader: pointers in its store
  answer    \* what the last step answered a lookup, for the properties

lifeVars == <<now, file, inHand, issued, keys, ac, dated, pub, trusted, kept,
          local, answer>>
builder == <<file, inHand, issued, pub>>
bucket == <<keys, ac, dated>>
readers == <<trusted, kept, local>>

Time == 0..MaxTime
Certificate == [key : Key, ca : CA, from : Time, until : Nat]
Pointer == [key : Key, bundle : Bundle, signed : Time, written : Time]
Steps == {"idle", "bundle", "pointer"}
Publication == [step : Steps, action : Action, bundle : Bundle, key : Key, signed : Time]
Answers == [reader : Reader, served : SUBSET Key, refused : SUBSET Key]

LifeTypeOK ==
  /\ now \in Time
  /\ file \in Certificate
  /\ inHand \in Certificate \cup {NoCert}
  /\ issued \subseteq Certificate
  /\ keys \in [Key -> Certificate \cup {NoCert}]
  /\ ac \in [Action -> Pointer \cup {NoPointer}]
  /\ dated \in [Bundle -> Time \cup {Gone}]
  /\ pub \in Publication
  /\ trusted \in [Reader -> SUBSET CA]
  /\ kept \in [Reader -> [Key -> Certificate \cup {NoCert}]]
  /\ local \in [Reader -> [Action -> Pointer \cup {NoPointer}]]
  /\ answer \in Answers

NoAnswer == [reader |-> CHOOSE r \in Reader : TRUE, served |-> {}, refused |-> {}]

\* check_window: a certificate's own validity, by this machine's clock.
InWindow(c, t) == c.from <= t /\ t <= c.until

\* Authorities whose own window is over are ignored when a shim starts.
Current(t) == {c \in CA : t <= CaUntil[c]}

\* Authority.check: the chain, both windows, and the key it is filed under.
Acceptable(cas, c, k, t) ==
  c # NoCert /\ c.ca \in cas /\ t <= CaUntil[c.ca] /\ InWindow(c, t) /\ c.key = k

\* Signer.check_current: what is signed at t must be readable until it leaves.
MaySign(c, t) == InWindow(c, t) /\ t + ObjectLife <= c.until

(* What is provisioned is trusted to be sensible, as the user guide asks:  *)
(* a leaf does not outlive its authority.                                  *)
Leaf(k, c, t, u) ==
  /\ u <= CaUntil[c] /\ t <= u
  /\ file' = [key |-> k, ca |-> c, from |-> t, until |-> u]

LifeInit ==
  /\ now = 0
  /\ \E k \in Key, c \in CA, u \in Time :
        u <= CaUntil[c] /\ file = [key |-> k, ca |-> c, from |-> 0, until |-> u]
  /\ issued = {file}
  /\ inHand = NoCert
  /\ keys = [k \in Key |-> NoCert]
  /\ ac = [a \in Action |-> NoPointer]
  /\ dated = [n \in Bundle |-> Gone]
  /\ pub = [step |-> "idle", action |-> CHOOSE a \in Action : TRUE,
            bundle |-> CHOOSE n \in Bundle : TRUE, key |-> CHOOSE k \in Key : TRUE,
            signed |-> 0]
  /\ trusted = [r \in Reader |-> Current(0)]
  /\ kept = [r \in Reader |-> [k \in Key |-> NoCert]]
  /\ local = [r \in Reader |-> [a \in Action |-> NoPointer]]
  /\ answer = NoAnswer

Tick == now < MaxTime /\ now' = now + 1 /\ answer' = NoAnswer
        /\ UNCHANGED <<builder, bucket, readers>>

(***************************************************************************)
(* The builder                                                             *)
(***************************************************************************)
\* A renewal keeps the key and lasts longer; a rotation is another key.
Provision ==
  \E k \in Key, c \in CA, u \in Time :
    /\ Leaf(k, c, now, u)
    /\ \A old \in issued : old.key = k => old.until < u
    /\ issued' = issued \cup {file'}
    /\ answer' = NoAnswer
    /\ UNCHANGED <<now, inHand, pub, bucket, readers>>

(* configured_trust and publish_certificate: the signer and its window,    *)
(* the authorities still current, what they say of the signer, and then    *)
(* the certificate under its key's name, whatever is there.                *)
StartBuilder ==
  /\ inHand = NoCert
  /\ MaySign(file, now)
  /\ Acceptable(Current(now), file, file.key, now)
  /\ inHand' = file
  /\ keys' = [keys EXCEPT ![file.key] = file]
  /\ answer' = NoAnswer
  /\ UNCHANGED <<now, file, issued, ac, dated, pub, readers>>

\* Stopped or killed, with whatever it was publishing left where it is.
StopBuilder ==
  /\ inHand # NoCert
  /\ inHand' = NoCert
  /\ pub' = [pub EXCEPT !.step = "idle"]
  /\ answer' = NoAnswer
  /\ UNCHANGED <<now, file, issued, bucket, readers>>

\* ActionCache._prepare, Signer.wrap: nothing is kept that cannot be signed.
Sign(a, n) ==
  /\ inHand # NoCert /\ pub.step = "idle"
  /\ MaySign(inHand, now)
  /\ pub' = [step |-> "bundle", action |-> a, bundle |-> n, key |-> inHand.key,
             signed |-> now]
  /\ answer' = NoAnswer
  /\ UNCHANGED <<now, file, inHand, issued, bucket, readers>>

\* A shared bundle keeps the date it was first uploaded with.
DateBundleMutant ==
  /\ pub.step = "bundle"
  /\ dated' = [dated EXCEPT ![pub.bundle] = IF @ = Gone THEN now ELSE @]
  /\ pub' = [pub EXCEPT !.step = "pointer"]
  /\ answer' = NoAnswer
  /\ UNCHANGED <<now, file, inHand, issued, keys, ac, readers>>

(* _publish and S3Writer.refresh: a bundle that is there is given today's  *)
(* date and one that is not is uploaded; either may fail.                  *)
DateBundle ==
  /\ pub.step = "bundle"
  /\ dated' = [dated EXCEPT ![pub.bundle] = now]
  /\ pub' = [pub EXCEPT !.step = "pointer"]
  /\ answer' = NoAnswer
  /\ UNCHANGED <<now, file, inHand, issued, keys, ac, readers>>

PutPointer ==
  /\ pub.step = "pointer"
  /\ ac' = [ac EXCEPT ![pub.action] =
              [key |-> pub.key, bundle |-> pub.bundle, signed |-> pub.signed, written |-> now]]
  /\ pub' = [pub EXCEPT !.step = "idle"]
  /\ answer' = NoAnswer
  /\ UNCHANGED <<now, file, inHand, issued, keys, dated, readers>>

PublishFails ==
  /\ pub.step \in {"bundle", "pointer"}
  /\ pub' = [pub EXCEPT !.step = "idle"]
  /\ answer' = NoAnswer
  /\ UNCHANGED <<now, file, inHand, issued, bucket, readers>>

(***************************************************************************)
(* The bucket's age rule, over `ac/` and `bundle/` and never `keys/`       *)
(***************************************************************************)
ExpirePointer(a) ==
  /\ ac[a] # NoPointer /\ now >= ac[a].written + ObjectLife
  /\ ac' = [ac EXCEPT ![a] = NoPointer]
  /\ answer' = NoAnswer
  /\ UNCHANGED <<now, builder, keys, dated, readers>>

ExpireBundle(n) ==
  /\ dated[n] # Gone /\ now >= dated[n] + ObjectLife
  /\ dated' = [dated EXCEPT ![n] = Gone]
  /\ answer' = NoAnswer
  /\ UNCHANGED <<now, builder, keys, ac, readers>>

(***************************************************************************)
(* A reader                                                                *)
(***************************************************************************)
\* A remembered certificate that is refused is the answer.
KeyForStaleMutant(r, k, up) ==
  IF Acceptable(trusted[r], kept[r][k], k, now)
    THEN [kind |-> "hit", cert |-> kept[r][k]]
  ELSE IF kept[r][k] # NoCert
    THEN [kind |-> "refused", cert |-> kept[r][k]]
  ELSE IF ~up
    THEN [kind |-> "unknown", cert |-> kept[r][k]]
  ELSE IF Acceptable(trusted[r], keys[k], k, now)
    THEN [kind |-> "hit", cert |-> keys[k]]
    ELSE [kind |-> "refused", cert |-> kept[r][k]]

(* Authority.key_for: the remembered certificate is checked again each     *)
(* time, and one that is refused is asked for once more, since a renewal   *)
(* has the same name.  `up`: whether the bucket can be asked.              *)
KeyFor(r, k, up) ==
  IF Acceptable(trusted[r], kept[r][k], k, now)
    THEN [kind |-> "hit", cert |-> kept[r][k]]
  ELSE IF ~up
    THEN [kind |-> "unknown", cert |-> kept[r][k]]
  ELSE IF Acceptable(trusted[r], keys[k], k, now)
    THEN [kind |-> "hit", cert |-> keys[k]]
    ELSE [kind |-> "refused", cert |-> kept[r][k]]

(* ActionCache.get: a pointer in the store is verified as if it came from  *)
(* the bucket (_kept); a refusal drops it, an unreachable bucket does not. *)
(* Then the bucket's is looked up (_fetch), and goes in the store once its *)
(* bundle has come with it.                                                *)
LookUp(r, a, up) ==
  LET p == local[r][a]
      first == IF p = NoPointer THEN [kind |-> "none"] ELSE KeyFor(r, p.key, up)
      asks == first.kind # "hit" /\ up /\ ac[a] # NoPointer
      q == IF asks THEN ac[a] ELSE NoPointer
      second == IF asks THEN KeyFor(r, q.key, TRUE) ELSE [kind |-> "none"]
      whole == second.kind = "hit" /\ dated[q.bundle] # Gone
  IN  /\ p # NoPointer \/ asks
      /\ kept' = [kept EXCEPT ![r] =
            [k \in Key |-> IF second.kind = "hit" /\ k = q.key THEN second.cert
                           ELSE IF first.kind = "hit" /\ k = p.key THEN first.cert
                           ELSE @[k]]]
      /\ local' = [local EXCEPT ![r][a] =
            IF whole THEN q ELSE IF first.kind = "refused" THEN NoPointer ELSE p]
      /\ answer' = [reader |-> r,
            served |-> IF first.kind = "hit" THEN {p.key} ELSE IF whole THEN {q.key} ELSE {},
            refused |-> (IF first.kind = "refused" THEN {p.key} ELSE {})
                        \cup (IF second.kind = "refused" THEN {q.key} ELSE {})]
      /\ UNCHANGED <<now, builder, bucket, trusted>>

\* Certificates and pointers outlive the process; its authorities are read anew.
RestartReader(r) ==
  /\ Current(now) # {}
  /\ trusted' = [trusted EXCEPT ![r] = Current(now)]
  /\ answer' = NoAnswer
  /\ UNCHANGED <<now, builder, bucket, kept, local>>

LifeNext ==
  \/ Tick
  \/ Provision
  \/ StartBuilder
  \/ StopBuilder
  \/ \E a \in Action, n \in Bundle : Sign(a, n)
  \/ DateBundle
  \/ PutPointer
  \/ PublishFails
  \/ \E a \in Action : ExpirePointer(a)
  \/ \E n \in Bundle : ExpireBundle(n)
  \/ \E r \in Reader, a \in Action, up \in BOOLEAN : LookUp(r, a, up)
  \/ \E r \in Reader : RestartReader(r)

LifeSpec == LifeInit /\ [][LifeNext]_lifeVars

(***************************************************************************)
(* Properties                                                              *)
(***************************************************************************)
(* For the object lifetime counted from its signature, a pointer that is   *)
(* in the bucket has its bundle there, however many pointers share it and  *)
(* in whatever order they were published, and a certificate under its      *)
(* key's name that a reader can accept: neither the age rule nor a         *)
(* rotation orphans it (_publish, check_current, publish_certificate).     *)
PartsLiveTogether ==
  \A a \in Action :
    ac[a] # NoPointer /\ now < ac[a].signed + ObjectLife =>
      /\ dated[ac[a].bundle] # Gone
      /\ Acceptable(CA, keys[ac[a].key], ac[a].key, now)

(* A reader serves nothing under a key of which no issued certificate is   *)
(* valid at that moment under an authority it trusts, however long ago it  *)
(* accepted the key (Authority.key_for: a certificate is remembered, not   *)
(* a verdict about it).                                                    *)
NoExpiredKey ==
  \A k \in answer.served :
    \E c \in issued : Acceptable(trusted[answer.reader], c, k, now)

(* A reader refuses a key only if the certificate under that name in the   *)
(* bucket is one it must refuse now: an expired copy in its store does not *)
(* hide the renewal (Authority.key_for).                                   *)
RenewalNoticed ==
  \A k \in answer.refused : ~Acceptable(trusted[answer.reader], keys[k], k, now)

(* Both of every answer: the key of what is served is current, and none    *)
(* that is current is refused.                                             *)
KeysCurrent == NoExpiredKey /\ RenewalNoticed

=============================================================================
