----------------------------- MODULE BlobCache -----------------------------
(***************************************************************************)
(* What the local store promises to those who call it one at a time        *)
(* (remote_cache/store.py): a set of blobs that forgets.  A batch arrives  *)
(* as a whole, in one step, and a batch that fits leaves the set within    *)
(* its bound; a read is answered by what is there; anything but the empty  *)
(* blob may go at any time; where a blob came from is known longer than    *)
(* its bytes are kept.  A put that fails may leave some of its batch       *)
(* readable, which the next start takes away.                              *)
(***************************************************************************)
EXTENDS Integers

CONSTANTS Blob, Empty, Bytes, Corruptible, Bundle, NoBundle, MaxBytes

VARIABLES up,      \* clients are served
          have,    \* the blobs a read returns
          left,    \* read as well: written ahead of the rest of their batch
          from,    \* the bundle each blob can be fetched from again
          answer   \* of the last read, "none" once another call has begun

cacheVars == <<up, have, left, from, answer>>

Init ==
  /\ up = FALSE /\ have = {} /\ left = {} /\ from = [b \in Blob |-> NoBundle] /\ answer = "none"

Begin == answer' = "none" /\ UNCHANGED <<up, have, left, from>>

Arrive(b) == b \notin have /\ left' = left \cup {b} /\ UNCHANGED <<up, have, from, answer>>

\* All of a batch, but for what was damaged on its way.  Without a bundle it
\* changes nobody's.
Put(S, damaged, bundle) ==
  /\ damaged \subseteq Corruptible
  /\ have' = (have \cup S) \ damaged
  /\ left' = left \ S
  /\ Bytes[S] <= MaxBytes => Bytes[have'] <= MaxBytes
  /\ from' = [b \in Blob |-> IF b \in S /\ bundle # NoBundle THEN bundle ELSE from[b]]
  /\ UNCHANGED <<up, answer>>

Get(b) ==
  /\ up
  /\ answer' = IF b \in have \cup left THEN "bytes" ELSE "absent"
  /\ UNCHANGED <<up, have, left, from>>

Remember(S, bundle) ==
  /\ up
  /\ from' = [b \in Blob |-> IF b \in S THEN bundle ELSE from[b]]
  /\ answer' = "none" /\ UNCHANGED <<up, have, left>>

\* Evicted, damaged, or lost while nobody was served.
Lose(S) ==
  /\ up => Empty \notin S
  /\ have' = have \ S
  /\ left' = left \ S
  /\ UNCHANGED <<up, from, answer>>

Forget(S) ==
  /\ S \cap have = {}
  /\ from' = [b \in Blob |-> IF b \in S THEN NoBundle ELSE from[b]]
  /\ UNCHANGED <<up, have, left, answer>>

\* Nothing is served before what is left over has been swept.
Sweep == ~up /\ left' = {} /\ UNCHANGED <<up, have, from, answer>>
Open ==
  /\ ~up /\ left = {} /\ Empty \in have
  /\ up' = TRUE /\ UNCHANGED <<have, left, from, answer>>
Close == up' = FALSE /\ answer' = "none" /\ UNCHANGED <<have, left, from>>
Discard ==
  /\ ~up /\ have' = {} /\ left' = {} /\ from' = [b \in Blob |-> NoBundle]
  /\ UNCHANGED <<up, answer>>

Next ==
  \/ Begin \/ Sweep \/ Open \/ Close \/ Discard
  \/ \E S \in SUBSET Blob :
       \/ Lose(S) \/ Forget(S)
       \/ \E bundle \in Bundle : Remember(S, bundle)
       \/ \E damaged \in SUBSET S, bundle \in Bundle \cup {NoBundle} : Put(S, damaged, bundle)
  \/ \E b \in Blob : Get(b) \/ Arrive(b)

Spec == Init /\ [][Next]_cacheVars
=============================================================================
