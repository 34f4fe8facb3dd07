------------------------------ MODULE Versions ------------------------------
(***************************************************************************)
(* The order of versions and what boots: image/version.py, image/boot.py   *)
(* and the kernels of kmod/kmod.py.                                        *)
(*                                                                         *)
(* A version is a sequence of characters, a character its code point.  An  *)
(* image is the set of its unified kernel images, the standalone kernels   *)
(* and the initrds beside them.                                            *)
(***************************************************************************)
EXTENDS Integers, Sequences, FiniteSets

Tilde == 126
Dash == 45
Caret == 94
Dot == 46
Zero == 48
Digits == 48..57
Letters == (65..90) \cup (97..122)
Valid == Digits \cup Letters \cup {Tilde, Dash, Caret, Dot}

(***************************************************************************)
(* compare                                                                 *)
(***************************************************************************)
Has(s, i, c) == i <= Len(s) /\ s[i] = c

\* The first position from i on that has none of these.
PrefixEnd(s, i, alphabet) ==
  CHOOSE e \in i..Len(s) + 1 :
    (\A k \in i..e - 1 : s[k] \in alphabet) /\ (e <= Len(s) => s[e] \notin alphabet)
SkipSeparators(s, i) ==
  CHOOSE e \in i..Len(s) + 1 :
    (\A k \in i..e - 1 : s[k] \notin Valid) /\ (e <= Len(s) => s[e] \in Valid)

Sign(a, b) == IF a < b THEN -1 ELSE IF a > b THEN 1 ELSE 0

\* Python's order of strings.
Lexicographic(x, y) ==
  LET differ == {k \in 1..Len(x) : k <= Len(y) /\ x[k] # y[k]}
  IN  IF differ = {} THEN Sign(Len(x), Len(y))
      ELSE LET k == CHOOSE k \in differ : \A m \in differ : k <= m IN Sign(x[k], y[k])

\* Numbers of any size: without their zeros the longer is the larger.
CompareDigitsMutant(x, y) == Lexicographic(x, y)

CompareDigits(x, y) ==
  LET Significant(s) == SubSeq(s, PrefixEnd(s, 1, {Zero}), Len(s))
      a == Significant(x)
      b == Significant(y)
  IN  IF Len(a) # Len(b) THEN Sign(Len(a), Len(b)) ELSE Lexicographic(a, b)

(* A turn of the loop is done in parts, each over where the turn has got   *)
(* to: the positions i and j, and the verdict once there is one.           *)
Open == 2
At(i, j) == [verdict |-> Open, i |-> i, j |-> j]
Decided(verdict) == [verdict |-> verdict, i |-> 1, j |-> 1]

\* Both have it, neither has, or the one that has is the older.
Take(seen, l, r, c) ==
  IF seen.verdict # Open \/ (~Has(l, seen.i, c) /\ ~Has(r, seen.j, c)) THEN seen
  ELSE IF Has(l, seen.i, c) = Has(r, seen.j, c) THEN At(seen.i + 1, seen.j + 1)
  ELSE Decided(IF Has(l, seen.i, c) THEN -1 ELSE 1)

Ended(seen, l, r) ==
  IF seen.verdict # Open \/ (seen.i <= Len(l) /\ seen.j <= Len(r)) THEN seen
  ELSE Decided(IF seen.i <= Len(l) THEN 1 ELSE IF seen.j <= Len(r) THEN -1 ELSE 0)

Marked(seen, l, r) == Take(Take(Take(seen, l, r, Dash), l, r, Caret), l, r, Dot)

\* Past two runs that compare as said, or decided by them.
Past(i, j, order) == IF order = 0 THEN At(i, j) ELSE Decided(order)

WordOf(s, i, alphabet) == SubSeq(s, i, PrefixEnd(s, i, alphabet) - 1)
RunsOf(seen, l, r) ==
  IF seen.verdict # Open THEN seen
  ELSE LET number == <<WordOf(l, seen.i, Digits), WordOf(r, seen.j, Digits)>>
           word == <<WordOf(l, seen.i, Letters), WordOf(r, seen.j, Letters)>>
       IN  IF number # <<<<>>, <<>>>>
             THEN Past(seen.i + Len(number[1]), seen.j + Len(number[2]),
                       IF <<>> \in {number[1], number[2]} THEN Sign(Len(number[1]), Len(number[2]))
                       ELSE CompareDigits(number[1], number[2]))
             ELSE Past(seen.i + Len(word[1]), seen.j + Len(word[2]), Lexicographic(word[1], word[2]))

Turn(seen, l, r) == RunsOf(Marked(Ended(Take(seen, l, r, Tilde), l, r), l, r), l, r)

Compare(l, r) ==
  LET order[p \in (1..Len(l) + 1) \X (1..Len(r) + 1)] ==
        LET seen == Turn(At(SkipSeparators(l, p[1]), SkipSeparators(r, p[2])), l, r)
        IN  IF seen.verdict # Open THEN seen.verdict ELSE order[<<seen.i, seen.j>>]
  IN  order[<<1, 1>>]

(***************************************************************************)
(* boot._select                                                            *)
(***************************************************************************)
\* No initrd, and then no selection: boot fails.
None == <<>>
Nothing == [release |-> None, kernel |-> None, initrd |-> None]

\* A candidate is [release, path], and paths differ.
CandidateCompare(x, y) ==
  IF Compare(x.release, y.release) # 0 THEN Compare(x.release, y.release) ELSE Lexicographic(x.path, y.path)

Newest(candidates) == CHOOSE x \in candidates : \A y \in candidates : CandidateCompare(y, x) <= 0

\* Those of /boot only where the modules have no kernel of their own.
Kernels(image) ==
  image.modules \cup {k \in image.boot : \A m \in image.modules : m.release # k.release}

\* initrds: what _matching_initrd would find for each release.
MatchingInitrd(image, release) ==
  IF release \in DOMAIN image.initrds THEN image.initrds[release] ELSE None

\* Images that name no kernel or no release are none.
Ukis(image) == {u \in image.ukis : u.linux /\ u.release # <<>>}

Chosen(x, initrd) ==
  IF initrd = None THEN Nothing ELSE [release |-> x.release, kernel |-> x.path, initrd |-> initrd]
ChosenUki(image, x) == Chosen(x, IF x.initrd THEN x.path ELSE MatchingInitrd(image, x.release))
ChosenKernel(image, x) == Chosen(x, MatchingInitrd(image, x.release))

Selected(image) ==
  CASE Ukis(image) # {} -> ChosenUki(image, Newest(Ukis(image)))
    [] Ukis(image) = {} /\ Kernels(image) # {} -> ChosenKernel(image, Newest(Kernels(image)))
    [] OTHER -> Nothing

-----------------------------------------------------------------------------
(* Over some versions, compare is an order: it says of any two of them     *)
(* what their places say, where the place of a version is the number of    *)
(* those before it.  So no maximum depends on the order they are met in.   *)
(* Numbers are in the order of their values, and what leads up to a        *)
(* version, after a tilde, is before it.                                   *)
AllDigits(s) == s # <<>> /\ \A k \in DOMAIN s : s[k] \in Digits
ValueOf(s) ==
  LET value[n \in 0..Len(s)] == IF n = 0 THEN 0 ELSE 10 * value[n - 1] + (s[n] - Zero)
  IN  value[Len(s)]
OrderFor(versions, place, x) ==
  /\ \A y \in versions : Compare(x, y) = Sign(place[x], place[y])
  /\ \A y \in versions : AllDigits(x) /\ AllDigits(y) => Compare(x, y) = Sign(ValueOf(x), ValueOf(y))
  /\ x # <<>> /\ x[Len(x)] \in Digits \cup Letters => Compare(x \o <<Tilde>>, x) = -1
Places(versions) == [x \in versions |-> Cardinality({y \in versions : Compare(y, x) < 0})]

(* What boots is the newest of its kind, with an initrd made for it, and   *)
(* nothing else is booted in its stead when there is none.                 *)
NewestOf(kind, place) == {x \in kind : \A y \in kind : place[y.release] <= place[x.release]}
Boots(image, newest, selection) ==
  IF selection = Nothing
    THEN \A x \in newest : MatchingInitrd(image, x.release) = None \/ \E y \in newest : y # x
    ELSE \E x \in newest :
           /\ x.path = selection.kernel /\ x.release = selection.release
           /\ \/ selection.initrd = MatchingInitrd(image, x.release)
              \/ x \in Ukis(image) /\ x.initrd /\ selection.initrd = x.path
BootsNewestFor(image, place) ==
  Boots(image, NewestOf(IF Ukis(image) # {} THEN Ukis(image) ELSE Kernels(image), place), Selected(image))
=============================================================================
