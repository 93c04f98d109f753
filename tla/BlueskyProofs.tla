----------------------------- MODULE BlueskyProofs -----------------------------
(***************************************************************************)
(* What Carriers shows of the Bluesky carrier on a small instance, for     *)
(* every size of ciphertext, every cut of it into pieces and whatever      *)
(* other programs put in, drop or cut: the sizes that are written are      *)
(* true, recover puts the ciphertext together, refuses what is damaged,    *)
(* and does not refuse what is not.                                        *)
(***************************************************************************)
EXTENDS CarriersProofs

-----------------------------------------------------------------------------
(* Sums over a sequence.                                                   *)

SumsUpTo(g, f, m) == g = [i \in 0..m |-> IF i = 0 THEN 0 ELSE g[i - 1] + f[i]]

LEMMA SumsGoOn ==
  ASSUME NEW f, NEW m \in Nat, NEW g, SumsUpTo(g, f, m)
  PROVE  \E h : SumsUpTo(h, f, m + 1)
<1> DEFINE h == [i \in 0..(m + 1) |-> IF i = m + 1 THEN g[m] + f[m + 1] ELSE g[i]]
           r == [i \in 0..(m + 1) |-> IF i = 0 THEN 0 ELSE h[i - 1] + f[i]]
<1>1. \A i \in 0..m : g[i] = IF i = 0 THEN 0 ELSE g[i - 1] + f[i]
  BY Zenon DEF SumsUpTo
<1>2. ASSUME NEW i \in 0..(m + 1)
      PROVE  h[i] = r[i]
  <2>1. CASE i = 0
    <3>1. h[i] = g[0] /\ r[i] = 0 /\ 0 \in 0..m
      BY <2>1
    <3> QED BY <3>1, <1>1
  <2>2. CASE i \in 1..m
    <3>1. i \in 0..m /\ i - 1 \in 0..m /\ i # 0 /\ i # m + 1 /\ i - 1 # m + 1 /\ i - 1 \in 0..(m + 1)
      BY <2>2
    <3>2. h[i] = g[i] /\ h[i - 1] = g[i - 1]
      BY <3>1
    <3>3. r[i] = g[i - 1] + f[i]
      BY <3>1, <3>2
    <3> QED BY <3>1, <3>2, <3>3, <1>1
  <2>3. CASE i = m + 1
    <3>1. i - 1 = m /\ i # 0 /\ m \in 0..(m + 1) /\ m # m + 1
      BY <2>3
    <3>2. h[i] = g[m] + f[m + 1] /\ h[m] = g[m]
      BY <2>3, <3>1
    <3>3. r[i] = h[i - 1] + f[i]
      BY <3>1
    <3> QED BY <2>3, <3>1, <3>2, <3>3
  <2> QED BY <2>1, <2>2, <2>3
<1>3. h = r
  <2>1. h = [i \in 0..(m + 1) |-> h[i]] /\ r = [i \in 0..(m + 1) |-> r[i]]
    OBVIOUS
  <2> HIDE DEF h, r
  <2>2. [i \in 0..(m + 1) |-> h[i]] = [i \in 0..(m + 1) |-> r[i]]
    BY <1>2
  <2> QED BY <2>1, <2>2
<1>4. SumsUpTo(h, f, m + 1)
  <2> HIDE DEF h
  <2> QED BY <1>3 DEF SumsUpTo
<1> QED BY <1>4

LEMMA SumExists ==
  ASSUME NEW f, NEW n \in Nat
  PROVE  \E g : SumsUpTo(g, f, n) /\ Bsky!SumTo(f, n) = g[n]
<1> DEFINE T == {m \in Nat : \E g : SumsUpTo(g, f, m)}
           all == CHOOSE g : SumsUpTo(g, f, n)
<1>1. 0 \in T
  <2> DEFINE g == [i \in 0..0 |-> 0]
  <2>1. g = [i \in 0..0 |-> IF i = 0 THEN 0 ELSE g[i - 1] + f[i]]
    OBVIOUS
  <2> HIDE DEF g
  <2>2. SumsUpTo(g, f, 0)
    BY <2>1 DEF SumsUpTo
  <2> QED BY <2>2
<1>2. \A m \in 0..(n - 1) : m \in T => m + 1 \in T
  BY SumsGoOn
<1>3. 0..n \subseteq T
  <2> HIDE DEF T
  <2> QED BY <1>1, <1>2, Induction
<1>4. SumsUpTo(all, f, n)
  <2>1. n \in T
    BY <1>3
  <2> HIDE DEF SumsUpTo
  <2> QED BY <2>1
<1>5. Bsky!SumTo(f, n) = all[n]
  BY Zenon DEF Bsky!SumTo, SumsUpTo
<1> HIDE DEF all
<1> QED BY <1>4, <1>5

\* Sums of the same numbers agree, however far each goes.
LEMMA SumsAgree ==
  ASSUME NEW f, NEW g, NEW m \in Nat, NEW n \in Nat, m <= n, \A i \in 1..m : f[i] = g[i],
         NEW p, SumsUpTo(p, f, m), NEW q, SumsUpTo(q, g, n)
  PROVE  \A i \in 0..m : p[i] = q[i]
<1> DEFINE T == {i \in Nat : p[i] = q[i]}
<1>1. \A i \in 0..m : p[i] = IF i = 0 THEN 0 ELSE p[i - 1] + f[i]
  BY Zenon DEF SumsUpTo
<1>2. \A i \in 0..n : q[i] = IF i = 0 THEN 0 ELSE q[i - 1] + g[i]
  BY Zenon DEF SumsUpTo
<1>3. 0 \in T
  BY <1>1, <1>2
<1>4. ASSUME NEW k \in 0..(m - 1), k \in T
      PROVE  k + 1 \in T
  <2>1. k + 1 \in 0..m /\ k + 1 \in 0..n /\ k + 1 \in 1..m /\ k + 1 # 0 /\ (k + 1) - 1 = k
    OBVIOUS
  <2>2. p[k + 1] = p[k] + f[k + 1] /\ q[k + 1] = q[k] + g[k + 1] /\ f[k + 1] = g[k + 1]
    BY <2>1, <1>1, <1>2
  <2> QED BY <1>4, <2>1, <2>2
<1> HIDE DEF T
<1>5. 0..m \subseteq T
  BY <1>3, <1>4, Induction
<1> QED BY <1>5 DEF T

LEMMA SumStep ==
  ASSUME NEW f, NEW n \in Nat
  PROVE  /\ Bsky!SumTo(f, 0) = 0
         /\ Bsky!SumTo(f, n + 1) = Bsky!SumTo(f, n) + f[n + 1]
<1>1. PICK o : SumsUpTo(o, f, 0) /\ Bsky!SumTo(f, 0) = o[0]
  BY SumExists
<1>2. PICK p : SumsUpTo(p, f, n) /\ Bsky!SumTo(f, n) = p[n]
  BY SumExists
<1>3. PICK q : SumsUpTo(q, f, n + 1) /\ Bsky!SumTo(f, n + 1) = q[n + 1]
  BY SumExists
<1>4. o[0] = 0
  <2>1. \A i \in 0..0 : o[i] = IF i = 0 THEN 0 ELSE o[i - 1] + f[i]
    BY <1>1, Zenon DEF SumsUpTo
  <2> QED BY <2>1
<1>5. q[n + 1] = q[n] + f[n + 1]
  <2>1. \A i \in 0..(n + 1) : q[i] = IF i = 0 THEN 0 ELSE q[i - 1] + f[i]
    BY <1>3, Zenon DEF SumsUpTo
  <2>2. n + 1 \in 0..(n + 1) /\ n + 1 # 0 /\ (n + 1) - 1 = n
    OBVIOUS
  <2> QED BY <2>1, <2>2
<1>6. p[n] = q[n]
  <2>a. PICK g : g = f
    OBVIOUS
  <2>b. PICK k \in Nat : k = n + 1
    OBVIOUS
  <2>1. n \in 0..n /\ n <= k /\ SumsUpTo(q, g, k) /\ \A i \in 1..n : f[i] = g[i]
    BY <1>3, <2>a, <2>b
  <2>2. \A i \in 0..n : p[i] = q[i]
    BY <1>2, <2>1, SumsAgree
  <2> QED BY <2>2
<1> QED BY <1>1, <1>2, <1>3, <1>4, <1>5, <1>6

LEMMA SumSame ==
  ASSUME NEW f, NEW g, NEW n \in Nat, \A i \in 1..n : f[i] = g[i]
  PROVE  Bsky!SumTo(f, n) = Bsky!SumTo(g, n)
<1>1. PICK p : SumsUpTo(p, f, n) /\ Bsky!SumTo(f, n) = p[n]
  BY SumExists
<1>2. PICK q : SumsUpTo(q, g, n) /\ Bsky!SumTo(g, n) = q[n]
  BY SumExists
<1>3. \A i \in 0..n : p[i] = q[i]
  BY <1>1, <1>2, SumsAgree
<1> QED BY <1>1, <1>2, <1>3

\* The sums of natural numbers grow.
LEMMA SumGrows ==
  ASSUME NEW f, NEW n \in Nat, \A i \in 1..n : f[i] \in Nat
  PROVE  /\ \A m \in 0..n : Bsky!SumTo(f, m) \in Nat /\ Bsky!SumTo(f, m) <= Bsky!SumTo(f, n)
         /\ \A m \in 0..(n - 1) : Bsky!SumTo(f, m) + f[m + 1] <= Bsky!SumTo(f, n)
<1> DEFINE s(k) == Bsky!SumTo(f, k)
           T == {k \in 0..n : s(k) \in Nat /\ \A m \in 0..k : s(m) \in Nat /\ s(m) <= s(k)}
<1>1. s(0) = 0 /\ \A k \in 0..(n - 1) : s(k + 1) = s(k) + f[k + 1] /\ f[k + 1] \in Nat
  BY SumStep
<1> HIDE DEF s
<1>2. 0 \in T
  BY <1>1
<1>3. ASSUME NEW k \in 0..(n - 1), k \in T
      PROVE  k + 1 \in T
  <2>1. s(k + 1) \in Nat /\ s(k) <= s(k + 1) /\ s(k) \in Nat
    BY <1>1, <1>3
  <2>2. \A m \in 0..(k + 1) : m \in 0..k \/ m = k + 1
    OBVIOUS
  <2> QED BY <1>3, <2>1, <2>2
<1>4. 0..n \subseteq T
  <2> HIDE DEF T
  <2> QED BY <1>2, <1>3, Induction
<1>5. \A m \in 0..n : s(m) \in Nat /\ s(m) <= s(n)
  BY <1>4
<1>6. ASSUME NEW m \in 0..(n - 1)
      PROVE  s(m) + f[m + 1] <= s(n)
  <2>1. m + 1 \in 0..n
    OBVIOUS
  <2> QED BY <2>1, <1>1, <1>5
<1> QED BY <1>5, <1>6 DEF s

\* One number more, at a place between.
Inserted(f, g, n, i) ==
  /\ n \in Nat /\ i \in 1..(n + 1) /\ g[i] \in Nat
  /\ \A j \in 1..n : f[j] \in Nat
  /\ \A j \in 1..(i - 1) : g[j] = f[j]
  /\ \A j \in i..n : g[j + 1] = f[j]

LEMMA SumInserted ==
  ASSUME NEW f, NEW g, NEW n, NEW i, Inserted(f, g, n, i)
  PROVE  /\ \A m \in 0..(i - 1) : Bsky!SumTo(g, m) = Bsky!SumTo(f, m)
         /\ \A m \in (i - 1)..n : Bsky!SumTo(g, m + 1) = Bsky!SumTo(f, m) + g[i]
<1>a. n \in Nat /\ i \in 1..(n + 1) /\ g[i] \in Nat
  BY DEF Inserted
<1>b. (\A j \in 1..n : f[j] \in Nat) /\ (\A j \in 1..(i - 1) : g[j] = f[j]) /\ \A j \in i..n : g[j + 1] = f[j]
  BY DEF Inserted
<1> USE <1>a, <1>b
<1>1. ASSUME NEW m \in 0..(i - 1)
      PROVE  Bsky!SumTo(g, m) = Bsky!SumTo(f, m)
  <2>1. m \in Nat /\ \A j \in 1..m : f[j] = g[j]
    OBVIOUS
  <2> QED BY <2>1, SumSame
<1> DEFINE T == {k \in Nat : k >= i - 1 => Bsky!SumTo(g, k + 1) = Bsky!SumTo(f, k) + g[i]}
<1>2. Bsky!SumTo(g, (i - 1) + 1) = Bsky!SumTo(f, i - 1) + g[i]
  <2>1. i - 1 \in Nat /\ i - 1 \in 0..(i - 1) /\ (i - 1) + 1 = i
    OBVIOUS
  <2>2. Bsky!SumTo(g, (i - 1) + 1) = Bsky!SumTo(g, i - 1) + g[(i - 1) + 1]
    BY <2>1, SumStep
  <2> QED BY <2>1, <2>2, <1>1
<1>3. 0 \in T
  <2>1. 0 >= i - 1 => i - 1 = 0
    OBVIOUS
  <2> QED BY <2>1, <1>2
<1>4. ASSUME NEW k \in 0..(n - 1), k \in T
      PROVE  k + 1 \in T
  <2>1. CASE k + 1 < i - 1
    BY <2>1
  <2>2. CASE k + 1 = i - 1
    BY <2>2, <1>2
  <2>3. CASE k >= i - 1
    <3>1. /\ Bsky!SumTo(g, (k + 1) + 1) = Bsky!SumTo(g, k + 1) + g[(k + 1) + 1]
          /\ Bsky!SumTo(f, k + 1) = Bsky!SumTo(f, k) + f[k + 1]
      BY SumStep
    <3>2. k + 1 \in i..n /\ g[(k + 1) + 1] = f[k + 1]
      BY <2>3
    <3>3. f[k + 1] \in Nat /\ Bsky!SumTo(f, k) \in Nat
      <4>1. k + 1 \in 1..n /\ k \in 0..n
        OBVIOUS
      <4> QED BY <4>1, SumGrows
    <3>4. Bsky!SumTo(g, k + 1) = Bsky!SumTo(f, k) + g[i]
      BY <1>4, <2>3
    <3> QED BY <3>1, <3>2, <3>3, <3>4
  <2> QED BY <2>1, <2>2, <2>3
<1>5. 0..n \subseteq T
  <2> HIDE DEF T
  <2> QED BY <1>3, <1>4, Induction
<1> QED BY <1>1, <1>5

-----------------------------------------------------------------------------
(* How the ciphertext is packed.                                           *)

Parts == Bsky!Layout
\* Where the second dataset and the text begin in the ciphertext.
SecondFrom == Parts.exif + Parts.first
TextFrom == SecondFrom + Parts.second

LEMMA LayoutIs ==
  ASSUME size \in Nat
  PROVE  /\ Parts.exif \in Nat /\ Parts.first \in Nat /\ Parts.second \in Nat /\ Parts.xmp \in Nat
         /\ Parts.exif <= 65027 /\ Parts.first <= 32767 /\ Parts.second <= 32730
         /\ Parts.exif + Parts.first + Parts.second + Parts.xmp = size
         /\ Parts.first > 0 => Parts.exif = 65027
         /\ Parts.second > 0 => Parts.first = 32767
         /\ Parts.xmp > 0 => Parts.second = 32730
         /\ Parts.exif = Bsky!Lesser(size, 65027)
         /\ size > 65027 <=> Parts.first > 0
<1>1. /\ Parts.exif = Bsky!Lesser(size, 65027)
      /\ Parts.first = Bsky!Lesser(32767, size - Bsky!Lesser(size, 65027))
      /\ Parts.second = Bsky!Lesser(32730, size - Bsky!Lesser(size, 97794))
      /\ Parts.xmp = size - Bsky!Lesser(size, 130524)
  BY DEF Parts, Bsky!Layout, Bsky!ExifLimit, Bsky!FirstLimit, Bsky!LastLimit
<1> HIDE DEF Parts
<1>2. CASE size <= 65027
  BY <1>1, <1>2 DEF Bsky!Lesser
<1>3. CASE size > 65027 /\ size <= 97794
  BY <1>1, <1>3 DEF Bsky!Lesser
<1>4. CASE size > 97794 /\ size <= 130524
  BY <1>1, <1>4 DEF Bsky!Lesser
<1>5. CASE size > 130524
  BY <1>1, <1>5 DEF Bsky!Lesser
<1> QED BY <1>2, <1>3, <1>4, <1>5

\* What is packed in order is one stretch.
Stretch(from, n) == IF n = 0 THEN <<>> ELSE <<<<from, n>>>>

LEMMA RunBytes ==
  ASSUME NEW from, NEW n \in Nat
  PROVE  Bsky!Bytes(Stretch(from, n)) = n
<1>1. CASE n = 0
  <2>1. Stretch(from, n) = <<>> /\ Len(<<>>) = 0
    BY <1>1 DEF Stretch
  <2> QED BY <1>1, <2>1, SumStep DEF Bsky!Bytes, Bsky!BytesUpTo
<1>2. CASE n # 0
  <2>1. Stretch(from, n) = <<<<from, n>>>> /\ Len(<<<<from, n>>>>) = 1
    BY <1>2 DEF Stretch
  <2>2. PICK f : f = [i \in DOMAIN <<<<from, n>>>> |-> <<<<from, n>>>>[i][2]]
    OBVIOUS
  <2>3. f[1] = n
    BY <2>2
  <2>4. Bsky!SumTo(f, 0) = 0 /\ Bsky!SumTo(f, 0 + 1) = Bsky!SumTo(f, 0) + f[0 + 1]
    BY SumStep
  <2>5. Bsky!SumTo(f, 1) = n
    BY <2>3, <2>4
  <2> QED BY <2>1, <2>2, <2>5 DEF Bsky!Bytes, Bsky!BytesUpTo
<1> QED BY <1>1, <1>2

LEMMA RunGrows ==
  ASSUME NEW from \in Nat, NEW n \in Nat, NEW m \in Nat \ {0}
  PROVE  Bsky!Grow(Stretch(from, n), from + n, m) = Stretch(from, n + m)
<1>1. CASE n = 0
  <2>1. Stretch(from, n) = <<>> /\ Stretch(from, n + m) = <<<<from, m>>>> /\ from + n = from
    BY <1>1 DEF Stretch
  <2>2. Append(<<>>, <<from, m>>) = <<<<from, m>>>>
    OBVIOUS
  <2> QED BY <2>1, <2>2 DEF Bsky!Grow
<1>2. CASE n # 0
  <2>1. Stretch(from, n) = <<<<from, n>>>> /\ Stretch(from, n + m) = <<<<from, n + m>>>>
    BY <1>2 DEF Stretch
  <2>2. <<<<from, n>>>> # <<>> /\ Bsky!Last(<<<<from, n>>>>) = <<from, n>> /\ Len(<<<<from, n>>>>) = 1
    BY DEF Bsky!Last
  <2>3. Bsky!Front(<<<<from, n>>>>) = <<>>
    <3>1. Bsky!Front(<<<<from, n>>>>) = SubSeq(<<<<from, n>>>>, 1, 0)
      BY <2>2 DEF Bsky!Front
    <3> QED BY <3>1
  <2>4. Append(<<>>, <<from, n + m>>) = <<<<from, n + m>>>>
    OBVIOUS
  <2>5. <<from, n>>[1] = from /\ <<from, n>>[2] = n
    OBVIOUS
  <2> QED BY <2>1, <2>2, <2>3, <2>4, <2>5 DEF Bsky!Grow
<1> QED BY <1>1, <1>2

\* A quotient by three, with its remainder.
LEMMA Thirds ==
  ASSUME NEW n \in Nat
  PROVE  /\ n \div 3 \in Nat /\ n % 3 \in 0..2 /\ n = 3 * (n \div 3) + (n % 3)
OBVIOUS

LEMMA ThirdsAbove ==
  ASSUME NEW n \in Nat, NEW q \in Nat, NEW r \in 1..2, n = 3 * q + r
  PROVE  (n + 2) \div 3 = q + 1
<1>1. PICK t \in 0..1 : n + 2 = 3 * (q + 1) + t
  <2>1. r - 1 \in 0..1 /\ n + 2 = 3 * (q + 1) + (r - 1)
    OBVIOUS
  <2> QED BY <2>1
<1> QED BY <1>1

LEMMA ThirdsAre ==
  ASSUME NEW q \in Nat, NEW r \in 0..2
  PROVE  (3 * q + r) \div 3 = q /\ (3 * q + r) % 3 = r
OBVIOUS

\* A builder by its parts.
Built(exif, first, second, marker, text, quartets, pending, raw, written) ==
  [exif |-> exif, first |-> first, second |-> second, marker |-> marker, text |-> text,
   quartets |-> quartets, pending |-> pending, raw |-> raw, written |-> written]

LEMMA BuiltFields ==
  ASSUME NEW e, NEW f, NEW s, NEW m, NEW t, NEW q, NEW p, NEW r, NEW w, NEW b, b = Built(e, f, s, m, t, q, p, r, w)
  PROVE  /\ b.exif = e /\ b.first = f /\ b.second = s /\ b.marker = m /\ b.text = t
         /\ b.quartets = q /\ b.pending = p /\ b.raw = r /\ b.written = w
BY DEF Built

LEMMA BuiltIs ==
  ASSUME NEW e, NEW f, NEW s, NEW m, NEW t, NEW q, NEW p, NEW r, NEW w, NEW a
  PROVE  /\ [Built(e, f, s, m, t, q, p, r, w) EXCEPT !["exif"] = a] = Built(a, f, s, m, t, q, p, r, w)
         /\ [Built(e, f, s, m, t, q, p, r, w) EXCEPT !["first"] = a] = Built(e, a, s, m, t, q, p, r, w)
         /\ [Built(e, f, s, m, t, q, p, r, w) EXCEPT !["second"] = a] = Built(e, f, a, m, t, q, p, r, w)
         /\ [Built(e, f, s, m, t, q, p, r, w) EXCEPT !.marker = a] = Built(e, f, s, a, t, q, p, r, w)
         /\ [Built(e, f, s, m, t, q, p, r, w) EXCEPT !.text = a] = Built(e, f, s, m, a, q, p, r, w)
         /\ [Built(e, f, s, m, t, q, p, r, w) EXCEPT !.quartets = a] = Built(e, f, s, m, t, a, p, r, w)
         /\ [Built(e, f, s, m, t, q, p, r, w) EXCEPT !.pending = a] = Built(e, f, s, m, t, q, a, r, w)
         /\ [Built(e, f, s, m, t, q, p, r, w) EXCEPT !.raw = a] = Built(e, f, s, m, t, q, p, a, w)
         /\ [Built(e, f, s, m, t, q, p, r, w) EXCEPT !.written = a] = Built(e, f, s, m, t, q, p, r, a)
<1>1. [Built(e, f, s, m, t, q, p, r, w) EXCEPT !["exif"] = a] = Built(a, f, s, m, t, q, p, r, w)
  BY DEF Built
<1>2. [Built(e, f, s, m, t, q, p, r, w) EXCEPT !["first"] = a] = Built(e, a, s, m, t, q, p, r, w)
  BY DEF Built
<1>3. [Built(e, f, s, m, t, q, p, r, w) EXCEPT !["second"] = a] = Built(e, f, a, m, t, q, p, r, w)
  BY DEF Built
<1>4. [Built(e, f, s, m, t, q, p, r, w) EXCEPT !.marker = a] = Built(e, f, s, a, t, q, p, r, w)
  BY DEF Built
<1>5. [Built(e, f, s, m, t, q, p, r, w) EXCEPT !.text = a] = Built(e, f, s, m, a, q, p, r, w)
  BY DEF Built
<1>6. [Built(e, f, s, m, t, q, p, r, w) EXCEPT !.quartets = a] = Built(e, f, s, m, t, a, p, r, w)
  BY DEF Built
<1>7. [Built(e, f, s, m, t, q, p, r, w) EXCEPT !.pending = a] = Built(e, f, s, m, t, q, a, r, w)
  BY DEF Built
<1>8. [Built(e, f, s, m, t, q, p, r, w) EXCEPT !.raw = a] = Built(e, f, s, m, t, q, p, a, w)
  BY DEF Built
<1>9. [Built(e, f, s, m, t, q, p, r, w) EXCEPT !.written = a] = Built(e, f, s, m, t, q, p, r, a)
  BY DEF Built
<1> QED BY <1>1, <1>2, <1>3, <1>4, <1>5, <1>6, <1>7, <1>8, <1>9

LEMMA BuiltMarker ==
  ASSUME NEW e, NEW f, NEW s, NEW m, NEW t, NEW q, NEW p, NEW r, NEW w, NEW b, NEW c, NEW d, NEW a,
         b = Built(e, f, s, m, t, q, p, r, w), c = [b EXCEPT !.marker = a], d = Built(e, f, s, a, t, q, p, r, w)
  PROVE  c = d
BY DEF Built

\* One round of the loop of push, for one of the first three parts.
LEMMA PushExifIs ==
  ASSUME NEW e, NEW f, NEW s, NEW m, NEW t, NEW q, NEW p, NEW r, NEW w,
         NEW limit, NEW have, NEW n, NEW run, NEW k,
         builder = Built(e, f, s, m, t, q, p, r, w), have = Bsky!Bytes(builder["exif"]),
         n = Bsky!Lesser(input, limit - have), Bsky!PushTo("exif", limit),
         run = Bsky!Grow(builder["exif"], w, n),
         k = (m \/ ("exif" = "first" /\ have + n = limit /\ Parts.second > 0))
  PROVE  input' = input - n /\ builder' = Built(run, f, s, k, t, q, p, r, w + n)
<1>1. builder.written = w /\ builder.marker = m
  BY BuiltFields
<1>2. /\ input' = input - n
      /\ builder' = [builder EXCEPT !["exif"] = run, !.written = w + n, !.marker = k]
  BY <1>1 DEF Bsky!PushTo, Parts
<1>3. PICK a : a = [builder EXCEPT !["exif"] = run]
  OBVIOUS
<1>4. PICK b : b = [a EXCEPT !.written = w + n]
  OBVIOUS
<1>5. builder' = [b EXCEPT !.marker = k]
  BY <1>2, <1>3, <1>4
<1>6. a = Built(run, f, s, m, t, q, p, r, w)
  BY <1>3 DEF Built
<1>7. b = Built(run, f, s, m, t, q, p, r, w + n)
  BY <1>4, <1>6 DEF Built
<1>8. builder' = Built(run, f, s, k, t, q, p, r, w + n)
  BY ONLY <1>5, <1>7, BuiltMarker
<1> QED BY <1>2, <1>8

LEMMA PushFirstIs ==
  ASSUME NEW e, NEW f, NEW s, NEW m, NEW t, NEW q, NEW p, NEW r, NEW w,
         NEW limit, NEW have, NEW n, NEW run, NEW k,
         builder = Built(e, f, s, m, t, q, p, r, w), have = Bsky!Bytes(builder["first"]),
         n = Bsky!Lesser(input, limit - have), Bsky!PushTo("first", limit),
         run = Bsky!Grow(builder["first"], w, n),
         k = (m \/ ("first" = "first" /\ have + n = limit /\ Parts.second > 0))
  PROVE  input' = input - n /\ builder' = Built(e, run, s, k, t, q, p, r, w + n)
<1>1. builder.written = w /\ builder.marker = m
  BY BuiltFields
<1>2. /\ input' = input - n
      /\ builder' = [builder EXCEPT !["first"] = run, !.written = w + n, !.marker = k]
  BY <1>1 DEF Bsky!PushTo, Parts
<1>3. PICK a : a = [builder EXCEPT !["first"] = run]
  OBVIOUS
<1>4. PICK b : b = [a EXCEPT !.written = w + n]
  OBVIOUS
<1>5. builder' = [b EXCEPT !.marker = k]
  BY <1>2, <1>3, <1>4
<1>6. a = Built(e, run, s, m, t, q, p, r, w)
  BY <1>3 DEF Built
<1>7. b = Built(e, run, s, m, t, q, p, r, w + n)
  BY <1>4, <1>6 DEF Built
<1>8. builder' = Built(e, run, s, k, t, q, p, r, w + n)
  BY ONLY <1>5, <1>7, BuiltMarker
<1> QED BY <1>2, <1>8

LEMMA PushSecondIs ==
  ASSUME NEW e, NEW f, NEW s, NEW m, NEW t, NEW q, NEW p, NEW r, NEW w,
         NEW limit, NEW have, NEW n, NEW run, NEW k,
         builder = Built(e, f, s, m, t, q, p, r, w), have = Bsky!Bytes(builder["second"]),
         n = Bsky!Lesser(input, limit - have), Bsky!PushTo("second", limit),
         run = Bsky!Grow(builder["second"], w, n),
         k = (m \/ ("second" = "first" /\ have + n = limit /\ Parts.second > 0))
  PROVE  input' = input - n /\ builder' = Built(e, f, run, k, t, q, p, r, w + n)
<1>1. builder.written = w /\ builder.marker = m
  BY BuiltFields
<1>2. /\ input' = input - n
      /\ builder' = [builder EXCEPT !["second"] = run, !.written = w + n, !.marker = k]
  BY <1>1 DEF Bsky!PushTo, Parts
<1>3. PICK a : a = [builder EXCEPT !["second"] = run]
  OBVIOUS
<1>4. PICK b : b = [a EXCEPT !.written = w + n]
  OBVIOUS
<1>5. builder' = [b EXCEPT !.marker = k]
  BY <1>2, <1>3, <1>4
<1>6. a = Built(e, f, run, m, t, q, p, r, w)
  BY <1>3 DEF Built
<1>7. b = Built(e, f, run, m, t, q, p, r, w + n)
  BY <1>4, <1>6 DEF Built
<1>8. builder' = Built(e, f, run, k, t, q, p, r, w + n)
  BY ONLY <1>5, <1>7, BuiltMarker
<1> QED BY <1>2, <1>8

-----------------------------------------------------------------------------
\* So much of each part is packed.
Marked(f) == f = Parts.first /\ Parts.second > 0
IsPacked(b, e, f, s, x) ==
  b = Built(Stretch(0, e), Stretch(Parts.exif, f), Stretch(SecondFrom, s), Marked(f),
            Stretch(TextFrom, 3 * (x \div 3)), x \div 3, Stretch(TextFrom + 3 * (x \div 3), x % 3),
            x, e + f + s + x)
InParts(e, f, s, x) ==
  /\ e \in 0..Parts.exif /\ f \in 0..Parts.first /\ s \in 0..Parts.second /\ x \in 0..Parts.xmp
  /\ e < Parts.exif => f = 0
  /\ f < Parts.first => s = 0
  /\ s < Parts.second => x = 0
Packing ==
  phase = "push" =>
    /\ input \in Nat
    /\ \E e, f, s, x \in Nat :
         InParts(e, f, s, x) /\ IsPacked(builder, e, f, s, x) /\ e + f + s + x + input <= size

LEMMA PartsStay ==
  ASSUME size' = size
  PROVE  Parts' = Parts /\ SecondFrom' = SecondFrom /\ TextFrom' = TextFrom
<1>1. Parts' = Parts
  BY DEF Parts, Bsky!Layout
<1> QED BY <1>1 DEF SecondFrom, TextFrom

LEMMA PackingStep ==
  ASSUME NEW e \in Nat, NEW f \in Nat, NEW s \in Nat, NEW x \in Nat,
         InParts(e, f, s, x), IsPacked(builder', e, f, s, x), e + f + s + x + input' <= size,
         input' \in Nat, size' = size
  PROVE  Packing'
<1>1. InParts(e, f, s, x)'
  BY PartsStay DEF InParts
<1>2. IsPacked(builder, e, f, s, x)'
  BY PartsStay DEF IsPacked, Marked
<1>3. (e + f + s + x + input <= size)'
  OBVIOUS
<1> QED BY <1>1, <1>2, <1>3 DEF Packing

LEMMA PackedParts ==
  ASSUME NEW b, NEW e \in Nat, NEW f \in Nat, NEW s \in Nat, NEW x \in Nat, IsPacked(b, e, f, s, x)
  PROVE  /\ Bsky!Bytes(b.exif) = e /\ Bsky!Bytes(b.first) = f /\ Bsky!Bytes(b.second) = s
         /\ b.exif = Stretch(0, e) /\ b.first = Stretch(Parts.exif, f) /\ b.second = Stretch(SecondFrom, s)
         /\ b.marker = Marked(f)
         /\ b.text = Stretch(TextFrom, 3 * (x \div 3)) /\ b.quartets = x \div 3
         /\ b.pending = Stretch(TextFrom + 3 * (x \div 3), x % 3) /\ Bsky!Bytes(b.pending) = x % 3
         /\ b.raw = x /\ b.written = e + f + s + x
<1>1. PICK m : m = Marked(f)
  OBVIOUS
<1>2. b = Built(Stretch(0, e), Stretch(Parts.exif, f), Stretch(SecondFrom, s), m,
            Stretch(TextFrom, 3 * (x \div 3)), x \div 3, Stretch(TextFrom + 3 * (x \div 3), x % 3),
            x, e + f + s + x)
  BY <1>1 DEF IsPacked
<1>3. /\ b.exif = Stretch(0, e) /\ b.first = Stretch(Parts.exif, f) /\ b.second = Stretch(SecondFrom, s)
      /\ b.marker = m
      /\ b.text = Stretch(TextFrom, 3 * (x \div 3)) /\ b.quartets = x \div 3
      /\ b.pending = Stretch(TextFrom + 3 * (x \div 3), x % 3)
      /\ b.raw = x /\ b.written = e + f + s + x
  BY <1>2, BuiltFields
<1>4. x % 3 \in Nat
  OBVIOUS
<1>5. Bsky!Bytes(b.exif) = e
  BY <1>3, RunBytes
<1>6. Bsky!Bytes(b.first) = f
  BY <1>3, RunBytes
<1>7. Bsky!Bytes(b.second) = s
  BY <1>3, RunBytes
<1>8. Bsky!Bytes(b.pending) = x % 3
  BY <1>3, <1>4, RunBytes
<1> QED BY <1>1, <1>3, <1>5, <1>6, <1>7, <1>8

\* A round of push for the EXIF segment.
LEMMA PackingExif ==
  ASSUME size \in Nat, Packing, Bsky!PushExif
  PROVE  Packing'
<1>1. PICK e \in Nat, f \in Nat, s \in Nat, x \in Nat :
        InParts(e, f, s, x) /\ IsPacked(builder, e, f, s, x) /\ e + f + s + x + input <= size
  BY DEF Packing, Bsky!PushExif
<1>2. phase = "push" /\ input \in Nat /\ input > 0 /\ e < Parts.exif
      /\ Bsky!PushTo("exif", Parts.exif) /\ size' = size
  <2>1. Bsky!Bytes(builder.exif) = e /\ Bsky!Bytes(builder.first) = f /\ Bsky!Bytes(builder.second) = s
    BY <1>1, PackedParts
  <2> QED BY <2>1 DEF Packing, Bsky!PushExif, Parts
<1>3. /\ Parts.exif \in Nat /\ Parts.first \in Nat /\ Parts.second \in Nat /\ Parts.xmp \in Nat
      /\ Parts.second > 0 => Parts.first = 32767
      /\ Parts.xmp > 0 => Parts.second = 32730
  BY LayoutIs
<1>4. f = 0 /\ s = 0 /\ x = 0
  BY <1>1, <1>2, <1>3 DEF InParts
<1>5. PICK n \in Nat \ {0} : n = Bsky!Lesser(input, Parts.exif - e) /\ n <= input /\ n <= Parts.exif - e
  BY <1>2, <1>3 DEF Bsky!Lesser
<1>6. Bsky!Bytes(builder["exif"]) = e /\ builder.written = e + f + s + x
      /\ builder["exif"] = Stretch(0, e) /\ builder.marker = Marked(f)
  BY <1>1, PackedParts
<1>7. Stretch(0, e + n) = Bsky!Grow(builder["exif"], builder.written, n)
  <2>1. builder.written = 0 + e /\ 0 \in Nat
    BY <1>1, <1>2, <1>3, <1>4, <1>6 DEF SecondFrom
  <2>2. Bsky!Grow(Stretch(0, e), 0 + e, n) = Stretch(0, e + n)
    BY <1>5, <2>1, RunGrows
  <2> QED BY <1>6, <2>1, <2>2
<1>8. /\ input' = input - n
      /\ builder' = Built(Stretch(0, e + n), Stretch(Parts.exif, f), Stretch(SecondFrom, s), Marked(f),
            Stretch(TextFrom, 3 * (x \div 3)), x \div 3, Stretch(TextFrom + 3 * (x \div 3), x % 3),
            x, e + f + s + x + n)
  <2>1. PICK had : had = e
    OBVIOUS
  <2>2. PICK run : run = Stretch(0, e + n)
    OBVIOUS
  <2>3. PICK k : k = Marked(f)
    OBVIOUS
  <2>4. PICK m : m = Marked(f)
    OBVIOUS
  <2>5. had = Bsky!Bytes(builder["exif"]) /\ n = Bsky!Lesser(input, Parts.exif - had)
        /\ run = Bsky!Grow(builder["exif"], e + f + s + x, n)
    BY <1>5, <1>6, <1>7, <2>1, <2>2
  <2>6. k = (m \/ ("exif" = "first" /\ had + n = Parts.exif /\ Parts.second > 0))
    BY <2>3, <2>4 DEF Marked
  <2>7. builder = Built(Stretch(0, e), Stretch(Parts.exif, f), Stretch(SecondFrom, s), m,
            Stretch(TextFrom, 3 * (x \div 3)), x \div 3, Stretch(TextFrom + 3 * (x \div 3), x % 3),
            x, e + f + s + x)
    BY <1>1, <2>4 DEF IsPacked
  <2>8. input' = input - n /\ builder' = Built(run, Stretch(Parts.exif, f), Stretch(SecondFrom, s), k,
            Stretch(TextFrom, 3 * (x \div 3)), x \div 3, Stretch(TextFrom + 3 * (x \div 3), x % 3),
            x, e + f + s + x + n)
    BY <1>2, <2>5, <2>6, <2>7, PushExifIs
  <2> QED BY <2>2, <2>3, <2>8
<1>9. IsPacked(builder', e + n, f, s, x)
  <2>1. e + f + s + x + n = e + n + f + s + x
    OBVIOUS
  <2> QED BY <1>8, <2>1 DEF IsPacked
<1>10. InParts(e + n, f, s, x) /\ e + n + f + s + x + input' <= size /\ e + n \in Nat /\ input' \in Nat
  <2>1. input' = input - n
    BY <1>8
  <2>2. InParts(e + n, f, s, x)
    BY <1>1, <1>2, <1>3, <1>4, <1>5 DEF InParts
  <2>3. e + n + f + s + x + input' <= size /\ e + n \in Nat /\ input' \in Nat
    BY <1>1, <1>2, <1>5, <2>1
  <2> QED BY <2>2, <2>3
<1> QED BY <1>2, <1>9, <1>10, PackingStep

\* Of the first dataset; when it is full its end is marked, if there is a second one.
LEMMA PackingFirst ==
  ASSUME size \in Nat, Packing, Bsky!PushFirst
  PROVE  Packing'
<1>1. PICK e \in Nat, f \in Nat, s \in Nat, x \in Nat :
        InParts(e, f, s, x) /\ IsPacked(builder, e, f, s, x) /\ e + f + s + x + input <= size
  BY DEF Packing, Bsky!PushFirst
<1>2. phase = "push" /\ input \in Nat /\ input > 0 /\ e = Parts.exif /\ f < Parts.first
      /\ Bsky!PushTo("first", Parts.first) /\ size' = size
  <2>1. Bsky!Bytes(builder.exif) = e /\ Bsky!Bytes(builder.first) = f /\ Bsky!Bytes(builder.second) = s
    BY <1>1, PackedParts
  <2> QED BY <2>1 DEF Packing, Bsky!PushFirst, Parts
<1>3. /\ Parts.exif \in Nat /\ Parts.first \in Nat /\ Parts.second \in Nat /\ Parts.xmp \in Nat
      /\ Parts.second > 0 => Parts.first = 32767
      /\ Parts.xmp > 0 => Parts.second = 32730
  BY LayoutIs
<1>4. s = 0 /\ x = 0
  BY <1>1, <1>2, <1>3 DEF InParts
<1>5. PICK n \in Nat \ {0} : n = Bsky!Lesser(input, Parts.first - f) /\ n <= input /\ n <= Parts.first - f
  BY <1>2, <1>3 DEF Bsky!Lesser
<1>6. Bsky!Bytes(builder["first"]) = f /\ builder.written = e + f + s + x
      /\ builder["first"] = Stretch(Parts.exif, f) /\ builder.marker = Marked(f)
  BY <1>1, PackedParts
<1>7. Stretch(Parts.exif, f + n) = Bsky!Grow(builder["first"], builder.written, n)
  <2>1. builder.written = Parts.exif + f /\ Parts.exif \in Nat
    BY <1>1, <1>2, <1>3, <1>4, <1>6 DEF SecondFrom
  <2>2. Bsky!Grow(Stretch(Parts.exif, f), Parts.exif + f, n) = Stretch(Parts.exif, f + n)
    BY <1>5, <2>1, RunGrows
  <2> QED BY <1>6, <2>1, <2>2
<1>8. /\ input' = input - n
      /\ builder' = Built(Stretch(0, e), Stretch(Parts.exif, f + n), Stretch(SecondFrom, s), Marked(f + n),
            Stretch(TextFrom, 3 * (x \div 3)), x \div 3, Stretch(TextFrom + 3 * (x \div 3), x % 3),
            x, e + f + s + x + n)
  <2>1. PICK had : had = f
    OBVIOUS
  <2>2. PICK run : run = Stretch(Parts.exif, f + n)
    OBVIOUS
  <2>3. PICK k : k = Marked(f + n)
    OBVIOUS
  <2>4. PICK m : m = Marked(f)
    OBVIOUS
  <2>5. had = Bsky!Bytes(builder["first"]) /\ n = Bsky!Lesser(input, Parts.first - had)
        /\ run = Bsky!Grow(builder["first"], e + f + s + x, n)
    BY <1>5, <1>6, <1>7, <2>1, <2>2
  <2>6. k = (m \/ ("first" = "first" /\ had + n = Parts.first /\ Parts.second > 0))
    <3>1. f # Parts.first
      BY <1>2, <1>3
    <3> QED BY <2>1, <2>3, <2>4, <3>1 DEF Marked
  <2>7. builder = Built(Stretch(0, e), Stretch(Parts.exif, f), Stretch(SecondFrom, s), m,
            Stretch(TextFrom, 3 * (x \div 3)), x \div 3, Stretch(TextFrom + 3 * (x \div 3), x % 3),
            x, e + f + s + x)
    BY <1>1, <2>4 DEF IsPacked
  <2>8. input' = input - n /\ builder' = Built(Stretch(0, e), run, Stretch(SecondFrom, s), k,
            Stretch(TextFrom, 3 * (x \div 3)), x \div 3, Stretch(TextFrom + 3 * (x \div 3), x % 3),
            x, e + f + s + x + n)
    BY <1>2, <2>5, <2>6, <2>7, PushFirstIs
  <2> QED BY <2>2, <2>3, <2>8
<1>9. IsPacked(builder', e, f + n, s, x)
  <2>1. e + f + s + x + n = e + (f + n) + s + x
    OBVIOUS
  <2> QED BY <1>8, <2>1 DEF IsPacked
<1>10. InParts(e, f + n, s, x) /\ e + (f + n) + s + x + input' <= size /\ f + n \in Nat /\ input' \in Nat
  <2>1. input' = input - n
    BY <1>8
  <2>2. InParts(e, f + n, s, x)
    BY <1>1, <1>2, <1>3, <1>4, <1>5 DEF InParts
  <2>3. e + (f + n) + s + x + input' <= size /\ f + n \in Nat /\ input' \in Nat
    BY <1>1, <1>2, <1>5, <2>1
  <2> QED BY <2>2, <2>3
<1> QED BY <1>2, <1>9, <1>10, PackingStep

\* Of the second one.
LEMMA PackingSecond ==
  ASSUME size \in Nat, Packing, Bsky!PushSecond
  PROVE  Packing'
<1>1. PICK e \in Nat, f \in Nat, s \in Nat, x \in Nat :
        InParts(e, f, s, x) /\ IsPacked(builder, e, f, s, x) /\ e + f + s + x + input <= size
  BY DEF Packing, Bsky!PushSecond
<1>2. phase = "push" /\ input \in Nat /\ input > 0 /\ e = Parts.exif /\ f = Parts.first /\ s < Parts.second
      /\ Bsky!PushTo("second", Parts.second) /\ size' = size
  <2>1. Bsky!Bytes(builder.exif) = e /\ Bsky!Bytes(builder.first) = f /\ Bsky!Bytes(builder.second) = s
    BY <1>1, PackedParts
  <2> QED BY <2>1 DEF Packing, Bsky!PushSecond, Parts
<1>3. /\ Parts.exif \in Nat /\ Parts.first \in Nat /\ Parts.second \in Nat /\ Parts.xmp \in Nat
      /\ Parts.second > 0 => Parts.first = 32767
      /\ Parts.xmp > 0 => Parts.second = 32730
  BY LayoutIs
<1>4. x = 0
  BY <1>1, <1>2, <1>3 DEF InParts
<1>5. PICK n \in Nat \ {0} : n = Bsky!Lesser(input, Parts.second - s) /\ n <= input /\ n <= Parts.second - s
  BY <1>2, <1>3 DEF Bsky!Lesser
<1>6. Bsky!Bytes(builder["second"]) = s /\ builder.written = e + f + s + x
      /\ builder["second"] = Stretch(SecondFrom, s) /\ builder.marker = Marked(f)
  BY <1>1, PackedParts
<1>7. Stretch(SecondFrom, s + n) = Bsky!Grow(builder["second"], builder.written, n)
  <2>1. builder.written = SecondFrom + s /\ SecondFrom \in Nat
    BY <1>1, <1>2, <1>3, <1>4, <1>6 DEF SecondFrom
  <2>2. Bsky!Grow(Stretch(SecondFrom, s), SecondFrom + s, n) = Stretch(SecondFrom, s + n)
    BY <1>5, <2>1, RunGrows
  <2> QED BY <1>6, <2>1, <2>2
<1>8. /\ input' = input - n
      /\ builder' = Built(Stretch(0, e), Stretch(Parts.exif, f), Stretch(SecondFrom, s + n), Marked(f),
            Stretch(TextFrom, 3 * (x \div 3)), x \div 3, Stretch(TextFrom + 3 * (x \div 3), x % 3),
            x, e + f + s + x + n)
  <2>1. PICK had : had = s
    OBVIOUS
  <2>2. PICK run : run = Stretch(SecondFrom, s + n)
    OBVIOUS
  <2>3. PICK k : k = Marked(f)
    OBVIOUS
  <2>4. PICK m : m = Marked(f)
    OBVIOUS
  <2>5. had = Bsky!Bytes(builder["second"]) /\ n = Bsky!Lesser(input, Parts.second - had)
        /\ run = Bsky!Grow(builder["second"], e + f + s + x, n)
    BY <1>5, <1>6, <1>7, <2>1, <2>2
  <2>6. k = (m \/ ("second" = "first" /\ had + n = Parts.second /\ Parts.second > 0))
    BY <2>3, <2>4 DEF Marked
  <2>7. builder = Built(Stretch(0, e), Stretch(Parts.exif, f), Stretch(SecondFrom, s), m,
            Stretch(TextFrom, 3 * (x \div 3)), x \div 3, Stretch(TextFrom + 3 * (x \div 3), x % 3),
            x, e + f + s + x)
    BY <1>1, <2>4 DEF IsPacked
  <2>8. input' = input - n /\ builder' = Built(Stretch(0, e), Stretch(Parts.exif, f), run, k,
            Stretch(TextFrom, 3 * (x \div 3)), x \div 3, Stretch(TextFrom + 3 * (x \div 3), x % 3),
            x, e + f + s + x + n)
    BY <1>2, <2>5, <2>6, <2>7, PushSecondIs
  <2> QED BY <2>2, <2>3, <2>8
<1>9. IsPacked(builder', e, f, s + n, x)
  <2>1. e + f + s + x + n = e + f + (s + n) + x
    OBVIOUS
  <2> QED BY <1>8, <2>1 DEF IsPacked
<1>10. InParts(e, f, s + n, x) /\ e + f + (s + n) + x + input' <= size /\ s + n \in Nat /\ input' \in Nat
  <2>1. input' = input - n
    BY <1>8
  <2>2. InParts(e, f, s + n, x)
    BY <1>1, <1>2, <1>3, <1>4, <1>5 DEF InParts
  <2>3. e + f + (s + n) + x + input' <= size /\ s + n \in Nat /\ input' \in Nat
    BY <1>1, <1>2, <1>5, <2>1
  <2> QED BY <2>2, <2>3
<1> QED BY <1>2, <1>9, <1>10, PackingStep

\* Three fields of a builder that change.
Anew(b, t, q, p) == [b EXCEPT !.text = t, !.quartets = q, !.pending = p]

LEMMA BuiltAnew ==
  ASSUME NEW e, NEW f, NEW s, NEW m, NEW t, NEW q, NEW p, NEW r, NEW w, NEW t2, NEW q2, NEW p2, NEW b, NEW c,
         b = Built(e, f, s, m, t, q, p, r, w),
         c = Anew(b, t2, q2, p2)
  PROVE  c = Built(e, f, s, m, t2, q2, p2, r, w)
<1>1. PICK a : a = [b EXCEPT !.text = t2]
  OBVIOUS
<1>2. PICK d : d = [a EXCEPT !.quartets = q2]
  OBVIOUS
<1>3. c = [d EXCEPT !.pending = p2]
  BY <1>1, <1>2 DEF Anew
<1>4. a = Built(e, f, s, m, t2, q, p, r, w)
  BY ONLY b = Built(e, f, s, m, t, q, p, r, w), <1>1 DEF Built
<1>5. d = Built(e, f, s, m, t2, q2, p, r, w)
  BY ONLY <1>2, <1>4 DEF Built
<1> QED BY ONLY <1>3, <1>5 DEF Built

LEMMA BuiltPending ==
  ASSUME NEW e, NEW f, NEW s, NEW m, NEW t, NEW q, NEW p, NEW r, NEW w, NEW p2, NEW b, NEW c,
         b = Built(e, f, s, m, t, q, p, r, w), c = [b EXCEPT !.pending = p2]
  PROVE  c = Built(e, f, s, m, t, q, p2, r, w)
BY DEF Built

Advanced(b, n) == [b EXCEPT !.raw = @ + n, !.written = @ + n]

LEMMA BuiltCounts ==
  ASSUME NEW e, NEW f, NEW s, NEW m, NEW t, NEW q, NEW p, NEW r, NEW w, NEW n, NEW b, NEW c,
         b = Built(e, f, s, m, t, q, p, r, w), c = Advanced(b, n)
  PROVE  c = Built(e, f, s, m, t, q, p, r + n, w + n)
<1>1. b.raw = r /\ b.written = w
  BY BuiltFields
<1>2. PICK a : a = [b EXCEPT !.raw = r + n]
  OBVIOUS
<1>3. a = Built(e, f, s, m, t, q, p, r + n, w)
  BY ONLY b = Built(e, f, s, m, t, q, p, r, w), <1>2 DEF Built
<1>4. a.written = w
  BY <1>3, BuiltFields
<1>5. c = [a EXCEPT !.written = w + n]
  BY <1>1, <1>2, <1>4 DEF Advanced
<1> QED BY ONLY <1>3, <1>5 DEF Built

\* The text of a builder, so far.
TextIs(b, e, f, s, m, from, q, r, x, w) ==
  b = Built(e, f, s, m, Stretch(from, 3 * q), q, Stretch(from + 3 * q, r), x, w)
Follows(w, from, q, r) == w = from + 3 * q + r

\* A piece that is encoded: the triplets come out, what is left of the last waits.
EncodedTo(b, e, f, s, m, from, y, x, w) ==
  \E q2 \in Nat, r2 \in 0..2 : y = 3 * q2 + r2 /\ TextIs(b, e, f, s, m, from, q2, r2, x, w)

LEMMA EncodeIs ==
  ASSUME NEW e, NEW f, NEW s, NEW m, NEW from \in Nat, NEW q \in Nat, NEW r \in 0..2, NEW x,
         NEW n \in Nat \ {0}, NEW w, NEW b, NEW y, Follows(w, from, q, r), Follows(y, n, q, r), TextIs(b, e, f, s, m, from, q, r, x, w)
  PROVE  EncodedTo(Bsky!Encode(b, n), e, f, s, m, from, y, x, w)
<1>a. SUFFICES \E q2 \in Nat, r2 \in 0..2 :
                 /\ 3 * q + r + n = 3 * q2 + r2
                 /\ TextIs(Bsky!Encode(b, n), e, f, s, m, from, q2, r2, x, w)
  <2>1. y = 3 * q + r + n
    BY DEF Follows
  <2> QED BY <2>1 DEF EncodedTo
<1>0. w = from + 3 * q + r /\ b = Built(e, f, s, m, Stretch(from, 3 * q), q, Stretch(from + 3 * q, r), x, w)
  BY DEF Follows, TextIs
<1>1. /\ b.text = Stretch(from, 3 * q) /\ b.quartets = q /\ b.pending = Stretch(from + 3 * q, r) /\ b.written = w
  BY <1>0, BuiltFields
<1>2. PICK waiting : waiting = Bsky!Bytes(b.pending)
  OBVIOUS
<1>3. PICK lead : lead = IF waiting = 0 THEN 0 ELSE Bsky!Lesser(3 - waiting, n)
  OBVIOUS
<1>4. PICK filled : filled = IF lead = 0 THEN b.pending ELSE Bsky!Grow(b.pending, b.written, lead)
  OBVIOUS
<1>5. PICK whole : whole = (n - lead) \div 3
  OBVIOUS
<1>6. PICK after : after = b.written + lead + 3 * whole
  OBVIOUS
<1>7. PICK led : led = IF Bsky!Bytes(filled) = 3
        THEN [b EXCEPT !.text = Bsky!Grow(b.text, filled[1][1], 3), !.quartets = b.quartets + 1, !.pending = <<>>]
        ELSE [b EXCEPT !.pending = filled]
  OBVIOUS
<1>8. PICK text : text = IF whole = 0 THEN led.text ELSE Bsky!Grow(led.text, b.written + lead, 3 * whole)
  OBVIOUS
<1>9. PICK quartets : quartets = led.quartets + whole
  OBVIOUS
<1>10. PICK pending : pending = IF after = b.written + n THEN led.pending ELSE <<<<after, b.written + n - after>>>>
  OBVIOUS
<1>11. Bsky!Encode(b, n) = Anew(led, text, quartets, pending)
  <2>1. Bsky!Encode(b, n) = [led EXCEPT !.text = text, !.quartets = quartets, !.pending = pending]
    BY <1>2, <1>3, <1>4, <1>5, <1>6, <1>7, <1>8, <1>9, <1>10 DEF Bsky!Encode
  <2> QED BY <2>1 DEF Anew
\* What waits with the first bytes of the piece.
<1>12. waiting = r
  <2>1. Bsky!Bytes(Stretch(from + 3 * q, r)) = r
    BY RunBytes
  <2> QED BY <1>1, <1>2, <2>1
<1>13. /\ lead \in Nat /\ lead <= n /\ r + lead \in 0..3
       /\ (r = 0) = (lead = 0)
       /\ r > 0 /\ r + lead < 3 => lead = n
  BY <1>3, <1>12 DEF Bsky!Lesser
<1>14. filled = Stretch(from + 3 * q, r + lead)
  <2>1. CASE lead = 0
    BY <1>0, <1>1, <1>4, <2>1
  <2>2. CASE lead # 0
    <3>1. Bsky!Grow(Stretch(from + 3 * q, r), from + 3 * q + r, lead) = Stretch(from + 3 * q, r + lead)
      <4>1. PICK g \in Nat : g = from + 3 * q
        OBVIOUS
      <4>2. lead \in Nat \ {0} /\ r \in Nat
        BY <1>13, <2>2
      <4>3. Bsky!Grow(Stretch(g, r), g + r, lead) = Stretch(g, r + lead)
        BY <4>2, RunGrows
      <4> QED BY <4>1, <4>3
    <3> QED BY <1>0, <1>1, <1>4, <2>2, <3>1
  <2> QED BY <2>1, <2>2
<1>15. Bsky!Bytes(filled) = r + lead
  <2>1. r + lead \in Nat
    BY <1>13
  <2> QED BY <1>14, <2>1, RunBytes
\* One quartet more, if they are three.
<1>16a. PICK q1 \in Nat : \E p1 :
        /\ led = Built(e, f, s, m, Stretch(from, 3 * q1), q1, p1, x, w)
        /\ r = 0 \/ r + lead = 3 => (p1 = <<>> /\ 3 * q1 = 3 * q + r + lead)
        /\ r > 0 /\ r + lead < 3 => (p1 = Stretch(from + 3 * q, r + lead) /\ q1 = q)
  <2>1. CASE r + lead = 3
    <3>1. filled = <<<<from + 3 * q, 3>>>> /\ filled[1][1] = from + 3 * q
      BY <1>14, <2>1 DEF Stretch
    <3>2. Bsky!Grow(Stretch(from, 3 * q), from + 3 * q, 3) = Stretch(from, 3 * q + 3)
      BY RunGrows
    <3>3. 3 * q + 3 = 3 * (q + 1) /\ q + 1 \in Nat
      OBVIOUS
    <3>4. Bsky!Grow(b.text, filled[1][1], 3) = Stretch(from, 3 * (q + 1))
      BY <1>1, <3>1, <3>2, <3>3
    <3>5. led = Anew(b, Stretch(from, 3 * (q + 1)), q + 1, <<>>)
      BY <1>1, <1>7, <1>15, <2>1, <3>4 DEF Anew
    <3>6. led = Built(e, f, s, m, Stretch(from, 3 * (q + 1)), q + 1, <<>>, x, w)
      BY ONLY <3>5, BuiltAnew, <1>0
    <3>7. 3 * (q + 1) = 3 * q + r + lead
      BY <1>13, <2>1
    <3> QED BY <2>1, <3>3, <3>6, <3>7
  <2>2. CASE r + lead # 3
    <3>1. led = [b EXCEPT !.pending = filled]
      BY <1>7, <1>15, <2>2
    <3>2. led = Built(e, f, s, m, Stretch(from, 3 * q), q, Stretch(from + 3 * q, r + lead), x, w)
      BY <1>0, <1>14, <3>1, BuiltPending
    <3>3. r = 0 => (Stretch(from + 3 * q, r + lead) = <<>> /\ 3 * q = 3 * q + r + lead)
      BY <1>13 DEF Stretch
    <3> QED BY <2>2, <3>2, <3>3
  <2> QED BY <2>1, <2>2
<1>16. PICK p1 :
         /\ led = Built(e, f, s, m, Stretch(from, 3 * q1), q1, p1, x, w)
         /\ r = 0 \/ r + lead = 3 => (p1 = <<>> /\ 3 * q1 = 3 * q + r + lead)
         /\ r > 0 /\ r + lead < 3 => (p1 = Stretch(from + 3 * q, r + lead) /\ q1 = q)
  BY <1>16a
<1>17. led.text = Stretch(from, 3 * q1) /\ led.quartets = q1 /\ led.pending = p1
  BY <1>16, BuiltFields
\* Then the whole triplets, and what is left.
<1>18. CASE r = 0 \/ r + lead = 3
  <2>1. PICK r2 \in 0..2 : n - lead = 3 * whole + r2 /\ whole \in Nat
    BY <1>5, <1>13
  <2>2. w + lead = from + 3 * q1 /\ after = from + 3 * (q1 + whole) /\ w + n = from + 3 * (q1 + whole) + r2
        /\ q1 + whole \in Nat /\ 3 * q + r + n = 3 * (q1 + whole) + r2
    <3>1. 3 * q1 = 3 * q + r + lead
      BY <1>16, <1>18
    <3>2. 3 * (q1 + whole) = 3 * q1 + 3 * whole /\ q1 + whole \in Nat
      BY <2>1
    <3>3. after = w + lead + 3 * whole
      BY <1>1, <1>6
    <3>4. w + lead = from + 3 * q1
      BY <1>0, <1>13, <3>1
    <3>5. after = from + 3 * (q1 + whole)
      BY <2>1, <3>2, <3>3, <3>4
    <3>6. w + n = from + 3 * (q1 + whole) + r2
      BY <1>0, <1>13, <2>1, <3>1, <3>2
    <3>7. 3 * q + r + n = 3 * (q1 + whole) + r2
      BY <1>0, <1>13, <2>1, <3>1, <3>2
    <3> QED BY <3>2, <3>4, <3>5, <3>6, <3>7
  <2>3. text = Stretch(from, 3 * (q1 + whole))
    <3>1. CASE whole = 0
      BY <1>8, <1>17, <3>1
    <3>2. CASE whole # 0
      <4>1. 3 * q1 \in Nat /\ 3 * whole \in Nat \ {0} /\ 3 * q1 + 3 * whole = 3 * (q1 + whole)
        BY <2>1, <3>2
      <4>2. Bsky!Grow(Stretch(from, 3 * q1), from + 3 * q1, 3 * whole) = Stretch(from, 3 * q1 + 3 * whole)
        BY <4>1, RunGrows
      <4> QED BY <1>1, <1>8, <1>17, <2>2, <3>2, <4>1, <4>2
    <3> QED BY <3>1, <3>2
  <2>4. quartets = q1 + whole
    BY <1>9, <1>17
  <2>5. pending = Stretch(from + 3 * (q1 + whole), r2)
    <3>1. CASE r2 = 0
      BY <1>1, <1>10, <1>16, <1>17, <1>18, <2>2, <3>1 DEF Stretch
    <3>2. CASE r2 # 0
      <4>1. after # w + n /\ w + n - after = r2
        BY <1>0, <2>2, <3>2
      <4> QED BY <1>1, <1>10, <2>2, <3>2, <4>1 DEF Stretch
    <3> QED BY <3>1, <3>2
  <2>6. Bsky!Encode(b, n) = Built(e, f, s, m, Stretch(from, 3 * (q1 + whole)), q1 + whole, Stretch(from + 3 * (q1 + whole), r2), x, w)
    <3>1. Bsky!Encode(b, n) = Anew(led, Stretch(from, 3 * (q1 + whole)), q1 + whole,
                                     Stretch(from + 3 * (q1 + whole), r2))
      BY <1>11, <2>3, <2>4, <2>5
    <3> QED BY ONLY <1>16, <3>1, BuiltAnew
  <2> QED BY <2>1, <2>2, <2>6 DEF TextIs
<1>19. CASE r > 0 /\ r + lead < 3
  <2>1. lead = n /\ whole = 0 /\ after = w + n
    BY <1>0, <1>1, <1>5, <1>6, <1>13, <1>19
  <2>2. text = Stretch(from, 3 * q) /\ quartets = q /\ pending = Stretch(from + 3 * q, r + n)
    BY <1>1, <1>8, <1>9, <1>10, <1>16, <1>17, <1>19, <2>1
  <2>3. Bsky!Encode(b, n) = Built(e, f, s, m, Stretch(from, 3 * q), q, Stretch(from + 3 * q, r + n), x, w)
    <3>1. Bsky!Encode(b, n) = Anew(led, Stretch(from, 3 * q), q, Stretch(from + 3 * q, r + n))
      BY <1>11, <2>2
    <3>2. led = Built(e, f, s, m, Stretch(from, 3 * q), q, Stretch(from + 3 * q, r + lead), x, w)
      BY <1>16, <1>19
    <3> QED BY ONLY <3>1, <3>2, BuiltAnew
  <2>4. r + n \in 0..2 /\ 3 * q + r + n = 3 * q + (r + n)
    BY <1>19, <2>1
  <2> QED BY <2>3, <2>4 DEF TextIs
<1> QED BY <1>13, <1>18, <1>19

\* What is left goes to the text; there is room for all of it.
LEMMA PackingXmp ==
  ASSUME size \in Nat, Packing, Bsky!PushXmp
  PROVE  Packing' /\ phase' = "push"
<1>1. PICK e \in Nat, f \in Nat, s \in Nat, x \in Nat :
        InParts(e, f, s, x) /\ IsPacked(builder, e, f, s, x) /\ e + f + s + x + input <= size
  BY DEF Packing, Bsky!PushXmp
<1>2. /\ phase = "push" /\ input \in Nat /\ input > 0 /\ e = Parts.exif /\ f = Parts.first /\ s = Parts.second
      /\ size' = size
  <2>1. Bsky!Bytes(builder.exif) = e /\ Bsky!Bytes(builder.first) = f /\ Bsky!Bytes(builder.second) = s
    BY <1>1, PackedParts
  <2> QED BY <2>1 DEF Packing, Bsky!PushXmp, Parts
<1>3. /\ Parts.exif \in Nat /\ Parts.first \in Nat /\ Parts.second \in Nat /\ Parts.xmp \in Nat
      /\ Parts.exif + Parts.first + Parts.second + Parts.xmp = size
  BY LayoutIs
<1>4. builder.raw = x /\ builder.written = e + f + s + x
  BY <1>1, PackedParts
<1>5. input <= Parts.xmp - x /\ TextFrom = e + f + s /\ TextFrom \in Nat
  BY <1>1, <1>2, <1>3 DEF TextFrom, SecondFrom
<1>6. PICK n \in Nat \ {0} : n = input /\ n = Bsky!Lesser(input, Parts.xmp - x)
  BY <1>2, <1>5 DEF Bsky!Lesser
<1>7. PICK b : b = Bsky!Encode(builder, n)
  OBVIOUS
<1>8. input' = 0 /\ builder' = Advanced(b, n) /\ phase' = phase
  <2>1. n # 0 /\ n = Bsky!Lesser(input, Bsky!Layout.xmp - builder.raw) /\ input - n = 0
    BY <1>4, <1>6 DEF Parts
  <2>2. input' = input - n /\ builder' = Advanced(Bsky!Encode(builder, n), n) /\ phase' = phase
    BY <2>1 DEF Bsky!PushXmp, Advanced
  <2> QED BY <1>7, <2>1, <2>2
<1>9. PICK q \in Nat, r \in 0..2 : q = x \div 3 /\ r = x % 3 /\ x = 3 * q + r
  BY Thirds
<1>10. PICK m : m = Marked(f)
  OBVIOUS
<1>11. PICK w : w = e + f + s + x
  OBVIOUS
<1>12. builder = Built(Stretch(0, e), Stretch(Parts.exif, f), Stretch(SecondFrom, s), m, Stretch(TextFrom, 3 * q), q,
                       Stretch(TextFrom + 3 * q, r), x, w)
  BY <1>1, <1>9, <1>10, <1>11 DEF IsPacked
<1>13. w = TextFrom + 3 * q + r
  BY <1>5, <1>9, <1>11
<1>14. PICK q2 \in Nat, r2 \in 0..2 :
         /\ 3 * q + r + n = 3 * q2 + r2
         /\ b = Built(Stretch(0, e), Stretch(Parts.exif, f), Stretch(SecondFrom, s), m, Stretch(TextFrom, 3 * q2), q2,
                      Stretch(TextFrom + 3 * q2, r2), x, w)
  <2>1. PICK from : from = TextFrom
    OBVIOUS
  <2>2. PICK exif, first, second : exif = Stretch(0, e) /\ first = Stretch(Parts.exif, f) /\ second = Stretch(SecondFrom, s)
    OBVIOUS
  <2>3. from \in Nat /\ q \in Nat /\ r \in 0..2 /\ n \in Nat \ {0} /\ Follows(w, from, q, r)
        /\ TextIs(builder, exif, first, second, m, from, q, r, x, w)
    BY <1>5, <1>12, <1>13, <2>1, <2>2 DEF Follows, TextIs
  <2>4. PICK y : y = 3 * q + r + n
    OBVIOUS
  <2>5. Follows(y, n, q, r)
    BY <2>3, <2>4 DEF Follows
  <2>6. EncodedTo(Bsky!Encode(builder, n), exif, first, second, m, from, y, x, w)
    BY ONLY <2>3, <2>5, EncodeIs
  <2> QED BY <1>7, <2>1, <2>2, <2>4, <2>6 DEF TextIs, EncodedTo
<1>15. builder' = Built(Stretch(0, e), Stretch(Parts.exif, f), Stretch(SecondFrom, s), m, Stretch(TextFrom, 3 * q2), q2,
                        Stretch(TextFrom + 3 * q2, r2), x + n, w + n)
  BY ONLY <1>8, <1>14, BuiltCounts
<1>16. x + n = 3 * q2 + r2 /\ (x + n) \div 3 = q2 /\ (x + n) % 3 = r2
  <2>1. x + n = 3 * q2 + r2
    BY <1>9, <1>14
  <2> QED BY <2>1, ThirdsAre
<1>17. IsPacked(builder', e, f, s, x + n)
  <2>1. w + n = e + f + s + (x + n)
    BY <1>11
  <2> QED BY <1>10, <1>15, <1>16, <2>1 DEF IsPacked
<1>18. InParts(e, f, s, x + n) /\ e + f + s + (x + n) + input' <= size /\ x + n \in Nat /\ input' \in Nat
  <2>1. x + n <= Parts.xmp
    BY <1>3, <1>5, <1>6
  <2> QED BY <1>1, <1>2, <1>3, <1>8, <2>1 DEF InParts
<1> QED BY <1>2, <1>8, <1>17, <1>18, PackingStep

LEMMA PackingPush ==
  ASSUME size \in Nat, Packing, NEW n \in Nat, Bsky!Push(n)
  PROVE  Packing' /\ phase' = "push"
<1>1. PICK e \in Nat, f \in Nat, s \in Nat, x \in Nat :
        InParts(e, f, s, x) /\ IsPacked(builder, e, f, s, x) /\ e + f + s + x + input <= size
  BY DEF Packing, Bsky!Push
<1>2. builder.written = e + f + s + x
  BY <1>1, PackedParts
<1>3. phase = "push" /\ input = 0 /\ n <= Bsky!Rest /\ input' = n /\ size' = size /\ builder' = builder /\ phase' = phase
  BY DEF Bsky!Push
<1>4. e + f + s + x + input' <= size /\ input' \in Nat
  BY <1>1, <1>2, <1>3 DEF Bsky!Rest
<1>5. IsPacked(builder', e, f, s, x)
  BY <1>1, <1>3
<1> QED BY <1>1, <1>3, <1>4, <1>5, PackingStep

LEMMA PackingStarts ==
  ASSUME size \in Nat, builder' = Bsky!EmptyBuilder, input' = 0, size' = size
  PROVE  Packing'
<1>1. InParts(0, 0, 0, 0)
  BY LayoutIs DEF InParts
<1>2. IsPacked(builder', 0, 0, 0, 0)
  <2>1. Marked(0) = FALSE
    BY LayoutIs DEF Marked
  <2>2. Stretch(0, 0) = <<>> /\ Stretch(Parts.exif, 0) = <<>> /\ Stretch(SecondFrom, 0) = <<>>
        /\ Stretch(TextFrom, 3 * (0 \div 3)) = <<>> /\ 0 \div 3 = 0 /\ Stretch(TextFrom + 3 * (0 \div 3), 0 % 3) = <<>>
        /\ 0 + 0 + 0 + 0 = 0
    BY DEF Stretch
  <2>3. builder' = Built(<<>>, <<>>, <<>>, FALSE, <<>>, 0, <<>>, 0, 0)
    BY DEF Bsky!EmptyBuilder, Built
  <2> QED BY <2>1, <2>2, <2>3 DEF IsPacked
<1> QED BY <1>1, <1>2, PackingStep

-----------------------------------------------------------------------------
\* The segments that are made of all of it.
ExifMade ==
  Bsky!Segment("exif", 509 + Parts.exif, 507 + Parts.exif,
               <<Bsky!Block(463, Parts.exif, Parts.exif, Stretch(0, Parts.exif))>>)
Quartets == (Parts.xmp + 2) \div 3
XmpMade ==
  Bsky!Segment("xmp", 405 + 4 * Quartets, 403 + 4 * Quartets,
               <<Bsky!Block(313, 4 * Quartets, Parts.xmp, Stretch(TextFrom, Parts.xmp))>>)
PhotoshopSize == 35 + Parts.first + (IF Parts.second > 0 THEN 5 ELSE 0) + Parts.second
FirstBlock == Bsky!Block(35, Parts.first, Parts.first, Stretch(Parts.exif, Parts.first))
SecondBlock == Bsky!Block(40 + Parts.first, Parts.second, Parts.second, Stretch(SecondFrom, Parts.second))
SecondBlocks == IF Parts.second > 0 THEN <<SecondBlock>> ELSE <<>>
PhotoshopMade == Bsky!Segment("photoshop", PhotoshopSize, PhotoshopSize - 2, <<FirstBlock>> \o SecondBlocks)
XmpPart == IF Parts.xmp > 0 THEN <<XmpMade>> ELSE <<>>
PhotoshopPart == IF Parts.first > 0 THEN <<PhotoshopMade>> ELSE <<>>
Made == <<ExifMade>> \o XmpPart \o PhotoshopPart

\* What waits makes the last quartet.
LEMMA FinalTextIs ==
  ASSUME NEW x \in Nat, NEW from \in Nat, builder.text = Stretch(from, 3 * (x \div 3)), builder.quartets = x \div 3,
         builder.pending = Stretch(from + 3 * (x \div 3), x % 3)
  PROVE  Bsky!FinalText = <<Stretch(from, x), (x + 2) \div 3>>
<1>1. PICK q \in Nat, r \in 0..2 : q = x \div 3 /\ r = x % 3 /\ x = 3 * q + r
  BY Thirds
<1>2. builder.text = Stretch(from, 3 * q) /\ builder.quartets = q /\ builder.pending = Stretch(from + 3 * q, r)
  BY <1>1
<1>3. CASE r = 0
  <2>1. builder.pending = <<>>
    BY <1>2, <1>3 DEF Stretch
  <2>2. (x + 2) \div 3 = q /\ x = 3 * q
    BY <1>1, <1>3
  <2> QED BY <1>2, <2>1, <2>2 DEF Bsky!FinalText
<1>4. CASE r # 0
  <2>1. builder.pending = <<<<from + 3 * q, r>>>> /\ <<<<from + 3 * q, r>>>> # <<>>
    BY <1>2, <1>4 DEF Stretch
  <2>1a. builder.pending # <<>> /\ builder.pending[1][1] = from + 3 * q
    BY <2>1
  <2>2. (x + 2) \div 3 = q + 1
    <3>1. r \in 1..2
      BY <1>4
    <3> QED BY ONLY <1>1, <3>1, ThirdsAbove
  <2>3. Bsky!Bytes(builder.pending) = r
    BY <1>2, RunBytes
  <2>4. Bsky!Grow(Stretch(from, 3 * q), from + 3 * q, r) = Stretch(from, x)
    <3>1. 3 * q \in Nat /\ r \in Nat \ {0} /\ 3 * q + r = x
      BY <1>1, <1>4
    <3> QED BY <3>1, RunGrows
  <2> QED BY <1>2, <2>1a, <2>2, <2>3, <2>4 DEF Bsky!FinalText
<1> QED BY <1>3, <1>4

\* The capacity that is foreseen.
Fits == size \in Nat /\ size <= 175245

\* finish: whatever the pieces were, the packer does not refuse what was foreseen to fit.
LEMMA FinishMakes ==
  ASSUME size \in Nat, Fits, Packing, Bsky!Finish
  PROVE  segs' = Made /\ phase' = "image"
<1>1. PICK e \in Nat, f \in Nat, s \in Nat, x \in Nat :
        InParts(e, f, s, x) /\ IsPacked(builder, e, f, s, x) /\ e + f + s + x + input <= size
  BY DEF Packing, Bsky!Finish
<1>2. /\ Parts.exif \in Nat /\ Parts.first \in Nat /\ Parts.second \in Nat /\ Parts.xmp \in Nat
      /\ Parts.exif + Parts.first + Parts.second + Parts.xmp = size
      /\ Parts.exif <= 65027 /\ Parts.first <= 32767 /\ Parts.second <= 32730
      /\ Parts.first > 0 => Parts.exif = 65027
      /\ Parts.second > 0 => Parts.first = 32767
      /\ Parts.xmp > 0 => Parts.second = 32730
      /\ size > 65027 <=> Parts.first > 0
  BY LayoutIs
<1>3. e + f + s + x = size
  <2>1. builder.written = e + f + s + x
    BY <1>1, PackedParts
  <2> QED BY <2>1 DEF Bsky!Finish
<1>4. e = Parts.exif /\ f = Parts.first /\ s = Parts.second /\ x = Parts.xmp
  BY <1>1, <1>2, <1>3 DEF InParts
<1>5. /\ Bsky!Bytes(builder.exif) = Parts.exif /\ Bsky!Bytes(builder.first) = Parts.first
      /\ Bsky!Bytes(builder.second) = Parts.second
      /\ builder.exif = Stretch(0, Parts.exif) /\ builder.first = Stretch(Parts.exif, Parts.first)
      /\ builder.second = Stretch(SecondFrom, Parts.second)
      /\ builder.marker = Marked(Parts.first)
      /\ builder.text = Stretch(TextFrom, 3 * (x \div 3)) /\ builder.quartets = x \div 3
      /\ builder.pending = Stretch(TextFrom + 3 * (x \div 3), x % 3)
      /\ builder.raw = Parts.xmp
  <2>1. /\ Bsky!Bytes(builder.exif) = e /\ Bsky!Bytes(builder.first) = f /\ Bsky!Bytes(builder.second) = s
        /\ builder.exif = Stretch(0, e) /\ builder.first = Stretch(Parts.exif, f) /\ builder.second = Stretch(SecondFrom, s)
        /\ builder.marker = Marked(f)
        /\ builder.text = Stretch(TextFrom, 3 * (x \div 3)) /\ builder.quartets = x \div 3
        /\ builder.pending = Stretch(TextFrom + 3 * (x \div 3), x % 3)
        /\ builder.raw = x
    BY <1>1, PackedParts
  <2> QED BY <1>4, <2>1
<1>6. builder.marker = (Parts.second > 0)
  BY <1>5 DEF Marked
<1>7. Bsky!FinalText = <<Stretch(TextFrom, Parts.xmp), Quartets>>
  <2>1. TextFrom \in Nat
    BY <1>2 DEF TextFrom, SecondFrom
  <2> QED BY <1>4, <1>5, <2>1, FinalTextIs DEF Quartets
<1>8. Parts.xmp <= 44721 /\ Quartets \in Nat /\ Quartets <= 14907
  BY <1>2 DEF Quartets, Fits
<1>9. Bsky!ExifSegment = ExifMade
  <2>1. /\ Bsky!ExifTemplate - 2 + Bsky!Bytes(builder.exif) = 509 + Parts.exif
        /\ (IF size > Bsky!ExifLimit THEN Bsky!TemplateSize.exif ELSE Bsky!ExifData) = 507 + Parts.exif
        /\ Bsky!InsertIndex - 2 = 463
    <3>1. Bsky!TemplateSize.exif = 65534
      BY DEF Bsky!TemplateSize
    <3>2. Bsky!Layout.exif = Parts.exif
      BY DEF Parts
    <3> QED BY <1>2, <1>5, <3>1, <3>2 DEF Bsky!ExifTemplate, Bsky!ExifLimit, Bsky!ExifData, Bsky!InsertIndex
  <2> QED BY <1>5, <2>1 DEF Bsky!ExifSegment, ExifMade
<1>10. Bsky!XmpSegment = XmpMade
  <2>1. /\ Bsky!XmpTemplate + 4 * Quartets + Bsky!XmpFooter = 405 + 4 * Quartets
        /\ 405 + 4 * Quartets - 2 = 403 + 4 * Quartets /\ Bsky!XmpTemplate = 313
    BY <1>8 DEF Bsky!XmpTemplate, Bsky!XmpFooter
  <2>2. Bsky!Layout.xmp = Parts.xmp
    BY DEF Parts
  <2>3. Bsky!FinalText[1] = Stretch(TextFrom, Parts.xmp) /\ Bsky!FinalText[2] = Quartets
    BY <1>7
  <2>4. PICK text, count : text = Bsky!FinalText[1] /\ count = Bsky!FinalText[2]
    OBVIOUS
  <2>5. PICK length : length = Bsky!XmpTemplate + 4 * Bsky!FinalText[2] + Bsky!XmpFooter
    OBVIOUS
  <2>6. Bsky!XmpSegment = Bsky!Segment("xmp", length, length - 2, <<Bsky!Block(Bsky!XmpTemplate, 4 * count, Bsky!Layout.xmp, text)>>)
    BY Zenon, <2>4, <2>5 DEF Bsky!XmpSegment
  <2>7. text = Stretch(TextFrom, Parts.xmp) /\ count = Quartets
    BY <2>3, <2>4
  <2>8. length = 405 + 4 * Quartets /\ length - 2 = 403 + 4 * Quartets
    BY ONLY <1>8, <2>1, <2>3, <2>5
  <2>9. Bsky!Block(Bsky!XmpTemplate, 4 * count, Bsky!Layout.xmp, text)
          = Bsky!Block(313, 4 * Quartets, Parts.xmp, Stretch(TextFrom, Parts.xmp))
    BY <2>1, <2>2, <2>7
  <2> QED BY <2>6, <2>8, <2>9 DEF XmpMade
<1>11. Bsky!PhotoshopLength = PhotoshopSize
  <2>1. (IF builder.marker THEN 5 ELSE 0) = (IF Parts.second > 0 THEN 5 ELSE 0)
    BY ONLY <1>6
  <2>2. Bsky!PhotoshopTemplate = 35
    BY DEF Bsky!PhotoshopTemplate
  <2> QED BY Zenon, <1>5, <2>1, <2>2 DEF Bsky!PhotoshopLength, PhotoshopSize
<1>12. Bsky!PhotoshopSegment = PhotoshopMade
  <2>1. Bsky!PhotoshopTemplate = 35 /\ 35 + Parts.first + 5 = 40 + Parts.first
    BY <1>2 DEF Bsky!PhotoshopTemplate
  <2>2. Bsky!Layout.first = Parts.first /\ Bsky!Layout.second = Parts.second
    BY DEF Parts
  <2>3. SecondBlock = Bsky!Block(Bsky!PhotoshopTemplate + Bsky!Bytes(builder.first) + 5, Bsky!Bytes(builder.second),
                            Bsky!Layout.second, builder.second)
    BY <1>5, <2>1, <2>2 DEF SecondBlock
  <2>4. FirstBlock = Bsky!Block(Bsky!PhotoshopTemplate, Bsky!Bytes(builder.first), Bsky!Layout.first, builder.first)
    BY <1>5, <2>1, <2>2 DEF FirstBlock
  <2>5. Bsky!PhotoshopSegment = Bsky!Segment("photoshop", PhotoshopSize, PhotoshopSize - 2,
          <<FirstBlock>> \o (IF builder.marker THEN <<SecondBlock>> ELSE <<>>))
    BY <1>11, <2>3, <2>4 DEF Bsky!PhotoshopSegment
  <2>6. (IF builder.marker THEN <<SecondBlock>> ELSE <<>>) = SecondBlocks
    BY ONLY <1>6 DEF SecondBlocks
  <2> QED BY Zenon, <2>5, <2>6 DEF PhotoshopMade
<1>13. ~ \/ Bsky!Bytes(builder.exif) # Bsky!Layout.exif \/ Bsky!Bytes(builder.first) # Bsky!Layout.first
         \/ Bsky!Bytes(builder.second) # Bsky!Layout.second \/ builder.raw # Bsky!Layout.xmp
         \/ Bsky!HasXmp /\ Bsky!XmpSegment.length > Bsky!XmpLimit
         \/ Bsky!HasXmp /\ (\/ Bsky!PhotoshopLength - 2 # Bsky!TemplateSize.photoshop
                            \/ Bsky!PhotoshopLength - 30 # Bsky!TemplateSize.bim)
  <2>1. Bsky!XmpSegment.length <= 60033
    <3>1. XmpMade.length = 405 + 4 * Quartets
      BY DEF XmpMade, Bsky!Segment
    <3> QED BY <1>8, <1>10, <3>1
  <2>2. Bsky!HasXmp => PhotoshopSize = 65537
    BY <1>2 DEF Bsky!HasXmp, PhotoshopSize, Parts
  <2>3. Bsky!TemplateSize.photoshop = 65535 /\ Bsky!TemplateSize.bim = 65507
    BY DEF Bsky!TemplateSize
  <2>4. Bsky!Layout.xmp = Parts.xmp /\ Bsky!Layout.first = Parts.first /\ Bsky!Layout.second = Parts.second /\ Bsky!Layout.exif = Parts.exif
    BY DEF Parts
  <2>5. ~(Bsky!XmpSegment.length > Bsky!XmpLimit)
    <3>1. Bsky!XmpSegment.length \in Nat
      <4>1. XmpMade.length = 405 + 4 * Quartets
        BY DEF XmpMade, Bsky!Segment
      <4> QED BY <1>8, <1>10, <4>1
    <3> QED BY <2>1, <3>1 DEF Bsky!XmpLimit
  <2> QED BY <1>5, <1>11, <2>2, <2>3, <2>4, <2>5
<1>14. Bsky!HasXmp = (Parts.xmp > 0) /\ Bsky!HasPhotoshop = (Parts.first > 0)
  BY <1>2 DEF Bsky!HasXmp, Bsky!HasPhotoshop, Parts
<1>15. (IF Bsky!HasXmp THEN <<Bsky!XmpSegment>> ELSE <<>>) = XmpPart
  BY ONLY <1>10, <1>14 DEF XmpPart
<1>16. (IF Bsky!HasPhotoshop THEN <<Bsky!PhotoshopSegment>> ELSE <<>>) = PhotoshopPart
  BY ONLY <1>12, <1>14 DEF PhotoshopPart
<1>17. /\ segs' = <<Bsky!ExifSegment>> \o (IF Bsky!HasXmp THEN <<Bsky!XmpSegment>> ELSE <<>>)
                     \o (IF Bsky!HasPhotoshop THEN <<Bsky!PhotoshopSegment>> ELSE <<>>)
       /\ phase' = "image"
  BY Zenon, <1>13 DEF Bsky!Finish, Bsky!Step
<1> QED BY Zenon, <1>9, <1>15, <1>16, <1>17 DEF Made

-----------------------------------------------------------------------------
(* The segments of the image.                                              *)

IsSequence(s) == \E T : s \in Seq(T)

LEMMA InsertAtIs ==
  ASSUME NEW s, IsSequence(s), NEW i \in 1..(Len(s) + 1), NEW x
  PROVE  /\ IsSequence(Bsky!InsertAt(s, i, x)) /\ Len(Bsky!InsertAt(s, i, x)) = Len(s) + 1
         /\ \A j \in 1..(i - 1) : Bsky!InsertAt(s, i, x)[j] = s[j]
         /\ Bsky!InsertAt(s, i, x)[i] = x
         /\ \A j \in i..Len(s) : Bsky!InsertAt(s, i, x)[j + 1] = s[j]
<1>1. PICK T : s \in Seq(T)
  BY DEF IsSequence
<1>2. PICK S : S = T \cup {x}
  OBVIOUS
<1>3. s \in Seq(S) /\ x \in S
  BY <1>1, <1>2
<1>4. PICK p : p = SubSeq(s, 1, i - 1)
  OBVIOUS
<1>5. PICK q : q = SubSeq(s, i, Len(s))
  OBVIOUS
<1>6. p \in Seq(S) /\ Len(p) = i - 1 /\ \A j \in 1..(i - 1) : p[j] = s[j]
  BY <1>3, <1>4
<1>7. q \in Seq(S) /\ Len(q) = Len(s) - i + 1 /\ \A j \in i..Len(s) : q[j - i + 1] = s[j]
  BY <1>3, <1>5
<1>8. Bsky!InsertAt(s, i, x) = (p \o <<x>>) \o q
  BY <1>4, <1>5 DEF Bsky!InsertAt
<1>9. PICK r : r = p \o <<x>>
  OBVIOUS
<1>10. r \in Seq(S) /\ Len(r) = i /\ r[i] = x /\ \A j \in 1..(i - 1) : r[j] = s[j]
  BY <1>3, <1>6, <1>9
<1>11. PICK t : t = r \o q
  OBVIOUS
<1>12. t \in Seq(S) /\ Len(t) = Len(s) + 1 /\ (\A j \in 1..i : t[j] = r[j]) /\ \A j \in 1..Len(q) : t[i + j] = q[j]
  BY <1>3, <1>7, <1>10, <1>11
<1>13. \A j \in i..Len(s) : t[j + 1] = s[j]
  <2> TAKE j \in i..Len(s)
  <2>1. j - i + 1 \in 1..Len(q) /\ i + (j - i + 1) = j + 1
    BY <1>3, <1>7
  <2> QED BY <1>7, <1>12, <2>1
<1>14. t[i] = x /\ \A j \in 1..(i - 1) : t[j] = s[j]
  BY <1>10, <1>12
<1>15. Bsky!InsertAt(s, i, x) = t
  BY <1>8, <1>9, <1>11
<1> QED BY <1>12, <1>13, <1>14, <1>15 DEF IsSequence

LEMMA RemoveAtIs ==
  ASSUME NEW s, IsSequence(s), NEW i \in 1..Len(s)
  PROVE  /\ IsSequence(Bsky!RemoveAt(s, i)) /\ Len(Bsky!RemoveAt(s, i)) = Len(s) - 1
         /\ \A j \in 1..(i - 1) : Bsky!RemoveAt(s, i)[j] = s[j]
         /\ \A j \in i..(Len(s) - 1) : Bsky!RemoveAt(s, i)[j] = s[j + 1]
<1>1. PICK S : s \in Seq(S)
  BY DEF IsSequence
<1>2. PICK p : p = SubSeq(s, 1, i - 1)
  OBVIOUS
<1>3. PICK q : q = SubSeq(s, i + 1, Len(s))
  OBVIOUS
<1>4. p \in Seq(S) /\ Len(p) = i - 1 /\ \A j \in 1..(i - 1) : p[j] = s[j]
  BY <1>1, <1>2
<1>5. q \in Seq(S) /\ Len(q) = Len(s) - i /\ \A j \in 1..(Len(s) - i) : q[j] = s[i + j]
  BY <1>1, <1>3
<1>6. PICK t : t = p \o q
  OBVIOUS
<1>a. PICK k \in Nat : k = i - 1 /\ k <= Len(s) /\ Len(p) = k /\ Len(q) = Len(s) - k - 1 /\ Len(s) \in Nat
  BY <1>1, <1>4, <1>5
<1>7. t \in Seq(S) /\ Len(t) = Len(p) + Len(q) /\ (\A j \in 1..Len(p) : t[j] = p[j])
      /\ \A j \in 1..Len(q) : t[Len(p) + j] = q[j]
  <2>1. p \in Seq(S) /\ q \in Seq(S)
    BY <1>4, <1>5
  <2> QED BY ONLY <2>1, <1>6
<1>8. ASSUME NEW j \in i..(Len(s) - 1)
      PROVE  t[j] = s[j + 1]
  <2>1. j - k \in 1..Len(q) /\ k + (j - k) = j /\ i + (j - k) = j + 1 /\ j - k \in 1..(Len(s) - i)
    BY <1>a
  <2>2. t[k + (j - k)] = q[j - k]
    BY <1>7, <1>a, <2>1
  <2>3. q[j - k] = s[i + (j - k)]
    BY <1>5, <2>1
  <2> QED BY <2>1, <2>2, <2>3
<1>b. Len(t) = Len(s) - 1 /\ \A j \in 1..(i - 1) : t[j] = s[j]
  BY <1>4, <1>7, <1>a
<1>9. Bsky!RemoveAt(s, i) = t
  BY <1>2, <1>3, <1>6 DEF Bsky!RemoveAt
<1> QED BY <1>7, <1>8, <1>9, <1>b DEF IsSequence

-----------------------------------------------------------------------------
\* A segment that another program put in.
IsOther(s) == \E kind \in Bsky!OtherKinds, n \in 4..LargestSegment : s = Bsky!Segment(kind, n, n - 2, <<>>)

\* Ours and the others': EXIF at a, XMP at b and Photoshop at c, if there are such.
Arranged(s, a, b, c) ==
  /\ IsSequence(s) /\ a \in 1..Len(s) /\ b \in 1..Len(s) /\ c \in 1..Len(s)
  /\ s[a] = ExifMade
  /\ IF Parts.xmp > 0 THEN s[b] = XmpMade /\ a < b /\ b < c ELSE b = a
  /\ IF Parts.first > 0 THEN s[c] = PhotoshopMade /\ a < c ELSE c = a
  /\ \A i \in 1..Len(s) : i \in {a, b, c} \/ IsOther(s[i])

MovedTo(k, i) == IF k < i THEN k ELSE k + 1

LEMMA ArrangedStays ==
  ASSUME NEW s, NEW a, NEW b, NEW c, Arranged(s, a, b, c), NEW i \in 1..(Len(s) + 1), NEW x, IsOther(x)
  PROVE  Arranged(Bsky!InsertAt(s, i, x), MovedTo(a, i), MovedTo(b, i), MovedTo(c, i))
<1>1. PICK t : t = Bsky!InsertAt(s, i, x)
  OBVIOUS
<1>2. PICK n \in Nat : n = Len(s)
  BY DEF Arranged, IsSequence
<1>3. /\ IsSequence(t) /\ Len(t) = n + 1
      /\ \A j \in 1..(i - 1) : t[j] = s[j]
      /\ t[i] = x
      /\ \A j \in i..n : t[j + 1] = s[j]
  BY <1>1, <1>2, InsertAtIs DEF Arranged
<1>4. \A k \in 1..n : MovedTo(k, i) \in 1..(n + 1) /\ t[MovedTo(k, i)] = s[k]
  <2> TAKE k \in 1..n
  <2>1. CASE k < i
    BY <1>2, <1>3, <2>1 DEF MovedTo
  <2>2. CASE ~(k < i)
    BY <1>2, <1>3, <2>2 DEF MovedTo
  <2> QED BY <2>1, <2>2
<1>5. \A j, k \in 1..n : j < k => MovedTo(j, i) < MovedTo(k, i)
  BY <1>2 DEF MovedTo
<1>6. a \in 1..n /\ b \in 1..n /\ c \in 1..n
  BY <1>2 DEF Arranged
<1>7. t[MovedTo(a, i)] = ExifMade
  BY <1>4, <1>6 DEF Arranged
<1>8. IF Parts.xmp > 0 THEN t[MovedTo(b, i)] = XmpMade /\ MovedTo(a, i) < MovedTo(b, i) /\ MovedTo(b, i) < MovedTo(c, i)
      ELSE MovedTo(b, i) = MovedTo(a, i)
  BY <1>4, <1>5, <1>6 DEF Arranged
<1>9. IF Parts.first > 0 THEN t[MovedTo(c, i)] = PhotoshopMade /\ MovedTo(a, i) < MovedTo(c, i)
      ELSE MovedTo(c, i) = MovedTo(a, i)
  BY <1>4, <1>5, <1>6 DEF Arranged
<1>10. ASSUME NEW j \in 1..(n + 1)
       PROVE  j \in {MovedTo(a, i), MovedTo(b, i), MovedTo(c, i)} \/ IsOther(t[j])
  <2>1. CASE j = i
    BY <1>3, <2>1
  <2>2. CASE j < i
    <3>1. j \in 1..n /\ j \in 1..(i - 1) /\ MovedTo(j, i) = j
      BY <1>2, <2>2 DEF MovedTo
    <3>2. j \in {a, b, c} \/ IsOther(s[j])
      BY <1>2, <3>1 DEF Arranged
    <3> QED BY <1>3, <3>1, <3>2
  <2>3. CASE j > i
    <3>1. PICK k \in 1..n : k = j - 1 /\ k >= i /\ MovedTo(k, i) = j
      BY <1>2, <2>3 DEF MovedTo
    <3>2. k \in {a, b, c} \/ IsOther(s[k])
      BY <1>2, <3>1 DEF Arranged
    <3>3. t[j] = s[k]
      BY <1>4, <3>1
    <3> QED BY <3>1, <3>2, <3>3
  <2> QED BY <1>2, <2>1, <2>2, <2>3
<1> QED BY <1>1, <1>3, <1>4, <1>6, <1>7, <1>8, <1>9, <1>10 DEF Arranged

\* The layout of a ciphertext that fits.
LEMMA PartsFit ==
  ASSUME Fits
  PROVE  /\ Parts.exif \in Nat /\ Parts.first \in Nat /\ Parts.second \in Nat /\ Parts.xmp \in Nat
         /\ Quartets \in Nat /\ 4 * Quartets \in Nat /\ PhotoshopSize \in Nat
         /\ (Parts.xmp > 0 => Parts.second > 0) /\ (Parts.second > 0 => Parts.first > 0)
<1>1. /\ Parts.exif \in Nat /\ Parts.first \in Nat /\ Parts.second \in Nat /\ Parts.xmp \in Nat
      /\ Parts.second > 0 => Parts.first = 32767
      /\ Parts.xmp > 0 => Parts.second = 32730
  BY LayoutIs DEF Fits
<1>2. Quartets \in Nat
  BY <1>1 DEF Quartets
<1>3. PhotoshopSize \in Nat
  BY <1>1 DEF PhotoshopSize
<1> QED BY <1>1, <1>2, <1>3

LEMMA SegmentFields ==
  ASSUME NEW k, NEW l, NEW f, NEW b, NEW s, s = Bsky!Segment(k, l, f, b)
  PROVE  s.kind = k /\ s.length = l /\ s.field = f /\ s.blocks = b
BY DEF Bsky!Segment

LEMMA BlockFields ==
  ASSUME NEW o, NEW l, NEW f, NEW h, NEW b, b = Bsky!Block(o, l, f, h)
  PROVE  b.offset = o /\ b.length = l /\ b.field = f /\ b.holds = h
BY DEF Bsky!Block

LEMMA MadeFields ==
  /\ ExifMade.kind = "exif" /\ ExifMade.length = 509 + Parts.exif /\ ExifMade.field = 507 + Parts.exif
  /\ ExifMade.blocks = <<Bsky!Block(463, Parts.exif, Parts.exif, Stretch(0, Parts.exif))>>
  /\ XmpMade.kind = "xmp" /\ XmpMade.length = 405 + 4 * Quartets /\ XmpMade.field = 403 + 4 * Quartets
  /\ XmpMade.blocks = <<Bsky!Block(313, 4 * Quartets, Parts.xmp, Stretch(TextFrom, Parts.xmp))>>
  /\ PhotoshopMade.kind = "photoshop" /\ PhotoshopMade.length = PhotoshopSize
  /\ PhotoshopMade.field = PhotoshopSize - 2 /\ PhotoshopMade.blocks = <<FirstBlock>> \o SecondBlocks
<1>1. /\ ExifMade.kind = "exif" /\ ExifMade.length = 509 + Parts.exif /\ ExifMade.field = 507 + Parts.exif
      /\ ExifMade.blocks = <<Bsky!Block(463, Parts.exif, Parts.exif, Stretch(0, Parts.exif))>>
  BY SegmentFields DEF ExifMade
<1>2. /\ XmpMade.kind = "xmp" /\ XmpMade.length = 405 + 4 * Quartets /\ XmpMade.field = 403 + 4 * Quartets
      /\ XmpMade.blocks = <<Bsky!Block(313, 4 * Quartets, Parts.xmp, Stretch(TextFrom, Parts.xmp))>>
  BY SegmentFields DEF XmpMade
<1>3. /\ PhotoshopMade.kind = "photoshop" /\ PhotoshopMade.length = PhotoshopSize
      /\ PhotoshopMade.field = PhotoshopSize - 2 /\ PhotoshopMade.blocks = <<FirstBlock>> \o SecondBlocks
  <2>1. PICK n, b : n = PhotoshopSize - 2 /\ b = <<FirstBlock>> \o SecondBlocks
    OBVIOUS
  <2>2. PhotoshopMade = Bsky!Segment("photoshop", PhotoshopSize, n, b)
    BY Zenon, <2>1 DEF PhotoshopMade
  <2>3. PhotoshopMade.kind = "photoshop" /\ PhotoshopMade.length = PhotoshopSize /\ PhotoshopMade.field = n
        /\ PhotoshopMade.blocks = b
    BY ONLY <2>2, SegmentFields
  <2> QED BY <2>1, <2>3
<1> QED BY <1>1, <1>2, <1>3

LEMMA LastAppended ==
  ASSUME NEW S, NEW q \in Seq(S), NEW p \in S, NEW m, m = Append(q, p)
  PROVE  m[Len(q) + 1] = p
OBVIOUS

\* What the packer makes is arranged.
MadeAt == IF Parts.xmp > 0 THEN 2 ELSE 1
LastMadeAt == IF Parts.first > 0 THEN MadeAt + 1 ELSE 1
LEMMA MadeIsArranged ==
  ASSUME Fits
  PROVE  Arranged(Made, 1, MadeAt, LastMadeAt) /\ Len(Made) = LastMadeAt
<1>1. PICK e, x, p : e = ExifMade /\ x = XmpMade /\ p = PhotoshopMade
  OBVIOUS
<1>2. Parts.xmp > 0 => Parts.first > 0
  BY PartsFit
<1>3. PICK S : S = {e, x, p}
  OBVIOUS
<1>4. CASE Parts.xmp > 0
  <2>1. XmpPart = <<x>> /\ PhotoshopPart = <<p>> /\ MadeAt = 2 /\ LastMadeAt = 3
    BY <1>1, <1>2, <1>4 DEF XmpPart, PhotoshopPart, MadeAt, LastMadeAt
  <2>2. PICK m : m = <<e>> \o <<x>> \o <<p>>
    OBVIOUS
  <2>3. m \in Seq(S) /\ Len(m) = 3 /\ m[1] = e /\ m[2] = x /\ m[3] = p
    <3>1. e \in S /\ x \in S /\ p \in S
      BY <1>3
    <3>2. PICK q : q = <<e>> \o <<x>>
      OBVIOUS
    <3>3. q \in Seq(S) /\ Len(q) = 2 /\ q[1] = e /\ q[2] = x
      BY ONLY <3>1, <3>2
    <3>4. m = q \o <<p>>
      BY <2>2, <3>2
    <3>5. m = Append(q, p)
      BY ONLY <3>1, <3>3, <3>4
    <3>6. m \in Seq(S) /\ Len(m) = 3
      BY ONLY <3>1, <3>3, <3>5
    <3>7. \A i \in 1..2 : m[i] = q[i]
      BY ONLY <3>1, <3>3, <3>5
    <3>8. m[Len(q) + 1] = p
      BY ONLY <3>1, <3>3, <3>5, LastAppended
    <3> QED BY ONLY <3>3, <3>6, <3>7, <3>8
  <2>4. Made = m
    BY <1>1, <2>1, <2>2 DEF Made
  <2>5. \A i \in 1..3 : i \in {1, 2, 3}
    OBVIOUS
  <2>6. Arranged(m, 1, 2, 3)
    <3>1. IsSequence(m) /\ 1 \in 1..3 /\ 2 \in 1..3 /\ 3 \in 1..3 /\ 1 < 2 /\ 2 < 3 /\ 1 < 3
      BY <2>3 DEF IsSequence
    <3> QED BY Zenon, <1>1, <1>2, <1>4, <2>3, <2>5, <3>1 DEF Arranged
  <2> QED BY <2>1, <2>3, <2>4, <2>6
<1>5. CASE ~(Parts.xmp > 0) /\ Parts.first > 0
  <2>1. XmpPart = <<>> /\ PhotoshopPart = <<p>> /\ MadeAt = 1 /\ LastMadeAt = 2
    BY <1>1, <1>5 DEF XmpPart, PhotoshopPart, MadeAt, LastMadeAt
  <2>2. PICK m : m = <<e>> \o <<>> \o <<p>>
    OBVIOUS
  <2>3. m \in Seq(S) /\ Len(m) = 2 /\ m[1] = e /\ m[2] = p
    <3>1. e \in S /\ x \in S /\ p \in S
      BY <1>3
    <3> QED BY ONLY <2>2, <3>1
  <2>4. Made = m
    BY <1>1, <2>1, <2>2 DEF Made
  <2>6. Arranged(m, 1, 1, 2)
    <3>1. IsSequence(m) /\ 1 \in 1..2 /\ 2 \in 1..2 /\ 1 < 2
      BY <2>3 DEF IsSequence
    <3>2. \A i \in 1..2 : i \in {1, 1, 2}
      OBVIOUS
    <3> QED BY Zenon, <1>1, <1>5, <2>3, <3>1, <3>2 DEF Arranged
  <2> QED BY <2>1, <2>3, <2>4, <2>6
<1>6. CASE ~(Parts.xmp > 0) /\ ~(Parts.first > 0)
  <2>1. XmpPart = <<>> /\ PhotoshopPart = <<>> /\ MadeAt = 1 /\ LastMadeAt = 1
    BY <1>6 DEF XmpPart, PhotoshopPart, MadeAt, LastMadeAt
  <2>2. PICK m : m = <<e>> \o <<>> \o <<>>
    OBVIOUS
  <2>3. m \in Seq(S) /\ Len(m) = 1 /\ m[1] = e
    <3>1. e \in S /\ x \in S /\ p \in S
      BY <1>3
    <3> QED BY ONLY <2>2, <3>1
  <2>4. Made = m
    BY <1>1, <2>1, <2>2 DEF Made
  <2>6. Arranged(m, 1, 1, 1)
    <3>1. IsSequence(m) /\ 1 \in 1..1
      BY <2>3 DEF IsSequence
    <3>2. \A i \in 1..1 : i \in {1, 1, 1}
      OBVIOUS
    <3> QED BY Zenon, <1>1, <1>6, <2>3, <3>1, <3>2 DEF Arranged
  <2> QED BY <2>1, <2>3, <2>4, <2>6
<1> QED BY <1>2, <1>4, <1>5, <1>6

-----------------------------------------------------------------------------
\* The sizes that are written are those of what they stand before.
SizesFit(s) == /\ s.field = s.length - 2 /\ s.field <= 65535
               /\ \A k \in DOMAIN s.blocks : s.blocks[k].field = Bsky!Bytes(s.blocks[k].holds)

LEMMA ExifSizes ==
  ASSUME Fits
  PROVE  SizesFit(ExifMade)
<1>1. Parts.exif \in Nat /\ Parts.exif <= 65027
  BY LayoutIs DEF Fits
<1>2. ExifMade.field = ExifMade.length - 2 /\ ExifMade.field <= 65535
  BY <1>1, MadeFields
<1>3. PICK h : h = Stretch(0, Parts.exif)
  OBVIOUS
<1>4. Bsky!Bytes(h) = Parts.exif
  BY <1>1, <1>3, RunBytes
<1>5. PICK k : k = Bsky!Block(463, Parts.exif, Parts.exif, h)
  OBVIOUS
<1>6. k.field = Parts.exif /\ k.holds = h
  BY ONLY <1>5, BlockFields
<1>7. ExifMade.blocks = <<k>> /\ DOMAIN <<k>> = {1} /\ <<k>>[1] = k
  BY <1>3, <1>5, MadeFields
<1>8. \A j \in DOMAIN ExifMade.blocks : ExifMade.blocks[j].field = Bsky!Bytes(ExifMade.blocks[j].holds)
  BY ONLY <1>4, <1>6, <1>7
<1> QED BY ONLY <1>2, <1>8 DEF SizesFit

LEMMA XmpSizes ==
  ASSUME Fits
  PROVE  SizesFit(XmpMade)
<1>1. Parts.xmp \in Nat /\ Quartets \in Nat /\ Quartets <= 14907
  <2>1. Parts.exif + Parts.first + Parts.second + Parts.xmp = size /\ Parts.xmp \in Nat /\ Parts.exif \in Nat
        /\ Parts.first \in Nat /\ Parts.second \in Nat
        /\ (Parts.first > 0 => Parts.exif = 65027)
        /\ (Parts.second > 0 => Parts.first = 32767)
        /\ (Parts.xmp > 0 => Parts.second = 32730)
    BY LayoutIs DEF Fits
  <2>2. Parts.xmp <= 44721
    BY <2>1 DEF Fits
  <2> QED BY <2>1, <2>2 DEF Quartets
<1>2. XmpMade.field = XmpMade.length - 2 /\ XmpMade.field <= 65535
  BY <1>1, MadeFields
<1>3. PICK h : h = Stretch(TextFrom, Parts.xmp)
  OBVIOUS
<1>4. Bsky!Bytes(h) = Parts.xmp
  BY <1>1, <1>3, RunBytes
<1>5. PICK k : k = Bsky!Block(313, 4 * Quartets, Parts.xmp, h)
  OBVIOUS
<1>6. k.field = Parts.xmp /\ k.holds = h
  BY ONLY <1>5, BlockFields
<1>7. XmpMade.blocks = <<k>> /\ DOMAIN <<k>> = {1} /\ <<k>>[1] = k
  BY <1>3, <1>5, MadeFields
<1>8. \A j \in DOMAIN XmpMade.blocks : XmpMade.blocks[j].field = Bsky!Bytes(XmpMade.blocks[j].holds)
  BY ONLY <1>4, <1>6, <1>7
<1> QED BY ONLY <1>2, <1>8 DEF SizesFit

\* The datasets of the Photoshop segment.
LEMMA PhotoshopBlocks ==
  /\ FirstBlock.offset = 35 /\ FirstBlock.length = Parts.first /\ FirstBlock.field = Parts.first
  /\ FirstBlock.holds = Stretch(Parts.exif, Parts.first)
  /\ SecondBlock.offset = 40 + Parts.first /\ SecondBlock.length = Parts.second
  /\ SecondBlock.field = Parts.second /\ SecondBlock.holds = Stretch(SecondFrom, Parts.second)
  /\ DOMAIN PhotoshopMade.blocks = (IF Parts.second > 0 THEN {1, 2} ELSE {1})
  /\ PhotoshopMade.blocks[1] = FirstBlock
  /\ Parts.second > 0 => PhotoshopMade.blocks[2] = SecondBlock
  /\ Len(PhotoshopMade.blocks) = (IF Parts.second > 0 THEN 2 ELSE 1)
<1>1. /\ FirstBlock.offset = 35 /\ FirstBlock.length = Parts.first /\ FirstBlock.field = Parts.first
      /\ FirstBlock.holds = Stretch(Parts.exif, Parts.first)
  BY BlockFields DEF FirstBlock
<1>2. /\ SecondBlock.offset = 40 + Parts.first /\ SecondBlock.length = Parts.second
      /\ SecondBlock.field = Parts.second /\ SecondBlock.holds = Stretch(SecondFrom, Parts.second)
  BY BlockFields DEF SecondBlock
<1>3. PhotoshopMade.blocks = <<FirstBlock>> \o SecondBlocks
  BY MadeFields
<1>4. CASE Parts.second > 0
  <2>1. PICK f, s : f = FirstBlock /\ s = SecondBlock
    OBVIOUS
  <2>2. PICK m : m = <<f>> \o <<s>>
    OBVIOUS
  <2>3. Len(m) = 2 /\ DOMAIN m = {1, 2} /\ m[1] = f /\ m[2] = s
    BY ONLY <2>2
  <2>4. PhotoshopMade.blocks = m
    BY <1>3, <1>4, <2>1, <2>2 DEF SecondBlocks
  <2> QED BY <1>1, <1>2, <1>4, <2>1, <2>3, <2>4
<1>5. CASE ~(Parts.second > 0)
  <2>1. PICK f : f = FirstBlock
    OBVIOUS
  <2>2. PICK m : m = <<f>> \o <<>>
    OBVIOUS
  <2>3. Len(m) = 1 /\ DOMAIN m = {1} /\ m[1] = f
    BY ONLY <2>2
  <2>4. PhotoshopMade.blocks = m
    BY <1>3, <1>5, <2>1, <2>2 DEF SecondBlocks
  <2> QED BY <1>1, <1>2, <1>5, <2>1, <2>3, <2>4
<1> QED BY <1>4, <1>5

LEMMA PhotoshopSizes ==
  ASSUME Fits
  PROVE  SizesFit(PhotoshopMade)
<1>1. Parts.exif \in Nat /\ Parts.first \in Nat /\ Parts.second \in Nat /\ Parts.first <= 32767 /\ Parts.second <= 32730
  BY LayoutIs DEF Fits
<1>2. PhotoshopMade.field = PhotoshopMade.length - 2 /\ PhotoshopMade.field <= 65535
  <2>1. PhotoshopMade.length = PhotoshopSize /\ PhotoshopMade.field = PhotoshopSize - 2
    BY Zenon, MadeFields
  <2>2. PhotoshopSize - 2 <= 65535
    BY ONLY <1>1 DEF PhotoshopSize
  <2> QED BY ONLY <2>1, <2>2
<1>3. Bsky!Bytes(FirstBlock.holds) = FirstBlock.field
  BY <1>1, RunBytes, PhotoshopBlocks
<1>4. Bsky!Bytes(SecondBlock.holds) = SecondBlock.field
  BY <1>1, RunBytes, PhotoshopBlocks
<1>5. ASSUME NEW j \in DOMAIN PhotoshopMade.blocks
      PROVE  PhotoshopMade.blocks[j].field = Bsky!Bytes(PhotoshopMade.blocks[j].holds)
  <2>1. CASE Parts.second > 0
    BY <1>3, <1>4, <2>1, PhotoshopBlocks
  <2>2. CASE ~(Parts.second > 0)
    BY <1>3, <2>2, PhotoshopBlocks
  <2> QED BY <2>1, <2>2
<1> QED BY ONLY <1>2, <1>5 DEF SizesFit

LEMMA LargestIs ==
  LargestSegment \in Int /\ LargestSegment - 2 = 65535
BY DEF LargestSegment

LEMMA NoBlocks ==
  ASSUME NEW s, s.blocks = <<>>
  PROVE  DOMAIN s.blocks = {}
OBVIOUS

LEMMA OtherSizesFit ==
  ASSUME NEW s, IsOther(s)
  PROVE  SizesFit(s) /\ s.kind \in Bsky!OtherKinds /\ s.length \in Nat /\ s.length >= 4 /\ s.blocks = <<>>
<1>1. PICK kind \in Bsky!OtherKinds, n \in 4..LargestSegment : s = Bsky!Segment(kind, n, n - 2, <<>>)
  BY DEF IsOther
<1>2. s.kind = kind /\ s.length = n /\ s.field = n - 2 /\ s.blocks = <<>>
  BY ONLY <1>1, SegmentFields
<1>3. DOMAIN s.blocks = {}
  BY Zenon, <1>2, NoBlocks
<1>4. n \in Nat /\ n - 2 <= 65535
  <2>1. LargestSegment \in Int /\ LargestSegment - 2 = 65535
    BY LargestIs
  <2>2. n \in Nat /\ n <= LargestSegment
    BY <2>1
  <2> QED BY <2>1, <2>2
<1> QED BY <1>2, <1>3, <1>4 DEF SizesFit

\* How long the segments are, and those of the others.
LenOf(s) == [j \in DOMAIN s |-> s[j].length]
OthersOf(s) == [j \in DOMAIN s |-> IF s[j].kind \in Bsky!OtherKinds THEN s[j].length ELSE 0]
XmpSize == IF Parts.xmp > 0 THEN 405 + 4 * Quartets ELSE 0
Before(s) == 509 + Parts.exif + XmpSize + Bsky!SumTo(OthersOf(s), Len(s))
\* The Photoshop segment is no further from the start than what may stand before it is long.
Reach(s, c) == Parts.first > 0 => Bsky!SumTo(LenOf(s), c - 1) <= Before(s)

LEMMA SequenceDomain ==
  ASSUME NEW s, IsSequence(s)
  PROVE  DOMAIN s = 1..Len(s) /\ Len(s) \in Nat
BY DEF IsSequence

LEMMA ArrangedKinds ==
  ASSUME Fits, NEW s, NEW a, NEW b, NEW c, Arranged(s, a, b, c)
  PROVE  \A i \in 1..Len(s) :
           /\ s[i].length \in Nat /\ s[i].length >= 4 /\ SizesFit(s[i])
           /\ s[i].kind \in Bsky!OtherKinds => IsOther(s[i]) /\ s[i].blocks = <<>>
           /\ s[i].kind = "exif" <=> i = a
           /\ s[i].kind = "xmp" <=> Parts.xmp > 0 /\ i = b
           /\ s[i].kind = "photoshop" <=> Parts.first > 0 /\ i = c
<1>1. TAKE i \in 1..Len(s)
<1>9. "exif" \notin Bsky!OtherKinds /\ "xmp" \notin Bsky!OtherKinds /\ "photoshop" \notin Bsky!OtherKinds
  BY DEF Bsky!OtherKinds
<1>2. /\ ExifMade.length \in Nat /\ ExifMade.length >= 4 /\ ExifMade.kind = "exif" /\ SizesFit(ExifMade)
      /\ XmpMade.length \in Nat /\ XmpMade.length >= 4 /\ XmpMade.kind = "xmp" /\ SizesFit(XmpMade)
      /\ PhotoshopMade.length \in Nat /\ PhotoshopMade.length >= 4 /\ PhotoshopMade.kind = "photoshop"
      /\ SizesFit(PhotoshopMade)
  <2>1. 509 + Parts.exif \in Nat /\ 509 + Parts.exif >= 4
        /\ 405 + 4 * Quartets \in Nat /\ 405 + 4 * Quartets >= 4
        /\ PhotoshopSize \in Nat /\ PhotoshopSize >= 4
    <3>1. /\ Parts.exif \in Nat /\ Parts.first \in Nat /\ Parts.second \in Nat
          /\ Quartets \in Nat /\ PhotoshopSize \in Nat
      BY PartsFit
    <3>2. PhotoshopSize >= 4
      BY SMTT(30), <3>1 DEF PhotoshopSize
    <3> QED BY <3>1, <3>2
  <2> QED BY SMTT(30), <2>1, MadeFields, ExifSizes, XmpSizes, PhotoshopSizes
<1>3. IsOther(s[i]) => /\ s[i].length \in Nat /\ s[i].length >= 4 /\ SizesFit(s[i]) /\ s[i].kind \in Bsky!OtherKinds
                       /\ s[i].blocks = <<>>
  BY OtherSizesFit
<1>4. /\ a \in Int /\ b \in Int /\ c \in Int /\ s[a] = ExifMade
      /\ Parts.xmp > 0 => s[b] = XmpMade /\ a < b /\ b < c
      /\ ~(Parts.xmp > 0) => b = a
      /\ Parts.first > 0 => s[c] = PhotoshopMade /\ a < c
      /\ ~(Parts.first > 0) => c = a
      /\ i = a \/ i = b \/ i = c \/ IsOther(s[i])
  BY DEF Arranged
<1>5. CASE i = a
  <2>1. s[i] = ExifMade
    BY <1>4, <1>5
  <2>2. (Parts.xmp > 0 => i # b) /\ (Parts.first > 0 => i # c)
    BY <1>4, <1>5
  <2> QED BY Zenon, <1>2, <1>9, <1>5, <2>1, <2>2
<1>6. CASE i # a /\ i = b
  <2>1. Parts.xmp > 0 /\ s[i] = XmpMade /\ i # c
    BY <1>4, <1>6
  <2> QED BY Zenon, <1>2, <1>9, <1>6, <2>1
<1>7. CASE i # a /\ i # b /\ i = c
  <2>1. Parts.first > 0 /\ s[i] = PhotoshopMade
    BY <1>4, <1>7
  <2> QED BY Zenon, <1>2, <1>9, <1>7, <2>1
<1>8. CASE i # a /\ i # b /\ i # c
  <2>1. IsOther(s[i])
    BY <1>4, <1>8
  <2> QED BY Zenon, <1>3, <1>8, <1>9, <2>1
<1> QED BY <1>5, <1>6, <1>7, <1>8

LEMMA LengthsIn ==
  ASSUME Fits, NEW s, NEW a, NEW b, NEW c, Arranged(s, a, b, c)
  PROVE  /\ DOMAIN s = 1..Len(s) /\ Len(s) \in Nat
         /\ \A i \in 1..Len(s) : LenOf(s)[i] = s[i].length /\ LenOf(s)[i] \in Nat
         /\ \A i \in 1..Len(s) : OthersOf(s)[i] = (IF s[i].kind \in Bsky!OtherKinds THEN s[i].length ELSE 0) /\ OthersOf(s)[i] \in Nat
<1>1. DOMAIN s = 1..Len(s) /\ Len(s) \in Nat
  BY SequenceDomain DEF Arranged
<1>2. \A i \in 1..Len(s) : s[i].length \in Nat
  BY ArrangedKinds
<1>3. \A i \in 1..Len(s) : LenOf(s)[i] = s[i].length /\ LenOf(s)[i] \in Nat
  BY <1>1, <1>2 DEF LenOf
<1>4. \A i \in 1..Len(s) : OthersOf(s)[i] = (IF s[i].kind \in Bsky!OtherKinds THEN s[i].length ELSE 0) /\ OthersOf(s)[i] \in Nat
  BY <1>1, <1>2 DEF OthersOf
<1> QED BY <1>1, <1>3, <1>4

LEMMA ReachMade ==
  ASSUME Fits
  PROVE  Reach(Made, LastMadeAt)
<1> SUFFICES ASSUME Parts.first > 0
             PROVE  Bsky!SumTo(LenOf(Made), LastMadeAt - 1) <= Before(Made)
  BY DEF Reach
<1>1. Arranged(Made, 1, MadeAt, LastMadeAt)
  BY MadeIsArranged
<1>2. PICK f, o, n : f = LenOf(Made) /\ o = OthersOf(Made) /\ n = Len(Made)
  OBVIOUS
<1>3. /\ n \in Nat /\ \A i \in 1..n : f[i] = Made[i].length /\ f[i] \in Nat
      /\ \A i \in 1..n : o[i] \in Nat
  BY <1>1, <1>2, LengthsIn
<1>4. Bsky!SumTo(o, n) \in Nat
  <2>1. n \in 0..n
    BY <1>3
  <2> QED BY <1>3, <2>1, SumGrows
<1>5. Parts.exif \in Nat /\ Quartets \in Nat
  BY PartsFit
<1>6. 1 \in 1..n /\ Made[1] = ExifMade
  BY <1>1, <1>2 DEF Arranged
<1>7. f[1] = 509 + Parts.exif
  <2>1. ExifMade.length = 509 + Parts.exif
    BY MadeFields
  <2> QED BY <1>3, <1>6, <2>1
<1>8. Bsky!SumTo(f, 0) = 0 /\ Bsky!SumTo(f, 0 + 1) = Bsky!SumTo(f, 0) + f[0 + 1]
  BY SumStep
<1>9. Bsky!SumTo(f, 1) = 509 + Parts.exif
  BY <1>5, <1>7, <1>8
<1>10. CASE Parts.xmp > 0
  <2>1. MadeAt = 2 /\ LastMadeAt - 1 = 2
    BY <1>10 DEF MadeAt, LastMadeAt
  <2>2. 2 \in 1..n /\ Made[2] = XmpMade
    BY <1>1, <1>2, <1>10, <2>1 DEF Arranged
  <2>3. f[2] = 405 + 4 * Quartets
    BY <1>3, <2>2, MadeFields
  <2>4. Bsky!SumTo(f, 1 + 1) = Bsky!SumTo(f, 1) + f[1 + 1]
    BY SumStep
  <2>5. Bsky!SumTo(f, 2) = 509 + Parts.exif + (405 + 4 * Quartets)
    BY <1>9, <2>3, <2>4
  <2>6. XmpSize = 405 + 4 * Quartets
    BY <1>10 DEF XmpSize
  <2> QED BY <1>2, <1>4, <1>5, <2>1, <2>5, <2>6 DEF Before
<1>11. CASE ~(Parts.xmp > 0)
  <2>1. LastMadeAt - 1 = 1 /\ XmpSize = 0
    BY <1>11 DEF MadeAt, LastMadeAt, XmpSize
  <2> QED BY <1>2, <1>4, <1>5, <1>9, <2>1 DEF Before
<1> QED BY <1>10, <1>11

LEMMA ReachStays ==
  ASSUME Fits, NEW s, NEW a, NEW b, NEW c, Arranged(s, a, b, c), Reach(s, c),
         NEW i \in 1..(Len(s) + 1), NEW x, IsOther(x)
  PROVE  Reach(Bsky!InsertAt(s, i, x), MovedTo(c, i))
<1> SUFFICES ASSUME Parts.first > 0
             PROVE  Bsky!SumTo(LenOf(Bsky!InsertAt(s, i, x)), MovedTo(c, i) - 1) <= Before(Bsky!InsertAt(s, i, x))
  BY DEF Reach
<1>1. PICK t : t = Bsky!InsertAt(s, i, x)
  OBVIOUS
<1>2. PICK n \in Nat : n = Len(s)
  BY LengthsIn
<1>3. /\ IsSequence(t) /\ Len(t) = n + 1
      /\ \A j \in 1..(i - 1) : t[j] = s[j]
      /\ t[i] = x
      /\ \A j \in i..n : t[j + 1] = s[j]
  BY <1>1, <1>2, InsertAtIs DEF Arranged
<1>4. x.length \in Nat /\ x.kind \in Bsky!OtherKinds
  BY OtherSizesFit
<1>5. DOMAIN t = 1..(n + 1)
  BY <1>3, SequenceDomain
<1>6. PICK f, g, o, p : f = LenOf(s) /\ g = LenOf(t) /\ o = OthersOf(s) /\ p = OthersOf(t)
  OBVIOUS
<1>7. /\ \A j \in 1..n : f[j] = s[j].length /\ f[j] \in Nat
      /\ \A j \in 1..n : o[j] = (IF s[j].kind \in Bsky!OtherKinds THEN s[j].length ELSE 0) /\ o[j] \in Nat
  BY <1>2, <1>6, LengthsIn
<1>8. /\ \A j \in 1..(n + 1) : g[j] = t[j].length
      /\ \A j \in 1..(n + 1) : p[j] = (IF t[j].kind \in Bsky!OtherKinds THEN t[j].length ELSE 0)
  BY <1>5, <1>6 DEF LenOf, OthersOf
<1>9. i \in 1..(n + 1)
  BY <1>2
<1>10. (\A j \in 1..(i - 1) : g[j] = f[j]) /\ g[i] = x.length /\ \A j \in i..n : g[j + 1] = f[j]
  <2>1. \A j \in 1..(i - 1) : g[j] = f[j]
    BY <1>3, <1>7, <1>8, <1>9
  <2>2. \A j \in i..n : g[j + 1] = f[j]
    BY SMTT(30), <1>3, <1>7, <1>8, <1>9
  <2> QED BY <1>3, <1>8, <1>9, <2>1, <2>2
<1>11. (\A j \in 1..(i - 1) : p[j] = o[j]) /\ p[i] = x.length /\ \A j \in i..n : p[j + 1] = o[j]
  <2>1. \A j \in 1..(i - 1) : p[j] = o[j]
    BY <1>3, <1>7, <1>8, <1>9
  <2>2. \A j \in i..n : p[j + 1] = o[j]
    BY SMTT(30), <1>3, <1>7, <1>8, <1>9
  <2> QED BY <1>3, <1>4, <1>8, <1>9, <2>1, <2>2
<1>12. /\ \A m \in 0..(i - 1) : Bsky!SumTo(g, m) = Bsky!SumTo(f, m)
       /\ \A m \in (i - 1)..n : Bsky!SumTo(g, m + 1) = Bsky!SumTo(f, m) + x.length
  <2>1. (\A j \in 1..n : f[j] \in Nat) /\ g[i] \in Nat
    BY <1>4, <1>7, <1>10
  <2>2. /\ \A m \in 0..(i - 1) : Bsky!SumTo(g, m) = Bsky!SumTo(f, m)
        /\ \A m \in (i - 1)..n : Bsky!SumTo(g, m + 1) = Bsky!SumTo(f, m) + g[i]
    <3>1. Inserted(f, g, n, i)
      BY <1>9, <1>10, <2>1 DEF Inserted
    <3> QED BY <3>1, SumInserted
  <2> QED BY <1>10, <2>2
<1>13. Bsky!SumTo(p, n + 1) = Bsky!SumTo(o, n) + x.length
  <2>1. \A m \in (i - 1)..n : Bsky!SumTo(p, m + 1) = Bsky!SumTo(o, m) + x.length
    <3>1. (\A j \in 1..n : o[j] \in Nat) /\ p[i] \in Nat
      BY <1>4, <1>7, <1>11
    <3>2. \A m \in (i - 1)..n : Bsky!SumTo(p, m + 1) = Bsky!SumTo(o, m) + p[i]
      <4>1. Inserted(o, p, n, i)
        BY <1>9, <1>11, <3>1 DEF Inserted
      <4> QED BY <4>1, SumInserted
    <3> QED BY <1>11, <3>2
  <2> QED BY <1>9, <2>1
<1>14. c \in 1..n /\ Bsky!SumTo(f, c - 1) <= 509 + Parts.exif + XmpSize + Bsky!SumTo(o, n)
  BY <1>2, <1>6 DEF Arranged, Reach, Before
<1>15. Bsky!SumTo(f, c - 1) \in Nat /\ Bsky!SumTo(o, n) \in Nat /\ 509 + Parts.exif + XmpSize \in Nat
  <2>1. c - 1 \in 0..n /\ n \in 0..n
    BY <1>14
  <2>2. Bsky!SumTo(f, c - 1) \in Nat
    BY <1>7, <2>1, SumGrows
  <2>3. Bsky!SumTo(o, n) \in Nat
    BY <1>7, <2>1, SumGrows
  <2>4. 509 + Parts.exif + XmpSize \in Nat
    BY SMTT(30), PartsFit DEF XmpSize
  <2> QED BY <2>2, <2>3, <2>4
<1>16. Before(t) = 509 + Parts.exif + XmpSize + Bsky!SumTo(o, n) + x.length
  BY <1>3, <1>4, <1>6, <1>13, <1>15 DEF Before
<1>17. Bsky!SumTo(g, MovedTo(c, i) - 1) <= Bsky!SumTo(f, c - 1) + x.length
  <2>1. CASE c < i
    <3>1. MovedTo(c, i) - 1 = c - 1 /\ c - 1 \in 0..(i - 1)
      BY <1>14, <2>1 DEF MovedTo
    <3>2. Bsky!SumTo(g, c - 1) = Bsky!SumTo(f, c - 1)
      BY <1>12, <3>1
    <3> QED BY <1>4, <1>15, <3>1, <3>2
  <2>2. CASE ~(c < i)
    <3>1. MovedTo(c, i) - 1 = (c - 1) + 1 /\ c - 1 \in (i - 1)..n
      BY <1>14, <2>2 DEF MovedTo
    <3>2. Bsky!SumTo(g, (c - 1) + 1) = Bsky!SumTo(f, c - 1) + x.length
      BY <1>12, <3>1
    <3> QED BY <1>4, <1>15, <3>1, <3>2
  <2> QED BY <2>1, <2>2
<1>18. Bsky!SumTo(g, MovedTo(c, i) - 1) \in Int
  <2>1. c < i \/ ~(c < i)
    OBVIOUS
  <2> QED BY SMTT(30), <1>4, <1>12, <1>14, <1>15 DEF MovedTo
<1> QED BY SMTT(30), <1>1, <1>4, <1>6, <1>14, <1>15, <1>16, <1>17, <1>18

-----------------------------------------------------------------------------
(* From the first byte to the image on its way.                            *)

LEMMA MadeStay ==
  ASSUME size' = size
  PROVE  /\ Parts' = Parts /\ ExifMade' = ExifMade /\ XmpMade' = XmpMade /\ PhotoshopMade' = PhotoshopMade
         /\ XmpSize' = XmpSize /\ (Fits <=> Fits')
<1>1. Parts' = Parts /\ SecondFrom' = SecondFrom /\ TextFrom' = TextFrom
  BY PartsStay
<1>2. Quartets' = Quartets
  BY <1>1 DEF Quartets
<1>3. PhotoshopSize' = PhotoshopSize /\ FirstBlock' = FirstBlock
  BY <1>1 DEF PhotoshopSize, FirstBlock
<1>4. SecondBlock' = SecondBlock
  BY <1>1 DEF SecondBlock
<1>5. SecondBlocks' = SecondBlocks
  BY <1>1, <1>4 DEF SecondBlocks
<1>6. ExifMade' = ExifMade
  BY <1>1 DEF ExifMade
<1>7. XmpMade' = XmpMade
  BY <1>1, <1>2 DEF XmpMade
<1>8. PhotoshopMade' = PhotoshopMade
  BY <1>3, <1>5 DEF PhotoshopMade
<1>9. XmpSize' = XmpSize
  BY <1>1, <1>2 DEF XmpSize
<1>10. Fits <=> Fits'
  BY DEF Fits
<1> QED BY <1>1, <1>6, <1>7, <1>8, <1>9, <1>10

LEMMA ArrangedNext ==
  ASSUME size' = size, NEW a, NEW b, NEW c, Arranged(segs', a, b, c)
  PROVE  Arranged(segs, a, b, c)'
BY MadeStay DEF Arranged

LEMMA ReachNext ==
  ASSUME size' = size, NEW c, Reach(segs', c)
  PROVE  Reach(segs, c)'
<1>1. Before(segs)' = Before(segs')
  BY MadeStay DEF Before
<1> QED BY <1>1, MadeStay DEF Reach

\* The image, as it is found: whole, without one of our segments, or cut in one.
Whole == stated = size /\ \E a, b, c : Arranged(segs, a, b, c) /\ Reach(segs, c)
LostOne ==
  stated = size /\ \E s, a, b, c : Arranged(s, a, b, c) /\ \E k \in {a, b, c} : segs = Bsky!RemoveAt(s, k)
CutShort(s) == LET last == Bsky!Last(s.blocks) IN [s EXCEPT !.length = last.offset + last.length - 1]
CutOne ==
  stated = size /\ \E s, a, b, c : Arranged(s, a, b, c) /\
    \E k \in {a, b, c} : segs = Append(SubSeq(s, 1, k - 1), CutShort(s[k]))
Travelled ==
  /\ harm = "none" => Whole
  /\ harm = "lost" => LostOne
  /\ harm = "cut" => CutOne

LEMMA WholeNext ==
  ASSUME size' = size, stated' = size, NEW a, NEW b, NEW c, Arranged(segs', a, b, c), Reach(segs', c)
  PROVE  Whole'
<1>1. Arranged(segs, a, b, c)' /\ Reach(segs, c)'
  BY ArrangedNext, ReachNext
<1> QED BY <1>1 DEF Whole

LEMMA WholeStays ==
  ASSUME Whole, UNCHANGED <<size, stated, segs>>
  PROVE  Whole'
<1>1. PICK a, b, c : Arranged(segs, a, b, c) /\ Reach(segs, c)
  BY DEF Whole
<1>2. Arranged(segs', a, b, c) /\ Reach(segs', c) /\ stated' = size
  BY <1>1 DEF Whole
<1> QED BY <1>2, WholeNext

LEMMA LostNext ==
  ASSUME size' = size, stated' = size, NEW s, NEW a, NEW b, NEW c, Arranged(s, a, b, c),
         NEW k \in {a, b, c}, segs' = Bsky!RemoveAt(s, k)
  PROVE  LostOne'
<1>1. Arranged(s, a, b, c)'
  BY MadeStay DEF Arranged
<1> QED BY <1>1 DEF LostOne

LEMMA LostStays ==
  ASSUME LostOne, UNCHANGED <<size, stated, segs>>
  PROVE  LostOne'
<1>1. PICK s, a, b, c : Arranged(s, a, b, c) /\ \E k \in {a, b, c} : segs = Bsky!RemoveAt(s, k)
  BY DEF LostOne
<1>2. PICK k \in {a, b, c} : segs' = Bsky!RemoveAt(s, k)
  BY <1>1
<1>3. stated' = size
  BY DEF LostOne
<1> QED BY <1>1, <1>2, <1>3, LostNext

LEMMA CutNext ==
  ASSUME size' = size, stated' = size, NEW s, NEW a, NEW b, NEW c, Arranged(s, a, b, c),
         NEW k \in {a, b, c}, segs' = Append(SubSeq(s, 1, k - 1), CutShort(s[k]))
  PROVE  CutOne'
<1>1. Arranged(s, a, b, c)'
  BY MadeStay DEF Arranged
<1> QED BY <1>1 DEF CutOne

LEMMA CutStays ==
  ASSUME CutOne, UNCHANGED <<size, stated, segs>>
  PROVE  CutOne'
<1>1. PICK s, a, b, c : Arranged(s, a, b, c) /\
        \E k \in {a, b, c} : segs = Append(SubSeq(s, 1, k - 1), CutShort(s[k]))
  BY DEF CutOne
<1>2. PICK k \in {a, b, c} : segs' = Append(SubSeq(s, 1, k - 1), CutShort(s[k]))
  BY <1>1
<1>3. stated' = size
  BY DEF CutOne
<1> QED BY <1>1, <1>2, <1>3, CutNext

LEMMA TravelledStays ==
  ASSUME Travelled, UNCHANGED <<size, stated, segs, harm>>
  PROVE  Travelled'
<1>1. harm = "none" => Whole'
  BY WholeStays DEF Travelled
<1>2. harm = "lost" => LostOne'
  BY LostStays DEF Travelled
<1>3. harm = "cut" => CutOne'
  BY CutStays DEF Travelled
<1> QED BY <1>1, <1>2, <1>3 DEF Travelled

-----------------------------------------------------------------------------
\* The steps of others.
LEMMA PutInTravels ==
  ASSUME Fits, Travelled, CarriersAssumption, NEW i \in 1..(Len(segs) + 1),
         NEW kind \in Bsky!OtherKinds, NEW n \in OtherSizes[kind], Bsky!PutIn(i, kind, n)
  PROVE  Travelled'
<1>1. harm = "none" /\ harm' = harm /\ segs' = Bsky!InsertAt(segs, i, Bsky!Segment(kind, n, n - 2, <<>>))
      /\ stated' = stated /\ size' = size
  BY DEF Bsky!PutIn, Bsky!concealing
<1>2. PICK x : x = Bsky!Segment(kind, n, n - 2, <<>>)
  OBVIOUS
<1>3. IsOther(x)
  <2>1. n \in 4..LargestSegment
    BY DEF CarriersAssumption
  <2> QED BY <1>2, <2>1 DEF IsOther
<1>4. PICK a, b, c : Arranged(segs, a, b, c) /\ Reach(segs, c)
  BY <1>1 DEF Travelled, Whole
<1>5. Arranged(segs', MovedTo(a, i), MovedTo(b, i), MovedTo(c, i)) /\ Reach(segs', MovedTo(c, i))
  <2>1. segs' = Bsky!InsertAt(segs, i, x)
    BY <1>1, <1>2
  <2> QED BY <1>3, <1>4, <2>1, ArrangedStays, ReachStays
<1>6. stated' = size
  BY <1>1 DEF Travelled, Whole
<1>7. Whole'
  BY <1>1, <1>5, <1>6, WholeNext
<1> QED BY <1>1, <1>7 DEF Travelled

\* One of ours is at one of the three places.
LEMMA OursIsAt ==
  ASSUME Fits, NEW s, NEW a, NEW b, NEW c, Arranged(s, a, b, c), NEW i \in DOMAIN s, s[i].kind \notin Bsky!OtherKinds
  PROVE  i \in {a, b, c}
<1>1. i \in 1..Len(s)
  BY SequenceDomain DEF Arranged
<1>2. ~IsOther(s[i])
  BY OtherSizesFit
<1> QED BY <1>1, <1>2 DEF Arranged

LEMMA DropTravels ==
  ASSUME Fits, Travelled, NEW i \in DOMAIN segs, Bsky!Drop(i)
  PROVE  Travelled'
<1>1. harm = "none" /\ segs[i].kind \notin Bsky!OtherKinds /\ segs' = Bsky!RemoveAt(segs, i) /\ harm' = "lost"
      /\ stated' = stated /\ size' = size
  BY DEF Bsky!Drop, Bsky!concealing
<1>2. PICK a, b, c : Arranged(segs, a, b, c)
  BY <1>1 DEF Travelled, Whole
<1>3. i \in {a, b, c}
  BY <1>1, <1>2, OursIsAt
<1>4. stated' = size
  BY <1>1 DEF Travelled, Whole
<1>5. LostOne'
  BY <1>1, <1>2, <1>3, <1>4, LostNext
<1> QED BY <1>1, <1>5 DEF Travelled

LEMMA CutTravels ==
  ASSUME Fits, Travelled, NEW i \in DOMAIN segs, Bsky!CutAt(i)
  PROVE  Travelled'
<1>1. harm = "none" /\ segs[i].kind \notin Bsky!OtherKinds /\ segs' = Append(SubSeq(segs, 1, i - 1), CutShort(segs[i]))
      /\ harm' = "cut" /\ stated' = stated /\ size' = size
  BY DEF Bsky!CutAt, Bsky!concealing, CutShort
<1>2. PICK a, b, c : Arranged(segs, a, b, c)
  BY <1>1 DEF Travelled, Whole
<1>3. i \in {a, b, c}
  BY <1>1, <1>2, OursIsAt
<1>4. stated' = size
  BY <1>1 DEF Travelled, Whole
<1>5. CutOne'
  BY <1>1, <1>2, <1>3, <1>4, CutNext
<1> QED BY <1>1, <1>5 DEF Travelled

-----------------------------------------------------------------------------
(* What holds of the image in every phase.                                 *)

Early == {"limits", "new", "tooLarge", "push"}
Carried ==
  /\ size \in Nat /\ size >= 21 /\ decoy \in Nat /\ harm \in {"none", "lost", "cut", "altered"}
  /\ phase \in Early => segs = <<>> /\ harm = "none" /\ taken = <<>>
  /\ phase \in {"limits", "new"} => builder = Bsky!EmptyBuilder /\ input = 0
  /\ phase \notin {"limits", "tooLarge"} => Fits
  /\ phase # "internal"
  /\ phase = "push" => stated = size
  /\ Packing
  /\ phase \notin Early \cup {"failed"} => Travelled
  /\ phase = "image" => taken = <<>>

LEMMA CarriedStarts ==
  ASSUME CarriersAssumption, Bsky!Init
  PROVE  Carried
<1>1. size \in Nat /\ size >= 21 /\ decoy \in Nat
  BY DEF CarriersAssumption, Bsky!Init
<1>2. phase = "limits" /\ segs = <<>> /\ harm = "none" /\ taken = <<>> /\ builder = Bsky!EmptyBuilder /\ input = 0
  BY DEF Bsky!Init
<1> QED BY <1>1, <1>2 DEF Carried, Early, Packing

LEMMA CarriedRests ==
  ASSUME Carried, UNCHANGED bskyVars
  PROVE  Carried'
<1>1. UNCHANGED <<phase, size, decoy, input, builder, segs, harm, stated, taken>>
  BY DEF bskyVars
<1>2. Fits <=> Fits'
  BY <1>1 DEF Fits
<1>3. Packing'
  <2> SUFFICES ASSUME phase = "push"
               PROVE  Packing'
    BY <1>1 DEF Packing
  <2>1. PICK e \in Nat, f \in Nat, s \in Nat, x \in Nat :
          InParts(e, f, s, x) /\ IsPacked(builder, e, f, s, x) /\ e + f + s + x + input <= size
    BY DEF Packing, Carried
  <2>2. input \in Nat
    BY DEF Packing, Carried
  <2> QED BY <1>1, <2>1, <2>2, PackingStep
<1>4. Travelled => Travelled'
  BY <1>1, TravelledStays
<1> QED BY <1>1, <1>2, <1>3, <1>4 DEF Carried

LEMMA CheckPayloadCarries ==
  ASSUME Carried, Bsky!CheckPayload
  PROVE  Carried'
<1>1. /\ phase = "limits" /\ phase' = (IF size <= Bsky!Lesser(Bsky!Capacity, Bsky!MaxDeclared) THEN "new" ELSE "tooLarge")
      /\ UNCHANGED <<size, decoy, input, builder, segs, harm, taken>>
  BY DEF Bsky!CheckPayload, Bsky!Step, Bsky!concealing, Bsky!file, Bsky!recovering
<1>2. phase' = "new" => Fits'
  <2>1. size \in Nat /\ size' = size
    BY <1>1 DEF Carried
  <2> QED BY <1>1, <2>1 DEF Fits, Bsky!Lesser, Bsky!Capacity, Bsky!MaxDeclared, Bsky!ReadExifLimit,
             Bsky!ReadFirstLimit, Bsky!ReadLastLimit, Bsky!XmpTemplate, Bsky!XmpFooter
<1>3. phase' \in {"new", "tooLarge"}
  BY <1>1
<1>4. Packing'
  BY <1>3 DEF Packing
<1> QED BY <1>1, <1>2, <1>3, <1>4 DEF Carried, Early

\* The templates are right for every ciphertext that fits.
LEMMA NewPushes ==
  ASSUME Fits, Bsky!New
  PROVE  phase' = "push"
<1>1. /\ Parts.exif \in Nat /\ Parts.first \in Nat /\ Parts.second \in Nat /\ Parts.xmp \in Nat
      /\ Parts.exif + Parts.first + Parts.second + Parts.xmp = size
      /\ Parts.first > 0 => Parts.exif = 65027
      /\ Parts.second > 0 => Parts.first = 32767
      /\ Parts.xmp > 0 => Parts.second = 32730
      /\ Parts.exif = Bsky!Lesser(size, 65027)
      /\ size \in Nat
  BY LayoutIs DEF Fits
<1>2. size > 65027 => Parts.exif + 511 - 4 = 65534
  BY <1>1 DEF Bsky!Lesser
<1>3. Parts.xmp <= 44721
  BY <1>1 DEF Fits
<1>4. Parts.xmp > 0 => 313 + ((Parts.xmp + 2) \div 3) * 4 + 92 <= 60033
  BY <1>1, <1>3
<1>5. ~ \/ size > 65027 /\ (65534 # Parts.exif + 511 - 4 \/ 65394 # Parts.exif + 511 - 4 - 140)
        \/ Parts.first = 32767 /\ 32767 # Parts.first
        \/ Parts.xmp > 0 /\ 313 + ((Parts.xmp + 2) \div 3) * 4 + 92 > 60033
  BY <1>1, <1>2, <1>4
<1>6. Parts = Bsky!Layout
  BY DEF Parts
<1>7. /\ Bsky!ExifLimit = 65027 /\ Bsky!FirstLimit = 32767 /\ Bsky!XmpLimit = 60033
      /\ Bsky!TemplateSize.exif = 65534 /\ Bsky!TemplateSize.artist = 65394 /\ Bsky!TemplateSize.first = 32767
  BY DEF Bsky!ExifLimit, Bsky!TemplateSize, Bsky!FirstLimit, Bsky!XmpLimit
<1>8. /\ Bsky!ExifData = Parts.exif + 511 - 4 /\ (Bsky!HasXmp <=> Parts.xmp > 0)
      /\ Bsky!XmpProjected = 313 + ((Parts.xmp + 2) \div 3) * 4 + 92
  BY ONLY <1>6 DEF Bsky!ExifData, Bsky!ExifTemplate, Bsky!HasXmp, Bsky!XmpProjected, Bsky!XmpTemplate, Bsky!XmpFooter
<1>9. ~ \/ size > Bsky!ExifLimit /\ (Bsky!TemplateSize.exif # Bsky!ExifData \/ Bsky!TemplateSize.artist # Bsky!ExifData - 140)
        \/ Bsky!Layout.first = Bsky!FirstLimit /\ Bsky!TemplateSize.first # Bsky!Layout.first
        \/ Bsky!HasXmp /\ Bsky!XmpProjected > Bsky!XmpLimit
  BY ONLY <1>5, <1>6, <1>7, <1>8
<1> QED BY ONLY <1>9, Bsky!New DEF Bsky!New, Bsky!Step

LEMMA NewCarries ==
  ASSUME Carried, Bsky!New
  PROVE  Carried'
<1>1. phase = "new" /\ stated' = size /\ UNCHANGED <<size, decoy, input, builder, segs, harm, taken>>
  BY DEF Bsky!New, Bsky!concealing, Bsky!recovering
<1>2. Fits /\ Fits'
  BY <1>1 DEF Carried, Fits
<1>3. phase' = "push"
  BY <1>2, NewPushes
<1>4. Packing'
  BY <1>1, PackingStarts DEF Carried
<1> QED BY <1>1, <1>2, <1>3, <1>4 DEF Carried, Early

LEMMA PackingCarries ==
  ASSUME Carried, Bsky!Packing, CarriersAssumption
  PROVE  Carried'
<1>1. phase = "push" /\ UNCHANGED <<size, decoy, segs, harm, stated, taken>>
  BY DEF Bsky!Packing, Bsky!Push, Bsky!PushExif, Bsky!PushFirst, Bsky!PushSecond, Bsky!PushXmp, Bsky!file, Bsky!recovering
<1>2. size \in Nat /\ Packing /\ Fits /\ Fits'
  BY <1>1 DEF Carried, Fits
<1>3. Packing' /\ phase' = "push"
  <2>1. CASE \E n \in Pushes \cup {Bsky!Rest} : Bsky!Push(n)
    <3>1. PICK n \in Pushes \cup {Bsky!Rest} : Bsky!Push(n)
      BY <2>1
    <3>2. n \in Nat
      <4>1. Pushes \subseteq Nat
        BY DEF CarriersAssumption
      <4>2. n > 0 /\ input = 0
        BY <3>1 DEF Bsky!Push
      <4>3. PICK e \in Nat, f \in Nat, s \in Nat, x \in Nat :
              InParts(e, f, s, x) /\ IsPacked(builder, e, f, s, x) /\ e + f + s + x + input <= size
        BY <1>1, <1>2 DEF Packing
      <4>4. builder.written = e + f + s + x
        BY <4>3, PackedParts
      <4>5. Bsky!Rest \in Int
        BY <1>2, <4>2, <4>4 DEF Bsky!Rest
      <4> QED BY <4>1, <4>2, <4>5
    <3> QED BY <1>2, <3>1, <3>2, PackingPush
  <2>2. CASE Bsky!PushExif
    BY <1>1, <1>2, <2>2, PackingExif DEF Bsky!PushExif
  <2>3. CASE Bsky!PushFirst
    BY <1>1, <1>2, <2>3, PackingFirst DEF Bsky!PushFirst
  <2>4. CASE Bsky!PushSecond
    BY <1>1, <1>2, <2>4, PackingSecond DEF Bsky!PushSecond
  <2>5. CASE Bsky!PushXmp
    BY <1>2, <2>5, PackingXmp
  <2> QED BY <2>1, <2>2, <2>3, <2>4, <2>5 DEF Bsky!Packing
<1> QED BY <1>1, <1>2, <1>3 DEF Carried, Early

LEMMA FinishCarries ==
  ASSUME Carried, Bsky!Finish
  PROVE  Carried'
<1>1. phase = "push" /\ UNCHANGED <<size, decoy, harm, stated, taken>>
  BY DEF Bsky!Finish, Bsky!recovering
<1>2. size \in Nat /\ Packing /\ Fits /\ Fits' /\ stated = size /\ harm = "none" /\ taken = <<>>
  BY <1>1 DEF Carried, Fits, Early
<1>3. segs' = Made /\ phase' = "image"
  BY <1>2, FinishMakes
<1>4. Arranged(segs', 1, MadeAt, LastMadeAt) /\ Reach(segs', LastMadeAt)
  BY <1>2, <1>3, MadeIsArranged, ReachMade
<1>5. Whole'
  BY <1>1, <1>2, <1>4, WholeNext
<1>6. Travelled'
  BY <1>1, <1>2, <1>5 DEF Travelled
<1>7. Packing'
  BY <1>3 DEF Packing
<1> QED BY <1>1, <1>2, <1>3, <1>6, <1>7 DEF Carried, Early

LEMMA TravellingCarries ==
  ASSUME Carried, Bsky!Travelling, CarriersAssumption
  PROVE  Carried'
<1>1. phase = "image" /\ UNCHANGED <<phase, size, decoy, taken>>
  BY DEF Bsky!Travelling, Bsky!PutIn, Bsky!Drop, Bsky!CutAt, Bsky!AlterSizes, Bsky!concealing, Bsky!recovering
<1>2. Travelled /\ Fits /\ Fits' /\ taken = <<>>
  BY <1>1 DEF Carried, Fits, Early
<1>3. Travelled'
  <2>1. CASE \E i \in 1..(Len(segs) + 1), kind \in Bsky!OtherKinds : \E n \in OtherSizes[kind] : Bsky!PutIn(i, kind, n)
    BY <1>2, <2>1, PutInTravels
  <2>2. CASE \E i \in DOMAIN segs : Bsky!Drop(i) \/ Bsky!CutAt(i)
    BY <1>2, <2>2, DropTravels, CutTravels
  <2>3. CASE Bsky!AlterSizes
    <3>1. harm' = "altered"
      BY <2>3 DEF Bsky!AlterSizes
    <3> QED BY <3>1 DEF Travelled
  <2> QED BY <2>1, <2>2, <2>3 DEF Bsky!Travelling
<1>4. Packing'
  BY <1>1 DEF Packing
<1>5. harm' \in {"none", "lost", "cut", "altered"}
  BY DEF Carried, Bsky!Travelling, Bsky!PutIn, Bsky!Drop, Bsky!CutAt, Bsky!AlterSizes
<1> QED BY <1>1, <1>2, <1>3, <1>4, <1>5 DEF Carried, Early

\* recover leaves the image and the ciphertext alone.
Recovering ==
  Bsky!ReadMetadata \/ Bsky!TakeExif \/ Bsky!Reading \/ Bsky!NotFound \/ Bsky!TakeFirst \/ Bsky!TakeSecond

LEMMA RecoveringRests ==
  ASSUME Recovering
  PROVE  /\ phase \in {"image", "exif", "search", "first", "second"}
         /\ phase' \in {"notOurs", "refused", "exif", "search", "first", "second", "done"}
         /\ UNCHANGED <<size, decoy, input, builder, segs, harm, stated>>
<1>1. CASE Bsky!ReadMetadata
  BY <1>1 DEF Bsky!ReadMetadata, Bsky!Step, Bsky!concealing, Bsky!file
<1>2. CASE Bsky!TakeExif
  BY <1>2 DEF Bsky!TakeExif, Bsky!Step, Bsky!concealing, Bsky!file
<1>3. CASE Bsky!Reading
  <2>1. PICK got : Bsky!ReadWindow(got) \/ Bsky!FoundPhotoshop(got) \/ Bsky!FoundXmp(got)
    BY <1>3 DEF Bsky!Reading
  <2>2. CASE Bsky!ReadWindow(got)
    BY <2>2 DEF Bsky!ReadWindow, Bsky!Step, Bsky!concealing, Bsky!file
  <2>3. CASE Bsky!FoundPhotoshop(got)
    BY <2>3 DEF Bsky!FoundPhotoshop, Bsky!Step, Bsky!concealing, Bsky!file
  <2>4. CASE Bsky!FoundXmp(got)
    BY <2>4 DEF Bsky!FoundXmp, Bsky!Step, Bsky!concealing, Bsky!file
  <2> QED BY <2>1, <2>2, <2>3, <2>4
<1>4. CASE Bsky!NotFound
  BY <1>4 DEF Bsky!NotFound, Bsky!Step, Bsky!concealing, Bsky!file
<1>5. CASE Bsky!TakeFirst
  BY <1>5 DEF Bsky!TakeFirst, Bsky!Step, Bsky!concealing, Bsky!file
<1>6. CASE Bsky!TakeSecond
  BY <1>6 DEF Bsky!TakeSecond, Bsky!Step, Bsky!concealing, Bsky!file
<1> QED BY <1>1, <1>2, <1>3, <1>4, <1>5, <1>6 DEF Recovering

LEMMA RecoveringCarries ==
  ASSUME Carried, Recovering
  PROVE  Carried'
<1>1. /\ phase \in {"image", "exif", "search", "first", "second"}
      /\ phase' \in {"notOurs", "refused", "exif", "search", "first", "second", "done"}
      /\ UNCHANGED <<size, decoy, input, builder, segs, harm, stated>>
  BY RecoveringRests
<1>2. Travelled /\ Fits /\ Fits'
  BY <1>1 DEF Carried, Fits, Early
<1>3. Travelled'
  BY <1>1, <1>2, TravelledStays
<1>4. Packing'
  BY <1>1 DEF Packing
<1>5. phase' # "image"
  BY <1>1
<1> QED BY <1>1, <1>2, <1>3, <1>4, <1>5 DEF Carried, Early

LEMMA FailsCarries ==
  ASSUME Carried, Bsky!Fails
  PROVE  Carried'
<1>1. /\ phase \in {"push", "exif", "search", "first", "second"} /\ phase' = "failed"
      /\ UNCHANGED <<size, decoy, input, builder, segs, harm, stated>>
  BY DEF Bsky!Fails, Bsky!Step, Bsky!concealing, Bsky!file
<1>2. Fits'
  BY <1>1 DEF Carried, Fits
<1>3. Packing'
  BY <1>1 DEF Packing
<1> QED BY <1>1, <1>2, <1>3 DEF Carried, Early

LEMMA CarriedStep ==
  ASSUME Carried, [CarriersNext]_<<machine, vars, bskyVars, orderVars, codeVars>>, CarriersAssumption
  PROVE  Carried'
<1>1. CASE UNCHANGED bskyVars
  BY <1>1, CarriedRests
<1>2. CASE Bsky!Next
  BY <1>2, CheckPayloadCarries, NewCarries, PackingCarries, FinishCarries, TravellingCarries,
     RecoveringCarries, FailsCarries DEF Bsky!Next, Recovering
<1> QED BY <1>1, <1>2 DEF CarriersNext

LEMMA AlwaysCarried ==
  CarriersSpec => []Carried
<1>1. CarriersInit => Carried
  BY CarriersAssumption, CarriedStarts DEF CarriersInit
<1>2. Carried /\ [CarriersNext]_<<machine, vars, bskyVars, orderVars, codeVars>> => Carried'
  BY CarriersAssumption, CarriedStep
<1> QED BY <1>1, <1>2, PTL DEF CarriersSpec

HasKind(s, kind) == \E i \in DOMAIN s : s[i].kind = kind
Long(n) == size > 65027 /\ size - 65027 > n

\* The sizes that are written in the image are those of what they stand before, and
\* fit their fields, whatever the ciphertext and the pieces in which it comes
\* (BlueskySegmentStreamBuilder).
THEOREM BlueskySizesAreTrue == CarriersSpec => []SizesAreTrue
<1>1. Carried => SizesAreTrue
  <2> SUFFICES ASSUME Carried, phase = "image", harm = "none"
               PROVE  SizesAreTrue
    BY DEF SizesAreTrue, Bsky!SizesAreTrue
  <2>1. Fits /\ Whole
    BY DEF Carried, Early, Travelled
  <2>2. PICK a, b, c : Arranged(segs, a, b, c)
    BY <2>1 DEF Whole
  <2>3. /\ DOMAIN segs = 1..Len(segs)
        /\ \A i \in 1..Len(segs) :
             /\ SizesFit(segs[i])
             /\ segs[i].kind = "xmp" <=> Parts.xmp > 0 /\ i = b
             /\ segs[i].kind = "photoshop" <=> Parts.first > 0 /\ i = c
    BY <2>1, <2>2, ArrangedKinds, LengthsIn
  <2>4. b \in 1..Len(segs) /\ c \in 1..Len(segs)
    BY <2>2 DEF Arranged
  <2>5. /\ HasKind(segs, "photoshop") <=> Parts.first > 0
        /\ HasKind(segs, "xmp") <=> Parts.xmp > 0
    <3>1. HasKind(segs, "photoshop") <=> Parts.first > 0
      BY <2>3, <2>4 DEF HasKind
    <3>2. HasKind(segs, "xmp") <=> Parts.xmp > 0
      BY <2>3, <2>4 DEF HasKind
    <3> QED BY <3>1, <3>2
  <2>6. /\ Long(0) <=> Parts.first > 0
        /\ Long(32767 + 32730) <=> Parts.xmp > 0
    <3>1. /\ Parts.exif \in Nat /\ Parts.first \in Nat /\ Parts.second \in Nat /\ Parts.xmp \in Nat
          /\ Parts.exif <= 65027 /\ Parts.first <= 32767 /\ Parts.second <= 32730
          /\ Parts.exif + Parts.first + Parts.second + Parts.xmp = size
          /\ Parts.first > 0 => Parts.exif = 65027
          /\ Parts.second > 0 => Parts.first = 32767
          /\ Parts.xmp > 0 => Parts.second = 32730
          /\ size > 65027 <=> Parts.first > 0
          /\ size \in Nat
      BY <2>1, LayoutIs DEF Fits
    <3> QED BY SMT, <3>1 DEF Long
  <2>7. Bsky!SegmentUse = [photoshop |-> HasKind(segs, "photoshop"), xmp |-> HasKind(segs, "xmp")]
    <3>1. Bsky!SegmentUse = [photoshop |-> size > 65027, xmp |-> size > 65027 /\ size - 65027 > 32767 + 32730]
      BY DEF Bsky!SegmentUse, Bsky!ExifLimit, Bsky!FirstLimit, Bsky!LastLimit
    <3>2. (size > 65027) = Long(0) /\ (size > 65027 /\ size - 65027 > 32767 + 32730) = Long(32767 + 32730)
      <4>1. size \in Nat
        BY <2>1 DEF Fits
      <4> QED BY <4>1 DEF Long
    <3>3. PICK x : x = 32767 + 32730
      OBVIOUS
    <3>4. Bsky!SegmentUse = [photoshop |-> Long(0), xmp |-> Long(x)]
      BY ONLY <3>1, <3>2, <3>3
    <3>5. (Long(0) <=> HasKind(segs, "photoshop")) /\ (Long(x) <=> HasKind(segs, "xmp"))
      BY <2>5, <2>6, <3>3
    <3>6. /\ Long(0) \in BOOLEAN /\ Long(x) \in BOOLEAN
          /\ HasKind(segs, "photoshop") \in BOOLEAN /\ HasKind(segs, "xmp") \in BOOLEAN
      BY DEF Long, HasKind
    <3>7. Long(0) = HasKind(segs, "photoshop") /\ Long(x) = HasKind(segs, "xmp")
      BY ONLY <3>5, <3>6, Zenon
    <3> QED BY Zenon, <3>4, <3>7
  <2>8. stated = size
    BY <2>1 DEF Whole
  <2>9. Bsky!SegmentUse = [photoshop |-> \E i \in DOMAIN segs : segs[i].kind = "photoshop",
                           xmp |-> \E i \in DOMAIN segs : segs[i].kind = "xmp"]
    BY <2>7, Zenon DEF HasKind
  <2>10. \A i \in DOMAIN segs :
           /\ segs[i].field = segs[i].length - 2 /\ segs[i].field <= 65535
           /\ \A k \in DOMAIN segs[i].blocks : segs[i].blocks[k].field = Bsky!Bytes(segs[i].blocks[k].holds)
    BY <2>3 DEF SizesFit
  <2>11. Bsky!SizesAreTrue
    BY ONLY <2>8, <2>9, <2>10 DEF Bsky!SizesAreTrue
  <2> QED BY ONLY <2>11 DEF SizesAreTrue
<1> QED BY <1>1, AlwaysCarried, PTL

-----------------------------------------------------------------------------
(* Where the segments stand, and what of them recover relies on.           *)

Measured(s) == IsSequence(s) /\ \A i \in 1..Len(s) : s[i].length \in Nat

LEMMA PlacesAre ==
  ASSUME Measured(segs)
  PROVE  /\ DOMAIN segs = 1..Len(segs) /\ Len(segs) \in Nat
         /\ Bsky!At(1) = 2
         /\ \A i \in 1..(Len(segs) + 1) : Bsky!At(i) \in Nat /\ Bsky!At(i) >= 2
         /\ \A i \in 1..Len(segs), j \in 1..(Len(segs) + 1) : i < j => Bsky!At(i) + segs[i].length <= Bsky!At(j)
<1>1. DOMAIN segs = 1..Len(segs) /\ Len(segs) \in Nat
  BY SMTT(30), SequenceDomain DEF Measured
<1>2. PICK f : f = LenOf(segs)
  BY SMTT(30)
<1>3. PICK n \in Nat : n = Len(segs)
  BY <1>1
<1>4. \A i \in 1..n : f[i] = segs[i].length /\ f[i] \in Nat
  BY <1>1, <1>2, <1>3 DEF Measured, LenOf
<1>5. \A i : Bsky!At(i) = 2 + Bsky!SumTo(f, i - 1)
  BY <1>2 DEF Bsky!At, LenOf
<1>6. \A m \in 0..n : Bsky!SumTo(f, m) \in Nat
  BY <1>4, SumGrows
<1>7. \A i \in 1..(n + 1) : Bsky!At(i) \in Nat /\ Bsky!At(i) >= 2
  <2> TAKE i \in 1..(n + 1)
  <2>1. i - 1 \in 0..n
    OBVIOUS
  <2>2. Bsky!SumTo(f, i - 1) \in Nat
    BY <1>6, <2>1
  <2> QED BY <1>5, <2>2
<1>8. Bsky!At(1) = 2
  <2>1. Bsky!SumTo(f, 0) = 0
    BY SumStep
  <2> QED BY <1>5, <2>1
<1>9. ASSUME NEW i \in 1..n, NEW j \in 1..(n + 1), i < j
      PROVE  Bsky!At(i) + segs[i].length <= Bsky!At(j)
  <2>1. PICK m \in Nat : m = j - 1 /\ m \in 0..n /\ i - 1 \in 0..(m - 1) /\ i - 1 \in 0..n
    BY <1>9
  <2>2. \A k \in 1..m : f[k] \in Nat
    BY <1>4, <2>1
  <2>3. Bsky!SumTo(f, i - 1) + f[(i - 1) + 1] <= Bsky!SumTo(f, m)
    BY <2>1, <2>2, SumGrows
  <2>4. Bsky!SumTo(f, i - 1) \in Nat /\ Bsky!SumTo(f, m) \in Nat /\ f[i] = segs[i].length /\ f[i] \in Nat
    BY <1>4, <1>6, <2>1
  <2>5. (i - 1) + 1 = i /\ Bsky!At(i) = 2 + Bsky!SumTo(f, i - 1) /\ Bsky!At(j) = 2 + Bsky!SumTo(f, m)
    BY <1>5, <2>1
  <2> QED BY <2>3, <2>4, <2>5
<1> QED BY <1>1, <1>3, <1>7, <1>8, <1>9

\* However it is found, the fields and the datasets of the Photoshop segment are those
\* that were made, and there are no two.
IsAt(s, kind, i) == i \in DOMAIN s /\ s[i].kind = kind
\* Each of ours has room for what recover looks for in it, cut short or not.
Roomy(x) ==
  /\ x.length \in Nat /\ x.length > 0
  /\ x.kind = "exif" => x.length >= 462 + Parts.exif
  /\ x.kind = "photoshop" => x.length >= 16
  /\ x.kind = "xmp" => x.length >= 312
Genuine(s) ==
  /\ Measured(s)
  /\ \A i, j : IsAt(s, "photoshop", i) /\ IsAt(s, "photoshop", j) => i = j
  /\ \A i : IsAt(s, "photoshop", i) =>
       s[i].field = PhotoshopMade.field /\ s[i].blocks = PhotoshopMade.blocks /\ Parts.first > 0
  /\ \A i : IsAt(s, "exif", i) => s[i].field = ExifMade.field
  /\ \A i \in 1..Len(s) : Roomy(s[i])

LEMMA ArrangedRoomy ==
  ASSUME Fits, NEW s, NEW a, NEW b, NEW c, Arranged(s, a, b, c)
  PROVE  \A i \in 1..Len(s) : Roomy(s[i])
<1>1. TAKE i \in 1..Len(s)
<1>2. /\ s[i].length \in Nat /\ s[i].length >= 4
      /\ s[i].kind = "exif" <=> i = a
      /\ s[i].kind = "xmp" <=> Parts.xmp > 0 /\ i = b
      /\ s[i].kind = "photoshop" <=> Parts.first > 0 /\ i = c
  BY ArrangedKinds
<1>3. /\ s[a] = ExifMade /\ (Parts.xmp > 0 => s[b] = XmpMade) /\ (Parts.first > 0 => s[c] = PhotoshopMade)
  BY DEF Arranged
<1>4. /\ Parts.exif \in Nat /\ Quartets \in Nat /\ Parts.first \in Nat /\ Parts.second \in Nat
  BY PartsFit
<1>5. PhotoshopSize >= 35 /\ PhotoshopSize \in Nat
  BY SMTT(30), <1>4 DEF PhotoshopSize
<1>6. ExifMade.length = 509 + Parts.exif /\ XmpMade.length = 405 + 4 * Quartets /\ PhotoshopMade.length = PhotoshopSize
  BY MadeFields
<1>7. s[i].kind = "exif" => s[i].length = 509 + Parts.exif
  BY <1>2, <1>3, <1>6
<1>8. s[i].kind = "xmp" => s[i].length = 405 + 4 * Quartets
  BY <1>2, <1>3, <1>6
<1>9. s[i].kind = "photoshop" => s[i].length = PhotoshopSize
  BY <1>2, <1>3, <1>6
<1> QED BY <1>2, <1>4, <1>5, <1>7, <1>8, <1>9 DEF Roomy

LEMMA ArrangedMeasured ==
  ASSUME Fits, NEW s, NEW a, NEW b, NEW c, Arranged(s, a, b, c)
  PROVE  Measured(s)
<1>1. IsSequence(s)
  BY DEF Arranged
<1>2. \A i \in 1..Len(s) : s[i].length \in Nat
  BY ArrangedKinds
<1> QED BY <1>1, <1>2 DEF Measured

LEMMA ArrangedGenuine ==
  ASSUME Fits, NEW s, NEW a, NEW b, NEW c, Arranged(s, a, b, c)
  PROVE  Genuine(s)
<1>1. Measured(s)
  BY ArrangedMeasured
<1>2. DOMAIN s = 1..Len(s)
  BY LengthsIn
<1>3. \A i \in 1..Len(s) : /\ s[i].kind = "exif" <=> i = a
                           /\ s[i].kind = "photoshop" <=> Parts.first > 0 /\ i = c
  BY ArrangedKinds
<1>4. s[a] = ExifMade /\ (Parts.first > 0 => s[c] = PhotoshopMade)
  BY DEF Arranged
<1>5. \A i \in 1..Len(s) : Roomy(s[i])
  BY ArrangedRoomy
<1> QED BY <1>1, <1>2, <1>3, <1>4, <1>5 DEF Genuine, IsAt

\* Which segments are left when one is lost.
Leaves(t, s, k) ==
  \A i \in DOMAIN t : \E j \in 1..Len(s) : j # k /\ t[i] = s[j] /\ j = (IF i < k THEN i ELSE i + 1)

LEMMA LostLeaves ==
  ASSUME NEW s, IsSequence(s), NEW k \in 1..Len(s), NEW t, t = Bsky!RemoveAt(s, k)
  PROVE  IsSequence(t) /\ DOMAIN t = 1..(Len(s) - 1) /\ Len(t) = Len(s) - 1 /\ Leaves(t, s, k)
<1>1. /\ IsSequence(t) /\ Len(t) = Len(s) - 1
      /\ \A j \in 1..(k - 1) : t[j] = s[j]
      /\ \A j \in k..(Len(s) - 1) : t[j] = s[j + 1]
  BY RemoveAtIs
<1>2. DOMAIN t = 1..(Len(s) - 1) /\ Len(s) \in Nat
  BY <1>1, SequenceDomain
<1>3. ASSUME NEW i \in 1..(Len(s) - 1)
      PROVE  \E j \in 1..Len(s) : j # k /\ t[i] = s[j] /\ j = (IF i < k THEN i ELSE i + 1)
  <2>1. CASE i < k
    <3>1. i \in 1..(k - 1) /\ i \in 1..Len(s) /\ i # k
      BY <1>2, <2>1
    <3> QED BY <1>1, <2>1, <3>1
  <2>2. CASE ~(i < k)
    <3>1. i \in k..(Len(s) - 1) /\ i + 1 \in 1..Len(s) /\ i + 1 # k
      BY <1>2, <2>2
    <3> QED BY <1>1, <2>2, <3>1
  <2> QED BY <2>1, <2>2
<1> QED BY <1>1, <1>2, <1>3 DEF Leaves

LEMMA LostGenuine ==
  ASSUME Fits, NEW s, NEW a, NEW b, NEW c, Arranged(s, a, b, c), NEW k \in {a, b, c},
         NEW t, t = Bsky!RemoveAt(s, k)
  PROVE  /\ Genuine(t)
         /\ k = a => \A i : ~IsAt(t, "exif", i)
         /\ k # a => (k = b /\ Parts.xmp > 0 /\ \A i : ~IsAt(t, "xmp", i))
                     \/ (k = c /\ Parts.first > 0 /\ \A i : ~IsAt(t, "photoshop", i))
<1>1. IsSequence(s) /\ k \in 1..Len(s) /\ DOMAIN s = 1..Len(s)
  BY SMTT(30), LengthsIn DEF Arranged
<1>2. /\ IsSequence(t) /\ DOMAIN t = 1..(Len(s) - 1) /\ Len(t) = Len(s) - 1
      /\ \A i \in DOMAIN t : \E j \in 1..Len(s) : j # k /\ t[i] = s[j] /\ j = (IF i < k THEN i ELSE i + 1)
  <2>1. /\ IsSequence(t) /\ DOMAIN t = 1..(Len(s) - 1) /\ Len(t) = Len(s) - 1
    BY ONLY <1>1, LostLeaves, t = Bsky!RemoveAt(s, k)
  <2>2. Leaves(t, s, k)
    BY ONLY <1>1, LostLeaves, t = Bsky!RemoveAt(s, k)
  <2> QED BY SMTT(30), <2>1, <2>2 DEF Leaves
<1>3. Genuine(s)
  BY ArrangedGenuine
<1>4. \A i \in 1..Len(s) : /\ s[i].length \in Nat
                           /\ s[i].kind = "exif" <=> i = a
                           /\ s[i].kind = "xmp" <=> Parts.xmp > 0 /\ i = b
                           /\ s[i].kind = "photoshop" <=> Parts.first > 0 /\ i = c
  BY ArrangedKinds
<1>5. Measured(t)
  BY <1>2, <1>4 DEF Measured
<1>6. ASSUME NEW i, NEW j, IsAt(t, "photoshop", i), IsAt(t, "photoshop", j)
      PROVE  i = j
  <2>1. PICK p \in 1..Len(s) : p # k /\ t[i] = s[p] /\ p = (IF i < k THEN i ELSE i + 1)
    BY <1>2, <1>6 DEF IsAt
  <2>2. PICK q \in 1..Len(s) : q # k /\ t[j] = s[q] /\ q = (IF j < k THEN j ELSE j + 1)
    BY <1>2, <1>6 DEF IsAt
  <2>3. p = c /\ q = c
    BY <1>4, <1>6, <2>1, <2>2 DEF IsAt
  <2>4. i \in Int /\ j \in Int /\ k \in Int
    BY <1>1, <1>2, <1>6 DEF IsAt
  <2> QED BY <2>1, <2>2, <2>3, <2>4
<1>7. ASSUME NEW i, IsAt(t, "photoshop", i)
      PROVE  t[i].field = PhotoshopMade.field /\ t[i].blocks = PhotoshopMade.blocks /\ Parts.first > 0
  BY <1>1, <1>2, <1>3, <1>7 DEF IsAt, Genuine
<1>8. ASSUME NEW i, IsAt(t, "exif", i)
      PROVE  t[i].field = ExifMade.field
  BY <1>1, <1>2, <1>3, <1>8 DEF IsAt, Genuine
<1>13. \A i \in 1..Len(t) : Roomy(t[i])
  BY <1>2, <1>3 DEF Genuine
<1>9. Genuine(t)
  BY <1>5, <1>6, <1>7, <1>8, <1>13 DEF Genuine
<1>10. k = a => \A i : ~IsAt(t, "exif", i)
  BY <1>2, <1>4 DEF IsAt
<1>11. CASE k = a
  BY <1>9, <1>10, <1>11
<1>12. CASE k # a
  <2>1. (k = b /\ Parts.xmp > 0) \/ (k = c /\ Parts.first > 0)
    BY <1>12 DEF Arranged
  <2>2. k = b /\ Parts.xmp > 0 => \A i : ~IsAt(t, "xmp", i)
    BY <1>2, <1>4 DEF IsAt
  <2>3. k = c /\ Parts.first > 0 => \A i : ~IsAt(t, "photoshop", i)
    BY <1>2, <1>4 DEF IsAt
  <2> QED BY <1>9, <1>12, <2>1, <2>2, <2>3
<1> QED BY <1>11, <1>12

LEMMA ShortFields ==
  ASSUME NEW k, NEW l, NEW f, NEW h, NEW x, x = Bsky!Segment(k, l, f, h), NEW n
  PROVE  LET y == [x EXCEPT !.length = n] IN y.kind = k /\ y.field = f /\ y.blocks = h /\ y.length = n
BY DEF Bsky!Segment

LEMMA CutFields ==
  ASSUME NEW k, NEW l, NEW f, NEW h, NEW x, x = Bsky!Segment(k, l, f, h),
         NEW y, y = CutShort(x), NEW o, NEW n, Bsky!Last(h).offset = o, Bsky!Last(h).length = n
  PROVE  y.kind = k /\ y.field = f /\ y.blocks = h /\ y.length = o + n - 1
<1>1. x.blocks = h
  BY SegmentFields
<1>2. y = [x EXCEPT !.length = o + n - 1]
  BY <1>1 DEF CutShort
<1> QED BY ONLY <1>2, x = Bsky!Segment(k, l, f, h), ShortFields

LEMMA LastOfOne ==
  ASSUME NEW x
  PROVE  Bsky!Last(<<x>>) = x
BY DEF Bsky!Last

LEMMA ExifCut ==
  ASSUME NEW y, y = CutShort(ExifMade), Fits
  PROVE  y.kind = "exif" /\ y.field = ExifMade.field /\ y.length = 462 + Parts.exif
<1>a. PICK n \in Nat : n = Parts.exif
  BY PartsFit
<1>1. PICK k : n = Parts.exif /\ k = Bsky!Block(463, n, n, Stretch(0, n))
  BY <1>a
<1>2. k.offset = 463 /\ k.length = n
  BY <1>1, BlockFields
<1>3. ExifMade = Bsky!Segment("exif", 509 + n, 507 + n, <<k>>)
  BY <1>1 DEF ExifMade
<1>4. Bsky!Last(<<k>>) = k
  BY LastOfOne
<1>5. y.kind = "exif" /\ y.field = 507 + n /\ y.length = 463 + n - 1
  BY ONLY <1>2, <1>3, <1>4, y = CutShort(ExifMade), CutFields
<1>6. ExifMade.field = 507 + n
  BY <1>1, MadeFields
<1> QED BY <1>1, <1>5, <1>6

LEMMA XmpCut ==
  ASSUME NEW y, y = CutShort(XmpMade), Fits
  PROVE  y.kind = "xmp" /\ y.length \in Nat /\ y.length >= 312
<1>a. PICK n \in Nat : n = Quartets
  BY PartsFit
<1>1. PICK k : n = Quartets /\ k = Bsky!Block(313, 4 * n, Parts.xmp, Stretch(TextFrom, Parts.xmp))
  BY <1>a
<1>2. k.offset = 313 /\ k.length = 4 * n
  BY <1>1, BlockFields
<1>3. XmpMade = Bsky!Segment("xmp", 405 + 4 * n, 403 + 4 * n, <<k>>)
  BY <1>1 DEF XmpMade
<1>4. Bsky!Last(<<k>>) = k
  BY LastOfOne
<1>5. y.kind = "xmp" /\ y.length = 313 + 4 * n - 1
  BY ONLY <1>2, <1>3, <1>4, y = CutShort(XmpMade), CutFields
<1> QED BY <1>1, <1>5

LEMMA PhotoshopCut ==
  ASSUME NEW y, y = CutShort(PhotoshopMade), Fits
  PROVE  /\ y.kind = "photoshop" /\ y.field = PhotoshopMade.field /\ y.blocks = PhotoshopMade.blocks
         /\ y.length = PhotoshopSize - 1
<1>1. Parts.first \in Nat /\ Parts.second \in Nat /\ PhotoshopSize \in Nat
  BY PartsFit
<1>2. PICK h, n, m : h = <<FirstBlock>> \o SecondBlocks /\ n = PhotoshopSize /\ m = PhotoshopSize - 2
  OBVIOUS
<1>3. PhotoshopMade = Bsky!Segment("photoshop", n, m, h)
  BY <1>2, Zenon DEF PhotoshopMade
<1>4. PhotoshopMade.blocks = h /\ PhotoshopMade.field = m
  BY <1>3, SegmentFields
<1>5. Len(h) = (IF Parts.second > 0 THEN 2 ELSE 1) /\ h[1] = FirstBlock /\ (Parts.second > 0 => h[2] = SecondBlock)
  BY <1>4, PhotoshopBlocks
<1>6. PICK o, l : /\ Bsky!Last(h).offset = o /\ Bsky!Last(h).length = l
                  /\ o = (IF Parts.second > 0 THEN 40 + Parts.first ELSE 35)
                  /\ l = (IF Parts.second > 0 THEN Parts.second ELSE Parts.first)
  BY <1>5, PhotoshopBlocks DEF Bsky!Last
<1>7. y.kind = "photoshop" /\ y.field = m /\ y.blocks = h /\ y.length = o + l - 1
  BY ONLY <1>3, <1>6, y = CutShort(PhotoshopMade), CutFields
<1>8. o + l = PhotoshopSize /\ o \in Int /\ l \in Int
  BY <1>1, <1>6 DEF PhotoshopSize
<1> QED BY <1>1, <1>4, <1>7, <1>8

\* The start of a sequence with another last element.
StartOf(t, s, k, x) ==
  IsSequence(t) /\ DOMAIN t = 1..k /\ Len(t) = k /\ (\A i \in 1..(k - 1) : t[i] = s[i]) /\ t[k] = x
LEMMA CutLeaves ==
  ASSUME NEW s, IsSequence(s), NEW k \in 1..Len(s), NEW x, NEW t, t = Append(SubSeq(s, 1, k - 1), x)
  PROVE  StartOf(t, s, k, x)
<1>1. PICK T : s \in Seq(T)
  BY DEF IsSequence
<1>2. PICK S : S = T \cup {x}
  OBVIOUS
<1>3. s \in Seq(S) /\ x \in S
  BY <1>1, <1>2
<1>4. PICK p : p = SubSeq(s, 1, k - 1)
  OBVIOUS
<1>5. p \in Seq(S) /\ Len(p) = k - 1 /\ \A j \in 1..(k - 1) : p[j] = s[j]
  BY <1>3, <1>4
<1>6. t = Append(p, x)
  BY <1>4
<1>7. t \in Seq(S) /\ Len(t) = k /\ \A j \in 1..(k - 1) : t[j] = p[j]
  BY ONLY <1>3, <1>5, <1>6, k \in 1..Len(s)
<1>8. t[Len(p) + 1] = x
  BY ONLY <1>3, <1>5, <1>6, LastAppended
<1>9. Len(p) + 1 = k /\ k \in Nat
  BY <1>3, <1>5
<1>10. IsSequence(t)
  BY <1>7 DEF IsSequence
<1>11. t[k] = x
  BY <1>8, <1>9
<1>12. DOMAIN t = 1..k
  BY <1>7
<1> QED BY <1>5, <1>7, <1>10, <1>11, <1>12 DEF StartOf

CutFrom(t, s, k) == t = Append(SubSeq(s, 1, k - 1), CutShort(s[k]))
CutShows(t, first) ==
  /\ first => ~IsAt(t, "exif", 1) \/ (Len(t) = 1 /\ t[1].length = 462 + Parts.exif)
  /\ ~first => Parts.first > 0
  /\ ~first => \A i : IsAt(t, "photoshop", i) => i = Len(t) /\ t[i].length = PhotoshopSize - 1
LEMMA CutGenuine ==
  ASSUME Fits, NEW s, NEW a, NEW b, NEW c, Arranged(s, a, b, c), NEW k \in {a, b, c},
         NEW t, CutFrom(t, s, k)
  PROVE  Genuine(t) /\ CutShows(t, k = a)
<1>1. IsSequence(s) /\ k \in 1..Len(s) /\ DOMAIN s = 1..Len(s)
  BY LengthsIn DEF Arranged
<1>2. PICK y : y = CutShort(s[k])
  OBVIOUS
<1>3. IsSequence(t) /\ DOMAIN t = 1..k /\ Len(t) = k /\ (\A i \in 1..(k - 1) : t[i] = s[i]) /\ t[k] = y
  <2>1. StartOf(t, s, k, y)
    BY <1>1, <1>2, CutLeaves DEF CutFrom
  <2> QED BY <2>1 DEF StartOf
<1>4. Genuine(s)
  BY ArrangedGenuine
<1>5. \A i \in 1..Len(s) : /\ s[i].length \in Nat
                           /\ s[i].kind = "exif" <=> i = a
                           /\ s[i].kind = "xmp" <=> Parts.xmp > 0 /\ i = b
                           /\ s[i].kind = "photoshop" <=> Parts.first > 0 /\ i = c
  BY ArrangedKinds
<1>6. /\ s[a] = ExifMade /\ a \in 1..Len(s) /\ b \in 1..Len(s) /\ c \in 1..Len(s)
      /\ Parts.xmp > 0 => s[b] = XmpMade /\ a < b /\ b < c
      /\ ~(Parts.xmp > 0) => b = a
      /\ Parts.first > 0 => s[c] = PhotoshopMade /\ a < c
      /\ ~(Parts.first > 0) => c = a
  BY DEF Arranged
<1>7. Parts.exif \in Nat /\ PhotoshopSize \in Nat /\ (Parts.xmp > 0 => Parts.first > 0)
      /\ PhotoshopSize - 1 \in Nat /\ PhotoshopSize - 1 >= 16
  <2>1. Parts.first \in Nat /\ Parts.second \in Nat /\ Parts.exif \in Nat /\ (Parts.xmp > 0 => Parts.first > 0)
    <3>1. Parts.first \in Nat /\ Parts.second \in Nat /\ Parts.exif \in Nat /\ Parts.xmp \in Nat
      BY PartsFit
    <3>2. (Parts.xmp > 0 => Parts.second > 0) /\ (Parts.second > 0 => Parts.first > 0)
      BY PartsFit
    <3> QED BY <3>1, <3>2
  <2>2. PhotoshopSize \in Nat /\ PhotoshopSize - 1 \in Nat /\ PhotoshopSize - 1 >= 16
    BY <2>1 DEF PhotoshopSize
  <2> QED BY <2>1, <2>2
<1>8. \A i \in 1..k : i < k => i \in 1..Len(s) /\ t[i] = s[i]
  BY <1>1, <1>3
<1>13. y.length \in Nat => Measured(t)
  <2> SUFFICES ASSUME y.length \in Nat, NEW i \in 1..k
               PROVE  t[i].length \in Nat
    BY <1>3 DEF Measured
  <2>1. CASE i = k
    BY <1>3, <2>1
  <2>2. CASE i # k
    <3>1. i \in 1..Len(s) /\ t[i] = s[i]
      BY <1>1, <1>8, <2>2
    <3> QED BY <1>5, <3>1
  <2> QED BY <2>1, <2>2
<1>14. Roomy(y) => \A i \in 1..Len(t) : Roomy(t[i])
  BY <1>3, <1>4, <1>8 DEF Genuine
<1>9. CASE k = a
  <2>1. y.kind = "exif" /\ y.field = ExifMade.field /\ y.length = 462 + Parts.exif
    BY <1>2, <1>6, <1>9, ExifCut
  <2>2. Measured(t)
    <3>1. y.length \in Nat
      BY <1>7, <2>1
    <3> QED BY <3>1, <1>13 DEF Measured
  <2>3. \A i : ~IsAt(t, "photoshop", i)
    <3> SUFFICES ASSUME NEW i, IsAt(t, "photoshop", i)
                 PROVE  FALSE
      OBVIOUS
    <3>1. i \in 1..k /\ i # k
      BY <1>3, <2>1 DEF IsAt
    <3>2. i \in 1..Len(s) /\ i # c /\ t[i] = s[i]
      BY <1>1, <1>6, <1>8, <1>9, <3>1
    <3> QED BY <1>5, <3>2 DEF IsAt
  <2>4. \A i : IsAt(t, "exif", i) => t[i].field = ExifMade.field
    <3> SUFFICES ASSUME NEW i, IsAt(t, "exif", i)
                 PROVE  t[i].field = ExifMade.field
      OBVIOUS
    <3>1. CASE i = k
      BY <1>3, <2>1, <3>1
    <3>2. CASE i # k
      <4>1. i \in 1..Len(s) /\ t[i] = s[i]
        BY <1>1, <1>3, <1>8, <3>2 DEF IsAt
      <4> QED BY <1>1, <1>4, <4>1 DEF IsAt, Genuine
    <3> QED BY <3>1, <3>2
  <2>8. Roomy(y)
    BY <1>7, <2>1 DEF Roomy
  <2>5. Genuine(t)
    BY <1>14, <2>2, <2>3, <2>4, <2>8 DEF Genuine
  <2>6. k = 1 => Len(t) = 1 /\ t[1].length = 462 + Parts.exif
    BY <1>3, <2>1
  <2>7. k # 1 => ~IsAt(t, "exif", 1)
    <3> SUFFICES ASSUME k # 1
                 PROVE  ~IsAt(t, "exif", 1)
      OBVIOUS
    <3>1. 1 \in 1..Len(s) /\ t[1] = s[1] /\ 1 # a
      BY <1>1, <1>8, <1>9
    <3> QED BY <1>5, <3>1 DEF IsAt
  <2> QED BY <1>9, <2>5, <2>6, <2>7 DEF CutShows
<1>10. CASE k # a
  <2>1. Parts.first > 0
    BY <1>6, <1>7, <1>10
  <2>2. \/ k = b /\ Parts.xmp > 0 /\ k < c /\ y.kind = "xmp" /\ y.length \in Nat /\ y.length >= 312
        \/ /\ k = c /\ y.kind = "photoshop" /\ y.field = PhotoshopMade.field /\ y.blocks = PhotoshopMade.blocks
           /\ y.length = PhotoshopSize - 1
    <3>1. CASE k = c
      <4>1. s[k] = PhotoshopMade
        BY <1>6, <2>1, <3>1
      <4>2. y = CutShort(PhotoshopMade)
        BY <1>2, <4>1
      <4> QED BY <3>1, <4>2, PhotoshopCut
    <3>2. CASE k # c
      <4>1. k = b /\ Parts.xmp > 0 /\ k < c /\ s[k] = XmpMade
        BY <1>6, <1>10, <3>2
      <4>2. y = CutShort(XmpMade)
        BY <1>2, <4>1
      <4> QED BY <4>1, <4>2, XmpCut
    <3> QED BY <3>1, <3>2
  <2>3. Measured(t)
    <3>1. y.length \in Nat
      BY <1>7, <2>1, <2>2
    <3> QED BY <3>1, <1>13 DEF Measured
  <2>4. ASSUME NEW i, IsAt(t, "photoshop", i)
        PROVE  /\ i = k /\ i = c /\ t[i].field = PhotoshopMade.field /\ t[i].blocks = PhotoshopMade.blocks
               /\ t[i].length = PhotoshopSize - 1
    <3>1. CASE i = k
      BY <1>3, <2>2, <2>4, <3>1 DEF IsAt
    <3>2. CASE i # k
      <4>1. i \in 1..Len(s) /\ t[i] = s[i] /\ i < k
        BY <1>1, <1>3, <1>8, <2>4, <3>2 DEF IsAt
      <4>2. i = c
        BY <1>5, <2>4, <4>1 DEF IsAt
      <4>3. k \in Int /\ c \in Int /\ k <= c
        BY <1>1, <1>6, <2>2
      <4> QED BY <4>1, <4>2, <4>3
    <3> QED BY <3>1, <3>2
  <2>5. \A i : IsAt(t, "exif", i) => t[i].field = ExifMade.field
    <3> SUFFICES ASSUME NEW i, IsAt(t, "exif", i)
                 PROVE  t[i].field = ExifMade.field
      OBVIOUS
    <3>1. i # k
      BY <1>3, <2>2 DEF IsAt
    <3>2. i \in 1..Len(s) /\ t[i] = s[i]
      BY <1>1, <1>3, <1>8, <3>1 DEF IsAt
    <3> QED BY <1>1, <1>4, <3>2 DEF IsAt, Genuine
  <2>8. Roomy(y)
    BY <1>7, <2>2 DEF Roomy
  <2>6. Genuine(t)
    <3>1. \A i, j : IsAt(t, "photoshop", i) /\ IsAt(t, "photoshop", j) => i = j
      BY <2>4
    <3>2. \A i : IsAt(t, "photoshop", i) =>
            t[i].field = PhotoshopMade.field /\ t[i].blocks = PhotoshopMade.blocks /\ Parts.first > 0
      BY <2>1, <2>4
    <3> QED BY <1>14, <2>3, <2>5, <2>8, <3>1, <3>2 DEF Genuine
  <2>7. \A i : IsAt(t, "photoshop", i) => i = Len(t) /\ t[i].length = PhotoshopSize - 1
    BY <1>3, <2>4
  <2> QED BY <1>10, <2>1, <2>6, <2>7 DEF CutShows
<1> QED BY <1>9, <1>10

LEMMA PlaceBehind ==
  ASSUME NEW i \in 1..Len(segs), Measured(segs)
  PROVE  Bsky!At(i + 1) = Bsky!At(i) + segs[i].length
<1>1. DOMAIN segs = 1..Len(segs) /\ Len(segs) \in Nat
  BY PlacesAre
<1>2. PICK f : f = LenOf(segs)
  OBVIOUS
<1>3. f[i] = segs[i].length
  BY <1>1, <1>2 DEF LenOf
<1>4. \A j : Bsky!At(j) = 2 + Bsky!SumTo(f, j - 1)
  BY <1>2 DEF Bsky!At, LenOf
<1>5. PICK m \in Nat : m = i - 1 /\ m + 1 = i /\ (i + 1) - 1 = m + 1
  BY <1>1
<1>6. Bsky!SumTo(f, m + 1) = Bsky!SumTo(f, m) + f[m + 1]
  BY SumStep
<1>7. Bsky!SumTo(f, m) \in Nat
  <2>1. \A j \in 1..m : f[j] \in Nat
    BY <1>1, <1>2, <1>5 DEF LenOf, Measured
  <2>2. m \in 0..m
    OBVIOUS
  <2> QED BY <2>1, <2>2, SumGrows
<1>8. Bsky!At(i) = 2 + Bsky!SumTo(f, m) /\ Bsky!At(i + 1) = 2 + Bsky!SumTo(f, m + 1)
  BY <1>4, <1>5
<1>9. segs[i].length \in Nat
  BY DEF Measured
<1> QED BY <1>3, <1>5, <1>6, <1>7, <1>8, <1>9

\* The image lacks what a ciphertext of its size has.
Lacks ==
  \/ Parts.xmp > 0 /\ \A i : ~IsAt(segs, "xmp", i)
  \/ Parts.first > 0 /\ \A i : ~IsAt(segs, "photoshop", i)
  \/ ~Bsky!InFile(465, Parts.exif)
  \/ Parts.first > 0 /\ \A i : IsAt(segs, "photoshop", i) => ~Bsky!InFile(Bsky!At(i) + 2, segs[i].field)

LEMMA WholeGenuine ==
  ASSUME Fits, Whole
  PROVE  stated = size /\ Genuine(segs)
<1>1. PICK a, b, c : Arranged(segs, a, b, c)
  BY DEF Whole
<1>2. Genuine(segs)
  BY <1>1, ArrangedGenuine
<1> QED BY <1>2 DEF Whole

LEMMA LostLacks ==
  ASSUME Fits, LostOne
  PROVE  stated = size /\ Genuine(segs) /\ (Bsky!OurExif => Lacks)
<1>1. PICK s, a, b, c : Arranged(s, a, b, c) /\ \E k \in {a, b, c} : segs = Bsky!RemoveAt(s, k)
  BY DEF LostOne
<1>2. PICK k \in {a, b, c} : segs = Bsky!RemoveAt(s, k)
  BY <1>1
<1>3. Genuine(segs)
  BY <1>1, <1>2, LostGenuine
<1>4. k = a => \A i : ~IsAt(segs, "exif", i)
  BY <1>1, <1>2, LostGenuine
<1>5. k # a => (k = b /\ Parts.xmp > 0 /\ \A i : ~IsAt(segs, "xmp", i))
               \/ (k = c /\ Parts.first > 0 /\ \A i : ~IsAt(segs, "photoshop", i))
  BY <1>1, <1>2, LostGenuine
<1>6. Bsky!OurExif => IsAt(segs, "exif", 1)
  <2>1. DOMAIN segs = 1..Len(segs) /\ Len(segs) \in Nat /\ IsSequence(segs)
    BY <1>3, PlacesAre DEF Genuine, Measured
  <2>2. segs # <<>> => 1 \in DOMAIN segs
    BY <2>1 DEF IsSequence
  <2> QED BY <2>2 DEF Bsky!OurExif, IsAt
<1>7. Bsky!OurExif => Lacks
  BY <1>4, <1>5, <1>6 DEF Lacks
<1>8. stated = size
  BY DEF LostOne
<1> QED BY <1>3, <1>7, <1>8

LEMMA CutLacks ==
  ASSUME Fits, CutOne, harm = "cut"
  PROVE  stated = size /\ Genuine(segs) /\ (Bsky!OurExif => Lacks)
<1>1. PICK s, a, b, c : Arranged(s, a, b, c) /\
        \E k \in {a, b, c} : segs = Append(SubSeq(s, 1, k - 1), CutShort(s[k]))
  BY DEF CutOne
<1>2. PICK k \in {a, b, c} : CutFrom(segs, s, k)
  BY <1>1 DEF CutFrom
<1>3. Genuine(segs)
  BY <1>1, <1>2, CutGenuine
<1>c. CutShows(segs, k = a)
  BY <1>1, <1>2, CutGenuine
<1>4. /\ k = a => ~IsAt(segs, "exif", 1) \/ (Len(segs) = 1 /\ segs[1].length = 462 + Parts.exif)
      /\ k # a => Parts.first > 0
  BY <1>c DEF CutShows
<1>5. k # a => \A i : IsAt(segs, "photoshop", i) => i = Len(segs) /\ segs[i].length = PhotoshopSize - 1
  BY <1>c DEF CutShows
<1>6. Measured(segs) /\ DOMAIN segs = 1..Len(segs) /\ Len(segs) \in Nat /\ IsSequence(segs)
  BY <1>3, PlacesAre DEF Genuine, Measured
<1>7. Bsky!OurExif => IsAt(segs, "exif", 1)
  <2>2. segs # <<>> => 1 \in DOMAIN segs
    BY <1>6 DEF IsSequence
  <2> QED BY <2>2 DEF Bsky!OurExif, IsAt
<1>8. Parts.exif \in Nat /\ PhotoshopSize \in Nat
  BY PartsFit
<1>9. Bsky!ImageSize = Bsky!At(Len(segs) + 1) + 0
  BY DEF Bsky!ImageSize
<1>10. CASE k = a
  <2> SUFFICES ASSUME Bsky!OurExif
               PROVE  Lacks
    BY <1>3 DEF CutOne
  <2>1. Len(segs) = 1 /\ segs[1].length = 462 + Parts.exif
    BY <1>4, <1>7, <1>10
  <2>2. 1 \in 1..Len(segs) /\ Bsky!At(1) = 2
    BY <1>6, <2>1, PlacesAre
  <2>3. Bsky!At(1 + 1) = 2 + (462 + Parts.exif)
    BY <1>6, <2>1, <2>2, PlaceBehind
  <2>4. Bsky!ImageSize = 464 + Parts.exif
    BY <1>8, <1>9, <2>1, <2>3
  <2>5. ~Bsky!InFile(465, Parts.exif)
    BY ONLY <1>8, <2>4 DEF Bsky!InFile
  <2> QED BY <2>5 DEF Lacks
<1>11. CASE k # a
  <2>1. ASSUME NEW i, IsAt(segs, "photoshop", i)
        PROVE  ~Bsky!InFile(Bsky!At(i) + 2, segs[i].field)
    <3>1. i = Len(segs) /\ i \in 1..Len(segs) /\ segs[i].length = PhotoshopSize - 1
      BY <1>5, <1>6, <1>11, <2>1 DEF IsAt
    <3>2. Bsky!At(i + 1) = Bsky!At(i) + (PhotoshopSize - 1)
      BY <1>6, <3>1, PlaceBehind
    <3>3. Bsky!At(i) \in Nat
      <4>1. i \in 1..(Len(segs) + 1)
        BY <1>6, <3>1
      <4> QED BY <1>6, <4>1, PlacesAre
    <3>4. segs[i].field = PhotoshopSize - 2
      BY <1>3, <2>1, MadeFields DEF Genuine
    <3>5. PICK p \in Nat, n \in Nat : p = Bsky!At(i) /\ n = PhotoshopSize
      BY <1>8, <3>3
    <3>6. Bsky!ImageSize = p + n - 1
      BY <1>8, <1>9, <3>1, <3>2, <3>5
    <3>7. ~Bsky!InFile(p + 2, n - 2)
      BY ONLY <3>5, <3>6 DEF Bsky!InFile
    <3> QED BY <3>4, <3>5, <3>7
  <2>2. Lacks
    BY <1>4, <1>11, <2>1 DEF Lacks
  <2> QED BY <1>3, <2>2 DEF CutOne
<1> QED BY <1>10, <1>11

LEMMA CarriedGenuine ==
  ASSUME Carried, phase \notin Early \cup {"failed"}, harm # "altered"
  PROVE  /\ Fits /\ stated = size /\ Genuine(segs)
         /\ harm \in {"lost", "cut"} /\ Bsky!OurExif => Lacks
<1>1. Fits /\ Travelled /\ harm \in {"none", "lost", "cut"}
  BY DEF Carried, Early
<1>2. CASE harm = "none"
  BY <1>1, <1>2, WholeGenuine DEF Travelled
<1>3. CASE harm = "lost"
  BY <1>1, <1>3, LostLacks DEF Travelled
<1>4. CASE harm = "cut"
  BY <1>1, <1>4, CutLacks DEF Travelled
<1> QED BY <1>1, <1>2, <1>3, <1>4

-----------------------------------------------------------------------------
(* What recover has read.                                                  *)

\* A run one stretch longer.
Pairs == Nat \X Nat
OneMore(q, p, r) ==
  /\ r \in Seq(Pairs) /\ Len(r) = Len(q) + 1
  /\ Bsky!Bytes(r) = Bsky!Bytes(q) + p[2]
  /\ \A k \in 0..Len(q) : Bsky!BytesUpTo(r, k) = Bsky!BytesUpTo(q, k)
  /\ \A k \in 1..Len(q) : r[k] = q[k]
  /\ r[Len(q) + 1] = p /\ Bsky!Last(r) = p

LEMMA OneMoreIs ==
  ASSUME NEW q \in Seq(Pairs), NEW p \in Pairs, NEW r, r = Append(q, p)
  PROVE  OneMore(q, p, r)
<1>1. PICK n \in Nat : n = Len(q)
  OBVIOUS
<1>2. r \in Seq(Pairs) /\ Len(r) = n + 1 /\ \A k \in 1..n : r[k] = q[k]
  BY <1>1
<1>3. r[n + 1] = p
  BY <1>1, LastAppended
<1>4. Bsky!Last(r) = p
  BY <1>2, <1>3 DEF Bsky!Last
<1>5. PICK f, g : f = [i \in DOMAIN q |-> q[i][2]] /\ g = [i \in DOMAIN r |-> r[i][2]]
  OBVIOUS
<1>6. DOMAIN q = 1..n /\ DOMAIN r = 1..(n + 1)
  BY <1>1, <1>2
<1>7. \A i \in 1..n : g[i] = f[i]
  BY <1>2, <1>5, <1>6
<1>8. g[n + 1] = p[2]
  BY <1>3, <1>5, <1>6
<1>9. \A k : Bsky!BytesUpTo(q, k) = Bsky!SumTo(f, k) /\ Bsky!BytesUpTo(r, k) = Bsky!SumTo(g, k)
  BY <1>5 DEF Bsky!BytesUpTo
<1>10. \A k \in 0..n : Bsky!BytesUpTo(r, k) = Bsky!BytesUpTo(q, k)
  <2> TAKE k \in 0..n
  <2>1. k \in Nat /\ \A i \in 1..k : g[i] = f[i]
    BY <1>7
  <2>2. Bsky!SumTo(g, k) = Bsky!SumTo(f, k)
    BY <2>1, SumSame
  <2> QED BY <1>9, <2>2
<1>11. Bsky!SumTo(g, n + 1) = Bsky!SumTo(g, n) + g[n + 1]
  BY SumStep
<1>12. Bsky!Bytes(r) = Bsky!SumTo(g, n + 1) /\ Bsky!Bytes(q) = Bsky!SumTo(f, n)
  BY <1>1, <1>2, <1>9 DEF Bsky!Bytes
<1>13. Bsky!SumTo(g, n) = Bsky!SumTo(f, n)
  BY <1>7, SumSame
<1>14. Bsky!Bytes(r) = Bsky!Bytes(q) + p[2]
  BY <1>8, <1>11, <1>12, <1>13
<1> QED BY <1>1, <1>2, <1>3, <1>4, <1>10, <1>14 DEF OneMore

LEMMA NothingRead ==
  <<>> \in Seq(Pairs) /\ Len(<<>>) = 0 /\ Bsky!Bytes(<<>>) = 0
<1>1. Len(<<>>) = 0
  OBVIOUS
<1>2. Bsky!Bytes(<<>>) = 0
  BY <1>1, SumStep DEF Bsky!Bytes, Bsky!BytesUpTo
<1> QED BY <1>1, <1>2

\* The four places, when the Photoshop segment is the i-th and the XMP segment the j-th.
Piece1 == <<465, Parts.exif>>
Piece2(i) == <<Bsky!At(i) + 35, Parts.first>>
Piece3(i) == <<Bsky!At(i) + 40 + Parts.first, Parts.second>>
Piece4(j) == <<Bsky!At(j) + 313, Parts.xmp>>
Row1 == Append(<<>>, Piece1)
Row2(i) == Append(Row1, Piece2(i))
Row3(i) == Append(Row2(i), Piece3(i))
Row4(i, j) == Append(Row3(i), Piece4(j))

LEMMA RowsAre ==
  ASSUME Fits, Measured(segs), NEW i \in DOMAIN segs, NEW j \in DOMAIN segs
  PROVE  /\ OneMore(<<>>, Piece1, Row1) /\ OneMore(Row1, Piece2(i), Row2(i))
         /\ OneMore(Row2(i), Piece3(i), Row3(i)) /\ OneMore(Row3(i), Piece4(j), Row4(i, j))
<1>1. Bsky!At(i) \in Nat /\ Bsky!At(j) \in Nat
  BY PlacesAre
<1>2. Parts.exif \in Nat /\ Parts.first \in Nat /\ Parts.second \in Nat /\ Parts.xmp \in Nat
  BY PartsFit
<1>3. Piece1 \in Pairs /\ Piece2(i) \in Pairs /\ Piece3(i) \in Pairs /\ Piece4(j) \in Pairs
  BY <1>1, <1>2 DEF Piece1, Piece2, Piece3, Piece4, Pairs
<1>4. OneMore(<<>>, Piece1, Row1)
  BY <1>3, NothingRead, OneMoreIs DEF Row1
<1>5. Row1 \in Seq(Pairs)
  BY <1>4 DEF OneMore
<1>6. OneMore(Row1, Piece2(i), Row2(i))
  BY <1>3, <1>5, OneMoreIs DEF Row2
<1>7. Row2(i) \in Seq(Pairs)
  BY <1>6 DEF OneMore
<1>8. OneMore(Row2(i), Piece3(i), Row3(i))
  BY <1>3, <1>7, OneMoreIs DEF Row3
<1>9. Row3(i) \in Seq(Pairs)
  BY <1>8 DEF OneMore
<1>10. OneMore(Row3(i), Piece4(j), Row4(i, j))
  BY <1>3, <1>9, OneMoreIs DEF Row4
<1> QED BY <1>4, <1>6, <1>8, <1>10

LEMMA Row1Is ==
  ASSUME Fits
  PROVE  /\ Row1 \in Seq(Pairs) /\ Len(Row1) = 1 /\ Row1[1] = <<465, Parts.exif>>
         /\ Bsky!Bytes(Row1) = Parts.exif /\ Bsky!BytesUpTo(Row1, 0) = 0
<1>1. Parts.exif \in Nat
  BY PartsFit
<1>2. Piece1 \in Pairs
  BY <1>1 DEF Piece1, Pairs
<1>3. OneMore(<<>>, Piece1, Row1)
  BY <1>2, NothingRead, OneMoreIs DEF Row1
<1>4. Row1 \in Seq(Pairs) /\ Len(Row1) = Len(<<>>) + 1 /\ Row1[Len(<<>>) + 1] = Piece1
      /\ Bsky!Bytes(Row1) = Bsky!Bytes(<<>>) + Piece1[2]
  BY <1>3 DEF OneMore
<1>5. Bsky!BytesUpTo(Row1, 0) = 0
  BY SumStep DEF Bsky!BytesUpTo
<1>6. Piece1[2] = Parts.exif
  BY DEF Piece1
<1> QED BY <1>1, <1>4, <1>5, <1>6, NothingRead DEF Piece1

LEMMA RowsHold ==
  ASSUME Fits, Measured(segs), NEW i \in DOMAIN segs, NEW j \in DOMAIN segs
  PROVE  /\ Len(Row2(i)) = 2 /\ Row2(i)[1] = Piece1 /\ Row2(i)[2] = Piece2(i)
         /\ Bsky!Last(Row2(i)) = Piece2(i)
         /\ Bsky!BytesUpTo(Row2(i), 0) = 0 /\ Bsky!BytesUpTo(Row2(i), 1) = Parts.exif
         /\ Bsky!Bytes(Row2(i)) = Parts.exif + Parts.first
         /\ Len(Row3(i)) = 3 /\ (\A k \in 1..2 : Row3(i)[k] = Row2(i)[k]) /\ Row3(i)[3] = Piece3(i)
         /\ \A k \in 0..1 : Bsky!BytesUpTo(Row3(i), k) = Bsky!BytesUpTo(Row2(i), k)
         /\ Bsky!BytesUpTo(Row3(i), 2) = Parts.exif + Parts.first
         /\ Bsky!Bytes(Row3(i)) = Parts.exif + Parts.first + Parts.second
         /\ Len(Row4(i, j)) = 4 /\ (\A k \in 1..3 : Row4(i, j)[k] = Row3(i)[k]) /\ Row4(i, j)[4] = Piece4(j)
         /\ \A k \in 0..2 : Bsky!BytesUpTo(Row4(i, j), k) = Bsky!BytesUpTo(Row3(i), k)
         /\ Bsky!BytesUpTo(Row4(i, j), 3) = Parts.exif + Parts.first + Parts.second
         /\ Bsky!Bytes(Row4(i, j)) = Parts.exif + Parts.first + Parts.second + Parts.xmp
<1>1. PICK a, b, c, d : a = Row1 /\ b = Row2(i) /\ c = Row3(i) /\ d = Row4(i, j)
  OBVIOUS
<1>2. PICK p, q, r, s : p = Piece1 /\ q = Piece2(i) /\ r = Piece3(i) /\ s = Piece4(j)
  OBVIOUS
<1>3. OneMore(a, q, b) /\ OneMore(b, r, c) /\ OneMore(c, s, d)
  BY <1>1, <1>2, RowsAre
<1>4. p[2] = Parts.exif /\ q[2] = Parts.first /\ r[2] = Parts.second /\ s[2] = Parts.xmp
  BY <1>2 DEF Piece1, Piece2, Piece3, Piece4
<1>5. PICK e \in Nat, f \in Nat, g \in Nat, x \in Nat :
        e = Parts.exif /\ f = Parts.first /\ g = Parts.second /\ x = Parts.xmp
  BY PartsFit
<1>6. Len(a) = 1 /\ a[1] = p /\ Bsky!Bytes(a) = e /\ Bsky!BytesUpTo(a, 0) = 0
  BY <1>1, <1>2, <1>5, Row1Is DEF Piece1
<1>7. Bsky!BytesUpTo(a, 1) = e /\ Bsky!Bytes(b) = Bsky!BytesUpTo(b, Len(b)) /\ Bsky!Bytes(c) = Bsky!BytesUpTo(c, Len(c))
  BY <1>6 DEF Bsky!Bytes
<1>8. Len(b) = 2 /\ b[1] = p /\ b[2] = q /\ Bsky!Last(b) = q
      /\ Bsky!BytesUpTo(b, 0) = 0 /\ Bsky!BytesUpTo(b, 1) = e /\ Bsky!Bytes(b) = e + f
  <2>1. Len(b) = 1 + 1 /\ (\A k \in 0..1 : Bsky!BytesUpTo(b, k) = Bsky!BytesUpTo(a, k)) /\ (\A k \in 1..1 : b[k] = a[k])
        /\ b[1 + 1] = q /\ Bsky!Last(b) = q /\ Bsky!Bytes(b) = e + q[2]
    BY ONLY <1>3, <1>6 DEF OneMore
  <2> QED BY ONLY <1>4, <1>5, <1>6, <1>7, <2>1
<1>9. Len(c) = 3 /\ (\A k \in 1..2 : c[k] = b[k]) /\ c[3] = r
      /\ (\A k \in 0..1 : Bsky!BytesUpTo(c, k) = Bsky!BytesUpTo(b, k))
      /\ Bsky!BytesUpTo(c, 2) = e + f /\ Bsky!Bytes(c) = e + f + g
  <2>1. Len(c) = 2 + 1 /\ (\A k \in 0..2 : Bsky!BytesUpTo(c, k) = Bsky!BytesUpTo(b, k)) /\ (\A k \in 1..2 : c[k] = b[k])
        /\ c[2 + 1] = r /\ Bsky!Bytes(c) = e + f + r[2]
    BY ONLY <1>3, <1>8 DEF OneMore
  <2> QED BY ONLY <1>4, <1>5, <1>7, <1>8, <2>1
<1>10. Len(d) = 4 /\ (\A k \in 1..3 : d[k] = c[k]) /\ d[4] = s
       /\ (\A k \in 0..2 : Bsky!BytesUpTo(d, k) = Bsky!BytesUpTo(c, k))
       /\ Bsky!BytesUpTo(d, 3) = e + f + g /\ Bsky!Bytes(d) = e + f + g + x
  <2>1. Len(d) = 3 + 1 /\ (\A k \in 0..3 : Bsky!BytesUpTo(d, k) = Bsky!BytesUpTo(c, k)) /\ (\A k \in 1..3 : d[k] = c[k])
        /\ d[3 + 1] = s /\ Bsky!Bytes(d) = e + f + g + s[2]
    BY ONLY <1>3, <1>9 DEF OneMore
  <2> QED BY ONLY <1>4, <1>5, <1>7, <1>9, <2>1
<1> QED BY ONLY <1>1, <1>2, <1>5, <1>8, <1>9, <1>10

-----------------------------------------------------------------------------
(* Recover puts together only what is whole.                               *)

Photo(i) == IsAt(segs, "photoshop", i)
PhotoIn(i) == Photo(i) /\ Bsky!InFile(Bsky!At(i) + 2, segs[i].field)
Complete(tk) ==
  \/ Parts.first = 0 /\ tk = Row1
  \/ \E i : PhotoIn(i) /\ Parts.second = 0 /\ tk = Row2(i)
  \/ \E i : PhotoIn(i) /\ Parts.second > 0 /\ Parts.xmp = 0 /\ tk = Row3(i)
  \/ \E i, j : PhotoIn(i) /\ Parts.xmp > 0 /\ IsAt(segs, "xmp", j) /\ tk = Row4(i, j)
Scan(for, from, limit, consumed, carry) ==
  [for |-> for, from |-> from, limit |-> limit, consumed |-> consumed, carry |-> carry]
IsScan(sc) == \E for, from, limit, consumed, carry : sc = Scan(for, from, limit, consumed, carry)
\* The search has not gone past our signature.
NotPassed(sc) ==
  /\ sc.consumed \in Nat /\ sc.carry \in Nat
  /\ \A p \in Bsky!OwnSignatures(sc.for) : sc.consumed - sc.carry <= p

\* How far recover is, and what it has read on the way.
Assembly(ph, sc, tk) ==
  /\ ph \in {"exif", "search", "first", "second", "done"} => Bsky!OurExif
  /\ ph = "exif" => tk = <<>>
  /\ ph \in {"search", "first", "second", "done"} => Bsky!InFile(465, Parts.exif)
  /\ ph = "search" => IsScan(sc) /\ sc.for \in {"photoshop", "xmp"} /\ NotPassed(sc)
  /\ ph = "search" /\ sc.for = "photoshop" => tk = Row1 /\ Parts.first > 0
  /\ ph = "first" => tk = Row1 /\ Parts.first > 0 /\ \E i : Photo(i) /\ sc.from = Bsky!At(i) + 9
  /\ ph = "second" => Parts.second > 0 /\ \E i : PhotoIn(i) /\ sc.from = Bsky!At(i) + 9 /\ tk = Row2(i)
  /\ ph = "search" /\ sc.for = "xmp" => Parts.xmp > 0 /\ \E i : PhotoIn(i) /\ tk = Row3(i)
  /\ ph = "done" => Complete(tk)
\* ... if no other program's segment is met before ours.
Assembling == harm # "altered" /\ Bsky!Unmistakable /\ phase \notin Early \cup {"failed"} => Assembly(phase, scan, taken)

LEMMA SignaturesStay ==
  ASSUME UNCHANGED <<size, segs>>
  PROVE  /\ \A kind : Bsky!OwnSignatures(kind)' = Bsky!OwnSignatures(kind)
         /\ Bsky!Unmistakable' <=> Bsky!Unmistakable
<1>1. Parts' = Parts
  BY MadeStay
<1>2. \A kind : Bsky!OwnSignatures(kind)' = Bsky!OwnSignatures(kind)
  BY DEF Bsky!OwnSignatures, Bsky!At
<1>3. \A kind : Bsky!OtherSignatures(kind)' = Bsky!OtherSignatures(kind)
  BY DEF Bsky!OtherSignatures, Bsky!At
<1>4. \A kind : Bsky!NoneInFront(kind)' <=> Bsky!NoneInFront(kind)
  BY <1>2, <1>3 DEF Bsky!NoneInFront
<1>5. (Bsky!HasPhotoshop' <=> Bsky!HasPhotoshop) /\ (Bsky!HasXmp' <=> Bsky!HasXmp)
  BY <1>1 DEF Bsky!HasPhotoshop, Bsky!HasXmp, Parts
<1>6. Bsky!Unmistakable' <=> Bsky!Unmistakable
  BY <1>4, <1>5 DEF Bsky!Unmistakable
<1> QED BY <1>2, <1>6

LEMMA AssemblyStays ==
  ASSUME UNCHANGED <<size, decoy, segs, harm, stated>>, Assembly(phase', scan', taken')
  PROVE  Assembling'
<1>1. /\ Parts' = Parts /\ \A x : (Bsky!At(x))' = Bsky!At(x)
      /\ Row1' = Row1
  BY MadeStay DEF Bsky!At, Row1, Piece1
<1>2. Bsky!ImageSize' = Bsky!ImageSize
  BY <1>1 DEF Bsky!ImageSize, Bsky!At
<1>3. \A x, y : Bsky!InFile(x, y)' <=> Bsky!InFile(x, y)
  BY <1>2 DEF Bsky!InFile
<1>4. \A i, j : Row2(i)' = Row2(i) /\ Row3(i)' = Row3(i) /\ Row4(i, j)' = Row4(i, j)
  BY <1>1 DEF Row2, Row3, Row4, Row1, Piece1, Piece2, Piece3, Piece4, Bsky!At
<1>5. \A i : (Photo(i)' <=> Photo(i)) /\ (IsAt(segs, "xmp", i)' <=> IsAt(segs, "xmp", i))
  BY DEF Photo, IsAt
<1>6. \A i : PhotoIn(i)' <=> PhotoIn(i)
  <2> TAKE i
  <2>1. PICK x, y : x = Bsky!At(i) + 2 /\ y = segs[i].field
    OBVIOUS
  <2>2. (Bsky!At(i) + 2)' = x /\ (segs[i].field)' = y
    BY <2>1 DEF Bsky!At
  <2>3. Bsky!InFile(Bsky!At(i) + 2, segs[i].field)' <=> Bsky!InFile(Bsky!At(i) + 2, segs[i].field)
    BY <1>2, <2>2, <2>1 DEF Bsky!InFile
  <2> QED BY <1>5, <2>3 DEF PhotoIn
<1>7. Complete(taken') => Complete(taken)'
  BY <1>1, <1>4, <1>5, <1>6 DEF Complete
<1>8. Bsky!OurExif' <=> Bsky!OurExif
  BY DEF Bsky!OurExif
<1>9. Bsky!InFile(465, Parts.exif)' <=> Bsky!InFile(465, Parts.exif)
  BY <1>1, <1>2 DEF Bsky!InFile
<1>11. NotPassed(scan') => NotPassed(scan)'
  BY SignaturesStay DEF NotPassed
<1>10. Assembly(phase, scan, taken)'
  BY <1>1, <1>4, <1>5, <1>6, <1>7, <1>8, <1>9, <1>11 DEF Assembly, IsScan, Scan
<1> QED BY <1>10 DEF Assembling

Kept == Fits /\ stated = size /\ Genuine(segs)

\* No two segments begin at one place.
LEMMA OneAt ==
  ASSUME Genuine(segs), NEW i \in DOMAIN segs, NEW j \in DOMAIN segs, Bsky!At(i) = Bsky!At(j)
  PROVE  i = j
<1>1. /\ DOMAIN segs = 1..Len(segs) /\ Len(segs) \in Nat
      /\ \A k \in 1..(Len(segs) + 1) : Bsky!At(k) \in Nat
      /\ \A k \in 1..Len(segs), m \in 1..(Len(segs) + 1) : k < m => Bsky!At(k) + segs[k].length <= Bsky!At(m)
  BY PlacesAre DEF Genuine
<1>2. \A k \in 1..Len(segs) : segs[k].length \in Nat /\ segs[k].length > 0
  BY DEF Genuine, Roomy
<1>3. i \in 1..Len(segs) /\ j \in 1..Len(segs) /\ i \in 1..(Len(segs) + 1) /\ j \in 1..(Len(segs) + 1)
  BY <1>1
<1>4. PICK p \in Nat : p = Bsky!At(i) /\ p = Bsky!At(j)
  BY <1>1, <1>3
<1>5. ~(i < j)
  BY <1>1, <1>2, <1>3, <1>4
<1>6. ~(j < i)
  BY <1>1, <1>2, <1>3, <1>4
<1> QED BY <1>1, <1>3, <1>5, <1>6

\* Our signatures lie behind the EXIF part, within the file.
LEMMA OwnStand ==
  ASSUME Kept, Bsky!OurExif, NEW kind \in {"photoshop", "xmp"}, NEW p \in Bsky!OwnSignatures(kind)
  PROVE  p \in Nat /\ 465 + Parts.exif <= p /\ p \in Bsky!Signatures(kind)
<1>1. /\ DOMAIN segs = 1..Len(segs) /\ Len(segs) \in Nat /\ Bsky!At(1) = 2
      /\ \A k \in 1..(Len(segs) + 1) : Bsky!At(k) \in Nat
      /\ \A k \in 1..Len(segs), m \in 1..(Len(segs) + 1) : k < m => Bsky!At(k) + segs[k].length <= Bsky!At(m)
  BY PlacesAre DEF Kept, Genuine
<1>2. \A k \in 1..Len(segs) : Roomy(segs[k])
  BY DEF Kept, Genuine
<1>3. PICK i \in DOMAIN segs : segs[i].kind = kind /\ p = Bsky!At(i) + (IF kind = "photoshop" THEN 9 ELSE 305)
  BY DEF Bsky!OwnSignatures, Bsky!PhotoshopAt
<1>4. i \in 1..Len(segs) /\ i \in 1..(Len(segs) + 1) /\ 1 \in 1..Len(segs) /\ Len(segs) + 1 \in 1..(Len(segs) + 1)
  BY <1>1, <1>3
<1>5. segs[1].kind = "exif"
  BY DEF Bsky!OurExif
<1>6. 1 < i /\ i < Len(segs) + 1
  BY <1>3, <1>4, <1>5
<1>7. Parts.exif \in Nat
  BY PartsFit DEF Kept
<1>8. segs[1].length \in Nat /\ segs[1].length >= 462 + Parts.exif
  BY <1>2, <1>4, <1>5 DEF Roomy
<1>9. Bsky!At(i) \in Nat /\ Bsky!At(i) >= 464 + Parts.exif
  BY SMTT(30), <1>1, <1>4, <1>6, <1>7, <1>8
<1>10. segs[i].length \in Nat /\ segs[i].length >= (IF kind = "photoshop" THEN 16 ELSE 312)
  BY <1>2, <1>3, <1>4 DEF Roomy
<1>11. Bsky!At(i) + segs[i].length <= Bsky!At(Len(segs) + 1) /\ Bsky!At(Len(segs) + 1) \in Nat
  BY <1>1, <1>4, <1>6
<1>12. Bsky!ImageSize \in Nat /\ Bsky!At(Len(segs) + 1) <= Bsky!ImageSize
  BY <1>11 DEF Bsky!ImageSize
<1>13. p \in Nat /\ 465 + Parts.exif <= p /\ p + 7 <= Bsky!ImageSize
  <2>1. PICK at \in Nat, long \in Nat, end \in Nat, n \in Nat, e \in Nat :
          at = Bsky!At(i) /\ long = segs[i].length /\ end = Bsky!At(Len(segs) + 1) /\ n = Bsky!ImageSize /\ e = Parts.exif
    BY <1>7, <1>9, <1>10, <1>11, <1>12
  <2>2. at >= 464 + e /\ at + long <= end /\ end <= n
    BY <1>9, <1>11, <1>12, <2>1
  <2>3. CASE kind = "photoshop"
    <3>1. p = at + 9 /\ long >= 16
      BY <1>3, <1>10, <2>1, <2>3
    <3>2. at + 9 \in Nat /\ 465 + e <= at + 9 /\ (at + 9) + 7 <= n
      BY <2>2, <3>1
    <3> QED BY <2>1, <3>1, <3>2
  <2>4. CASE kind # "photoshop"
    <3>1. p = at + 305 /\ long >= 312
      BY <1>3, <1>10, <2>1, <2>4
    <3>2. at + 305 \in Nat /\ 465 + e <= at + 305 /\ (at + 305) + 7 <= n
      BY <2>2, <3>1
    <3> QED BY <2>1, <3>1, <3>2
  <2> QED BY <2>3, <2>4
<1> QED BY <1>13 DEF Bsky!Signatures, Bsky!SignatureSize

LEMMA OthersStand ==
  ASSUME Measured(segs), NEW kind \in {"photoshop", "xmp"}, NEW q \in Bsky!OtherSignatures(kind)
  PROVE  q \in Nat
<1>1. \A i \in DOMAIN segs : Bsky!At(i) \in Nat
  BY PlacesAre
<1>2. OtherXmpAt \in Nat
  BY CarriersAssumption DEF CarriersAssumption
<1> QED BY <1>1, <1>2 DEF Bsky!OtherSignatures, Bsky!PhotoshopAt

\* What recover looks for is not mistaken.
LEMMA InFrontOfOthers ==
  ASSUME Bsky!Unmistakable, NEW kind,
         (kind = "photoshop" /\ Parts.first > 0) \/ (kind = "xmp" /\ Parts.xmp > 0)
  PROVE  Bsky!NoneInFront(kind)
BY DEF Bsky!Unmistakable, Bsky!HasPhotoshop, Bsky!HasXmp, Parts

LEMMA FirstIsOurs ==
  ASSUME Kept, Bsky!OurExif, scan.for \in {"photoshop", "xmp"}, NotPassed(scan), Bsky!NoneInFront(scan.for),
         NEW got \in Int, NEW q \in Bsky!FirstHit(got)
  PROVE  q \notin Bsky!OtherSignatures(scan.for)
<1> SUFFICES ASSUME q \in Bsky!OtherSignatures(scan.for)
             PROVE  FALSE
  OBVIOUS
<1>1. PICK p \in Bsky!OwnSignatures(scan.for) : p < q
  BY DEF Bsky!NoneInFront
<1>2. p \in Nat /\ p \in Bsky!Signatures(scan.for)
  BY OwnStand
<1>3. q \in Nat
  BY OthersStand DEF Kept, Genuine
<1>4. scan.consumed \in Nat /\ scan.carry \in Nat /\ scan.consumed - scan.carry <= p
  BY DEF NotPassed
<1>5. q \in Bsky!InWindow(got) /\ \A r \in Bsky!InWindow(got) : q <= r
  BY DEF Bsky!FirstHit
<1>6. q + 7 <= scan.consumed + got
  BY <1>5 DEF Bsky!InWindow, Bsky!SignatureSize
<1>7. p + 7 <= scan.consumed + got
  BY <1>1, <1>2, <1>3, <1>4, <1>6
<1>8. p \in Bsky!InWindow(got)
  BY <1>2, <1>4, <1>7 DEF Bsky!InWindow, Bsky!SignatureSize
<1> QED BY <1>1, <1>2, <1>3, <1>5, <1>8

LEMMA PhotoIs ==
  ASSUME Kept, NEW i, Photo(i), scan.from = Bsky!At(i) + 9
  PROVE  /\ i \in DOMAIN segs /\ Bsky!At(i) \in Nat /\ Parts.first > 0
         /\ Bsky!Photoshop = i /\ Bsky!PsField = PhotoshopSize - 2 /\ segs[i].field = PhotoshopSize - 2
         /\ Bsky!BlockField(1) = Parts.first /\ segs[Bsky!Photoshop].blocks[1].length = Parts.first
         /\ Bsky!FirstField = {Parts.first}
         /\ Parts.second > 0 => Bsky!BlockField(2) = Parts.second /\ Bsky!SecondField = {Parts.second}
<1>1. i \in DOMAIN segs /\ segs[i].kind = "photoshop" /\ Genuine(segs)
  BY DEF Photo, IsAt, Kept
<1>2. Measured(segs)
  BY <1>1 DEF Genuine
<1>3. Bsky!At(i) \in Nat
  BY <1>1, <1>2, PlacesAre
<1>4. \A j \in DOMAIN segs : Bsky!At(j) + 9 = Bsky!At(i) + 9 => j = i
  <2> TAKE j \in DOMAIN segs
  <2>1. Bsky!At(j) \in Nat
    BY <1>2, PlacesAre
  <2>2. Bsky!At(j) + 9 = Bsky!At(i) + 9 => Bsky!At(j) = Bsky!At(i)
    BY <1>3, <2>1
  <2> QED BY <1>1, <2>2, OneAt
<1>14. \A j : Bsky!At(j) + Bsky!PhotoshopAt = Bsky!Signature <=> Bsky!At(j) + 9 = Bsky!At(i) + 9
  BY DEF Bsky!PhotoshopAt, Bsky!Signature
<1>5. Bsky!Photoshop = i
  BY <1>1, <1>4, <1>14, Zenon DEF Bsky!Photoshop
<1>15. ~Bsky!Mistaken
  BY <1>1 DEF Bsky!Mistaken, Bsky!Signature, Bsky!OwnSignatures, Bsky!PhotoshopAt
<1>6. segs[i].field = PhotoshopMade.field /\ segs[i].blocks = PhotoshopMade.blocks /\ Parts.first > 0
  BY <1>1 DEF Genuine, IsAt
<1>7. segs[i].field = PhotoshopSize - 2
  BY <1>6, MadeFields
<1>8. Bsky!PsField = PhotoshopSize - 2
  BY <1>5, <1>7 DEF Bsky!PsField
<1>9. PICK h : h = PhotoshopMade.blocks
  OBVIOUS
<1>10. /\ h[1].field = Parts.first /\ h[1].length = Parts.first /\ 1 \in DOMAIN h
       /\ Parts.second > 0 => 2 \in DOMAIN h /\ h[2].field = Parts.second
  <2>1. h[1] = FirstBlock /\ FirstBlock.field = Parts.first /\ FirstBlock.length = Parts.first
        /\ DOMAIN h = (IF Parts.second > 0 THEN {1, 2} ELSE {1})
    BY <1>9, PhotoshopBlocks
  <2>2. Parts.second > 0 => h[2] = SecondBlock /\ SecondBlock.field = Parts.second
    BY <1>9, PhotoshopBlocks
  <2> QED BY <2>1, <2>2
<1>11. segs[Bsky!Photoshop].blocks = h
  BY <1>5, <1>6, <1>9
<1>12. Bsky!BlockField(1) = Parts.first /\ segs[Bsky!Photoshop].blocks[1].length = Parts.first
  BY <1>10, <1>11 DEF Bsky!BlockField
<1>13. Parts.second > 0 => Bsky!BlockField(2) = Parts.second
  BY <1>10, <1>11 DEF Bsky!BlockField
<1>16. Bsky!FirstField = {Parts.first}
  BY <1>12, <1>15 DEF Bsky!FirstField
<1>17. Parts.second > 0 => Bsky!SecondField = {Parts.second}
  BY <1>12, <1>13, <1>15 DEF Bsky!SecondField
<1> QED BY <1>1, <1>3, <1>5, <1>6, <1>7, <1>8, <1>12, <1>13, <1>16, <1>17

LEMMA ReadMetadataAssembles ==
  ASSUME taken = <<>>, Bsky!ReadMetadata
  PROVE  Assembly(phase', scan', taken')
<1>1. taken' = taken /\ phase' \in {"notOurs", "refused", "exif"} /\ (phase' = "exif" => Bsky!OurExif)
  BY DEF Bsky!ReadMetadata, Bsky!Step, Bsky!recovering
<1> QED BY <1>1 DEF Assembly

LEMMA ScanFor ==
  ASSUME NEW for, NEW from, NEW limit, NEW consumed, NEW carry, NEW sc, sc = Scan(for, from, limit, consumed, carry)
  PROVE  /\ sc.for = for /\ sc.from = from /\ sc.limit = limit /\ sc.consumed = consumed /\ sc.carry = carry
         /\ IsScan(sc)
BY DEF Scan, IsScan

LEMMA SearchStarts ==
  ASSUME Kept, Bsky!OurExif, NEW sc, sc.for \in {"photoshop", "xmp"}, sc.consumed = Bsky!SearchStart, sc.carry = 0
  PROVE  NotPassed(sc)
<1>1. size \in Nat /\ stated = size /\ Parts.exif \in Nat
  BY PartsFit DEF Kept, Fits
<1>2. Bsky!SearchStart = 465 + Parts.exif
  BY <1>1, LayoutIs DEF Bsky!SearchStart, Bsky!AfterExif, Bsky!Start, Bsky!ExifChunk, Bsky!ReadExifLimit
<1>3. \A p \in Bsky!OwnSignatures(sc.for) : 465 + Parts.exif <= p
  BY OwnStand
<1> QED BY <1>1, <1>2, <1>3 DEF NotPassed

LEMMA TakeExifAssembles ==
  ASSUME Kept, Assembly(phase, scan, taken), Bsky!TakeExif
  PROVE  Assembly(phase', scan', taken')
<1>1. phase = "exif" /\ Bsky!OurExif /\ taken = <<>> /\ stated = size /\ size \in Nat
  BY DEF Assembly, Bsky!TakeExif, Kept, Fits
<1>2. Bsky!ExifChunk = Parts.exif
  BY <1>1, LayoutIs DEF Bsky!ExifChunk, Bsky!ReadExifLimit
<1>3. Bsky!Start = 465
  BY DEF Bsky!Start
<1>4. /\ Parts.exif \in Nat /\ Parts.first \in Nat /\ Parts.second \in Nat /\ Parts.xmp \in Nat
      /\ Parts.exif + Parts.first + Parts.second + Parts.xmp = size
      /\ Parts.second > 0 => Parts.first > 0
      /\ Parts.xmp > 0 => Parts.second > 0
  <2>1. /\ Parts.exif \in Nat /\ Parts.first \in Nat /\ Parts.second \in Nat /\ Parts.xmp \in Nat
        /\ Parts.exif + Parts.first + Parts.second + Parts.xmp = size
    BY <1>1, LayoutIs
  <2>2. Fits
    BY DEF Kept
  <2>3. (Parts.second > 0 => Parts.first > 0) /\ (Parts.xmp > 0 => Parts.second > 0)
    BY <2>2, PartsFit
  <2> QED BY <2>1, <2>3
<1>5. phase' = "refused" \/ (Bsky!InFile(465, Parts.exif) /\ taken' = Row1)
  <2>1. phase' = "refused" \/ (Bsky!InFile(Bsky!Start, Bsky!ExifChunk) /\ taken' = Append(taken, <<Bsky!Start, Bsky!ExifChunk>>))
    BY DEF Bsky!TakeExif, Bsky!Step, Bsky!Take
  <2> QED BY <1>1, <1>2, <1>3, <2>1 DEF Row1, Piece1
<1>6. phase' = "refused" \/ (phase' = "done" /\ size = Parts.exif)
      \/ (phase' = "search" /\ size # Parts.exif /\
          scan' = Scan("photoshop", Bsky!SearchStart, Bsky!Lesser(Bsky!ImageSize, Bsky!SearchStart + Bsky!SearchWindow), Bsky!SearchStart, 0))
  BY <1>1, <1>2 DEF Bsky!TakeExif, Bsky!Step, Scan
<1>7. CASE phase' = "refused"
  BY <1>7 DEF Assembly
<1>8. CASE phase' = "done" /\ size = Parts.exif
  <2>1. Parts.first = 0
    BY <1>4, <1>8
  <2>2. taken' = Row1 /\ Bsky!InFile(465, Parts.exif)
    BY <1>5, <1>8
  <2>3. Complete(taken')
    BY <2>1, <2>2 DEF Complete
  <2> QED BY <1>1, <1>8, <2>2, <2>3 DEF Assembly
<1>9. CASE phase' = "search" /\ size # Parts.exif /\
          scan' = Scan("photoshop", Bsky!SearchStart, Bsky!Lesser(Bsky!ImageSize, Bsky!SearchStart + Bsky!SearchWindow), Bsky!SearchStart, 0)
  <2>1. Parts.first > 0
    BY <1>4, <1>9
  <2>2. taken' = Row1 /\ Bsky!InFile(465, Parts.exif)
    BY <1>5, <1>9
  <2>3. scan'.for = "photoshop" /\ IsScan(scan') /\ scan'.consumed = Bsky!SearchStart /\ scan'.carry = 0
    BY ONLY <1>9, ScanFor
  <2>4. NotPassed(scan')
    BY <1>1, <2>3, SearchStarts
  <2> QED BY <1>1, <1>9, <2>1, <2>2, <2>3, <2>4 DEF Assembly
<1> QED BY <1>6, <1>7, <1>8, <1>9

LEMMA ScanFrom ==
  ASSUME NEW sc, IsScan(sc), NEW p
  PROVE  [sc EXCEPT !.from = p].from = p
BY DEF IsScan, Scan

ScanMoved(sc, n, m) == [sc EXCEPT !.consumed = @ + n, !.carry = m]

LEMMA ScanMoves ==
  ASSUME NEW for, NEW from, NEW limit, NEW consumed, NEW carry, NEW sc, sc = Scan(for, from, limit, consumed, carry),
         NEW n, NEW m, NEW t, t = ScanMoved(sc, n, m)
  PROVE  t = Scan(for, from, limit, consumed + n, m)
<1>1. sc.consumed = consumed
  BY ScanFor
<1>2. PICK u : u = [sc EXCEPT !.consumed = consumed + n]
  OBVIOUS
<1>3. t = [u EXCEPT !.carry = m]
  BY <1>1, <1>2 DEF ScanMoved
<1>4. u = Scan(for, from, limit, consumed + n, carry)
  BY ONLY <1>2, sc = Scan(for, from, limit, consumed, carry) DEF Scan
<1> QED BY ONLY <1>3, <1>4 DEF Scan

LEMMA ReadWindowAssembles ==
  ASSUME Kept, Assembly(phase, scan, taken), NEW got, Bsky!ReadWindow(got)
  PROVE  Assembly(phase', scan', taken')
<1>1. phase = "search" /\ phase' = "search" /\ taken' = taken
  BY DEF Bsky!ReadWindow
<1>2. PICK for, from, limit, consumed, carry : scan = Scan(for, from, limit, consumed, carry)
  BY <1>1 DEF Assembly, IsScan
<1>3. PICK m : m = Bsky!Overlap(Bsky!Window(got))
  OBVIOUS
<1>4. scan' = ScanMoved(scan, got, m)
  BY <1>3 DEF Bsky!ReadWindow, ScanMoved
<1>5. scan' = Scan(for, from, limit, consumed + got, m)
  BY ONLY <1>2, <1>4, ScanMoves
<1>6. scan'.for = scan.for /\ IsScan(scan') /\ scan'.consumed = scan.consumed + got /\ scan'.carry = m
  BY <1>2, <1>5, ScanFor
<1>7. PICK c \in Nat, r \in Nat, g \in Nat : c = scan.consumed /\ r = scan.carry /\ g = got
  <2>1. scan.consumed \in Nat /\ scan.carry \in Nat
    BY <1>1 DEF Assembly, NotPassed
  <2>2. got \in Nat
    BY DEF Bsky!ReadWindow
  <2> QED BY <2>1, <2>2
<1>8. m = (IF 6 <= r + g THEN 6 ELSE r + g)
  BY <1>3, <1>7 DEF Bsky!Overlap, Bsky!Window, Bsky!Lesser, Bsky!SignatureSize
<1>9. ASSUME NEW p \in Bsky!OwnSignatures(scan.for)
      PROVE  (c + g) - m <= p
  <2>1. p \in Nat /\ p \in Bsky!Signatures(scan.for)
    BY <1>1, <1>9, OwnStand DEF Assembly
  <2>2. c - r <= p
    BY <1>1, <1>7, <1>9 DEF Assembly, NotPassed
  <2>3. ~(c - r <= p /\ p + 7 <= c + g)
    BY <1>7, <2>1 DEF Bsky!ReadWindow, Bsky!InWindow, Bsky!SignatureSize
  <2> QED BY <1>7, <1>8, <2>1, <2>2, <2>3
<1>10. NotPassed(scan')
  BY <1>6, <1>7, <1>8, <1>9 DEF NotPassed
<1> QED BY <1>1, <1>6, <1>10 DEF Assembly

LEMMA FoundPhotoshopAssembles ==
  ASSUME Kept, Bsky!Unmistakable, Assembly(phase, scan, taken), NEW got, Bsky!FoundPhotoshop(got)
  PROVE  Assembly(phase', scan', taken')
<1>1. phase = "search" /\ scan.for = "photoshop" /\ taken' = taken
  BY DEF Bsky!FoundPhotoshop
<1>2. taken = Row1 /\ Parts.first > 0 /\ IsScan(scan) /\ Bsky!OurExif /\ Bsky!InFile(465, Parts.exif)
  BY <1>1 DEF Assembly
<1>3. PICK p \in Bsky!FirstHit(got) :
        \/ /\ p \in Bsky!OwnSignatures("photoshop") \cup Bsky!OtherSignatures("photoshop")
           /\ phase' = "first" /\ scan' = [scan EXCEPT !.from = p]
        \/ phase' = "refused"
  BY DEF Bsky!FoundPhotoshop, Bsky!Step
<1>7. p \notin Bsky!OtherSignatures("photoshop")
  <2>1. Bsky!NoneInFront(scan.for) /\ NotPassed(scan)
    BY <1>1, <1>2, InFrontOfOthers DEF Assembly
  <2>2. got \in Int
    BY DEF Bsky!FoundPhotoshop
  <2> QED BY <1>1, <1>2, <2>1, <2>2, FirstIsOurs
<1>4. phase' = "refused" \/ (phase' = "first" /\ p \in Bsky!OwnSignatures("photoshop") /\ scan' = [scan EXCEPT !.from = p])
  BY <1>3, <1>7
<1>5. CASE phase' = "refused"
  BY <1>5 DEF Assembly
<1>6. CASE phase' = "first" /\ p \in Bsky!OwnSignatures("photoshop") /\ scan' = [scan EXCEPT !.from = p]
  <2>1. \E i : Photo(i) /\ p = Bsky!At(i) + 9
    BY <1>6 DEF Bsky!OwnSignatures, Bsky!PhotoshopAt, Photo, IsAt
  <2>2. scan'.from = p
    BY <1>2, <1>6, ScanFrom
  <2> QED BY <1>1, <1>2, <1>6, <2>1, <2>2 DEF Assembly
<1> QED BY <1>4, <1>5, <1>6

LEMMA KeptParts ==
  ASSUME Kept
  PROVE  /\ Parts.exif \in Nat /\ Parts.first \in Nat /\ Parts.second \in Nat /\ Parts.xmp \in Nat
         /\ Parts.exif + Parts.first + Parts.second + Parts.xmp = stated
         /\ Parts.second > 0 => Parts.first > 0
         /\ Parts.xmp > 0 => Parts.second > 0
<1>1. Fits /\ stated = size /\ size \in Nat
  BY DEF Kept, Fits
<1>2. /\ Parts.exif \in Nat /\ Parts.first \in Nat /\ Parts.second \in Nat /\ Parts.xmp \in Nat
      /\ Parts.exif + Parts.first + Parts.second + Parts.xmp = size
  BY <1>1, LayoutIs
<1>3. (Parts.second > 0 => Parts.first > 0) /\ (Parts.xmp > 0 => Parts.second > 0)
  BY <1>1, PartsFit
<1> QED BY <1>1, <1>2, <1>3

LEMMA TakeFirstAssembles ==
  ASSUME Kept, Assembly(phase, scan, taken), Bsky!TakeFirst
  PROVE  Assembly(phase', scan', taken')
<1>1. phase = "first" /\ scan' = scan
  BY DEF Bsky!TakeFirst
<1>2. taken = Row1 /\ Parts.first > 0 /\ Bsky!OurExif /\ Bsky!InFile(465, Parts.exif)
  BY <1>1 DEF Assembly
<1>3. PICK i : Photo(i) /\ scan.from = Bsky!At(i) + 9
  BY <1>1 DEF Assembly
<1>4. /\ Bsky!At(i) \in Nat /\ Bsky!PsField = segs[i].field
      /\ Bsky!FirstField = {Parts.first}
  BY <1>3, PhotoIs
<1>5. Bsky!Signature - 7 = Bsky!At(i) + 2 /\ Bsky!Signature + 26 = Bsky!At(i) + 35
  BY <1>3, <1>4 DEF Bsky!Signature
<1>6. Bsky!Remaining = stated - Parts.exif
  BY <1>2, Row1Is DEF Bsky!Remaining, Bsky!TakenBytes, Kept
<1>7. phase' = "refused" \/
      (/\ PhotoIn(i) /\ taken' = Row2(i)
       /\ (phase' = "done" /\ Parts.first = stated - Parts.exif) \/ (phase' = "second" /\ Parts.first # stated - Parts.exif))
  <2>1. phase' = "refused" \/
        (/\ Bsky!InFile(Bsky!Signature - 7, Bsky!PsField)
         /\ taken' = Append(taken, <<Bsky!Signature + 26, Parts.first>>)
         /\ phase' = (IF Parts.first = Bsky!Remaining THEN "done"
                      ELSE IF Bsky!PsField <= Bsky!OnlyOneDataset THEN "refused" ELSE "second"))
    BY <1>4 DEF Bsky!TakeFirst, Bsky!Step, Bsky!Take
  <2>2. Append(taken, <<Bsky!Signature + 26, Parts.first>>) = Row2(i)
    BY <1>2, <1>4, <1>5 DEF Row2, Piece2
  <2>3. Bsky!InFile(Bsky!Signature - 7, Bsky!PsField) => PhotoIn(i)
    BY <1>3, <1>4, <1>5 DEF PhotoIn
  <2> QED BY <1>4, <1>6, <2>1, <2>2, <2>3
<1>8. CASE phase' = "refused"
  BY <1>8 DEF Assembly
<1>9. CASE PhotoIn(i) /\ taken' = Row2(i) /\ phase' = "done" /\ Parts.first = stated - Parts.exif
  <2>1. Parts.second = 0
    <3>1. stated \in Nat
      BY DEF Kept, Fits
    <3> QED BY <1>9, <3>1, KeptParts
  <2>2. Complete(taken')
    BY <1>9, <2>1 DEF Complete
  <2> QED BY <1>2, <1>9, <2>2 DEF Assembly
<1>10. CASE PhotoIn(i) /\ taken' = Row2(i) /\ phase' = "second" /\ Parts.first # stated - Parts.exif
  <2>1. Parts.second > 0
    <3>1. stated \in Nat
      BY DEF Kept, Fits
    <3> QED BY <1>10, <3>1, KeptParts
  <2> QED BY <1>1, <1>2, <1>3, <1>10, <2>1 DEF Assembly
<1> QED BY <1>7, <1>8, <1>9, <1>10

LEMMA TakeSecondAssembles ==
  ASSUME Kept, Assembly(phase, scan, taken), Bsky!TakeSecond
  PROVE  Assembly(phase', scan', taken')
<1>1. phase = "second"
  BY DEF Bsky!TakeSecond
<1>2. Parts.second > 0 /\ Bsky!OurExif /\ Bsky!InFile(465, Parts.exif)
  BY <1>1 DEF Assembly
<1>3. PICK i : PhotoIn(i) /\ scan.from = Bsky!At(i) + 9 /\ taken = Row2(i)
  BY <1>1 DEF Assembly
<1>4. Photo(i)
  BY <1>3 DEF PhotoIn
<1>5. /\ Bsky!At(i) \in Nat /\ i \in DOMAIN segs
      /\ Bsky!SecondField = {Parts.second}
  BY <1>2, <1>3, <1>4, PhotoIs
<1>6. /\ Parts.exif \in Nat /\ Parts.first \in Nat /\ Parts.second \in Nat /\ Parts.xmp \in Nat
      /\ Parts.exif + Parts.first + Parts.second + Parts.xmp = stated
  BY KeptParts
<1>7. Fits /\ Measured(segs)
  BY DEF Kept, Genuine
<1>8. Bsky!Remaining = stated - (Parts.exif + Parts.first)
  BY <1>3, <1>5, <1>7, RowsHold DEF Bsky!Remaining, Bsky!TakenBytes
<1>9. Bsky!SecondAt = Bsky!At(i) + 40 + Parts.first
  <2>1. Bsky!Last(taken) = <<Bsky!At(i) + 35, Parts.first>>
    BY <1>3, <1>5, <1>7, RowsHold DEF Piece2
  <2> QED BY <1>5, <1>6, <2>1 DEF Bsky!SecondAt
<1>11. PICK n \in Bsky!SecondField :
         IF n > 0 /\ n <= Bsky!Remaining /\ Bsky!InFile(Bsky!SecondAt, n)
         THEN /\ Bsky!Take(Bsky!SecondAt, n)
              /\ IF n = Bsky!Remaining THEN Bsky!Step("done") /\ UNCHANGED scan
                 ELSE IF Bsky!SearchStart >= Bsky!Signature - 7 THEN Bsky!Step("refused") /\ UNCHANGED scan
                 ELSE /\ Bsky!Step("search")
                      /\ scan' = [for |-> "xmp", from |-> Bsky!SearchStart, carry |-> 0,
                                  limit |-> Bsky!Signature - 7, consumed |-> Bsky!SearchStart]
         ELSE Bsky!Step("refused") /\ UNCHANGED <<taken, scan>>
  BY DEF Bsky!TakeSecond
<1>12. n = Parts.second
  BY <1>5, <1>11
<1>13. Bsky!Take(Bsky!SecondAt, n) => taken' = Row3(i)
  BY <1>3, <1>9, <1>12 DEF Bsky!Take, Row3, Piece3
<1>14. \/ phase' = "refused"
       \/ taken' = Row3(i) /\ phase' = "done" /\ Parts.second = stated - (Parts.exif + Parts.first)
       \/ /\ taken' = Row3(i) /\ phase' = "search" /\ Parts.second # stated - (Parts.exif + Parts.first)
          /\ scan' = Scan("xmp", Bsky!SearchStart, Bsky!Signature - 7, Bsky!SearchStart, 0)
  BY <1>8, <1>11, <1>12, <1>13 DEF Bsky!Step, Scan
<1>15. CASE phase' = "refused"
  BY <1>15 DEF Assembly
<1>16. CASE taken' = Row3(i) /\ phase' = "done" /\ Parts.second = stated - (Parts.exif + Parts.first)
  <2>1. Parts.xmp = 0
    BY ONLY <1>6, <1>16
  <2>2. Complete(taken')
    BY <1>2, <1>3, <1>16, <2>1 DEF Complete
  <2> QED BY <1>2, <1>16, <2>2 DEF Assembly
<1>17. CASE /\ taken' = Row3(i) /\ phase' = "search" /\ Parts.second # stated - (Parts.exif + Parts.first)
            /\ scan' = Scan("xmp", Bsky!SearchStart, Bsky!Signature - 7, Bsky!SearchStart, 0)
  <2>1. Parts.xmp > 0
    BY ONLY <1>6, <1>17
  <2>2. scan'.for = "xmp" /\ IsScan(scan') /\ scan'.consumed = Bsky!SearchStart /\ scan'.carry = 0
    BY ONLY <1>17, ScanFor
  <2>3. NotPassed(scan')
    BY <1>2, <2>2, SearchStarts
  <2> QED BY <1>2, <1>3, <1>17, <2>1, <2>2, <2>3 DEF Assembly
<1> QED BY <1>14, <1>15, <1>16, <1>17

LEMMA FoundXmpAssembles ==
  ASSUME Kept, Bsky!Unmistakable, Assembly(phase, scan, taken), NEW got, Bsky!FoundXmp(got)
  PROVE  Assembly(phase', scan', taken')
<1>1. phase = "search" /\ scan.for = "xmp"
  BY DEF Bsky!FoundXmp
<1>2. Parts.xmp > 0 /\ Bsky!OurExif /\ Bsky!InFile(465, Parts.exif)
  BY <1>1 DEF Assembly
<1>3. PICK i : PhotoIn(i) /\ taken = Row3(i)
  BY <1>1 DEF Assembly
<1>4. PICK p \in Bsky!FirstHit(got) :
        \/ phase' = "refused"
        \/ /\ phase' = "done" /\ taken' = Append(taken, <<p + 8, Bsky!Remaining>>)
           /\ \/ \E j \in DOMAIN segs : segs[j].kind = "xmp" /\ Bsky!At(j) + 305 = p
              \/ p \in Bsky!OtherSignatures("xmp")
  BY DEF Bsky!FoundXmp, Bsky!Step, Bsky!Take
<1>8. p \notin Bsky!OtherSignatures("xmp")
  <2>1. Bsky!NoneInFront(scan.for) /\ NotPassed(scan)
    BY <1>1, <1>2, InFrontOfOthers DEF Assembly
  <2>2. got \in Int
    BY DEF Bsky!FoundXmp
  <2> QED BY <1>1, <1>2, <2>1, <2>2, FirstIsOurs
<1>5. \/ phase' = "refused"
      \/ /\ phase' = "done" /\ taken' = Append(taken, <<p + 8, Bsky!Remaining>>)
         /\ \E j \in DOMAIN segs : segs[j].kind = "xmp" /\ Bsky!At(j) + 305 = p
  BY <1>4, <1>8
<1>6. CASE phase' = "refused"
  BY <1>6 DEF Assembly
<1>7. CASE /\ phase' = "done" /\ taken' = Append(taken, <<p + 8, Bsky!Remaining>>)
           /\ \E j \in DOMAIN segs : segs[j].kind = "xmp" /\ Bsky!At(j) + 305 = p
  <2>1. PICK j \in DOMAIN segs : segs[j].kind = "xmp" /\ Bsky!At(j) + 305 = p
    BY <1>7
  <2>2. Fits /\ Measured(segs) /\ i \in DOMAIN segs
    BY <1>3 DEF Kept, Genuine, PhotoIn, Photo, IsAt
  <2>3. Bsky!At(j) \in Nat
    BY <2>1, <2>2, PlacesAre
  <2>4. Bsky!Remaining = stated - (Parts.exif + Parts.first + Parts.second)
    BY <1>3, <2>1, <2>2, RowsHold DEF Bsky!Remaining, Bsky!TakenBytes
  <2>5. Bsky!Remaining = Parts.xmp
    BY <2>4, KeptParts
  <2>6. p + 8 = Bsky!At(j) + 313
    BY <2>1, <2>3
  <2>7. taken' = Row4(i, j)
    BY <1>3, <1>7, <2>5, <2>6 DEF Row4, Piece4
  <2>8. Complete(taken')
    BY <1>2, <1>3, <2>1, <2>7 DEF Complete, IsAt
  <2> QED BY <1>2, <1>7, <2>8 DEF Assembly
<1> QED BY <1>5, <1>6, <1>7

LEMMA PlainAssembles ==
  ASSUME phase' \notin {"exif", "search", "first", "second", "done"}
  PROVE  Assembling'
BY DEF Assembling, Assembly

LEMMA RecoveringAssembles ==
  ASSUME Carried, Assembling, Recovering
  PROVE  Assembling'
<1>1. /\ phase \in {"image", "exif", "search", "first", "second"}
      /\ UNCHANGED <<size, decoy, input, builder, segs, harm, stated>>
  BY RecoveringRests
<1>2. CASE harm = "altered" \/ ~Bsky!Unmistakable
  BY <1>1, <1>2, SignaturesStay DEF Assembling
<1>3. CASE harm # "altered" /\ Bsky!Unmistakable
  <2>1. Assembly(phase, scan, taken) /\ Kept
    BY <1>1, <1>3, CarriedGenuine DEF Assembling, Early, Kept
  <2>2. CASE Bsky!ReadMetadata
    <3>1. taken = <<>>
      BY <2>2 DEF Carried, Bsky!ReadMetadata
    <3> QED BY <1>1, <2>2, <3>1, ReadMetadataAssembles, AssemblyStays
  <2>3. CASE Bsky!TakeExif
    BY <1>1, <2>1, <2>3, TakeExifAssembles, AssemblyStays
  <2>4. CASE Bsky!Reading
    <3>1. PICK got : Bsky!ReadWindow(got) \/ Bsky!FoundPhotoshop(got) \/ Bsky!FoundXmp(got)
      BY <2>4 DEF Bsky!Reading
    <3>2. Assembly(phase', scan', taken')
      BY <1>3, <2>1, <3>1, ReadWindowAssembles, FoundPhotoshopAssembles, FoundXmpAssembles
    <3> QED BY <1>1, <3>2, AssemblyStays
  <2>5. CASE Bsky!NotFound
    <3>1. phase' = "refused"
      BY <2>5 DEF Bsky!NotFound, Bsky!Step
    <3> QED BY <3>1, PlainAssembles
  <2>6. CASE Bsky!TakeFirst
    BY <1>1, <2>1, <2>6, TakeFirstAssembles, AssemblyStays
  <2>7. CASE Bsky!TakeSecond
    BY <1>1, <2>1, <2>7, TakeSecondAssembles, AssemblyStays
  <2> QED BY <2>2, <2>3, <2>4, <2>5, <2>6, <2>7 DEF Recovering
<1> QED BY <1>2, <1>3

LEMMA AssemblingStep ==
  ASSUME Carried, Assembling, [CarriersNext]_<<machine, vars, bskyVars, orderVars, codeVars>>
  PROVE  Assembling'
<1>1. CASE UNCHANGED bskyVars
  <2>1. UNCHANGED <<phase, size, decoy, segs, harm, stated, scan, taken>>
    BY <1>1 DEF bskyVars
  <2>2. CASE harm = "altered" \/ ~Bsky!Unmistakable \/ phase \in Early \cup {"failed"}
    BY <2>1, <2>2, SignaturesStay DEF Assembling
  <2>3. CASE ~(harm = "altered" \/ ~Bsky!Unmistakable \/ phase \in Early \cup {"failed"})
    <3>1. Assembly(phase', scan', taken')
      BY <2>1, <2>3 DEF Assembling
    <3> QED BY <2>1, <3>1, AssemblyStays
  <2> QED BY <2>2, <2>3
<1>2. CASE Bsky!Next
  <2>1. CASE Recovering
    BY <2>1, RecoveringAssembles
  <2>2. CASE Bsky!CheckPayload \/ Bsky!New
    BY <2>2, PlainAssembles DEF Bsky!CheckPayload, Bsky!New, Bsky!Step
  <2>3. CASE Bsky!Packing
    <3>1. phase' \in {"push", "internal"}
      BY <2>3 DEF Bsky!Packing, Bsky!Push, Bsky!PushExif, Bsky!PushFirst, Bsky!PushSecond, Bsky!PushXmp, Bsky!Step
    <3> QED BY <3>1, PlainAssembles
  <2>4. CASE Bsky!Finish
    <3>1. phase' \in {"image", "internal"}
      BY <2>4 DEF Bsky!Finish, Bsky!Step
    <3> QED BY <3>1, PlainAssembles
  <2>5. CASE Bsky!Travelling
    <3>1. phase' = "image"
      BY <2>5 DEF Bsky!Travelling, Bsky!PutIn, Bsky!Drop, Bsky!CutAt, Bsky!AlterSizes
    <3> QED BY <3>1, PlainAssembles
  <2>6. CASE Bsky!Fails
    <3>1. phase' = "failed"
      BY <2>6 DEF Bsky!Fails, Bsky!Step
    <3> QED BY <3>1, PlainAssembles
  <2> QED BY <1>2, <2>1, <2>2, <2>3, <2>4, <2>5, <2>6 DEF Bsky!Next, Recovering
<1> QED BY <1>1, <1>2 DEF CarriersNext

LEMMA AlwaysAssembling ==
  CarriersSpec => [](Carried /\ Assembling)
<1>1. CarriersInit => Assembling
  <2>1. CarriersInit => phase = "limits"
    BY DEF CarriersInit, Bsky!Init
  <2> QED BY <2>1 DEF Assembling, Early
<1>2. Carried /\ Assembling /\ [CarriersNext]_<<machine, vars, bskyVars, orderVars, codeVars>> => Assembling'
  BY AssemblingStep
<1> QED BY <1>1, <1>2, AlwaysCarried, PTL DEF CarriersSpec

LEMMA CompleteNeeds ==
  ASSUME NEW tk, Complete(tk), Parts.xmp > 0 => Parts.second > 0, Parts.second > 0 => Parts.first > 0,
         Parts.first \in Nat, Parts.second \in Nat, Parts.xmp \in Nat,
         Bsky!InFile(465, Parts.exif)
  PROVE  ~Lacks
<1>1. CASE Parts.first = 0 /\ tk = Row1
  BY <1>1 DEF Lacks
<1>2. CASE \E i : PhotoIn(i) /\ Parts.xmp = 0
  BY <1>2 DEF Lacks, PhotoIn, Photo
<1>3. CASE \E i, j : PhotoIn(i) /\ IsAt(segs, "xmp", j)
  BY <1>3 DEF Lacks, PhotoIn, Photo
<1>4. (\E i : PhotoIn(i) /\ Parts.second = 0) => \E i : PhotoIn(i) /\ Parts.xmp = 0
  OBVIOUS
<1> QED BY <1>1, <1>2, <1>3, <1>4 DEF Complete

LEMMA IncompleteIsNotDone ==
  ASSUME Carried, Assembling
  PROVE  Bsky!BlueskyIncompleteIsRefused
<1> SUFFICES ASSUME harm \in {"lost", "cut"}, Bsky!Unmistakable, phase = "done"
             PROVE  FALSE
  BY DEF Bsky!BlueskyIncompleteIsRefused
<1>1. Assembly(phase, scan, taken) /\ Fits
  BY CarriedGenuine DEF Assembling, Early
<1>2. Bsky!OurExif /\ Complete(taken) /\ Bsky!InFile(465, Parts.exif)
  BY <1>1 DEF Assembly
<1>3. Lacks
  BY <1>2, CarriedGenuine DEF Early
<1>4. ~Lacks
  BY <1>1, <1>2, PartsFit, CompleteNeeds
<1> QED BY <1>3, <1>4

\* An image that lost one of its segments, or was cut inside the ciphertext, is refused
\* before a byte is decrypted, in the default mode (open_default_ciphertext) and, unless
\* a Photoshop or XMP segment of another program stands where recover comes upon it before
\* ours, in that of Bluesky (read_bluesky_ciphertext).
THEOREM DamagedRefused == CarriersSpec => []DamagedIsRefused
<1>1. CarriersSpec => Spec
  <2>1. CarriersInit => Init
    BY DEF CarriersInit
  <2>2. [CarriersNext]_<<machine, vars, bskyVars, orderVars, codeVars>> => [Next]_vars
    BY DEF CarriersNext, vars
  <2> QED BY <2>1, <2>2, PTL DEF CarriersSpec, Spec
<1>2. Carried /\ Assembling => Bsky!BlueskyIncompleteIsRefused
  BY IncompleteIsNotDone
<1>3. IncompleteIsRefused /\ Bsky!BlueskyIncompleteIsRefused => DamagedIsRefused
  BY DEF DamagedIsRefused
<1> QED BY <1>1, <1>2, <1>3, AlwaysAssembling, IncompleteRefused, PTL

-----------------------------------------------------------------------------
(* What an undamaged image holds where recover reads.                      *)

HeldAt(p, from, n) ==
  \E i \in DOMAIN segs : \E b \in DOMAIN segs[i].blocks :
    /\ Bsky!At(i) + segs[i].blocks[b].offset = p
    /\ segs[i].blocks[b].holds = <<<<from, n>>>>

LEMMA HeldIn ==
  ASSUME NEW i \in DOMAIN segs, NEW b, b \in DOMAIN segs[i].blocks, NEW x, x = segs[i].blocks[b],
         NEW from, NEW n \in Nat, n > 0, x.holds = Stretch(from, n), NEW p, p = Bsky!At(i) + x.offset
  PROVE  HeldAt(p, from, n)
<1>1. x.holds = <<<<from, n>>>>
  BY DEF Stretch
<1> QED BY <1>1 DEF HeldAt

LEMMA OneBlock ==
  ASSUME NEW x, NEW h, h = <<x>>
  PROVE  1 \in DOMAIN h /\ h[1] = x
OBVIOUS

LEMMA WholeHolds ==
  ASSUME Fits, Whole, Bsky!OurExif
  PROVE  /\ Parts.exif > 0 => HeldAt(465, 0, Parts.exif)
         /\ \A i : Photo(i) /\ Parts.first > 0 => HeldAt(Bsky!At(i) + 35, Parts.exif, Parts.first)
         /\ \A i : Photo(i) /\ Parts.second > 0 => HeldAt(Bsky!At(i) + 40 + Parts.first, SecondFrom, Parts.second)
         /\ \A j : IsAt(segs, "xmp", j) => HeldAt(Bsky!At(j) + 313, TextFrom, Parts.xmp)
<1>1. PICK a, b, c : Arranged(segs, a, b, c)
  BY DEF Whole
<1>2. Genuine(segs) /\ Measured(segs)
  BY <1>1, ArrangedGenuine DEF Genuine
<1>3. DOMAIN segs = 1..Len(segs) /\ Len(segs) \in Nat /\ Bsky!At(1) = 2
      /\ \A i \in 1..(Len(segs) + 1) : Bsky!At(i) \in Nat
  BY <1>2, PlacesAre
<1>4. \A i \in 1..Len(segs) : /\ segs[i].kind = "exif" <=> i = a
                              /\ segs[i].kind = "xmp" <=> Parts.xmp > 0 /\ i = b
  BY <1>1, ArrangedKinds
<1>5. /\ Parts.exif \in Nat /\ Parts.first \in Nat /\ Parts.second \in Nat /\ Parts.xmp \in Nat
  BY PartsFit
<1>6. 1 \in DOMAIN segs /\ segs[1] = ExifMade
  <2>1. a \in 1..Len(segs) /\ segs[a] = ExifMade
    BY <1>1 DEF Arranged
  <2>2. 1 \in 1..Len(segs)
    BY <1>3, <2>1
  <2>3. a = 1
    BY <1>4, <2>2 DEF Bsky!OurExif
  <2> QED BY <1>3, <2>1, <2>2, <2>3
<1>7. Parts.exif > 0 => HeldAt(465, 0, Parts.exif)
  <2>1. PICK x : x = Bsky!Block(463, Parts.exif, Parts.exif, Stretch(0, Parts.exif))
    OBVIOUS
  <2>2. segs[1].blocks = <<x>>
    BY <1>6, <2>1, MadeFields
  <2>3. 1 \in DOMAIN segs[1].blocks /\ segs[1].blocks[1] = x
    BY ONLY <2>2, OneBlock
  <2>4. x.offset = 463 /\ x.holds = Stretch(0, Parts.exif)
    BY <2>1, BlockFields
  <2>5. 465 = Bsky!At(1) + x.offset
    BY <1>3, <2>4
  <2> QED BY <1>5, <1>6, <2>3, <2>4, <2>5, HeldIn
<1>8. ASSUME NEW i, Photo(i), Parts.first > 0
      PROVE  HeldAt(Bsky!At(i) + 35, Parts.exif, Parts.first)
  <2>1. i \in DOMAIN segs /\ segs[i].blocks = PhotoshopMade.blocks
    BY <1>2, <1>8 DEF Photo, IsAt, Genuine
  <2>2. PICK h : h = PhotoshopMade.blocks
    OBVIOUS
  <2>3. 1 \in DOMAIN h /\ h[1] = FirstBlock /\ FirstBlock.offset = 35
        /\ FirstBlock.holds = Stretch(Parts.exif, Parts.first)
    BY <2>2, PhotoshopBlocks
  <2>4. 1 \in DOMAIN segs[i].blocks /\ segs[i].blocks[1] = FirstBlock
    BY <2>1, <2>2, <2>3
  <2> QED BY <1>5, <1>8, <2>1, <2>3, <2>4, HeldIn
<1>9. ASSUME NEW i, Photo(i), Parts.second > 0
      PROVE  HeldAt(Bsky!At(i) + 40 + Parts.first, SecondFrom, Parts.second)
  <2>1. i \in DOMAIN segs /\ segs[i].blocks = PhotoshopMade.blocks
    BY <1>2, <1>9 DEF Photo, IsAt, Genuine
  <2>2. PICK h : h = PhotoshopMade.blocks
    OBVIOUS
  <2>3. 2 \in DOMAIN h /\ h[2] = SecondBlock /\ SecondBlock.offset = 40 + Parts.first
        /\ SecondBlock.holds = Stretch(SecondFrom, Parts.second)
    BY <1>9, <2>2, PhotoshopBlocks
  <2>4. 2 \in DOMAIN segs[i].blocks /\ segs[i].blocks[2] = SecondBlock
    BY <2>1, <2>2, <2>3
  <2>5. Bsky!At(i) + 40 + Parts.first = Bsky!At(i) + SecondBlock.offset
    BY SMTT(30), <1>3, <1>5, <2>1, <2>3
  <2> QED BY <1>5, <1>9, <2>1, <2>3, <2>4, <2>5, HeldIn
<1>10. ASSUME NEW j, IsAt(segs, "xmp", j)
       PROVE  HeldAt(Bsky!At(j) + 313, TextFrom, Parts.xmp)
  <2>1. j \in DOMAIN segs /\ j = b /\ Parts.xmp > 0
    BY <1>3, <1>4, <1>10 DEF IsAt
  <2>2. segs[j] = XmpMade
    BY <1>1, <2>1 DEF Arranged
  <2>3. PICK x : x = Bsky!Block(313, 4 * Quartets, Parts.xmp, Stretch(TextFrom, Parts.xmp))
    OBVIOUS
  <2>4. segs[j].blocks = <<x>>
    BY <2>2, <2>3, MadeFields
  <2>5. 1 \in DOMAIN segs[j].blocks /\ segs[j].blocks[1] = x
    BY ONLY <2>4, OneBlock
  <2>6. x.offset = 313 /\ x.holds = Stretch(TextFrom, Parts.xmp)
    BY <2>3, BlockFields
  <2> QED BY <1>5, <2>1, <2>5, <2>6, HeldIn
<1> QED BY <1>7, <1>8, <1>9, <1>10

Fitting(tk) ==
  /\ Bsky!Bytes(tk) = size
  /\ \A k \in DOMAIN tk : HeldAt(tk[k][1], Bsky!BytesUpTo(tk, k - 1), tk[k][2])

LEMMA RowDomain ==
  ASSUME NEW tk, tk \in Seq(Pairs), NEW n \in Nat, Len(tk) = n
  PROVE  DOMAIN tk = 1..n
OBVIOUS

LEMMA Row1Fits ==
  ASSUME Fits, Parts.exif = size, HeldAt(465, 0, Parts.exif)
  PROVE  Fitting(Row1)
<1>1. PICK tk : tk = Row1
  OBVIOUS
<1>2. tk \in Seq(Pairs) /\ Len(tk) = 1 /\ tk[1] = <<465, Parts.exif>>
      /\ Bsky!Bytes(tk) = Parts.exif /\ Bsky!BytesUpTo(tk, 0) = 0
  BY <1>1, Row1Is
<1>3. DOMAIN tk = 1..1
  BY <1>2, RowDomain
<1>4. HeldAt(tk[1][1], Bsky!BytesUpTo(tk, 1 - 1), tk[1][2])
  BY <1>2
<1>5. \A k \in DOMAIN tk : k = 1
  BY <1>3
<1> QED BY ONLY <1>1, <1>2, <1>4, <1>5, Parts.exif = size DEF Fitting

LEMMA Row2Fits ==
  ASSUME Fits, Measured(segs), NEW i \in DOMAIN segs, Parts.exif + Parts.first = size, HeldAt(465, 0, Parts.exif),
         HeldAt(Bsky!At(i) + 35, Parts.exif, Parts.first)
  PROVE  Fitting(Row2(i))
<1>1. PICK tk : tk = Row2(i)
  OBVIOUS
<1>2. tk \in Seq(Pairs) /\ Len(tk) = 2 /\ tk[1] = <<465, Parts.exif>> /\ tk[2] = <<Bsky!At(i) + 35, Parts.first>>
      /\ Bsky!Bytes(tk) = size /\ Bsky!BytesUpTo(tk, 0) = 0 /\ Bsky!BytesUpTo(tk, 1) = Parts.exif
  <2>1. OneMore(Row1, Piece2(i), Row2(i))
    BY RowsAre
  <2>2. tk \in Seq(Pairs)
    BY <1>1, <2>1 DEF OneMore
  <2> QED BY <1>1, <2>2, RowsHold DEF Piece1, Piece2
<1>3. DOMAIN tk = 1..2
  BY <1>2, RowDomain
<1>4. HeldAt(tk[1][1], Bsky!BytesUpTo(tk, 1 - 1), tk[1][2]) /\ HeldAt(tk[2][1], Bsky!BytesUpTo(tk, 2 - 1), tk[2][2])
  BY <1>2
<1>5. \A k \in DOMAIN tk : k = 1 \/ k = 2
  BY <1>3
<1> QED BY ONLY <1>1, <1>2, <1>4, <1>5 DEF Fitting

LEMMA Row3Fits ==
  ASSUME Fits, Measured(segs), NEW i \in DOMAIN segs, Parts.exif + Parts.first + Parts.second = size,
         HeldAt(465, 0, Parts.exif), HeldAt(Bsky!At(i) + 35, Parts.exif, Parts.first),
         HeldAt(Bsky!At(i) + 40 + Parts.first, SecondFrom, Parts.second)
  PROVE  Fitting(Row3(i))
<1>1. PICK tk : tk = Row3(i)
  OBVIOUS
<1>2. tk \in Seq(Pairs) /\ Len(tk) = 3 /\ tk[1] = <<465, Parts.exif>> /\ tk[2] = <<Bsky!At(i) + 35, Parts.first>>
      /\ tk[3] = <<Bsky!At(i) + 40 + Parts.first, Parts.second>>
      /\ Bsky!Bytes(tk) = size /\ Bsky!BytesUpTo(tk, 0) = 0 /\ Bsky!BytesUpTo(tk, 1) = Parts.exif
      /\ Bsky!BytesUpTo(tk, 2) = SecondFrom
  <2>1. OneMore(Row2(i), Piece3(i), Row3(i))
    BY RowsAre
  <2>2. tk \in Seq(Pairs)
    BY <1>1, <2>1 DEF OneMore
  <2>3. tk[1] = Row2(i)[1] /\ tk[2] = Row2(i)[2] /\ tk[3] = Piece3(i) /\ Len(tk) = 3 /\ Bsky!Bytes(tk) = size
    BY <1>1, RowsHold
  <2>4. Bsky!BytesUpTo(tk, 0) = 0 /\ Bsky!BytesUpTo(tk, 1) = Parts.exif /\ Bsky!BytesUpTo(tk, 2) = SecondFrom
    BY <1>1, RowsHold DEF SecondFrom
  <2>5. Row2(i)[1] = Piece1 /\ Row2(i)[2] = Piece2(i)
    BY RowsHold
  <2> QED BY <2>2, <2>3, <2>4, <2>5 DEF Piece1, Piece2, Piece3
<1>3. DOMAIN tk = 1..3
  BY <1>2, RowDomain
<1>4. /\ HeldAt(tk[1][1], Bsky!BytesUpTo(tk, 1 - 1), tk[1][2]) /\ HeldAt(tk[2][1], Bsky!BytesUpTo(tk, 2 - 1), tk[2][2])
      /\ HeldAt(tk[3][1], Bsky!BytesUpTo(tk, 3 - 1), tk[3][2])
  BY <1>2
<1>5. \A k \in DOMAIN tk : k = 1 \/ k = 2 \/ k = 3
  BY <1>3
<1> QED BY ONLY <1>1, <1>2, <1>4, <1>5 DEF Fitting

LEMMA Row4Fits ==
  ASSUME Fits, Measured(segs), NEW i \in DOMAIN segs, NEW j \in DOMAIN segs,
         Parts.exif + Parts.first + Parts.second + Parts.xmp = size,
         HeldAt(465, 0, Parts.exif), HeldAt(Bsky!At(i) + 35, Parts.exif, Parts.first),
         HeldAt(Bsky!At(i) + 40 + Parts.first, SecondFrom, Parts.second),
         HeldAt(Bsky!At(j) + 313, TextFrom, Parts.xmp)
  PROVE  Fitting(Row4(i, j))
<1>1. PICK tk : tk = Row4(i, j)
  OBVIOUS
<1>2. tk \in Seq(Pairs) /\ Len(tk) = 4 /\ tk[1] = <<465, Parts.exif>> /\ tk[2] = <<Bsky!At(i) + 35, Parts.first>>
      /\ tk[3] = <<Bsky!At(i) + 40 + Parts.first, Parts.second>> /\ tk[4] = <<Bsky!At(j) + 313, Parts.xmp>>
      /\ Bsky!Bytes(tk) = size /\ Bsky!BytesUpTo(tk, 0) = 0 /\ Bsky!BytesUpTo(tk, 1) = Parts.exif
      /\ Bsky!BytesUpTo(tk, 2) = SecondFrom /\ Bsky!BytesUpTo(tk, 3) = TextFrom
  <2>1. OneMore(Row3(i), Piece4(j), Row4(i, j))
    BY RowsAre
  <2>2. tk \in Seq(Pairs)
    BY <1>1, <2>1 DEF OneMore
  <2>3. tk[1] = Row3(i)[1] /\ tk[2] = Row3(i)[2] /\ tk[3] = Row3(i)[3] /\ tk[4] = Piece4(j) /\ Len(tk) = 4
        /\ Bsky!Bytes(tk) = size
    BY <1>1, RowsHold
  <2>4. /\ Bsky!BytesUpTo(tk, 0) = Bsky!BytesUpTo(Row3(i), 0) /\ Bsky!BytesUpTo(tk, 1) = Bsky!BytesUpTo(Row3(i), 1)
        /\ Bsky!BytesUpTo(tk, 2) = Bsky!BytesUpTo(Row3(i), 2)
        /\ Bsky!BytesUpTo(tk, 3) = TextFrom
    BY <1>1, RowsHold DEF SecondFrom, TextFrom
  <2>5. Row3(i)[1] = Piece1 /\ Row3(i)[2] = Piece2(i) /\ Row3(i)[3] = Piece3(i)
    BY RowsHold
  <2>6. Bsky!BytesUpTo(Row3(i), 0) = 0 /\ Bsky!BytesUpTo(Row3(i), 1) = Parts.exif
        /\ Bsky!BytesUpTo(Row3(i), 2) = SecondFrom
    BY RowsHold DEF SecondFrom
  <2> QED BY <2>2, <2>3, <2>4, <2>5, <2>6 DEF Piece1, Piece2, Piece3, Piece4
<1>3. DOMAIN tk = 1..4
  BY <1>2, RowDomain
<1>4. /\ HeldAt(tk[1][1], Bsky!BytesUpTo(tk, 1 - 1), tk[1][2]) /\ HeldAt(tk[2][1], Bsky!BytesUpTo(tk, 2 - 1), tk[2][2])
      /\ HeldAt(tk[3][1], Bsky!BytesUpTo(tk, 3 - 1), tk[3][2]) /\ HeldAt(tk[4][1], Bsky!BytesUpTo(tk, 4 - 1), tk[4][2])
  BY <1>2
<1>5. \A k \in DOMAIN tk : k = 1 \/ k = 2 \/ k = 3 \/ k = 4
  BY <1>3
<1> QED BY ONLY <1>1, <1>2, <1>4, <1>5 DEF Fitting

\* What recover puts together from an undamaged Bluesky image is the ciphertext, every
\* byte of it once and in its order, for every ciphertext, every cut of it into pieces
\* and every segment that other programs put in, but for a Photoshop or XMP segment of
\* theirs in front of ours (BlueskySegmentStreamBuilder, next to read_bluesky_ciphertext).
THEOREM BlueskyReassembled == CarriersSpec => []BlueskyIsReassembled
<1>1. Carried /\ Assembling => BlueskyIsReassembled
  <2> SUFFICES ASSUME Carried, Assembling, phase = "done", harm = "none", Bsky!Unmistakable
               PROVE  Fitting(taken)
    <3>1. Fitting(taken) => Bsky!TakenBytes = size
      BY DEF Fitting, Bsky!TakenBytes
    <3>2. Fitting(taken) =>
            \A k \in DOMAIN taken : \E i \in DOMAIN segs : \E b \in DOMAIN segs[i].blocks :
               /\ Bsky!At(i) + segs[i].blocks[b].offset = taken[k][1]
               /\ segs[i].blocks[b].holds = <<<<Bsky!BytesUpTo(taken, k - 1), taken[k][2]>>>>
      BY DEF Fitting, HeldAt
    <3>3. (Carried /\ Assembling /\ phase = "done" /\ harm = "none" /\ Bsky!Unmistakable => Fitting(taken))
          => (Carried /\ Assembling => Bsky!BlueskyIsReassembled)
      BY <3>1, <3>2 DEF Bsky!BlueskyIsReassembled
    <3> QED BY <3>3 DEF BlueskyIsReassembled
  <2>1. Fits /\ Whole /\ Measured(segs) /\ Assembly(phase, scan, taken) /\ size \in Nat /\ size >= 21
    BY CarriedGenuine DEF Carried, Travelled, Assembling, Early, Genuine
  <2>2. Bsky!OurExif /\ Complete(taken)
    BY <2>1 DEF Assembly
  <2>3. /\ Parts.exif \in Nat /\ Parts.first \in Nat /\ Parts.second \in Nat /\ Parts.xmp \in Nat
        /\ Parts.exif + Parts.first + Parts.second + Parts.xmp = size
        /\ Parts.second > 0 => Parts.first > 0
        /\ Parts.xmp > 0 => Parts.second > 0
    BY <2>1, LayoutIs, PartsFit
  <2>4. Parts.exif > 0
    <3>1. Parts.exif = Bsky!Lesser(size, 65027)
      BY <2>1, LayoutIs
    <3> QED BY <2>1, <3>1 DEF Bsky!Lesser
  <2>5. /\ HeldAt(465, 0, Parts.exif)
        /\ \A i : Photo(i) /\ Parts.first > 0 => HeldAt(Bsky!At(i) + 35, Parts.exif, Parts.first)
        /\ \A i : Photo(i) /\ Parts.second > 0 => HeldAt(Bsky!At(i) + 40 + Parts.first, SecondFrom, Parts.second)
        /\ \A j : IsAt(segs, "xmp", j) => HeldAt(Bsky!At(j) + 313, TextFrom, Parts.xmp)
    BY <2>1, <2>2, <2>4, WholeHolds
  <2>6. \A i : PhotoIn(i) => i \in DOMAIN segs /\ Photo(i) /\ Parts.first > 0
    <3>1. Genuine(segs)
      BY <2>1, WholeGenuine
    <3> QED BY <3>1 DEF PhotoIn, Photo, IsAt, Genuine
  <2>7. CASE Parts.first = 0 /\ taken = Row1
    BY <2>1, <2>3, <2>5, <2>7, Row1Fits
  <2>8. CASE \E i : PhotoIn(i) /\ Parts.second = 0 /\ taken = Row2(i)
    <3>1. PICK i : PhotoIn(i) /\ Parts.second = 0 /\ taken = Row2(i)
      BY <2>8
    <3>2. Parts.exif + Parts.first = size
      BY <2>3, <3>1
    <3> QED BY <2>1, <2>5, <2>6, <3>1, <3>2, Row2Fits
  <2>9. CASE \E i : PhotoIn(i) /\ Parts.second > 0 /\ Parts.xmp = 0 /\ taken = Row3(i)
    <3>1. PICK i : PhotoIn(i) /\ Parts.second > 0 /\ Parts.xmp = 0 /\ taken = Row3(i)
      BY <2>9
    <3>2. Parts.exif + Parts.first + Parts.second = size
      BY <2>3, <3>1
    <3> QED BY <2>1, <2>5, <2>6, <3>1, <3>2, Row3Fits
  <2>10. CASE \E i, j : PhotoIn(i) /\ Parts.xmp > 0 /\ IsAt(segs, "xmp", j) /\ taken = Row4(i, j)
    <3>1. PICK i, j : PhotoIn(i) /\ Parts.xmp > 0 /\ IsAt(segs, "xmp", j) /\ taken = Row4(i, j)
      BY <2>10
    <3>2. Parts.second > 0 /\ j \in DOMAIN segs
      BY <2>3, <3>1 DEF IsAt
    <3> QED BY <2>1, <2>3, <2>5, <2>6, <3>1, <3>2, Row4Fits
  <2> QED BY <2>2, <2>7, <2>8, <2>9, <2>10 DEF Complete
<1> QED BY <1>1, AlwaysAssembling, PTL

-----------------------------------------------------------------------------
(* An undamaged image is not refused.                                      *)

Undamaged == Fits /\ Whole /\ Bsky!OurExif /\ Bsky!Unmistakable /\ harm = "none" /\ decoy \in Nat
XmpAt(j) == IsAt(segs, "xmp", j)

LEMMA WholeStands ==
  ASSUME Undamaged
  PROVE  /\ 1 \in DOMAIN segs /\ segs[1] = ExifMade /\ Bsky!At(1) = 2
         /\ Bsky!ImageSize \in Nat /\ 711 + Parts.exif <= Bsky!ImageSize
         /\ \A i : Photo(i) => /\ i \in DOMAIN segs /\ segs[i] = PhotoshopMade /\ Parts.first > 0 /\ Bsky!At(i) \in Nat
                               /\ 511 + Parts.exif <= Bsky!At(i) /\ Bsky!At(i) + PhotoshopSize + 200 <= Bsky!ImageSize
         /\ \A j : XmpAt(j) => /\ j \in DOMAIN segs /\ segs[j] = XmpMade /\ Parts.xmp > 0 /\ Bsky!At(j) \in Nat
                               /\ 511 + Parts.exif <= Bsky!At(j)
         /\ \A i, j : Photo(i) /\ XmpAt(j) => Bsky!At(j) + (405 + 4 * Quartets) <= Bsky!At(i)
         /\ Parts.first > 0 => \E i : Photo(i)
         /\ Parts.xmp > 0 => \E j : XmpAt(j)
<1>1. PICK a, b, c : Arranged(segs, a, b, c)
  BY DEF Whole, Undamaged
<1>2. Fits /\ Measured(segs)
  BY <1>1, ArrangedMeasured DEF Undamaged
<1>3. /\ DOMAIN segs = 1..Len(segs) /\ Len(segs) \in Nat /\ Bsky!At(1) = 2
      /\ \A i \in 1..(Len(segs) + 1) : Bsky!At(i) \in Nat
      /\ \A i \in 1..Len(segs), j \in 1..(Len(segs) + 1) : i < j => Bsky!At(i) + segs[i].length <= Bsky!At(j)
  BY <1>2, PlacesAre
<1>4. \A i \in 1..Len(segs) : /\ segs[i].kind = "exif" <=> i = a
                              /\ segs[i].kind = "xmp" <=> Parts.xmp > 0 /\ i = b
                              /\ segs[i].kind = "photoshop" <=> Parts.first > 0 /\ i = c
  BY <1>1, <1>2, ArrangedKinds
<1>5. /\ a \in 1..Len(segs) /\ b \in 1..Len(segs) /\ c \in 1..Len(segs) /\ segs[a] = ExifMade
      /\ Parts.xmp > 0 => segs[b] = XmpMade /\ a < b /\ b < c
      /\ Parts.first > 0 => segs[c] = PhotoshopMade /\ a < c
  BY <1>1 DEF Arranged
<1>6. 1 \in 1..Len(segs)
  BY <1>3, <1>5
<1>7. a = 1
  BY <1>4, <1>6 DEF Bsky!OurExif, Undamaged
<1>8. Parts.exif \in Nat /\ PhotoshopSize \in Nat /\ Quartets \in Nat
  BY <1>2, PartsFit
<1>9. /\ ExifMade.length = 509 + Parts.exif /\ XmpMade.length = 405 + 4 * Quartets /\ PhotoshopMade.length = PhotoshopSize
  BY MadeFields
<1>10. \A j \in 1..(Len(segs) + 1) : 1 < j => 511 + Parts.exif <= Bsky!At(j)
  <2> TAKE j \in 1..(Len(segs) + 1)
  <2>1. 1 < j => Bsky!At(1) + segs[1].length <= Bsky!At(j)
    BY <1>3, <1>6
  <2> QED BY <1>3, <1>5, <1>7, <1>8, <1>9, <2>1
<1>11. Bsky!ImageSize = Bsky!At(Len(segs) + 1) + 200
  BY DEF Bsky!ImageSize, Undamaged
<1>12. Len(segs) + 1 \in 1..(Len(segs) + 1) /\ 1 < Len(segs) + 1 /\ 1..Len(segs) \subseteq 1..(Len(segs) + 1)
  BY <1>3, <1>6
<1>13. Bsky!ImageSize \in Nat /\ 711 + Parts.exif <= Bsky!ImageSize
  BY SMTT(30), <1>3, <1>8, <1>10, <1>11, <1>12
<1>14. ASSUME NEW i, Photo(i)
       PROVE  /\ i = c /\ i \in DOMAIN segs /\ segs[i] = PhotoshopMade /\ Parts.first > 0 /\ Bsky!At(i) \in Nat
              /\ 511 + Parts.exif <= Bsky!At(i) /\ Bsky!At(i) + PhotoshopSize + 200 <= Bsky!ImageSize
  <2>1. i \in DOMAIN segs /\ i = c /\ Parts.first > 0
    BY <1>3, <1>4, <1>14 DEF Photo, IsAt
  <2>2. segs[i] = PhotoshopMade /\ 1 < i /\ i < Len(segs) + 1 /\ i \in 1..(Len(segs) + 1)
    BY <1>3, <1>5, <1>7, <2>1
  <2>3. Bsky!At(i) \in Nat /\ 511 + Parts.exif <= Bsky!At(i)
    BY <1>3, <1>10, <2>2
  <2>4. Bsky!At(i) + segs[i].length <= Bsky!At(Len(segs) + 1)
    BY <1>3, <1>12, <2>1, <2>2
  <2>5. Bsky!At(Len(segs) + 1) \in Nat
    BY <1>3, <1>12
  <2> QED BY <1>8, <1>9, <1>11, <2>1, <2>2, <2>3, <2>4, <2>5
<1>15. ASSUME NEW j, XmpAt(j)
       PROVE  /\ j = b /\ j \in DOMAIN segs /\ segs[j] = XmpMade /\ Parts.xmp > 0 /\ Bsky!At(j) \in Nat
              /\ 511 + Parts.exif <= Bsky!At(j)
  <2>1. j \in DOMAIN segs /\ j = b /\ Parts.xmp > 0
    BY <1>3, <1>4, <1>15 DEF XmpAt, IsAt
  <2>2. segs[j] = XmpMade /\ 1 < j /\ j \in 1..(Len(segs) + 1)
    BY <1>3, <1>5, <1>7, <2>1
  <2> QED BY <1>3, <1>10, <2>1, <2>2
<1>16. ASSUME NEW i, NEW j, Photo(i), XmpAt(j)
       PROVE  Bsky!At(j) + (405 + 4 * Quartets) <= Bsky!At(i)
  <2>1. i = c /\ j = b /\ j < i /\ segs[j] = XmpMade
    BY <1>5, <1>14, <1>15, <1>16
  <2>2. j \in 1..Len(segs) /\ i \in 1..(Len(segs) + 1)
    BY <1>5, <1>12, <2>1
  <2>3. Bsky!At(j) + segs[j].length <= Bsky!At(i)
    BY <1>3, <2>1, <2>2
  <2> QED BY <1>9, <2>1, <2>3
<1>17. Parts.first > 0 => Photo(c)
  BY <1>3, <1>4, <1>5 DEF Photo, IsAt
<1>18. Parts.xmp > 0 => XmpAt(b)
  BY <1>3, <1>4, <1>5 DEF XmpAt, IsAt
<1> QED BY <1>3, <1>5, <1>6, <1>7, <1>13, <1>14, <1>15, <1>16, <1>17, <1>18

\* The search for the Photoshop segment goes as far as it can stand.
Ahead(p) == p + 16 <= 465 + Parts.exif + Bsky!SearchWindow

LEMMA QuartetsFit ==
  ASSUME Fits
  PROVE  Quartets \in Nat /\ Quartets <= 14907 /\ XmpSize \in Nat /\ XmpSize <= 60033
<1>1. /\ Parts.exif \in Nat /\ Parts.first \in Nat /\ Parts.second \in Nat /\ Parts.xmp \in Nat
      /\ Parts.exif + Parts.first + Parts.second + Parts.xmp = size
      /\ Parts.first > 0 => Parts.exif = 65027
      /\ Parts.second > 0 => Parts.first = 32767
      /\ Parts.xmp > 0 => Parts.second = 32730
      /\ size \in Nat
  BY LayoutIs DEF Fits
<1>2. Parts.xmp <= 44721
  BY <1>1 DEF Fits
<1>3. Quartets \in Nat /\ Quartets <= 14907
  BY <1>1, <1>2 DEF Quartets
<1> QED BY <1>3 DEF XmpSize

LEMMA ReachesPhotoshop ==
  ASSUME Fits, Whole, Bsky!OthersSize <= Bsky!Slack, NEW i, Photo(i)
  PROVE  Ahead(Bsky!At(i))
<1>1. PICK a, b, c : Arranged(segs, a, b, c) /\ Reach(segs, c)
  BY DEF Whole
<1>2. /\ DOMAIN segs = 1..Len(segs)
      /\ \A k \in 1..Len(segs) : segs[k].kind = "photoshop" <=> Parts.first > 0 /\ k = c
  BY <1>1, ArrangedKinds, LengthsIn
<1>3. Parts.first > 0 /\ i = c
  BY <1>2 DEF Photo, IsAt
<1>4. Bsky!SumTo(LenOf(segs), i - 1) <= 509 + Parts.exif + XmpSize + Bsky!SumTo(OthersOf(segs), Len(segs))
  BY <1>1, <1>3 DEF Reach, Before
<1>5. Bsky!SumTo(OthersOf(segs), Len(segs)) = Bsky!OthersSize
  BY DEF OthersOf, Bsky!OthersSize
<1>6. Bsky!At(i) = 2 + Bsky!SumTo(LenOf(segs), i - 1)
  BY DEF Bsky!At, LenOf
<1>7. XmpSize \in Nat /\ XmpSize <= 60033 /\ Parts.exif \in Nat
  BY QuartetsFit, PartsFit
<1>8. Bsky!OthersSize \in Nat
  <2>1. PICK o, n : o = OthersOf(segs) /\ n = Len(segs)
    OBVIOUS
  <2>2. n \in Nat /\ \A k \in 1..n : o[k] \in Nat
    BY <1>1, <2>1, LengthsIn, SequenceDomain DEF Arranged
  <2>3. n \in 0..n
    BY <2>2
  <2> QED BY <1>5, <2>1, <2>2, <2>3, SumGrows
<1>9. Bsky!At(i) \in Nat
  <2>1. Measured(segs) /\ i \in 1..(Len(segs) + 1)
    <3>1. Len(segs) \in Nat
      BY <1>1, SequenceDomain DEF Arranged
    <3> QED BY <1>1, <1>2, <3>1, ArrangedMeasured DEF Photo, IsAt
  <2> QED BY <2>1, PlacesAre
<1>10. PICK p \in Nat, e \in Nat, x \in Nat, o \in Nat :
         p = Bsky!At(i) /\ e = Parts.exif /\ x = XmpSize /\ o = Bsky!OthersSize
  BY <1>7, <1>8, <1>9
<1>11. p <= 511 + e + x + o
  <2>1. PICK q : q = Bsky!SumTo(LenOf(segs), i - 1)
    OBVIOUS
  <2>2. p = 2 + q /\ q <= 509 + e + x + o
    BY <1>4, <1>5, <1>6, <1>10, <2>1
  <2>3. q \in Int
    <3>1. i \in 1..Len(segs) /\ Len(segs) \in Nat
      BY <1>1, <1>2, SequenceDomain DEF Arranged, Photo, IsAt
    <3>2. PICK f, n : f = LenOf(segs) /\ n = Len(segs)
      OBVIOUS
    <3>3. \A k \in 1..n : f[k] \in Nat
      BY <1>1, <3>2, LengthsIn
    <3>4. i - 1 \in 0..n /\ n \in Nat
      BY <3>1, <3>2
    <3> QED BY <2>1, <3>2, <3>3, <3>4, SumGrows
  <2> QED BY <2>2, <2>3
<1>12. o <= 131010 /\ x <= 60033
  BY <1>7, <1>10 DEF Bsky!Slack
<1>13. p + 16 <= 465 + e + (60033 + 131072)
  BY ONLY <1>11, <1>12, p \in Nat, e \in Nat, x \in Nat, o \in Nat
<1> QED BY <1>10, <1>13 DEF Ahead, Bsky!SearchWindow

\* Recover cannot meet another signature before the one it looks for.
Alone(kind, p) ==
  /\ p \in Nat /\ p \in Bsky!Signatures(kind)
  /\ \A q \in Bsky!Signatures(kind) : q \in Int /\ (q < 465 + Parts.exif \/ p <= q)

LEMMA StretchSet ==
  ASSUME NEW from, NEW n, NEW s, s \in Bsky!ToSet(Stretch(from, n))
  PROVE  s = <<from, n>>
<1>1. CASE n = 0
  <2>1. Stretch(from, n) = <<>>
    BY <1>1 DEF Stretch
  <2> QED BY <2>1 DEF Bsky!ToSet
<1>2. CASE n # 0
  <2>1. Stretch(from, n) = <<<<from, n>>>>
    BY <1>2 DEF Stretch
  <2>2. PICK p : p = <<from, n>>
    OBVIOUS
  <2>3. Bsky!ToSet(<<p>>) = {p}
    BY DEF Bsky!ToSet
  <2> QED BY <2>1, <2>2, <2>3
<1> QED BY <1>1, <1>2

LEMMA OneSet ==
  ASSUME NEW x, NEW h, h = <<x>>, NEW y, y \in Bsky!ToSet(h)
  PROVE  y = x
BY DEF Bsky!ToSet

LEMMA DecoysIn ==
  ASSUME NEW i, NEW q, q \in Bsky!DecoysOf(i)
  PROVE  \E x, s : x \in Bsky!ToSet(segs[i].blocks) /\ s \in Bsky!ToSet(x.holds) /\ s[1] <= decoy /\ decoy < s[1] + s[2]
                   /\ q = Bsky!At(i) + x.offset + decoy - s[1]
<1>1. PICK x \in Bsky!ToSet(segs[i].blocks) : q \in {Bsky!At(i) + x.offset + decoy - s[1] : s \in Bsky!Holding(x)}
  BY DEF Bsky!DecoysOf
<1>2. PICK s \in Bsky!Holding(x) : q = Bsky!At(i) + x.offset + decoy - s[1]
  BY <1>1
<1>3. s \in Bsky!ToSet(x.holds) /\ s[1] <= decoy /\ decoy < s[1] + s[2]
  BY <1>2 DEF Bsky!Holding
<1> QED BY <1>1, <1>2, <1>3

LEMMA ExifDecoys ==
  ASSUME Undamaged, NEW q, q \in Bsky!DecoysOf(1)
  PROVE  q \in Int /\ q < 465 + Parts.exif
<1>1. segs[1] = ExifMade /\ Bsky!At(1) = 2
  BY WholeStands
<1>2. PICK x, s : x \in Bsky!ToSet(segs[1].blocks) /\ s \in Bsky!ToSet(x.holds) /\ s[1] <= decoy /\ decoy < s[1] + s[2]
                  /\ q = Bsky!At(1) + x.offset + decoy - s[1]
  BY DecoysIn
<1>3. PICK k : k = Bsky!Block(463, Parts.exif, Parts.exif, Stretch(0, Parts.exif))
  OBVIOUS
<1>4. segs[1].blocks = <<k>>
  BY <1>1, <1>3, MadeFields
<1>5. x = k
  BY ONLY <1>2, <1>4, OneSet
<1>6. x.offset = 463 /\ x.holds = Stretch(0, Parts.exif)
  BY <1>3, <1>5, BlockFields
<1>7. s = <<0, Parts.exif>>
  BY <1>2, <1>6, StretchSet
<1>8. Parts.exif \in Nat /\ decoy \in Nat
  BY PartsFit DEF Undamaged
<1>9. s[1] = 0 /\ s[2] = Parts.exif
  BY <1>7
<1> QED BY <1>1, <1>2, <1>6, <1>8, <1>9

LEMMA PhotoshopDecoys ==
  ASSUME Undamaged, NEW i, Photo(i), NEW q, q \in Bsky!DecoysOf(i)
  PROVE  q \in Int /\ Bsky!At(i) + 35 <= q
<1>1. segs[i] = PhotoshopMade /\ Bsky!At(i) \in Nat
  BY WholeStands
<1>2. PICK x, s : x \in Bsky!ToSet(segs[i].blocks) /\ s \in Bsky!ToSet(x.holds) /\ s[1] <= decoy /\ decoy < s[1] + s[2]
                  /\ q = Bsky!At(i) + x.offset + decoy - s[1]
  BY DecoysIn
<1>3. x = FirstBlock \/ x = SecondBlock
  <2>1. PICK h : h = PhotoshopMade.blocks
    OBVIOUS
  <2>2. h[1] = FirstBlock /\ DOMAIN h = (IF Parts.second > 0 THEN {1, 2} ELSE {1})
        /\ (Parts.second > 0 => h[2] = SecondBlock)
    BY <2>1, PhotoshopBlocks
  <2>3. \E k \in DOMAIN h : x = h[k]
    BY <1>1, <1>2, <2>1 DEF Bsky!ToSet
  <2> QED BY <2>2, <2>3
<1>4. Parts.exif \in Nat /\ Parts.first \in Nat /\ Parts.second \in Nat /\ decoy \in Nat
  BY PartsFit DEF Undamaged
<1>5. x.offset \in Nat /\ x.offset >= 35
  BY <1>3, <1>4, PhotoshopBlocks
<1>6. s[1] \in Nat
  <2>1. x.holds = Stretch(Parts.exif, Parts.first) \/ x.holds = Stretch(SecondFrom, Parts.second)
    BY <1>3, PhotoshopBlocks
  <2>2. s = <<Parts.exif, Parts.first>> \/ s = <<SecondFrom, Parts.second>>
    BY <1>2, <2>1, StretchSet
  <2> QED BY <1>4, <2>2 DEF SecondFrom
<1> QED BY <1>1, <1>2, <1>4, <1>5, <1>6

LEMMA DecoysAre ==
  ASSUME Undamaged, NEW q, q \in Bsky!DecoyAt
  PROVE  q \in Int /\ (q < 465 + Parts.exif \/ \E i : Photo(i) /\ Bsky!At(i) + 35 <= q)
<1>1. PICK i \in DOMAIN segs : segs[i].kind # "xmp" /\ q \in Bsky!DecoysOf(i)
  BY DEF Bsky!DecoyAt
<1>2. PICK a, b, c : Arranged(segs, a, b, c)
  BY DEF Whole, Undamaged
<1>3. Fits
  BY DEF Undamaged
<1>4. DOMAIN segs = 1..Len(segs)
  BY <1>2, <1>3, LengthsIn
<1>5. /\ i = a \/ i = b \/ i = c \/ (segs[i].kind \in Bsky!OtherKinds /\ segs[i].blocks = <<>>)
      /\ segs[i].kind = "exif" <=> i = a
      /\ segs[i].kind = "xmp" <=> Parts.xmp > 0 /\ i = b
      /\ segs[i].kind = "photoshop" <=> Parts.first > 0 /\ i = c
  <2>1. /\ segs[i].kind \in Bsky!OtherKinds => segs[i].blocks = <<>>
        /\ segs[i].kind = "exif" <=> i = a
        /\ segs[i].kind = "xmp" <=> Parts.xmp > 0 /\ i = b
        /\ segs[i].kind = "photoshop" <=> Parts.first > 0 /\ i = c
    BY <1>1, <1>2, <1>3, <1>4, ArrangedKinds
  <2>2. i = a \/ i = b \/ i = c \/ segs[i].kind \in Bsky!OtherKinds
    BY <1>1, <1>2, <1>4, OtherSizesFit DEF Arranged
  <2> QED BY <2>1, <2>2
<1>6. (i = b /\ ~(Parts.xmp > 0) => i = a) /\ (i = c /\ ~(Parts.first > 0) => i = a)
  BY <1>2 DEF Arranged
<1>7. segs[i].kind = "exif" \/ Photo(i) \/ segs[i].blocks = <<>>
  BY <1>1, <1>5, <1>6 DEF Photo, IsAt
<1>8. CASE segs[i].kind = "exif"
  <2>1. i = 1
    <3>1. 1 \in 1..Len(segs)
      BY <1>4, WholeStands
    <3>2. segs[1].kind = "exif" <=> 1 = a
      BY <1>2, <1>3, <3>1, ArrangedKinds
    <3> QED BY <1>5, <1>8, <3>2 DEF Undamaged, Bsky!OurExif
  <2> QED BY <1>1, <2>1, ExifDecoys
<1>9. CASE Photo(i)
  BY <1>1, <1>9, PhotoshopDecoys
<1>10. CASE segs[i].blocks = <<>>
  <2>1. \E x : x \in Bsky!ToSet(segs[i].blocks)
    BY <1>1, DecoysIn
  <2> QED BY <1>10, <2>1 DEF Bsky!ToSet
<1> QED BY <1>7, <1>8, <1>9, <1>10

LEMMA PhotoshopAlone ==
  ASSUME Undamaged, NEW i, Photo(i)
  PROVE  Alone("photoshop", Bsky!At(i) + 9) /\ Bsky!OwnSignatures("photoshop") = {Bsky!At(i) + 9}
<1>1. /\ Bsky!At(i) \in Nat /\ i \in DOMAIN segs /\ Bsky!At(i) + PhotoshopSize + 200 <= Bsky!ImageSize
      /\ Bsky!ImageSize \in Nat
  BY WholeStands
<1>2. PhotoshopSize \in Nat /\ PhotoshopSize >= 35 /\ Parts.exif \in Nat
  BY PartsFit DEF PhotoshopSize, Undamaged
<1>3. \A j : Photo(j) => j = i
  <2>1. Genuine(segs)
    BY WholeGenuine DEF Undamaged
  <2> QED BY <2>1 DEF Genuine, Photo
<1>4. Bsky!OwnSignatures("photoshop") = {Bsky!At(i) + 9}
  <2>1. \A j \in DOMAIN segs : segs[j].kind = "photoshop" <=> j = i
    BY <1>3 DEF Photo, IsAt
  <2> QED BY <1>1, <2>1 DEF Bsky!OwnSignatures, Bsky!PhotoshopAt
<1>5. Bsky!At(i) + 9 \in Bsky!Signatures("photoshop")
  BY <1>1, <1>2, <1>4 DEF Bsky!Signatures, Bsky!SignatureSize
<1>7. ASSUME NEW q \in Bsky!OtherSignatures("photoshop")
      PROVE  q \in Int /\ Bsky!At(i) + 9 <= q
  <2>1. Bsky!NoneInFront("photoshop")
    BY WholeStands, InFrontOfOthers DEF Undamaged
  <2>2. Bsky!At(i) + 9 < q
    BY <1>4, <1>7, <2>1 DEF Bsky!NoneInFront
  <2>3. q \in Nat
    BY <1>7, OthersStand, WholeGenuine DEF Undamaged, Genuine
  <2> QED BY <1>1, <2>2, <2>3
<1>6. ASSUME NEW q \in Bsky!Signatures("photoshop")
      PROVE  q \in Int /\ (q < 465 + Parts.exif \/ Bsky!At(i) + 9 <= q)
  <2>1. q = Bsky!At(i) + 9 \/ q \in Bsky!OtherSignatures("photoshop") \/ q \in Bsky!DecoyAt
    BY <1>4, <1>6 DEF Bsky!Signatures
  <2>2. q \in Bsky!DecoyAt => q \in Int /\ (q < 465 + Parts.exif \/ Bsky!At(i) + 35 <= q)
    BY <1>3, DecoysAre
  <2> QED BY <1>1, <1>7, <2>1, <2>2
<1> QED BY <1>1, <1>4, <1>5, <1>6 DEF Alone

LEMMA XmpAlone ==
  ASSUME Undamaged, NEW j, XmpAt(j)
  PROVE  Alone("xmp", Bsky!At(j) + 305)
<1>1. /\ Bsky!At(j) \in Nat /\ j \in DOMAIN segs /\ Parts.xmp > 0
      /\ \A i : Photo(i) => Bsky!At(j) + (405 + 4 * Quartets) <= Bsky!At(i) /\ Bsky!At(i) \in Nat
                            /\ Bsky!At(i) + PhotoshopSize + 200 <= Bsky!ImageSize
      /\ Bsky!ImageSize \in Nat
      /\ Parts.first > 0 => \E i : Photo(i)
  BY WholeStands
<1>2. PhotoshopSize \in Nat /\ Quartets \in Nat /\ Parts.exif \in Nat /\ Parts.first > 0
  BY <1>1, PartsFit DEF Undamaged
<1>3. PICK i : Photo(i)
  BY <1>1, <1>2
<1>4. \A k : XmpAt(k) => k = j
  <2>1. PICK a, b, c : Arranged(segs, a, b, c)
    BY DEF Whole, Undamaged
  <2>2. DOMAIN segs = 1..Len(segs) /\ \A k \in 1..Len(segs) : segs[k].kind = "xmp" <=> Parts.xmp > 0 /\ k = b
    BY <2>1, ArrangedKinds, LengthsIn DEF Undamaged
  <2> QED BY <2>2 DEF XmpAt, IsAt
<1>5. Bsky!OwnSignatures("xmp") = {Bsky!At(j) + 305}
  <2>1. \A k \in DOMAIN segs : segs[k].kind = "xmp" <=> k = j
    BY <1>4 DEF XmpAt, IsAt
  <2> QED BY <1>1, <2>1 DEF Bsky!OwnSignatures
<1>6. Bsky!At(j) + 305 \in Bsky!Signatures("xmp")
  <2>1. Bsky!At(j) + 305 + 7 <= Bsky!ImageSize
    BY <1>1, <1>2, <1>3
  <2> QED BY <1>5, <2>1 DEF Bsky!Signatures, Bsky!SignatureSize
<1>8. ASSUME NEW q \in Bsky!OtherSignatures("xmp")
      PROVE  q \in Int /\ Bsky!At(j) + 305 <= q
  <2>1. Bsky!NoneInFront("xmp")
    BY <1>1, InFrontOfOthers DEF Undamaged
  <2>2. Bsky!At(j) + 305 < q
    BY <1>5, <1>8, <2>1 DEF Bsky!NoneInFront
  <2>3. q \in Nat
    BY <1>8, OthersStand, WholeGenuine DEF Undamaged, Genuine
  <2> QED BY <1>1, <2>2, <2>3
<1>7. ASSUME NEW q \in Bsky!Signatures("xmp")
      PROVE  q \in Int /\ (q < 465 + Parts.exif \/ Bsky!At(j) + 305 <= q)
  <2>1. q = Bsky!At(j) + 305 \/ q \in Bsky!OtherSignatures("xmp") \/ q \in Bsky!DecoyAt
    BY <1>5, <1>7 DEF Bsky!Signatures
  <2>2. q \in Bsky!DecoyAt => q \in Int /\ (q < 465 + Parts.exif \/ \E k : Photo(k) /\ Bsky!At(k) + 35 <= q)
    BY DecoysAre
  <2>3. \A k : Photo(k) => Bsky!At(j) + 305 <= Bsky!At(k) + 35
    BY <1>1, <1>2
  <2>4. \A k : Photo(k) => Bsky!At(k) \in Nat
    BY <1>1
  <2> QED BY <1>1, <1>2, <1>8, <2>1, <2>2, <2>3, <2>4
<1> QED BY <1>1, <1>6, <1>7 DEF Alone

\* The search has not gone past what it looks for, and will come to it.
Hunting(sc, p) ==
  /\ sc.consumed \in Nat /\ sc.carry \in Nat /\ sc.limit \in Nat
  /\ sc.limit <= Bsky!ImageSize /\ p + 7 <= sc.limit
  /\ sc.consumed < p + 7 /\ sc.consumed - sc.carry <= p
  /\ 465 + Parts.exif <= sc.consumed - sc.carry
Accept(ph, sc) ==
  /\ ph \notin {"notOurs", "refused"}
  /\ ph = "search" /\ sc.for = "photoshop" => \A i : Photo(i) => Hunting(sc, Bsky!At(i) + 9)
  /\ ph = "search" /\ sc.for = "xmp" => \A j : XmpAt(j) => Hunting(sc, Bsky!At(j) + 305)
Favourable == harm = "none" /\ Bsky!OurExif /\ Bsky!Unmistakable /\ Bsky!OthersSize <= Bsky!Slack
Accepting == Favourable /\ phase \notin Early \cup {"failed", "image"} => Accept(phase, scan)

LEMMA AcceptStays ==
  ASSUME UNCHANGED <<size, segs, harm>>, Favourable => Accept(phase', scan')
  PROVE  Accepting'
<1>1. Parts' = Parts /\ \A x : (Bsky!At(x))' = Bsky!At(x)
  BY MadeStay DEF Bsky!At
<1>2. Bsky!ImageSize' = Bsky!ImageSize
  BY <1>1 DEF Bsky!ImageSize, Bsky!At
<1>3. \A i : (Photo(i)' <=> Photo(i)) /\ (XmpAt(i)' <=> XmpAt(i))
  BY DEF Photo, XmpAt, IsAt
<1>4. Favourable' <=> Favourable
  BY SignaturesStay DEF Favourable, Bsky!OurExif, Bsky!OthersSize, Bsky!Slack
<1>5. \A x : Hunting(scan', Bsky!At(x) + 9) <=> Hunting(scan, Bsky!At(x) + 9)'
  BY <1>1, <1>2 DEF Hunting
<1>6. \A x : Hunting(scan', Bsky!At(x) + 305) <=> Hunting(scan, Bsky!At(x) + 305)'
  BY <1>1, <1>2 DEF Hunting
<1>7. Accept(phase', scan') => Accept(phase, scan)'
  BY <1>3, <1>5, <1>6 DEF Accept
<1> QED BY <1>4, <1>7 DEF Accepting

LEMMA HuntEnds ==
  ASSUME NEW p, Hunting(scan, p), Alone(scan.for, p), NEW got \in Nat, NEW h \in Bsky!FirstHit(got),
         Parts.exif \in Nat
  PROVE  h = p
<1>1. /\ p \in Nat /\ p \in Bsky!Signatures(scan.for)
      /\ \A q \in Bsky!Signatures(scan.for) : q \in Int /\ (q < 465 + Parts.exif \/ p <= q)
  BY DEF Alone
<1>2. PICK w : w = Bsky!InWindow(got)
  OBVIOUS
<1>3. PICK from, to : from = scan.consumed - scan.carry /\ to = scan.consumed + got
  OBVIOUS
<1>4. w = {q \in Bsky!Signatures(scan.for) : from <= q /\ q + 7 <= to}
  BY <1>2, <1>3 DEF Bsky!InWindow, Bsky!SignatureSize
<1>5. from \in Int /\ to \in Int /\ from <= p /\ 465 + Parts.exif <= from
  BY <1>3 DEF Hunting
<1>6. \A q \in w : q \in Int /\ p <= q
  BY <1>1, <1>4, <1>5
<1>8. h \in w /\ \A q \in w : h <= q
  BY <1>2 DEF Bsky!FirstHit
<1>7. p \in w
  <2>2. h \in Int /\ p <= h /\ h + 7 <= to
    BY <1>4, <1>6, <1>8
  <2>3. p + 7 <= to
    BY <1>1, <1>5, <2>2
  <2> QED BY <1>1, <1>4, <1>5, <2>3
<1> QED BY <1>1, <1>6, <1>7, <1>8

LEMMA HuntGoesOn ==
  ASSUME NEW p, Hunting(scan, p), Alone(scan.for, p), NEW got \in Nat, Bsky!InWindow(got) = {}, Parts.exif \in Nat,
         NEW m, m = Bsky!Overlap(Bsky!Window(got)),
         NEW t, t.consumed = scan.consumed + got, t.carry = m, t.limit = scan.limit
  PROVE  Hunting(t, p)
<1>1. p \in Nat /\ p \in Bsky!Signatures(scan.for)
  BY DEF Alone
<1>2. PICK c \in Nat, r \in Nat, l \in Nat, g \in Nat :
        c = scan.consumed /\ r = scan.carry /\ l = scan.limit /\ g = got
  BY DEF Hunting
<1>3. /\ l <= Bsky!ImageSize /\ p + 7 <= l /\ c < p + 7 /\ c - r <= p /\ 465 + Parts.exif <= c - r
  BY <1>2 DEF Hunting
<1>4. c + g < p + 7
  <2>1. ~(c - r <= p /\ p + 7 <= c + g)
    BY <1>1, <1>2 DEF Bsky!InWindow, Bsky!SignatureSize
  <2> QED BY <1>1, <1>3, <2>1
<1>5. m = (IF 6 <= r + g THEN 6 ELSE r + g)
  BY <1>2 DEF Bsky!Overlap, Bsky!Window, Bsky!Lesser, Bsky!SignatureSize
<1>6. m \in Nat /\ (c + g) - m <= p /\ c - r <= (c + g) - m
  BY <1>1, <1>3, <1>4, <1>5
<1>7. 465 + Parts.exif <= (c + g) - m
  BY <1>3, <1>6
<1> QED BY <1>2, <1>3, <1>4, <1>6, <1>7 DEF Hunting

LEMMA HuntStarts ==
  ASSUME NEW from, NEW limit, NEW for, NEW sc, sc = Scan(for, from, limit, from, 0),
         NEW p \in Nat, limit \in Nat, limit <= Bsky!ImageSize, p + 7 <= limit, from = 465 + Parts.exif,
         Parts.exif \in Nat, from <= p
  PROVE  Hunting(sc, p)
<1>1. sc.consumed = from /\ sc.carry = 0 /\ sc.limit = limit
  BY ScanFor
<1> QED BY <1>1 DEF Hunting

LEMMA HuntReads ==
  ASSUME NEW p \in Nat, Hunting(scan, p), Bsky!ImageSize \in Nat
  PROVE  scan.consumed < scan.limit /\ Bsky!Readable > 0 /\ Bsky!Readable \in Nat
<1>1. PICK c \in Nat, l \in Nat, n \in Nat : c = scan.consumed /\ l = scan.limit /\ n = Bsky!ImageSize
  BY DEF Hunting
<1>2. l <= n /\ p + 7 <= l /\ c < p + 7
  BY <1>1 DEF Hunting
<1>3. PICK w : w = Bsky!Wanted
  OBVIOUS
<1>4. w = (IF 1048576 <= l - c THEN 1048576 ELSE l - c)
  BY <1>1, <1>3 DEF Bsky!Wanted, Bsky!Lesser
<1>5. w \in Nat /\ w > 0
  BY <1>2, <1>4
<1>6. Bsky!Readable = (IF w <= n - c THEN w ELSE n - c)
  BY <1>1, <1>3 DEF Bsky!Readable, Bsky!Lesser
<1> QED BY <1>1, <1>2, <1>5, <1>6

LEMMA ReadMetadataAccepts ==
  ASSUME Undamaged, stated = size, size >= 21, Bsky!ReadMetadata
  PROVE  phase' = "exif"
<1>1. Fits /\ size \in Nat /\ size <= 175245 /\ Bsky!OurExif
  BY DEF Undamaged, Fits
<1>2. segs[1].field = 507 + Parts.exif
  BY WholeStands, MadeFields
<1>3. Parts.exif \in Nat /\ Parts.exif = Bsky!Lesser(size, 65027)
  BY <1>1, LayoutIs
<1>4. Bsky!ExifEnd = 511 + Parts.exif /\ Bsky!Available = 46 + Parts.exif /\ Bsky!ExifEnd > Bsky!Start
  BY <1>2, <1>3 DEF Bsky!ExifEnd, Bsky!Available, Bsky!Start
<1>5. Bsky!ExifHolds
  BY <1>1, <1>3, <1>4 DEF Bsky!ExifHolds, Bsky!ReadExifLimit, Bsky!Lesser
<1>6. Bsky!Capacity = 175245 /\ Bsky!MaxDeclared = 2097152 /\ Bsky!MinDeclared = 21
  BY DEF Bsky!Capacity, Bsky!MaxDeclared, Bsky!MinDeclared, Bsky!ReadExifLimit,
         Bsky!ReadFirstLimit, Bsky!ReadLastLimit, Bsky!XmpTemplate, Bsky!XmpFooter
<1>7. stated >= Bsky!MinDeclared /\ stated <= Bsky!MaxDeclared /\ stated <= Bsky!Lesser(Bsky!Capacity, Bsky!MaxDeclared)
  BY <1>1, <1>6 DEF Bsky!Lesser
<1> QED BY <1>1, <1>4, <1>5, <1>7 DEF Bsky!ReadMetadata, Bsky!Step

LEMMA PlainAccepts ==
  ASSUME NEW ph, ph \notin {"notOurs", "refused", "search"}, NEW sc
  PROVE  Accept(ph, sc)
BY DEF Accept

LEMMA TakeExifAccepts ==
  ASSUME Undamaged, stated = size, Bsky!OthersSize <= Bsky!Slack, Bsky!TakeExif
  PROVE  Accept(phase', scan')
<1>1. Fits /\ size \in Nat
  BY DEF Undamaged, Fits
<1>2. PICK n \in Nat, e \in Nat : n = Bsky!ImageSize /\ e = Parts.exif
  BY <1>1, WholeStands, PartsFit
<1>3. 711 + e <= n /\ segs[1].field = 507 + e
  BY <1>2, WholeStands, MadeFields
<1>4. Bsky!ExifChunk = e
  BY <1>1, <1>2, LayoutIs DEF Bsky!ExifChunk, Bsky!ReadExifLimit
<1>5. Bsky!Start = 465 /\ Bsky!SearchStart = 465 + e /\ Bsky!ExifEnd = 511 + e
  BY <1>2, <1>3, <1>4 DEF Bsky!Start, Bsky!SearchStart, Bsky!AfterExif, Bsky!ExifEnd
<1>6. Bsky!InFile(Bsky!Start, Bsky!ExifChunk) /\ Bsky!InFile(2, Bsky!ExifEnd - 2)
  BY <1>2, <1>3, <1>4, <1>5 DEF Bsky!InFile
<1>7. ~(Bsky!SearchStart >= n)
  BY <1>2, <1>3, <1>5
<1>8. phase' = "done" \/
      (phase' = "search" /\ scan' = Scan("photoshop", 465 + e, Bsky!Lesser(n, 465 + e + Bsky!SearchWindow), 465 + e, 0))
  BY <1>2, <1>5, <1>6, <1>7 DEF Bsky!TakeExif, Bsky!Step, Scan
<1>9. CASE phase' = "done"
  BY <1>9, PlainAccepts
<1>10. CASE phase' = "search" /\ scan' = Scan("photoshop", 465 + e, Bsky!Lesser(n, 465 + e + Bsky!SearchWindow), 465 + e, 0)
  <2>1. PICK w \in Nat : w = Bsky!SearchWindow
    BY DEF Bsky!SearchWindow
  <2>2. PICK limit : limit = Bsky!Lesser(n, 465 + e + w)
    OBVIOUS
  <2>3. scan' = Scan("photoshop", 465 + e, limit, 465 + e, 0)
    BY <1>10, <2>1, <2>2
  <2>4. scan'.for = "photoshop"
    BY ONLY <2>3, ScanFor
  <2>5. ASSUME NEW i, Photo(i)
        PROVE  Hunting(scan', Bsky!At(i) + 9)
    <3>1. PICK p \in Nat, s \in Nat : p = Bsky!At(i) /\ s = PhotoshopSize
      BY <1>1, <2>5, WholeStands, PartsFit
    <3>2. 511 + e <= p /\ p + s + 200 <= n
      BY <1>2, <2>5, <3>1, WholeStands
    <3>3. p + 16 <= 465 + e + w
      BY <1>1, <1>2, <2>1, <2>5, <3>1, ReachesPhotoshop DEF Ahead, Undamaged
    <3>4. limit \in Nat /\ limit <= n /\ p + 9 + 7 <= limit
      BY ONLY <2>2, <3>1, <3>2, <3>3, n \in Nat, e \in Nat, w \in Nat, p \in Nat, s \in Nat DEF Bsky!Lesser
    <3>5. p + 9 \in Nat /\ 465 + e <= p + 9
      BY <3>2
    <3> QED BY <1>2, <2>3, <3>1, <3>4, <3>5, HuntStarts
  <2> QED BY <1>10, <2>4, <2>5 DEF Accept
<1> QED BY <1>8, <1>9, <1>10

LEMMA AloneFor ==
  ASSUME Undamaged, Assembly(phase, scan, taken), Accept(phase, scan), phase = "search"
  PROVE  \E p : /\ p \in Nat /\ Alone(scan.for, p) /\ Hunting(scan, p)
                /\ scan.for = "photoshop" => Bsky!OwnSignatures("photoshop") = {p}
                /\ scan.for = "xmp" => \E j : XmpAt(j) /\ p = Bsky!At(j) + 305
<1>1. CASE scan.for = "photoshop"
  <2>1. PICK i : Photo(i)
    BY <1>1, WholeStands DEF Assembly
  <2>2. Alone("photoshop", Bsky!At(i) + 9) /\ Bsky!OwnSignatures("photoshop") = {Bsky!At(i) + 9}
    BY <2>1, PhotoshopAlone
  <2>3. Hunting(scan, Bsky!At(i) + 9)
    BY <1>1, <2>1 DEF Accept
  <2>5. Bsky!At(i) + 9 \in Nat
    BY <2>2 DEF Alone
  <2> QED BY <1>1, <2>1, <2>2, <2>3, <2>5
<1>2. CASE scan.for = "xmp"
  <2>1. PICK j : XmpAt(j)
    BY <1>2, WholeStands DEF Assembly
  <2>2. Alone("xmp", Bsky!At(j) + 305)
    BY <2>1, XmpAlone
  <2>3. Hunting(scan, Bsky!At(j) + 305)
    BY <1>2, <2>1 DEF Accept
  <2>4. Bsky!At(j) + 305 \in Nat
    BY <2>2 DEF Alone
  <2> QED BY <1>2, <2>1, <2>2, <2>3, <2>4
<1>3. scan.for \in {"photoshop", "xmp"}
  BY DEF Assembly
<1> QED BY <1>1, <1>2, <1>3

LEMMA FoundPhotoshopAccepts ==
  ASSUME Undamaged, Assembly(phase, scan, taken), Accept(phase, scan), NEW got, Bsky!FoundPhotoshop(got)
  PROVE  phase' = "first"
<1>1. phase = "search" /\ scan.for = "photoshop" /\ got \in 1..Bsky!Readable
  BY DEF Bsky!FoundPhotoshop
<1>2. PICK p : p \in Nat /\ Alone(scan.for, p) /\ Hunting(scan, p) /\ Bsky!OwnSignatures("photoshop") = {p}
  BY <1>1, AloneFor
<1>3. Parts.exif \in Nat /\ Bsky!ImageSize \in Nat
  BY WholeStands, PartsFit DEF Undamaged
<1>4. got \in Nat
  <2>1. Bsky!Readable \in Nat
    BY <1>2, <1>3, HuntReads
  <2> QED BY <1>1, <2>1
<1>5. \A h \in Bsky!FirstHit(got) : h = p
  BY <1>1, <1>2, <1>3, <1>4, HuntEnds
<1> QED BY <1>2, <1>5 DEF Bsky!FoundPhotoshop, Bsky!Step

LEMMA ReadWindowAccepts ==
  ASSUME Undamaged, Assembly(phase, scan, taken), Accept(phase, scan), NEW got, Bsky!ReadWindow(got)
  PROVE  Accept(phase', scan')
<1>1. phase = "search" /\ phase' = "search" /\ got \in 1..Bsky!Readable /\ Bsky!InWindow(got) = {}
  BY DEF Bsky!ReadWindow
<1>2. PICK for, from, limit, consumed, carry : scan = Scan(for, from, limit, consumed, carry)
  BY <1>1 DEF Assembly, IsScan
<1>3. PICK m : m = Bsky!Overlap(Bsky!Window(got))
  OBVIOUS
<1>4. scan' = ScanMoved(scan, got, m)
  BY <1>3 DEF Bsky!ReadWindow, ScanMoved
<1>5. PICK t : t = scan'
  OBVIOUS
<1>6. t = Scan(for, from, limit, consumed + got, m)
  BY ONLY <1>2, <1>4, <1>5, ScanMoves
<1>7. t.for = scan.for /\ t.consumed = scan.consumed + got /\ t.carry = m /\ t.limit = scan.limit
  BY <1>2, <1>6, ScanFor
<1>8. Parts.exif \in Nat /\ Bsky!ImageSize \in Nat
  BY WholeStands, PartsFit DEF Undamaged
<1>9. got \in Nat
  <2>1. PICK p : p \in Nat /\ Hunting(scan, p)
    BY <1>1, AloneFor
  <2>2. Bsky!Readable \in Nat
    BY <1>8, <2>1, HuntReads
  <2> QED BY <1>1, <2>2
<1>10. ASSUME NEW i, Photo(i), scan.for = "photoshop"
       PROVE  Hunting(t, Bsky!At(i) + 9)
  <2>1. Alone(scan.for, Bsky!At(i) + 9) /\ Hunting(scan, Bsky!At(i) + 9)
    BY <1>1, <1>10, PhotoshopAlone DEF Accept
  <2> QED BY <1>1, <1>3, <1>7, <1>8, <1>9, <2>1, HuntGoesOn
<1>11. ASSUME NEW j, XmpAt(j), scan.for = "xmp"
       PROVE  Hunting(t, Bsky!At(j) + 305)
  <2>1. Alone(scan.for, Bsky!At(j) + 305) /\ Hunting(scan, Bsky!At(j) + 305)
    BY <1>1, <1>11, XmpAlone DEF Accept
  <2> QED BY <1>1, <1>3, <1>7, <1>8, <1>9, <2>1, HuntGoesOn
<1>12. Accept("search", t)
  BY <1>7, <1>10, <1>11 DEF Accept
<1> QED BY <1>1, <1>5, <1>12

LEMMA AlwaysFound ==
  ASSUME Undamaged, Assembly(phase, scan, taken), Accept(phase, scan)
  PROVE  ~Bsky!NotFound
<1> SUFFICES ASSUME Bsky!NotFound
             PROVE  FALSE
  OBVIOUS
<1>1. phase = "search" /\ (scan.consumed >= scan.limit \/ Bsky!Readable = 0)
  BY DEF Bsky!NotFound
<1>2. PICK p : p \in Nat /\ Hunting(scan, p)
  BY <1>1, AloneFor
<1>3. Bsky!ImageSize \in Nat
  BY WholeStands
<1>4. scan.consumed < scan.limit /\ Bsky!Readable > 0 /\ Bsky!Readable \in Nat
  BY <1>2, <1>3, HuntReads
<1>5. scan.consumed \in Nat /\ scan.limit \in Nat
  BY <1>2 DEF Hunting
<1> QED BY <1>1, <1>4, <1>5

LEMMA PhotoshopLong ==
  ASSUME Kept
  PROVE  /\ PhotoshopSize \in Nat /\ PhotoshopSize >= 35 + Parts.first
         /\ Parts.second > 0 => PhotoshopSize = 40 + Parts.first + Parts.second /\ Parts.first = 32767
<1>1. Parts.first \in Nat /\ Parts.second \in Nat
  BY KeptParts
<1>2. Parts.second > 0 => Parts.first = 32767
  <2>1. size \in Nat
    BY DEF Kept, Fits
  <2> QED BY <2>1, LayoutIs
<1> QED BY <1>1, <1>2 DEF PhotoshopSize

LEMMA TakeFirstAccepts ==
  ASSUME Undamaged, Kept, Assembly(phase, scan, taken), Bsky!TakeFirst
  PROVE  phase' \in {"done", "second"}
<1>1. phase = "first"
  BY DEF Bsky!TakeFirst
<1>2. taken = Row1 /\ Parts.first > 0
  BY <1>1 DEF Assembly
<1>3. PICK i : Photo(i) /\ scan.from = Bsky!At(i) + 9
  BY <1>1 DEF Assembly
<1>4. Bsky!At(i) \in Nat /\ Bsky!PsField = PhotoshopSize - 2 /\ Bsky!FirstField = {Parts.first}
  BY <1>3, PhotoIs
<1>5. Bsky!At(i) + PhotoshopSize + 200 <= Bsky!ImageSize /\ Bsky!ImageSize \in Nat
  BY <1>3, WholeStands
<1>6. Bsky!Signature - 7 = Bsky!At(i) + 2 /\ Bsky!Signature + 26 = Bsky!At(i) + 35
  BY <1>3, <1>4 DEF Bsky!Signature
<1>7. PICK p \in Nat, s \in Nat, n \in Nat, f \in Nat, g \in Nat, x \in Nat :
        p = Bsky!At(i) /\ s = PhotoshopSize /\ n = Bsky!ImageSize /\ f = Parts.first /\ g = Parts.second /\ x = Parts.xmp
  BY <1>4, <1>5, KeptParts, PhotoshopLong
<1>8. s >= 35 + f /\ (g > 0 => s = 40 + f + g /\ f = 32767) /\ p + s + 200 <= n /\ f > 0
  BY <1>2, <1>5, <1>7, PhotoshopLong
<1>9. Bsky!InFile(Bsky!Signature - 7, Bsky!PsField)
  BY <1>4, <1>6, <1>7, <1>8 DEF Bsky!InFile
<1>10. Bsky!InFile(Bsky!Signature + 26, Parts.first)
  BY <1>4, <1>6, <1>7, <1>8 DEF Bsky!InFile
<1>11. Bsky!Remaining = stated - Parts.exif
  BY <1>2, Row1Is DEF Bsky!Remaining, Bsky!TakenBytes, Kept
<1>12. Bsky!Remaining = f + g + x /\ (x > 0 => g > 0)
  BY <1>7, <1>11, KeptParts
<1>13. Parts.first > 0 /\ Parts.first <= Bsky!Remaining
  BY <1>4, <1>7, <1>8, <1>12
<1>14. Parts.first = Bsky!Remaining \/ ~(Bsky!PsField <= Bsky!OnlyOneDataset)
  BY <1>4, <1>7, <1>8, <1>12 DEF Bsky!OnlyOneDataset
<1> QED BY <1>4, <1>9, <1>10, <1>13, <1>14 DEF Bsky!TakeFirst, Bsky!Step

LEMMA TakeSecondAccepts ==
  ASSUME Undamaged, Kept, Assembly(phase, scan, taken), Bsky!TakeSecond
  PROVE  Accept(phase', scan')
<1>1. phase = "second"
  BY DEF Bsky!TakeSecond
<1>2. Parts.second > 0
  BY <1>1 DEF Assembly
<1>3. PICK i : PhotoIn(i) /\ scan.from = Bsky!At(i) + 9 /\ taken = Row2(i)
  BY <1>1 DEF Assembly
<1>4. Photo(i)
  BY <1>3 DEF PhotoIn
<1>5. /\ Bsky!At(i) \in Nat /\ i \in DOMAIN segs
      /\ Bsky!SecondField = {Parts.second}
  BY <1>2, <1>3, <1>4, PhotoIs
<1>6. PICK p \in Nat, s \in Nat, n \in Nat, e \in Nat, f \in Nat, g \in Nat, x \in Nat :
        /\ p = Bsky!At(i) /\ s = PhotoshopSize /\ n = Bsky!ImageSize
        /\ e = Parts.exif /\ f = Parts.first /\ g = Parts.second /\ x = Parts.xmp
  <2>1. Parts.exif \in Nat /\ Parts.first \in Nat /\ Parts.second \in Nat /\ Parts.xmp \in Nat
    BY KeptParts
  <2>2. PhotoshopSize \in Nat
    BY PhotoshopLong
  <2>3. Bsky!ImageSize \in Nat
    BY WholeStands
  <2> QED BY <1>5, <2>1, <2>2, <2>3
<1>7. g > 0 /\ s = 40 + f + g /\ 511 + e <= p /\ p + s + 200 <= n /\ e + f + g + x = stated
  BY <1>2, <1>4, <1>6, KeptParts, PhotoshopLong, WholeStands
<1>8. Fits /\ Measured(segs)
  BY DEF Kept, Genuine
<1>9. Bsky!Remaining = stated - (Parts.exif + Parts.first)
  BY <1>3, <1>5, <1>8, RowsHold DEF Bsky!Remaining, Bsky!TakenBytes
<1>10. Bsky!Remaining = g + x
  BY <1>6, <1>7, <1>9
<1>11. Bsky!SecondAt = p + 40 + f
  <2>1. Bsky!Last(taken) = <<Bsky!At(i) + 35, Parts.first>>
    BY <1>3, <1>5, <1>8, RowsHold DEF Piece2
  <2> QED BY <1>6, <2>1 DEF Bsky!SecondAt
<1>12. Bsky!SecondField = {g}
  BY <1>5, <1>6
<1>13. Bsky!InFile(p + 40 + f, g)
  BY <1>6, <1>7 DEF Bsky!InFile
<1>14. Bsky!SearchStart = 465 + e /\ Bsky!Signature - 7 = p + 2
  <2>1. Bsky!ExifChunk = e
    BY <1>6, <1>8, LayoutIs DEF Bsky!ExifChunk, Bsky!ReadExifLimit, Kept, Fits
  <2> QED BY <1>3, <1>6, <2>1 DEF Bsky!SearchStart, Bsky!AfterExif, Bsky!Start, Bsky!Signature
<1>15. ~(Bsky!SearchStart >= Bsky!Signature - 7) /\ g > 0 /\ g <= Bsky!Remaining
  BY <1>7, <1>10, <1>14
<1>16. phase' = "done" \/ (phase' = "search" /\ scan' = Scan("xmp", 465 + e, p + 2, 465 + e, 0))
  <2>1. PICK m \in Bsky!SecondField :
         IF m > 0 /\ m <= Bsky!Remaining /\ Bsky!InFile(Bsky!SecondAt, m)
         THEN /\ Bsky!Take(Bsky!SecondAt, m)
              /\ IF m = Bsky!Remaining THEN Bsky!Step("done") /\ UNCHANGED scan
                 ELSE IF Bsky!SearchStart >= Bsky!Signature - 7 THEN Bsky!Step("refused") /\ UNCHANGED scan
                 ELSE /\ Bsky!Step("search")
                      /\ scan' = [for |-> "xmp", from |-> Bsky!SearchStart, carry |-> 0,
                                  limit |-> Bsky!Signature - 7, consumed |-> Bsky!SearchStart]
         ELSE Bsky!Step("refused") /\ UNCHANGED <<taken, scan>>
    BY DEF Bsky!TakeSecond
  <2>2. m = g /\ Bsky!InFile(Bsky!SecondAt, m)
    BY <1>11, <1>12, <1>13, <2>1
  <2> QED BY <1>14, <1>15, <2>1, <2>2 DEF Bsky!Step, Scan
<1>17. CASE phase' = "done"
  BY <1>17, PlainAccepts
<1>18. CASE phase' = "search" /\ scan' = Scan("xmp", 465 + e, p + 2, 465 + e, 0)
  <2>1. scan'.for = "xmp"
    BY ONLY <1>18, ScanFor
  <2>2. ASSUME NEW j, XmpAt(j)
        PROVE  Hunting(scan', Bsky!At(j) + 305)
    <3>1. Quartets \in Nat
      BY <1>8, QuartetsFit
    <3>2. Bsky!At(j) \in Nat /\ 511 + e <= Bsky!At(j) /\ Bsky!At(j) + (405 + 4 * Quartets) <= p
      BY <1>4, <1>6, <2>2, WholeStands
    <3>3. p + 2 \in Nat /\ p + 2 <= n /\ (Bsky!At(j) + 305) + 7 <= p + 2 /\ Bsky!At(j) + 305 \in Nat
          /\ 465 + e <= Bsky!At(j) + 305
      BY <1>7, <3>1, <3>2
    <3> QED BY <1>6, <1>18, <3>3, HuntStarts
  <2> QED BY <1>18, <2>1, <2>2 DEF Accept
<1> QED BY <1>16, <1>17, <1>18

LEMMA FoundXmpAccepts ==
  ASSUME Undamaged, Kept, Assembly(phase, scan, taken), Accept(phase, scan), NEW got, Bsky!FoundXmp(got)
  PROVE  phase' = "done"
<1>1. phase = "search" /\ scan.for = "xmp" /\ got \in 1..Bsky!Readable
  BY DEF Bsky!FoundXmp
<1>2. PICK p : p \in Nat /\ Alone(scan.for, p) /\ Hunting(scan, p) /\ \E j : XmpAt(j) /\ p = Bsky!At(j) + 305
  BY <1>1, AloneFor
<1>3. PICK j : XmpAt(j) /\ p = Bsky!At(j) + 305
  BY <1>2
<1>4. Parts.exif \in Nat /\ Bsky!ImageSize \in Nat
  BY WholeStands, PartsFit DEF Undamaged
<1>5. got \in Nat
  <2>1. Bsky!Readable \in Nat
    BY <1>2, <1>4, HuntReads
  <2> QED BY <1>1, <2>1
<1>6. \A h \in Bsky!FirstHit(got) : h = p
  BY <1>1, <1>2, <1>4, <1>5, HuntEnds
<1>7. j \in DOMAIN segs /\ segs[j].kind = "xmp" /\ segs[j] = XmpMade
  BY <1>3, WholeStands DEF XmpAt, IsAt
<1>8. PICK i : PhotoIn(i) /\ taken = Row3(i)
  BY <1>1 DEF Assembly
<1>9. Fits /\ Measured(segs) /\ i \in DOMAIN segs
  BY <1>8 DEF Kept, Genuine, PhotoIn, Photo, IsAt
<1>10. Bsky!Remaining = stated - (Parts.exif + Parts.first + Parts.second)
  BY <1>7, <1>8, <1>9, RowsHold DEF Bsky!Remaining, Bsky!TakenBytes
<1>11. Bsky!Remaining = Parts.xmp
  BY <1>10, KeptParts
<1>12. PICK x : x = Bsky!Block(313, 4 * Quartets, Parts.xmp, Stretch(TextFrom, Parts.xmp))
  OBVIOUS
<1>13. segs[j].blocks = <<x>>
  BY <1>7, <1>12, MadeFields
<1>14. segs[j].blocks[1] = x
  BY ONLY <1>13, OneBlock
<1>15. x.length = 4 * Quartets /\ x.holds = Stretch(TextFrom, Parts.xmp)
  BY <1>12, BlockFields
<1>16. Bsky!Bytes(x.holds) = Parts.xmp
  BY <1>15, RunBytes, KeptParts
<1>17. x.length < Bsky!MaxScan
  BY <1>9, <1>15, QuartetsFit DEF Bsky!MaxScan
<1>18. /\ segs[j].blocks[1].length < Bsky!MaxScan /\ Bsky!Bytes(segs[j].blocks[1].holds) = Bsky!Remaining
       /\ j \in {k \in DOMAIN segs : segs[k].kind = "xmp" /\ Bsky!At(k) + 305 = p}
  BY <1>3, <1>7, <1>11, <1>14, <1>16, <1>17
<1> QED BY <1>6, <1>18 DEF Bsky!FoundXmp, Bsky!Step

LEMMA PlainAccepting ==
  ASSUME phase' \notin {"notOurs", "refused", "search"}
  PROVE  Accepting'
<1>1. Accept(phase', scan')
  BY PlainAccepts
<1>2. Accept(phase', scan') => Accept(phase, scan)'
  BY DEF Accept
<1> QED BY <1>1, <1>2 DEF Accepting

LEMMA FavourableUndamaged ==
  ASSUME Carried, Favourable, phase \notin Early \cup {"failed"}
  PROVE  Undamaged /\ Kept /\ stated = size /\ size >= 21 /\ Bsky!OthersSize <= Bsky!Slack
<1>1. Fits /\ Whole /\ Bsky!OurExif /\ harm = "none" /\ decoy \in Nat /\ size >= 21
  BY DEF Carried, Travelled, Favourable, Early
<1>2. stated = size /\ Genuine(segs)
  BY <1>1, WholeGenuine
<1> QED BY <1>1, <1>2 DEF Undamaged, Kept, Favourable

LEMMA RecoveringAccepts ==
  ASSUME Carried, Assembling, Accepting, Recovering
  PROVE  Accepting'
<1>1. /\ phase \in {"image", "exif", "search", "first", "second"}
      /\ UNCHANGED <<size, decoy, input, builder, segs, harm, stated>>
  BY RecoveringRests
<1> SUFFICES ASSUME Favourable
             PROVE  Accept(phase', scan')
  BY <1>1, AcceptStays
<1>2. Undamaged /\ Kept /\ stated = size /\ size >= 21 /\ Bsky!OthersSize <= Bsky!Slack
  BY <1>1, FavourableUndamaged DEF Early
<1>3. Assembly(phase, scan, taken)
  BY <1>1, <1>2 DEF Assembling, Early, Undamaged
<1>4. phase # "image" => Accept(phase, scan)
  BY <1>1 DEF Accepting, Early
<1>5. CASE Bsky!ReadMetadata
  <2>1. phase' = "exif"
    BY <1>2, <1>5, ReadMetadataAccepts
  <2> QED BY <2>1, PlainAccepts
<1>6. CASE Bsky!TakeExif
  BY <1>2, <1>6, TakeExifAccepts
<1>7. CASE Bsky!Reading
  <2>1. PICK got : Bsky!ReadWindow(got) \/ Bsky!FoundPhotoshop(got) \/ Bsky!FoundXmp(got)
    BY <1>7 DEF Bsky!Reading
  <2>2. phase = "search"
    BY <2>1 DEF Bsky!ReadWindow, Bsky!FoundPhotoshop, Bsky!FoundXmp
  <2>3. Accept(phase, scan)
    BY <1>4, <2>2
  <2>4. CASE Bsky!ReadWindow(got)
    BY <1>2, <1>3, <2>3, <2>4, ReadWindowAccepts
  <2>5. CASE Bsky!FoundPhotoshop(got)
    <3>1. phase' = "first"
      BY <1>2, <1>3, <2>3, <2>5, FoundPhotoshopAccepts
    <3> QED BY <3>1, PlainAccepts
  <2>6. CASE Bsky!FoundXmp(got)
    <3>1. phase' = "done"
      BY <1>2, <1>3, <2>3, <2>6, FoundXmpAccepts
    <3> QED BY <3>1, PlainAccepts
  <2> QED BY <2>1, <2>4, <2>5, <2>6
<1>8. CASE Bsky!NotFound
  <2>1. phase = "search"
    BY <1>8 DEF Bsky!NotFound
  <2>2. Accept(phase, scan)
    BY <1>4, <2>1
  <2> QED BY <1>2, <1>3, <1>8, <2>2, AlwaysFound
<1>9. CASE Bsky!TakeFirst
  <2>1. phase' \in {"done", "second"}
    BY <1>2, <1>3, <1>9, TakeFirstAccepts
  <2> QED BY <2>1, PlainAccepts
<1>10. CASE Bsky!TakeSecond
  BY <1>2, <1>3, <1>10, TakeSecondAccepts
<1> QED BY <1>5, <1>6, <1>7, <1>8, <1>9, <1>10 DEF Recovering

LEMMA AcceptingStep ==
  ASSUME Carried, Assembling, Accepting, [CarriersNext]_<<machine, vars, bskyVars, orderVars, codeVars>>
  PROVE  Accepting'
<1>1. CASE UNCHANGED bskyVars
  <2>1. UNCHANGED <<phase, size, segs, harm, scan>>
    BY <1>1 DEF bskyVars
  <2>2. CASE phase \in Early \cup {"failed", "image"}
    BY <2>1, <2>2 DEF Accepting
  <2>3. CASE phase \notin Early \cup {"failed", "image"}
    BY <2>1, <2>3, AcceptStays DEF Accepting
  <2> QED BY <2>2, <2>3
<1>2. CASE Bsky!Next
  <2>1. CASE Recovering
    BY <2>1, RecoveringAccepts
  <2>2. CASE Bsky!CheckPayload \/ Bsky!New
    <3>1. phase' \in {"new", "tooLarge", "internal", "push"}
      BY <2>2 DEF Bsky!CheckPayload, Bsky!New, Bsky!Step
    <3> QED BY <3>1, PlainAccepting
  <2>3. CASE Bsky!Packing
    <3>1. phase' \in {"push", "internal"}
      BY <2>3 DEF Bsky!Packing, Bsky!Push, Bsky!PushExif, Bsky!PushFirst, Bsky!PushSecond, Bsky!PushXmp, Bsky!Step
    <3> QED BY <3>1, PlainAccepting
  <2>4. CASE Bsky!Finish
    <3>1. phase' \in {"image", "internal"}
      BY <2>4 DEF Bsky!Finish, Bsky!Step
    <3> QED BY <3>1, PlainAccepting
  <2>5. CASE Bsky!Travelling
    <3>1. phase' = "image"
      BY <2>5 DEF Bsky!Travelling, Bsky!PutIn, Bsky!Drop, Bsky!CutAt, Bsky!AlterSizes
    <3> QED BY <3>1, PlainAccepting
  <2>6. CASE Bsky!Fails
    <3>1. phase' = "failed"
      BY <2>6 DEF Bsky!Fails, Bsky!Step
    <3> QED BY <3>1, PlainAccepting
  <2> QED BY <1>2, <2>1, <2>2, <2>3, <2>4, <2>5, <2>6 DEF Bsky!Next, Recovering
<1> QED BY <1>1, <1>2 DEF CarriersNext

\* A ciphertext that is let in by the foreseen capacity is never refused by the packer,
\* and an undamaged image whose EXIF segment still comes first, with up to Slack bytes
\* of segments put in by other programs, Photoshop and XMP segments of theirs among them
\* if they stand behind ours, is never refused by recover: whatever looks like a
\* signature in the ciphertext, and wherever the reads of the search end
\* (max_bluesky_embedded_cipher_capacity, next to scan_file_windows).
THEOREM BlueskyAccepted == CarriersSpec => []BlueskyIsAccepted
<1>1. CarriersInit => Accepting
  <2>1. CarriersInit => phase = "limits"
    BY DEF CarriersInit, Bsky!Init
  <2> QED BY <2>1 DEF Accepting, Early
<1>2. Carried /\ Assembling /\ Accepting /\ [CarriersNext]_<<machine, vars, bskyVars, orderVars, codeVars>> => Accepting'
  BY AcceptingStep
<1>3. Carried /\ Accepting => BlueskyIsAccepted
  <2>1. Carried => phase # "internal"
    BY DEF Carried
  <2>2. ASSUME Carried, Accepting, harm = "none", Bsky!OthersSize <= Bsky!Slack, Bsky!Unmistakable,
               segs # <<>> => Bsky!OurExif
        PROVE  phase \notin {"notOurs", "refused"}
    <3> SUFFICES ASSUME phase \in {"notOurs", "refused"}
                 PROVE  FALSE
      OBVIOUS
    <3>1. Whole
      BY <2>2 DEF Carried, Travelled, Early
    <3>2. segs # <<>>
      <4>1. PICK a, b, c : Arranged(segs, a, b, c)
        BY <3>1 DEF Whole
      <4>2. a \in 1..Len(segs)
        BY <4>1 DEF Arranged
      <4>3. Len(<<>>) = 0 /\ 1..0 = {}
        OBVIOUS
      <4> QED BY <4>2, <4>3
    <3>3. Favourable
      BY <2>2, <3>2 DEF Favourable
    <3>4. Accept(phase, scan)
      BY <2>2, <3>3 DEF Accepting, Early
    <3> QED BY <3>4 DEF Accept
  <2>3. ASSUME Carried, Accepting
        PROVE  Bsky!BlueskyIsAccepted
    BY <2>1, <2>2, <2>3 DEF Bsky!BlueskyIsAccepted
  <2> QED BY <2>3 DEF BlueskyIsAccepted
<1> QED BY <1>1, <1>2, <1>3, AlwaysAssembling, PTL DEF CarriersSpec
================================================================================
