---------------------------- MODULE ConsoleProofs ----------------------------
(***************************************************************************)
(* What the folds of the host's keyboard (HostInput) and of the console's   *)
(* layout (ConsoleLayout) compute, for sequences of every length, and with  *)
(* that the invariants of HostConsole and ConsoleScreen.                    *)
(*                                                                         *)
(* Induction is over sets of numbers: the least number outside such a set,  *)
(* which WFMin gives, has a predecessor inside it.                          *)
(***************************************************************************)
EXTENDS HostConsole, ConsoleScreen, WellFoundedInduction, TLAPS

-----------------------------------------------------------------------------
(* Induction.                                                              *)

LEMMA SetInduction ==
  ASSUME NEW S, 0 \in S, \A n \in Nat : n \in S => n + 1 \in S
  PROVE  Nat \subseteq S
<1> DEFINE Before == {p \in Nat \X Nat : p[1] < p[2]}
           Out    == Nat \ S
<1>1. SUFFICES ASSUME Out # {} PROVE FALSE
  OBVIOUS
<1>2. IsWellFoundedOn(Before, Nat)
  BY NatLessThanWellFounded DEF OpToRel
<1>3. Out \subseteq Nat
  OBVIOUS
<1>4. PICK x \in Out : \A y \in Out : <<y, x>> \notin Before
  <2> HIDE DEF Before, Out
  <2>1. QED BY <1>1, <1>2, <1>3, WFMin
<1>5. x \in Nat /\ x # 0 /\ x \notin S
  OBVIOUS
<1>6. x - 1 \in Nat /\ (x - 1) + 1 = x
  BY <1>5
<1>7. x - 1 \in Out
  BY <1>5, <1>6
<1>8. <<x - 1, x>> \in Before
  BY <1>5, <1>6
<1>9. QED BY <1>4, <1>7, <1>8

\* The same up to a bound.
LEMMA UpTo ==
  ASSUME NEW N \in Nat, NEW S, 0 \in S, \A n \in 1 .. N : n - 1 \in S => n \in S
  PROVE  0 .. N \subseteq S
<1> DEFINE T == {n \in Nat : n <= N => n \in S}
<1>1. 0 \in T
  OBVIOUS
<1>2. ASSUME NEW n \in Nat, n \in T PROVE n + 1 \in T
  <2>1. CASE n + 1 <= N
    <3>1. n + 1 \in 1 .. N /\ (n + 1) - 1 = n /\ n \in S
      BY <1>2, <2>1
    <3>2. n + 1 \in S
      BY <3>1
    <3>3. QED BY <3>2
  <2>2. CASE ~(n + 1 <= N)
    BY <2>2
  <2>3. QED BY <2>1, <2>2
<1>3. Nat \subseteq T
  <2> HIDE DEF T
  <2>1. QED BY <1>1, <1>2, SetInduction
<1>4. QED BY <1>3

-----------------------------------------------------------------------------
(* Folds: MapThenFoldSet takes the greatest index of a set of indices off.  *)

LEMMA MaxIs ==
  ASSUME NEW n \in Nat, NEW s \in SUBSET (1 .. n), n \in s
  PROVE  Max(s) = n
<1>1. n \in s /\ \A y \in s : n >= y
  OBVIOUS
<1>2. \A x \in s : (\A y \in s : x >= y) => x = n
  OBVIOUS
<1>3. QED BY <1>1, <1>2 DEF Max

\* A set of indices that is not empty has a greatest one.
LEMMA MaxExists ==
  ASSUME NEW N \in Nat, NEW s \in SUBSET (1 .. N), s # {}
  PROVE  Max(s) \in s
<1> DEFINE S == {n \in Nat : \A t \in SUBSET (1 .. n) : t # {} => Max(t) \in t}
<1>1. 0 \in S
  <2>1. SUBSET (1 .. 0) = {{}}
    OBVIOUS
  <2>2. QED BY <2>1
<1>2. ASSUME NEW n \in Nat, n \in S PROVE n + 1 \in S
  <2>1. SUFFICES ASSUME NEW t \in SUBSET (1 .. n + 1), t # {} PROVE Max(t) \in t
    OBVIOUS
  <2>2. CASE n + 1 \in t
    BY <2>2, MaxIs
  <2>3. CASE n + 1 \notin t
    <3>1. t \in SUBSET (1 .. n)
      BY <2>3
    <3>2. QED BY <1>2, <2>1, <3>1
  <2>4. QED BY <2>2, <2>3
<1>3. N \in S
  <2> HIDE DEF S
  <2>1. QED BY <1>1, <1>2, SetInduction
<1>4. QED BY <1>3

LEMMA Peel ==
  ASSUME NEW N \in Nat, NEW n \in 1 .. N
  PROVE  /\ 1 .. n \in SUBSET (1 .. N) /\ 1 .. n # {}
         /\ Max(1 .. n) = n
         /\ (1 .. n) \ {n} = 1 .. n - 1
<1>1. n \in Nat /\ n \in 1 .. n /\ 1 .. n \in SUBSET (1 .. n)
  OBVIOUS
<1>2. Max(1 .. n) = n
  BY <1>1, MaxIs
<1>3. QED BY <1>1, <1>2

\* f folds the indices up to N from base, with a step for each.
IsFold(f, N, base, step) ==
    \A s \in SUBSET (1 .. N) :
      f[s] = IF s = {} THEN base ELSE step[Max(s)][f[s \ {Max(s)}]]

\* The function that the fold is defined by exists.
LEMMA FoldExists ==
  ASSUME NEW N \in Nat, NEW V, NEW base \in V, NEW step \in [1 .. N -> [V -> V]]
  PROVE  \E f \in [SUBSET (1 .. N) -> V] : IsFold(f, N, base, step)
<1> DEFINE Solves(f, n) ==
             /\ f \in [SUBSET (1 .. n) -> V]
             /\ \A s \in SUBSET (1 .. n) :
                  f[s] = IF s = {} THEN base ELSE step[Max(s)][f[s \ {Max(s)}]]
           S == {n \in Nat : n <= N => \E f : Solves(f, n)}
<1>1. 0 \in S
  <2>1. SUBSET (1 .. 0) = {{}}
    OBVIOUS
  <2>2. Solves([s \in SUBSET (1 .. 0) |-> base], 0)
    BY <2>1
  <2>3. QED BY <2>2
<1>2. ASSUME NEW n \in Nat, n \in S PROVE n + 1 \in S
  <2>1. SUFFICES ASSUME n + 1 <= N PROVE \E g : Solves(g, n + 1)
    <3> HIDE DEF Solves
    <3>1. QED OBVIOUS
  <2>2. PICK f : Solves(f, n)
    <3> HIDE DEF Solves
    <3>1. n <= N
      BY <2>1
    <3>2. QED BY <1>2, <3>1
  <2> DEFINE g == [s \in SUBSET (1 .. n + 1) |->
                     IF n + 1 \in s THEN step[n + 1][f[s \ {n + 1}]] ELSE f[s]]
  <2>3. \A s \in SUBSET (1 .. n + 1) :
          /\ n + 1 \notin s => s \in SUBSET (1 .. n)
          /\ s \ {n + 1} \in SUBSET (1 .. n)
    OBVIOUS
  <2>4. g \in [SUBSET (1 .. n + 1) -> V]
    <3>1. step[n + 1] \in [V -> V]
      BY <2>1
    <3>2. QED BY <2>2, <2>3, <3>1
  <2>5. ASSUME NEW s \in SUBSET (1 .. n + 1), n + 1 \in s
        PROVE  g[s] = IF s = {} THEN base ELSE step[Max(s)][g[s \ {Max(s)}]]
    <3>1. Max(s) = n + 1
      BY <2>5, MaxIs
    <3>2. s \ {n + 1} \in SUBSET (1 .. n + 1) /\ n + 1 \notin s \ {n + 1}
      OBVIOUS
    <3>3. g[s \ {n + 1}] = f[s \ {n + 1}]
      BY <3>2
    <3>4. QED BY <2>5, <3>1, <3>3
  <2>6. ASSUME NEW s \in SUBSET (1 .. n + 1), n + 1 \notin s
        PROVE  g[s] = IF s = {} THEN base ELSE step[Max(s)][g[s \ {Max(s)}]]
    <3>1. /\ s \in SUBSET (1 .. n) /\ s \ {Max(s)} \in SUBSET (1 .. n + 1)
          /\ n + 1 \notin s \ {Max(s)}
      BY <2>3, <2>6
    <3>2. g[s] = f[s] /\ g[s \ {Max(s)}] = f[s \ {Max(s)}]
      BY <2>6, <3>1
    <3>3. f[s] = IF s = {} THEN base ELSE step[Max(s)][f[s \ {Max(s)}]]
      BY <2>2, <3>1
    <3>4. QED BY <3>2, <3>3
  <2>7. Solves(g, n + 1)
    BY <2>4, <2>5, <2>6
  <2>8. QED BY <2>7
<1>3. N \in S
  <2> HIDE DEF S
  <2>1. QED BY <1>1, <1>2, SetInduction
<1>4. PICK f : Solves(f, N)
  <2> HIDE DEF Solves
  <2>1. QED BY <1>3
<1>5. QED BY <1>4 DEF IsFold

-----------------------------------------------------------------------------
(* The keyboard, a byte at a time.                                         *)

Keyboard == [pending : BOOLEAN, done : Seq(Byte), forward : Seq(Byte)]

LEMMA WriteByteTyped ==
  ASSUME NEW w \in Keyboard, NEW b \in Byte, NEW open_ \in BOOLEAN
  PROVE  WriteByte(w, b, open_) \in Keyboard
<1>1. Prefix \in Byte /\ Command \subseteq Byte
  BY DEF Byte
<1>2. ASSUME NEW v \in Keyboard, NEW s \in Seq(Byte)
      PROVE  Forward(v, s, open_) \in Keyboard
  <2>1. v.forward \in Seq(Byte) /\ v.forward \o s \in Seq(Byte)
    BY <1>2 DEF Keyboard
  <2>2. QED BY <2>1 DEF Forward, Keyboard
<1>3. <<b>> \in Seq(Byte) /\ <<Prefix, b>> \in Seq(Byte)
  BY <1>1
<1>4. \A p \in BOOLEAN : [w EXCEPT !.pending = p] \in Keyboard
  BY DEF Keyboard
<1>5. [w EXCEPT !.pending = FALSE, !.done = Append(w.done, b)] \in Keyboard
  <2>1. Append(w.done, b) \in Seq(Byte)
    BY DEF Keyboard
  <2>2. QED BY <2>1 DEF Keyboard
<1>6. QED BY <1>2, <1>3, <1>4, <1>5 DEF WriteByte

\* What Write makes of a chunk is the last of the states it goes through.
LEMMA WriteRuns ==
  ASSUME NEW w \in Keyboard, NEW chunk \in Seq(Byte), NEW open_ \in BOOLEAN
  PROVE  \E h : /\ h[0] = w
                /\ \A n \in 1 .. Len(chunk) : h[n] = WriteByte(h[n - 1], chunk[n], open_)
                /\ h[Len(chunk)] = Write(w, chunk, open_)
<1> DEFINE N == Len(chunk)
           step == [n \in 1 .. N |-> [v \in Keyboard |-> WriteByte(v, chunk[n], open_)]]
           Solves(f) == f = [s \in SUBSET DOMAIN chunk |->
                               IF s = {} THEN w
                               ELSE WriteByte(f[s \ {Max(s)}], chunk[Max(s)], open_)]
           f == CHOOSE g : Solves(g)
<1>1. N \in Nat /\ DOMAIN chunk = 1 .. N /\ \A n \in 1 .. N : chunk[n] \in Byte
  OBVIOUS
<1>2. step \in [1 .. N -> [Keyboard -> Keyboard]]
  BY <1>1, WriteByteTyped
<1>3. PICK g \in [SUBSET (1 .. N) -> Keyboard] : IsFold(g, N, w, step)
  <2> HIDE DEF step, N
  <2>1. N \in Nat
    BY <1>1
  <2>2. QED BY <2>1, <1>2, FoldExists
<1>4. Solves(g)
  <2>1. ASSUME NEW s \in SUBSET (1 .. N), s # {}
        PROVE  g[s] = WriteByte(g[s \ {Max(s)}], chunk[Max(s)], open_)
    <3>1. Max(s) \in 1 .. N
      BY <1>1, <2>1, MaxExists
    <3>2. g[s \ {Max(s)}] \in Keyboard
      OBVIOUS
    <3>3. QED BY <1>3, <2>1, <3>1, <3>2 DEF IsFold
  <2>2. g[{}] = w
    BY <1>3 DEF IsFold
  <2>3. QED BY <1>1, <1>3, <2>1, <2>2
<1>5. Solves(f)
  <2> HIDE DEF Solves
  <2>1. QED BY <1>4
<1>6. Write(w, chunk, open_) = f[1 .. N]
  BY <1>1 DEF Write, FoldLeft, MapThenFoldSet
<1> HIDE DEF f
<1> DEFINE h == [n \in 0 .. N |-> f[1 .. n]]
<1>7. h[0] = w
  <2>1. 1 .. 0 = {} /\ {} \in SUBSET DOMAIN chunk
    OBVIOUS
  <2>2. f[{}] = w
    BY <1>5, <2>1
  <2>3. QED BY <1>1, <2>1, <2>2
<1>8. ASSUME NEW n \in 1 .. N PROVE h[n] = WriteByte(h[n - 1], chunk[n], open_)
  <2>1. f[1 .. n] = WriteByte(f[1 .. n - 1], chunk[n], open_)
    <3>1. /\ 1 .. n \in SUBSET DOMAIN chunk /\ 1 .. n # {}
          /\ Max(1 .. n) = n /\ (1 .. n) \ {n} = 1 .. n - 1
      BY <1>1, Peel
    <3>2. \A s \in SUBSET DOMAIN chunk :
            f[s] = IF s = {} THEN w
                   ELSE WriteByte(f[s \ {Max(s)}], chunk[Max(s)], open_)
      BY <1>5
    <3>3. f[1 .. n] = WriteByte(f[(1 .. n) \ {Max(1 .. n)}], chunk[Max(1 .. n)], open_)
      <4> HIDE DEF N
      <4>1. QED BY <3>1, <3>2
    <3>4. QED BY <3>1, <3>3
  <2>2. n \in 0 .. N /\ n - 1 \in 0 .. N
    BY <1>1
  <2>3. QED BY <2>1, <2>2
<1>9. h[N] = Write(w, chunk, open_)
  BY <1>1, <1>6
<1>10. QED BY <1>7, <1>8, <1>9

\* Whatever follows the turns of the loop from w through a chunk ends where
\* Write does.
LEMMA WriteAlong ==
  ASSUME NEW w, NEW chunk \in Seq(Byte), NEW open_ \in BOOLEAN, w \in Keyboard,
         NEW k \in Nat, NEW h, h[k] = w,
         \A n \in 1 .. Len(chunk) :
           h[k + n] = WriteByte(h[k + (n - 1)], chunk[n], open_)
  PROVE  Write(w, chunk, open_) = h[k + Len(chunk)]
<1> DEFINE N == Len(chunk)
<1>1. PICK g : /\ g[0] = w
               /\ \A n \in 1 .. N : g[n] = WriteByte(g[n - 1], chunk[n], open_)
               /\ g[N] = Write(w, chunk, open_)
  BY WriteRuns
<1> DEFINE S == {n \in 0 .. N : g[n] = h[k + n]}
<1>2. N \in Nat
  OBVIOUS
<1>3. 0 \in S
  BY <1>1, <1>2
<1>4. ASSUME NEW n \in 1 .. N, n - 1 \in S PROVE n \in S
  <2>1. g[n] = WriteByte(g[n - 1], chunk[n], open_)
    BY <1>1
  <2>2. h[k + n] = WriteByte(h[k + (n - 1)], chunk[n], open_)
    OBVIOUS
  <2>3. g[n - 1] = h[k + (n - 1)]
    BY <1>4
  <2>4. n \in 0 .. N
    BY <1>2
  <2>5. QED BY <2>1, <2>2, <2>3, <2>4
<1>5. N \in S
  <2> HIDE DEF S, N
  <2>1. 0 .. N \subseteq S
    BY <1>2, <1>3, <1>4, UpTo
  <2>2. QED BY <1>2, <2>1
<1>6. QED BY <1>1, <1>5

\* What FlattenSeq makes of sequences is built up one after another.
LEMMA FlattenRuns ==
  ASSUME NEW X, NEW s \in Seq(Seq(X))
  PROVE  \E d \in [0 .. Len(s) -> Seq(X)] :
           /\ d[0] = <<>>
           /\ \A n \in 1 .. Len(s) : d[n] = d[n - 1] \o s[n]
           /\ d[Len(s)] = FlattenSeq(s)
<1> DEFINE N == Len(s)
           V == Seq(X)
           step == [n \in 1 .. N |-> [v \in V |-> v \o s[n]]]
<1>1. N \in Nat /\ \A n \in 1 .. N : s[n] \in V
  OBVIOUS
<1>2. step \in [1 .. N -> [V -> V]]
  BY <1>1
<1>3. PICK f \in [SUBSET (1 .. N) -> V] : IsFold(f, N, <<>>, step)
  <2>1. <<>> \in V
    OBVIOUS
  <2> HIDE DEF N, V, step
  <2>2. N \in Nat
    BY <1>1
  <2>3. QED BY <2>1, <2>2, <1>2, FoldExists
<1> DEFINE d == [n \in 0 .. N |-> f[1 .. n]]
<1>4. d \in [0 .. N -> V]
  <2>1. ASSUME NEW n \in 0 .. N PROVE 1 .. n \in SUBSET (1 .. N)
    BY <1>1
  <2> HIDE DEF V, N
  <2>2. QED BY <2>1
<1>5. d[0] = <<>>
  <2>1. 1 .. 0 = {} /\ {} \in SUBSET (1 .. N) /\ 0 \in 0 .. N
    BY <1>1
  <2>2. f[{}] = <<>>
    BY <1>3, <2>1 DEF IsFold
  <2>3. QED BY <2>1, <2>2
<1>6. ASSUME NEW n \in 1 .. N PROVE d[n] = d[n - 1] \o s[n]
  <2>1. /\ 1 .. n \in SUBSET (1 .. N) /\ 1 .. n # {}
        /\ Max(1 .. n) = n /\ (1 .. n) \ {n} = 1 .. n - 1
    BY <1>1, Peel
  <2>2. n \in 0 .. N /\ n - 1 \in 0 .. N
    BY <1>1
  <2>3. d[n - 1] \in V
    BY <1>4, <2>2
  <2>4. f[1 .. n] = step[n][f[1 .. n - 1]]
    <3> HIDE DEF step, N
    <3>1. QED BY <1>3, <2>1 DEF IsFold
  <2>5. QED BY <2>2, <2>3, <2>4
<1>7. d[N] = FlattenSeq(s)
  <2>1. CASE N = 0
    BY <2>1, <1>5 DEF FlattenSeq
  <2>2. CASE N # 0
    <3> DEFINE Flat(g) == g = [i \in 1 .. N |-> IF i = 1 THEN s[i] ELSE g[i - 1] \o s[i]]
               e == [i \in 1 .. N |-> d[i]]
               g == CHOOSE x : Flat(x)
    <3>1. ASSUME NEW i \in 1 .. N PROVE e[i] = IF i = 1 THEN s[i] ELSE e[i - 1] \o s[i]
      <4> HIDE DEF d, N
      <4>0. e[i] = d[i]
        OBVIOUS
      <4>1. CASE i = 1
        <5>1. d[1] = d[0] \o s[1]
          <6>1. 1 \in 1 .. N /\ 1 - 1 = 0
            BY <4>1
          <6>2. QED BY <1>6, <6>1
        <5>2. s[1] \in Seq(X)
          BY <1>1, <4>1
        <5>3. d[1] = s[1]
          BY <1>5, <5>1, <5>2
        <5>4. QED BY <4>0, <4>1, <5>3
      <4>2. CASE i # 1
        <5>1. i - 1 \in 1 .. N
          BY <1>1, <4>2
        <5>2. e[i - 1] = d[i - 1]
          BY <5>1
        <5>3. QED BY <1>6, <4>0, <4>2, <5>2
      <4>3. QED BY <4>1, <4>2
    <3>2. Flat(e)
      <4> HIDE DEF d
      <4>1. QED BY <3>1
    <3>3. Flat(g)
      <4> HIDE DEF Flat, e
      <4>1. QED BY <3>2
    <3>4. FlattenSeq(s) = g[N]
      BY <2>2 DEF FlattenSeq
    <3> HIDE DEF g
    <3> DEFINE S == {n \in 0 .. N : n # 0 => g[n] = d[n]}
    <3>5. 0 \in S
      BY <1>1
    <3>6. ASSUME NEW n \in 1 .. N, n - 1 \in S PROVE n \in S
      <4>1. n \in 0 .. N
        BY <1>1
      <4>2. CASE n = 1
        <5>1. g[1] = s[1]
          BY <3>3, <4>2
        <5>2. e[1] = s[1]
          <6> HIDE DEF e, N
          <6>1. QED BY <3>1, <4>2
        <5>3. e[1] = d[1]
          <6> HIDE DEF d
          <6>1. QED BY <4>2
        <5>4. QED BY <4>1, <4>2, <5>1, <5>2, <5>3
      <4>3. CASE n # 1
        <5>1. n - 1 # 0 /\ g[n - 1] = d[n - 1]
          BY <3>6, <4>3
        <5>2. g[n] = g[n - 1] \o s[n]
          BY <3>3, <4>3
        <5>3. d[n] = d[n - 1] \o s[n]
          BY <1>6
        <5>4. QED BY <4>1, <5>1, <5>2, <5>3
      <4>4. QED BY <4>2, <4>3
    <3>7. N \in S
      <4> HIDE DEF S, N
      <4>1. N \in Nat /\ 0 .. N \subseteq S
        BY <1>1, <3>5, <3>6, UpTo
      <4>2. QED BY <4>1
    <3>8. QED BY <2>2, <3>4, <3>7
  <2>3. QED BY <2>1, <2>2
<1>8. QED
  <2> HIDE DEF d
  <2>1. QED BY <1>4, <1>5, <1>6, <1>7

-----------------------------------------------------------------------------
(* What the keyboard means.                                                *)

\* The n keys up to the i-th are a run of prefixes that no prefix precedes.
Run(s, i, n) ==
    /\ n \in 1 .. i
    /\ \A j \in i - n + 1 .. i : s[j] = Prefix
    /\ i > n => s[i - n] # Prefix

LEMMA RunGrows ==
  ASSUME NEW s, NEW i \in Nat, i >= 2, s[i] = Prefix, NEW n, Run(s, i - 1, n)
  PROVE  Run(s, i, n + 1)
<1>1. n \in Nat /\ n >= 1 /\ n <= i - 1
  BY DEF Run
<1>2. n + 1 \in 1 .. i
  BY <1>1
<1>3. ASSUME NEW j \in i - (n + 1) + 1 .. i PROVE s[j] = Prefix
  <2>1. CASE j = i
    BY <2>1
  <2>2. CASE j # i
    <3>1. j \in (i - 1) - n + 1 .. i - 1
      BY <1>1, <2>2
    <3>2. QED BY <3>1 DEF Run
  <2>3. QED BY <2>1, <2>2
<1>4. i > n + 1 => s[i - (n + 1)] # Prefix
  <2>1. i - (n + 1) = (i - 1) - n /\ (i > n + 1 => i - 1 > n)
    BY <1>1
  <2>2. QED BY <2>1 DEF Run
<1>5. QED BY <1>2, <1>3, <1>4 DEF Run

\* A prefix ends a run of prefixes,
LEMMA RunExists ==
  ASSUME NEW s, NEW N \in Nat, NEW i \in 1 .. N, s[i] = Prefix
  PROVE  \E n : Run(s, i, n)
<1> DEFINE S == {m \in Nat : (m >= 1 /\ s[m] = Prefix) => \E n : Run(s, m, n)}
<1>1. 0 \in S
  OBVIOUS
<1>2. ASSUME NEW m \in Nat, m \in S PROVE m + 1 \in S
  <2>1. SUFFICES ASSUME s[m + 1] = Prefix PROVE \E n : Run(s, m + 1, n)
    OBVIOUS
  <2>2. CASE m >= 1 /\ s[m] = Prefix
    <3>1. PICK n : Run(s, m, n)
      BY <1>2, <2>2
    <3>2. m + 1 \in Nat /\ m + 1 >= 2 /\ (m + 1) - 1 = m
      BY <2>2
    <3>3. Run(s, m + 1, n + 1)
      BY <2>1, <3>1, <3>2, RunGrows
    <3>4. QED BY <3>3
  <2>3. CASE ~(m >= 1 /\ s[m] = Prefix)
    <3>1. Run(s, m + 1, 1)
      BY <2>1, <2>3 DEF Run
    <3>2. QED BY <3>1
  <2>4. QED BY <2>2, <2>3
<1>3. i \in S
  <2> HIDE DEF S
  <2>1. QED BY <1>1, <1>2, SetInduction
<1>4. QED BY <1>3

\* and of one only.
LEMMA RunUnique ==
  ASSUME NEW s, NEW i \in Nat, NEW n, NEW m, Run(s, i, n), Run(s, i, m)
  PROVE  n = m
<1>1. n \in 1 .. i /\ m \in 1 .. i
  BY DEF Run
<1>2. ASSUME NEW a \in 1 .. i, NEW b \in 1 .. i, Run(s, i, a), Run(s, i, b), a < b
      PROVE  FALSE
  <2>1. i > a /\ i - a \in i - b + 1 .. i
    BY <1>2
  <2>2. s[i - a] # Prefix
    BY <1>2, <2>1 DEF Run
  <2>3. s[i - a] = Prefix
    BY <1>2, <2>1 DEF Run
  <2>4. QED BY <2>2, <2>3
<1>3. ~(n < m) /\ ~(m < n)
  BY <1>1, <1>2
<1>4. QED BY <1>1, <1>3

LEMMA OpensByRun ==
  ASSUME NEW s \in Seq(Byte), NEW i \in 1 .. Len(s), NEW n, Run(s, i, n)
  PROVE  Opens(s, i) <=> n % 2 = 1
<1>1. i \in Nat /\ i \in DOMAIN s /\ n \in 1 .. i
  BY DEF Run
<1>2. s[i] = Prefix
  <2>1. i \in i - n + 1 .. i
    BY <1>1
  <2>2. QED BY <2>1 DEF Run
<1>3. Opens(s, i) <=> \E m \in 1 .. i : m % 2 = 1 /\ Run(s, i, m)
  BY <1>1, <1>2 DEF Opens, Run
<1>4. \A m \in 1 .. i : Run(s, i, m) => m = n
  BY <1>1, RunUnique
<1>5. QED BY <1>1, <1>3, <1>4

\* A prefix opens a command unless it is the one that the prefix before opened.
LEMMA OpensNext ==
  ASSUME NEW s \in Seq(Byte)
  PROVE  /\ ~Opens(s, 0)
         /\ \A i \in 1 .. Len(s) : Opens(s, i) <=> s[i] = Prefix /\ ~Opens(s, i - 1)
<1>1. ~Opens(s, 0)
  BY DEF Opens
<1>2. ASSUME NEW i \in 1 .. Len(s)
      PROVE  Opens(s, i) <=> s[i] = Prefix /\ ~Opens(s, i - 1)
  <2>0. i \in Nat /\ Len(s) \in Nat
    OBVIOUS
  <2>1. CASE s[i] # Prefix
    BY <2>1 DEF Opens
  <2>2. CASE s[i] = Prefix /\ (i = 1 \/ s[i - 1] # Prefix)
    <3>1. ~Opens(s, i - 1)
      BY <1>1, <2>2 DEF Opens
    <3>2. Run(s, i, 1)
      BY <2>0, <2>2 DEF Run
    <3>3. Opens(s, i)
      BY <3>2, OpensByRun
    <3>4. QED BY <2>2, <3>1, <3>3
  <2>3. CASE s[i] = Prefix /\ i # 1 /\ s[i - 1] = Prefix
    <3>1. i - 1 \in 1 .. Len(s) /\ i >= 2 /\ i - 1 \in Nat
      BY <2>0, <2>3
    <3>2. PICK n : Run(s, i - 1, n)
      BY <2>0, <2>3, <3>1, RunExists
    <3>3. Run(s, i, n + 1)
      BY <2>0, <2>3, <3>1, <3>2, RunGrows
    <3>4. Opens(s, i - 1) <=> n % 2 = 1
      BY <3>1, <3>2, OpensByRun
    <3>5. Opens(s, i) <=> (n + 1) % 2 = 1
      BY <3>3, OpensByRun
    <3>6. n \in Nat
      BY <3>1, <3>2 DEF Run
    <3>7. (n + 1) % 2 = 1 <=> ~(n % 2 = 1)
      BY <3>6
    <3>8. QED BY <2>3, <3>4, <3>5, <3>7
  <2>4. QED BY <2>1, <2>2, <2>3
<1>3. QED BY <1>1, <1>2

LEMMA SameKeyboard ==
  ASSUME NEW v \in Keyboard, NEW w \in Keyboard,
         v.pending = w.pending, v.done = w.done, v.forward = w.forward
  PROVE  v = w
BY DEF Keyboard

\* What a turn of the loop makes of each part of the writer.
LEMMA TurnOfTheLoop ==
  ASSUME NEW w \in Keyboard, NEW b \in Byte, NEW open_ \in BOOLEAN
  PROVE  LET v == WriteByte(w, b, open_) IN
         /\ v.pending = (~w.pending /\ b = Prefix)
         /\ v.done = IF w.pending /\ b \in Command THEN Append(w.done, b) ELSE w.done
         /\ v.forward = IF w.pending
                          THEN IF open_ /\ b \notin Command
                                 THEN w.forward \o <<Prefix, b>> ELSE w.forward
                          ELSE IF open_ /\ b # Prefix
                                 THEN w.forward \o <<b>> ELSE w.forward
<1>1. CASE w.pending /\ b \in Command
  BY <1>1 DEF WriteByte, Keyboard
<1>2. CASE w.pending /\ b \notin Command
  BY <1>2 DEF WriteByte, Forward, Keyboard
<1>3. CASE ~w.pending /\ b = Prefix
  BY <1>3 DEF WriteByte, Keyboard
<1>4. CASE ~w.pending /\ b # Prefix
  BY <1>4 DEF WriteByte, Forward, Keyboard
<1>5. QED BY <1>1, <1>2, <1>3, <1>4

\* What the writer has come to after n keys, if d and f are what the commands
\* and the other bytes have come to.
After(s, d, f, open_, n) ==
    [pending |-> Opens(s, n), done |-> d[n], forward |-> IF open_ THEN f[n] ELSE <<>>]

Done(s)   == [i \in DOMAIN s |-> IF i \in Commands(s) THEN <<s[i]>> ELSE <<>>]
Passed(s) == [i \in DOMAIN s |-> Through(s, i)]

LEMMA AfterTyped ==
  ASSUME NEW s, NEW open_ \in BOOLEAN, NEW N \in Nat,
         NEW d \in [0 .. N -> Seq(Byte)], NEW f \in [0 .. N -> Seq(Byte)], NEW n \in 0 .. N
  PROVE  After(s, d, f, open_, n) \in Keyboard
BY DEF After, Keyboard, Opens

\* Each key has the effect on the writer that it has on the meaning.
LEMMA KeyByKey ==
  ASSUME NEW s \in Seq(Byte), NEW open_ \in BOOLEAN,
         NEW d \in [0 .. Len(s) -> Seq(Byte)], NEW f \in [0 .. Len(s) -> Seq(Byte)],
         NEW n \in 1 .. Len(s),
         d[n] = d[n - 1] \o Done(s)[n], f[n] = f[n - 1] \o Passed(s)[n]
  PROVE  After(s, d, f, open_, n) = WriteByte(After(s, d, f, open_, n - 1), s[n], open_)
<1> DEFINE w == After(s, d, f, open_, n - 1)
           v == After(s, d, f, open_, n)
           u == WriteByte(w, s[n], open_)
<1>1. n \in DOMAIN s /\ s[n] \in Byte /\ n - 1 \in 0 .. Len(s) /\ n \in 0 .. Len(s)
  OBVIOUS
<1>2. d[n - 1] \in Seq(Byte) /\ f[n - 1] \in Seq(Byte)
  BY <1>1
<1>3. Opens(s, n) = (s[n] = Prefix /\ ~Opens(s, n - 1))
  <2>1. Opens(s, n) <=> s[n] = Prefix /\ ~Opens(s, n - 1)
    BY OpensNext
  <2>2. Opens(s, n) \in BOOLEAN
    BY DEF Opens
  <2>3. QED BY <2>1, <2>2
<1>4. n \in Commands(s) <=> Opens(s, n - 1) /\ s[n] \in Command
  BY <1>1 DEF Commands
<1>5. /\ d[n] = d[n - 1] \o (IF n \in Commands(s) THEN <<s[n]>> ELSE <<>>)
      /\ f[n] = f[n - 1] \o Through(s, n)
  BY <1>1 DEF Done, Passed
<1>6. /\ d[n - 1] \o <<>> = d[n - 1] /\ f[n - 1] \o <<>> = f[n - 1]
      /\ d[n - 1] \o <<s[n]>> = Append(d[n - 1], s[n])
  BY <1>1, <1>2
<1>7. v \in Keyboard /\ w \in Keyboard
  <2> HIDE DEF v, w
  <2>1. Len(s) \in Nat
    OBVIOUS
  <2>2. QED BY <1>1, <2>1, AfterTyped DEF v, w
<1>8. u \in Keyboard
  BY <1>1, <1>7, WriteByteTyped
<1>9. /\ w.pending = Opens(s, n - 1) /\ w.done = d[n - 1]
      /\ w.forward = IF open_ THEN f[n - 1] ELSE <<>>
  BY DEF After
<1>10. /\ v.pending = Opens(s, n) /\ v.done = d[n]
       /\ v.forward = IF open_ THEN f[n] ELSE <<>>
  BY DEF After
<1> HIDE DEF v, w
<1>11. /\ u.pending = (~w.pending /\ s[n] = Prefix)
       /\ u.done = IF w.pending /\ s[n] \in Command THEN Append(w.done, s[n]) ELSE w.done
       /\ u.forward = IF w.pending
                        THEN IF open_ /\ s[n] \notin Command
                               THEN w.forward \o <<Prefix, s[n]>> ELSE w.forward
                        ELSE IF open_ /\ s[n] # Prefix
                               THEN w.forward \o <<s[n]>> ELSE w.forward
  BY <1>1, <1>7, TurnOfTheLoop
<1> HIDE DEF u
<1>12. u.pending = v.pending
  BY <1>3, <1>9, <1>10, <1>11
<1>13. u.done = v.done
  BY <1>4, <1>5, <1>6, <1>9, <1>10, <1>11
<1>14. u.forward = v.forward
  <2>1. f[n] = IF Opens(s, n - 1)
                 THEN IF s[n] \in Command THEN f[n - 1] ELSE f[n - 1] \o <<Prefix, s[n]>>
                 ELSE IF s[n] = Prefix THEN f[n - 1] ELSE f[n - 1] \o <<s[n]>>
    BY <1>3, <1>4, <1>5, <1>6 DEF Through
  <2>2. QED BY <1>9, <1>10, <1>11, <2>1
<1>15. QED
  <2>1. u = v
    BY <1>7, <1>8, <1>12, <1>13, <1>14, SameKeyboard
  <2>2. QED BY <2>1 DEF u, v, w

\* The states that the keys s take an idle writer through, to what they mean.
LEMMA MeaningRuns ==
  ASSUME NEW s \in Seq(Byte), NEW open_ \in BOOLEAN
  PROVE  \E h \in [0 .. Len(s) -> Keyboard] :
           /\ h[0] = Idle(FALSE)
           /\ \A n \in 1 .. Len(s) : h[n] = WriteByte(h[n - 1], s[n], open_)
           /\ Len(s) > 0 /\ s[1] = Prefix => h[1] = Idle(TRUE)
           /\ h[Len(s)] = Meaning(s, open_)
<1>0. Len(s) \in Nat /\ DOMAIN s = 1 .. Len(s) /\ \A n \in 1 .. Len(s) : s[n] \in Byte
  OBVIOUS
<1>1. Done(s) \in Seq(Seq(Byte)) /\ Len(Done(s)) = Len(s)
  <2>1. \A i \in 1 .. Len(s) :
          (IF i \in Commands(s) THEN <<s[i]>> ELSE <<>>) \in Seq(Byte)
    BY <1>0
  <2>2. QED BY <1>0, <2>1 DEF Done
<1>2. Passed(s) \in Seq(Seq(Byte)) /\ Len(Passed(s)) = Len(s)
  <2>1. Prefix \in Byte
    BY DEF Byte
  <2>2. \A i \in 1 .. Len(s) : Through(s, i) \in Seq(Byte)
    BY <1>0, <2>1 DEF Through
  <2>3. QED BY <1>0, <2>2 DEF Passed
<1>3. PICK d \in [0 .. Len(s) -> Seq(Byte)] :
        /\ d[0] = <<>>
        /\ \A n \in 1 .. Len(s) : d[n] = d[n - 1] \o Done(s)[n]
        /\ d[Len(s)] = FlattenSeq(Done(s))
  BY <1>1, FlattenRuns
<1>4. PICK f \in [0 .. Len(s) -> Seq(Byte)] :
        /\ f[0] = <<>>
        /\ \A n \in 1 .. Len(s) : f[n] = f[n - 1] \o Passed(s)[n]
        /\ f[Len(s)] = FlattenSeq(Passed(s))
  BY <1>2, FlattenRuns
<1> DEFINE h == [n \in 0 .. Len(s) |-> After(s, d, f, open_, n)]
<1>5. \A n \in 0 .. Len(s) : After(s, d, f, open_, n) \in Keyboard
  BY <1>0, AfterTyped
<1>6. h[0] = Idle(FALSE)
  <2>1. Opens(s, 0) = FALSE
    BY OpensNext DEF Opens
  <2>2. 0 \in 0 .. Len(s)
    BY <1>0
  <2>3. QED BY <1>3, <1>4, <2>1, <2>2 DEF After, Idle
<1>7. ASSUME NEW n \in 1 .. Len(s) PROVE h[n] = WriteByte(h[n - 1], s[n], open_)
  <2>1. n \in 0 .. Len(s) /\ n - 1 \in 0 .. Len(s)
    BY <1>0
  <2>2. After(s, d, f, open_, n) = WriteByte(After(s, d, f, open_, n - 1), s[n], open_)
    BY <1>3, <1>4, KeyByKey
  <2>3. QED BY <2>1, <2>2
<1>8. ASSUME Len(s) > 0, s[1] = Prefix PROVE h[1] = Idle(TRUE)
  <2>1. h[1] = WriteByte(h[0], s[1], open_)
    <3>1. 1 \in 1 .. Len(s) /\ 1 - 1 = 0
      BY <1>0, <1>8
    <3> HIDE DEF h
    <3>2. QED BY <1>7, <3>1
  <2>2. WriteByte(Idle(FALSE), s[1], open_) = Idle(TRUE)
    BY <1>8 DEF WriteByte, Idle
  <2> HIDE DEF h
  <2>3. QED BY <1>6, <2>1, <2>2
<1>9. h[Len(s)] = Meaning(s, open_)
  <2>1. Len(s) \in 0 .. Len(s)
    BY <1>0
  <2>2. QED BY <1>3, <1>4, <2>1 DEF After, Meaning, Done, Passed
<1>10. QED
  <2>1. h \in [0 .. Len(s) -> Keyboard]
    BY <1>5
  <2> HIDE DEF h
  <2>2. QED BY <2>1, <1>6, <1>7, <1>8, <1>9

\* However the keys come in two chunks, and whether or not a prefix is pending,
\* Write makes of them what they mean.
THEOREM WriteMeans ==
  ASSUME NEW p \in BOOLEAN, NEW open_ \in BOOLEAN,
         NEW typed \in Seq(Byte), NEW cut \in 0 .. Len(typed)
  PROVE  Write(Write(Idle(p), SubSeq(typed, 1, cut), open_),
               SubSeq(typed, cut + 1, Len(typed)), open_)
           = Meaning(IF p THEN <<Prefix>> \o typed ELSE typed, open_)
<1> DEFINE L == Len(typed)
           k == IF p THEN 1 ELSE 0
           s == IF p THEN <<Prefix>> \o typed ELSE typed
           first == SubSeq(typed, 1, cut)
           second == SubSeq(typed, cut + 1, L)
<1>1. /\ L \in Nat /\ cut \in Nat /\ k \in 0 .. 1 /\ k \in Nat
      /\ \A n \in 1 .. L : typed[n] \in Byte
  OBVIOUS
<1>2. Prefix \in Byte
  BY DEF Byte
<1>3. s \in Seq(Byte) /\ Len(s) = k + L
  BY <1>2
<1>4. \A n \in 1 .. L : s[k + n] = typed[n]
  OBVIOUS
<1>5. /\ first \in Seq(Byte) /\ Len(first) = cut
      /\ \A n \in 1 .. cut : first[n] = typed[n]
  OBVIOUS
<1>6. /\ second \in Seq(Byte) /\ Len(second) = L - cut
      /\ \A n \in 1 .. L - cut : second[n] = typed[cut + n]
  OBVIOUS
<1>7. PICK h \in [0 .. Len(s) -> Keyboard] :
        /\ h[0] = Idle(FALSE)
        /\ \A n \in 1 .. Len(s) : h[n] = WriteByte(h[n - 1], s[n], open_)
        /\ Len(s) > 0 /\ s[1] = Prefix => h[1] = Idle(TRUE)
        /\ h[Len(s)] = Meaning(s, open_)
  <2> HIDE DEF s
  <2>1. QED BY <1>3, MeaningRuns
<1>8. h[k] = Idle(p)
  <2>1. CASE p
    <3>1. s[1] = Prefix /\ Len(s) > 0
      BY <1>1, <1>3, <2>1
    <3>2. QED BY <1>7, <2>1, <3>1
  <2>2. CASE ~p
    BY <1>7, <2>2
  <2>3. QED BY <2>1, <2>2
<1> HIDE DEF k, s, first, second, L
<1>9. \A n \in 0 .. k + L : h[n] \in Keyboard
  BY <1>3
<1>10. \A n \in 1 .. L : h[k + n] = WriteByte(h[k + (n - 1)], typed[n], open_)
  <2>1. TAKE n \in 1 .. L
  <2>2. k + n \in 1 .. Len(s) /\ (k + n) - 1 = k + (n - 1)
    BY <1>1, <1>3
  <2>3. QED BY <1>4, <1>7, <2>2
<1>11. Write(Idle(p), first, open_) = h[k + cut]
  <2>1. h[k] \in Keyboard
    BY <1>1, <1>9 DEF L
  <2>2. \A n \in 1 .. Len(first) : h[k + n] = WriteByte(h[k + (n - 1)], first[n], open_)
    <3>1. TAKE n \in 1 .. Len(first)
    <3>2. n \in 1 .. cut /\ n \in 1 .. L
      BY <1>1, <1>5 DEF L
    <3>3. QED BY <1>5, <1>10, <3>2
  <2>3. first \in Seq(Byte) /\ k \in Nat
    BY <1>1, <1>5
  <2>4. Write(h[k], first, open_) = h[k + Len(first)]
    BY <2>1, <2>2, <2>3, WriteAlong, Zenon
  <2>5. QED BY <1>5, <1>8, <2>4
<1>12. Write(h[k + cut], second, open_) = h[(k + cut) + Len(second)]
  <2>1. h[k + cut] \in Keyboard /\ k + cut \in Nat
    BY <1>1, <1>9 DEF L
  <2>2. \A n \in 1 .. Len(second) :
          h[(k + cut) + n] = WriteByte(h[(k + cut) + (n - 1)], second[n], open_)
    <3>1. TAKE n \in 1 .. Len(second)
    <3>2. n \in 1 .. L - cut /\ cut + n \in 1 .. L
      BY <1>1, <1>6
    <3>3. /\ k + (cut + n) = (k + cut) + n
          /\ k + ((cut + n) - 1) = (k + cut) + (n - 1)
      BY <1>1, <3>2
    <3>4. h[k + (cut + n)] = WriteByte(h[k + ((cut + n) - 1)], typed[cut + n], open_)
      BY <1>10, <3>2
    <3>5. QED BY <1>6, <3>2, <3>3, <3>4
  <2>3. second \in Seq(Byte)
    BY <1>6
  <2> DEFINE m == k + cut
  <2> HIDE DEF m
  <2>4. Write(h[m], second, open_) = h[m + Len(second)]
    BY <2>1, <2>2, <2>3, WriteAlong, Zenon DEF m
  <2>5. QED BY <2>4 DEF m
<1>13. (k + cut) + Len(second) = Len(s)
  BY <1>1, <1>3, <1>6
<1>14. QED BY <1>7, <1>11, <1>12, <1>13 DEF s, first, second, L

-----------------------------------------------------------------------------
(* HostConsole.                                                            *)

\* The gate and the pending prefix are flags: all that the meaning of the
\* host's keys depends on.
Flags == gate \in BOOLEAN /\ prefixPending \in BOOLEAN

\* A write leaves a flag behind.
LEMMA PendingIsAFlag ==
  ASSUME NEW p \in BOOLEAN, NEW open_ \in BOOLEAN, NEW chunk \in Seq(Byte)
  PROVE  Write(Idle(p), chunk, open_).pending \in BOOLEAN
<1>1. Len(chunk) \in Nat /\ 0 \in 0 .. Len(chunk)
  OBVIOUS
<1>2. Idle(p) \in Keyboard
  BY DEF Idle, Keyboard
<1>3. PICK h : /\ h[0] = Idle(p)
               /\ \A n \in 1 .. Len(chunk) : h[n] = WriteByte(h[n - 1], chunk[n], open_)
               /\ h[Len(chunk)] = Write(Idle(p), chunk, open_)
  BY <1>2, WriteRuns
<1> DEFINE S == {n \in 0 .. Len(chunk) : h[n] \in Keyboard}
<1>4. 0 \in S
  BY <1>1, <1>2, <1>3
<1>5. ASSUME NEW n \in 1 .. Len(chunk), n - 1 \in S PROVE n \in S
  <2>1. chunk[n] \in Byte /\ n \in 0 .. Len(chunk)
    OBVIOUS
  <2>2. h[n - 1] \in Keyboard
    BY <1>5
  <2>3. QED BY <1>3, <2>1, <2>2, WriteByteTyped
<1>6. Len(chunk) \in S
  <2> HIDE DEF S
  <2>1. 0 .. Len(chunk) \subseteq S
    BY <1>1, <1>4, <1>5, UpTo
  <2>2. Len(chunk) \in 0 .. Len(chunk)
    BY <1>1
  <2>3. QED BY <2>1, <2>2
<1>7. Write(Idle(p), chunk, open_) \in Keyboard
  BY <1>3, <1>6
<1>8. QED BY <1>7 DEF Keyboard

LEMMA ChunkIsKeys ==
  ASSUME NEW chunk \in Chunk
  PROVE  chunk \in Seq(Byte)
BY ConsoleAssumption DEF Chunk

LEMMA FlagsInit == Init => Flags
BY DEF Init, Flags

LEMMA FlagsNext == Flags /\ [Next]_vars => Flags'
<1> SUFFICES ASSUME Flags, [Next]_vars PROVE Flags'
  OBVIOUS
<1>1. CASE UNCHANGED vars
  BY <1>1 DEF vars, Flags
<1>2. CASE ControlChanged
  BY <1>2 DEF ControlChanged, Flags
<1>3. ASSUME NEW chunk \in Chunk, Type(chunk) PROVE Flags'
  BY <1>3, ChunkIsKeys, PendingIsAFlag DEF Type, Flags
<1>4. CASE Presence \/ ChatMessage \/ LoseRelay \/ LoopEnds \/ SoftKill \/ CloseServer \/ Quit
  BY <1>4 DEF Presence, ChatMessage, LoseRelay, LoopEnds, SoftKill, CloseServer, Quit, Flags
<1>5. ASSUME NEW r \in Request,
             Serve(r) \/ Fail(r) \/ SnapshotMsg(r) \/ RefreshMsg(r) \/ ActionKey(r)
      PROVE  Flags'
  BY <1>5 DEF Serve, InvokeReclaim, InvokeKill, Answer, Fail, SnapshotMsg, RefreshMsg,
              ActionKey, Flags
<1>6. QED BY <1>1, <1>2, <1>3, <1>4, <1>5 DEF Next

\* In every state that the host and its console reach, whatever the host types,
\* and however a read cuts it in two, gatedWriter carries out the same commands
\* and forwards the same bytes as its sequence means: the prefix that one write
\* ends with is honoured by the next.
THEOREM CommandsFound == Spec => []CommandsAreChunkBlind
<1>1. Flags => CommandsAreChunkBlind
  <2>1. SUFFICES ASSUME Flags, NEW typed \in Chunk, NEW cut \in 0 .. Len(typed)
        PROVE  Write(Write(Idle(prefixPending), SubSeq(typed, 1, cut), gate),
                     SubSeq(typed, cut + 1, Len(typed)), gate)
                 = Meaning(IF prefixPending THEN <<Prefix>> \o typed ELSE typed, gate)
    BY DEF CommandsAreChunkBlind
  <2>2. QED BY <2>1, ChunkIsKeys, WriteMeans DEF Flags
<1>2. QED BY <1>1, FlagsInit, FlagsNext, PTL DEF Spec

\* What the status says of the connection is what the loop makes of it.
LiveUntilTheLoopEnds == status.live = (link # "ended")

\* Some chain of requests is always under way or has its next tick due.
PollingGoesOn == \E r \in Request : request[r] # "none"

Stages == {"none", "tick", "asking", "reclaim", "kill", "fresh", "stale", "error"}

HostInv ==
    /\ "live" \in DOMAIN status /\ LiveUntilTheLoopEnds
    /\ link \in {"up", "down", "ended"} /\ server \in {"open", "closed"}
    /\ request \in [Request -> Stages] /\ PollingGoesOn

\* No note of what happens touches the flag; only the end of the loop does.
LEMMA NotesKeepLive ==
  ASSUME NEW s, "live" \in DOMAIN s
  PROVE  /\ \A new : LET t == AppendEvents(s, new) IN
                     "live" \in DOMAIN t /\ t.live = s.live
         /\ \A roster, writers : LET t == UpdatePresence(s, roster, writers) IN
                                 "live" \in DOMAIN t /\ t.live = s.live
         /\ \A w : LET t == UpdateControl(s, w) IN
                   "live" \in DOMAIN t /\ t.live = s.live
         /\ LET t == SetDisconnected(s) IN "live" \in DOMAIN t /\ t.live = FALSE
<1>1. ASSUME NEW t, "live" \in DOMAIN t, NEW new
      PROVE  "live" \in DOMAIN AppendEvents(t, new) /\ AppendEvents(t, new).live = t.live
  BY <1>1 DEF AppendEvents
<1>2. ASSUME NEW roster, NEW writers
      PROVE  LET t == UpdatePresence(s, roster, writers) IN
             "live" \in DOMAIN t /\ t.live = s.live
  <2> DEFINE w == IF writers = {} THEN s.writer ELSE CHOOSE x \in writers : TRUE
             u == [s EXCEPT !.viewers = roster, !.writer = w]
  <2>1. "live" \in DOMAIN u /\ u.live = s.live
    <3> HIDE DEF w
    <3>1. QED OBVIOUS
  <2>2. UpdatePresence(s, roster, writers)
          = AppendEvents(u, [i \in 1 .. Cardinality(roster \ s.viewers) |-> "joined"])
    BY DEF UpdatePresence
  <2> HIDE DEF u
  <2>3. QED BY <1>1, <2>1, <2>2
<1>3. ASSUME NEW w
      PROVE  LET t == UpdateControl(s, w) IN "live" \in DOMAIN t /\ t.live = s.live
  <2> DEFINE u == [s EXCEPT !.writer = w]
             new == IF w = s.writer THEN <<>>
                    ELSE IF w = Host THEN <<"reclaimed">> ELSE <<"took control">>
  <2>1. "live" \in DOMAIN u /\ u.live = s.live
    OBVIOUS
  <2>2. UpdateControl(s, w) = AppendEvents(u, new)
    BY DEF UpdateControl
  <2> HIDE DEF u, new
  <2>3. QED BY <1>1, <2>1, <2>2
<1>4. LET t == SetDisconnected(s) IN "live" \in DOMAIN t /\ t.live = FALSE
  BY DEF SetDisconnected
<1>5. QED BY <1>1, <1>2, <1>3, <1>4

\* A new status turns fresh answers into stale ones, and ends no chain.
LEMMA ChainsGoOn ==
  ASSUME HostInv, NEW s, SetStatus(s)
  PROVE  status' = s /\ request' \in [Request -> Stages] /\ PollingGoesOn'
<1>1. CASE s = status
  BY <1>1 DEF SetStatus, HostInv, PollingGoesOn
<1>2. CASE s # status
  <2>1. request' = [r \in Request |-> IF request[r] = "fresh" THEN "stale" ELSE request[r]]
    BY <1>2 DEF SetStatus
  <2>2. request' \in [Request -> Stages]
    BY <2>1 DEF HostInv, Stages
  <2>3. PICK r \in Request : request[r] # "none"
    BY DEF HostInv, PollingGoesOn
  <2>4. request'[r] # "none"
    BY <2>1, <2>3
  <2>5. QED BY <2>2, <2>4 DEF SetStatus, PollingGoesOn
<1>3. QED BY <1>1, <1>2

LEMMA HostInvInit == Init => HostInv
<1> SUFFICES ASSUME Init PROVE HostInv
  OBVIOUS
<1>1. "live" \in DOMAIN status /\ status.live = TRUE
  BY DEF Init, NewStatus
<1>2. PICK r \in Request : request = [q \in Request |-> IF q = r THEN "asking" ELSE "none"]
  BY DEF Init
<1>3. request \in [Request -> Stages] /\ request[r] = "asking"
  BY <1>2 DEF Stages
<1>4. QED BY <1>1, <1>3 DEF Init, HostInv, LiveUntilTheLoopEnds, PollingGoesOn

LEMMA HostInvNext == HostInv /\ [Next]_vars => HostInv'
<1> SUFFICES ASSUME HostInv, [Next]_vars PROVE HostInv'
  OBVIOUS
<1>1. "live" \in DOMAIN status /\ LiveUntilTheLoopEnds
  BY DEF HostInv
\* A step that notes something.
<1>2. ASSUME NEW s, SetStatus(s), "live" \in DOMAIN s, s.live = status.live,
             UNCHANGED <<link, server>>
      PROVE  HostInv'
  <2>1. status' = s /\ request' \in [Request -> Stages] /\ PollingGoesOn'
    BY <1>2, ChainsGoOn
  <2>2. QED BY <1>1, <1>2, <2>1 DEF HostInv, LiveUntilTheLoopEnds
\* A step of one chain.
<1>3. ASSUME NEW r \in Request, NEW s, NEW t \in Stages \ {"none"}, At(r, s, t),
             UNCHANGED <<link, server, status>>
      PROVE  HostInv'
  <2>1. request' = [request EXCEPT ![r] = t]
    BY <1>3 DEF At
  <2>2. request' \in [Request -> Stages] /\ request'[r] # "none"
    BY <1>3, <2>1 DEF HostInv
  <2>3. QED BY <1>1, <1>3, <2>2 DEF HostInv, LiveUntilTheLoopEnds, PollingGoesOn
<1>4. CASE UNCHANGED vars
  BY <1>4 DEF vars, consoleVars, HostInv, LiveUntilTheLoopEnds, PollingGoesOn
<1>5. CASE Presence
  <2>1. PICK roster, writers : SetStatus(UpdatePresence(status, roster, writers))
    BY <1>5 DEF Presence
  <2>2. UNCHANGED <<link, server>>
    BY <1>5 DEF Presence
  <2>3. QED BY <1>1, <1>2, <2>1, <2>2, NotesKeepLive
<1>6. CASE ControlChanged
  <2>1. PICK w : SetStatus(UpdateControl(status, w))
    BY <1>6 DEF ControlChanged
  <2>2. UNCHANGED <<link, server>>
    BY <1>6 DEF ControlChanged
  <2>3. QED BY <1>1, <1>2, <2>1, <2>2, NotesKeepLive
<1>7. CASE ChatMessage \/ SoftKill
  <2>1. PICK new : SetStatus(AppendEvents(status, new))
    BY <1>7 DEF ChatMessage, SoftKill, NoteChat, NoteKillSwitch
  <2>2. UNCHANGED <<link, server>>
    BY <1>7 DEF ChatMessage, SoftKill
  <2>3. QED BY <1>1, <1>2, <2>1, <2>2, NotesKeepLive
<1>8. CASE LoseRelay
  BY <1>8 DEF LoseRelay, consoleVars, HostInv, LiveUntilTheLoopEnds, PollingGoesOn
<1>9. CASE LoopEnds
  <2>1. /\ SetStatus(SetDisconnected(status)) /\ link' = "ended" /\ UNCHANGED server
    BY <1>9 DEF LoopEnds
  <2>2. /\ status' = SetDisconnected(status)
        /\ request' \in [Request -> Stages] /\ PollingGoesOn'
    BY <2>1, ChainsGoOn
  <2>3. "live" \in DOMAIN status' /\ status'.live = FALSE
    BY <1>1, <2>2, NotesKeepLive
  <2>4. QED BY <2>1, <2>2, <2>3 DEF HostInv, LiveUntilTheLoopEnds
<1>10. CASE (\E chunk \in Chunk : Type(chunk)) \/ CloseServer \/ Quit
  BY <1>10 DEF Type, CloseServer, Quit, consoleVars, HostInv, LiveUntilTheLoopEnds,
               PollingGoesOn
<1>11. ASSUME NEW r \in Request, InvokeKill(r) PROVE HostInv'
  <2>1. CASE status' = NoteKillSwitch(status) /\ request' = [q \in Request |->
                           IF q = r THEN "asking"
                           ELSE IF request[q] = "fresh" THEN "stale" ELSE request[q]]
    <3>1. "live" \in DOMAIN status' /\ status'.live = status.live
      BY <1>1, <2>1, NotesKeepLive DEF NoteKillSwitch
    <3>2. request' \in [Request -> Stages] /\ request'[r] # "none"
      BY <2>1 DEF HostInv, Stages
    <3>3. UNCHANGED <<link, server>>
      BY <1>11 DEF InvokeKill
    <3>4. QED BY <1>1, <3>1, <3>2, <3>3 DEF HostInv, LiveUntilTheLoopEnds, PollingGoesOn
  <2>2. CASE At(r, "kill", "error") /\ UNCHANGED status
    BY <1>3, <1>11, <2>2 DEF InvokeKill, Stages
  <2>3. QED BY <1>11, <2>1, <2>2 DEF InvokeKill
<1>12. ASSUME NEW r \in Request, InvokeReclaim(r) \/ Answer(r) \/ Fail(r) PROVE HostInv'
  <2>1. UNCHANGED <<link, server, status>>
    BY <1>12 DEF InvokeReclaim, Answer, Fail
  <2>2. \E s, t \in Stages \ {"none"} : At(r, s, t)
    BY <1>12 DEF InvokeReclaim, Answer, Fail, Stages
  <2>3. QED BY <1>3, <2>1, <2>2
<1>13. ASSUME NEW r \in Request, SnapshotMsg(r) \/ RefreshMsg(r) \/ ActionKey(r) PROVE HostInv'
  <2>1. UNCHANGED <<link, server, status>>
    BY <1>13 DEF SnapshotMsg, RefreshMsg, ActionKey
  <2>2. \E s \in Stages, t \in Stages \ {"none"} : At(r, s, t)
    <3>1. "tick" \in Stages \ {"none"} /\ "fresh" \in Stages /\ "stale" \in Stages
          /\ "error" \in Stages /\ "none" \in Stages /\ "tick" \in Stages
      BY DEF Stages
    <3>2. \A stage \in {"asking", "reclaim", "kill"} : Dialled(stage) \in Stages \ {"none"}
      BY DEF Dialled, Stages
    <3>3. CASE SnapshotMsg(r)
      BY <3>1, <3>3 DEF SnapshotMsg
    <3>4. CASE RefreshMsg(r)
      BY <3>1, <3>2, <3>4 DEF RefreshMsg
    <3>5. CASE ActionKey(r)
      BY <3>1, <3>2, <3>5 DEF ActionKey
    <3>6. QED BY <1>13, <3>3, <3>4, <3>5
  <2>3. QED BY <1>3, <2>1, <2>2
<1>14. QED BY <1>4, <1>5, <1>6, <1>7, <1>8, <1>9, <1>10, <1>11, <1>12, <1>13
           DEF Next, Serve

\* The status is LIVE exactly until the host's message loop has returned: no
\* roster, chat, action of the console or signal that comes to it late makes it
\* live again.
THEOREM LiveIsTrue == Spec => []LiveUntilTheLoopEnds
<1>1. HostInv => LiveUntilTheLoopEnds
  BY DEF HostInv
<1>2. QED BY <1>1, HostInvInit, HostInvNext, PTL DEF Spec

\* The console never stops polling, whichever requests fail and in whatever
\* order the answers come: the part of ConsoleCatchesUp that is safety.
THEOREM ConsoleKeepsPolling == Spec => []PollingGoesOn
<1>1. HostInv => PollingGoesOn
  BY DEF HostInv
<1>2. QED BY <1>1, HostInvInit, HostInvNext, PTL DEF Spec

-----------------------------------------------------------------------------
(* The layout, a block at a time.                                          *)

Area == [w : Int, h : Int, area : Int]

LEMMA JoinsTyped ==
  /\ Empty \in Area
  /\ \A a \in Area, b \in Area : Beside(a, b) \in Area /\ Above(a, b) \in Area
<1>1. Empty \in Area
  BY DEF Empty, Block, Area
<1>2. ASSUME NEW a \in Area, NEW b \in Area
      PROVE  Beside(a, b) \in Area /\ Above(a, b) \in Area
  <2>1. /\ a.w \in Int /\ a.h \in Int /\ a.area \in Int
        /\ b.w \in Int /\ b.h \in Int /\ b.area \in Int
    BY DEF Area
  <2>2. AtLeast(a.w, b.w) \in Int /\ AtLeast(a.h, b.h) \in Int
    BY <2>1 DEF AtLeast
  <2>3. Beside(a, b) \in Area
    BY <2>1, <2>2 DEF Beside, Area
  <2>4. Above(a, b) \in Area
    BY <2>1, <2>2 DEF Above, Area
  <2>5. QED BY <2>3, <2>4
<1>3. QED BY <1>1, <1>2

\* What a row of blocks comes to, from left to right,
LEMMA RowRuns ==
  ASSUME NEW blocks \in Seq(Area)
  PROVE  \E h : /\ h[0] = Empty
                /\ \A n \in 1 .. Len(blocks) : h[n] = Beside(h[n - 1], blocks[n])
                /\ h[Len(blocks)] = InRow(blocks)
<1> DEFINE N == Len(blocks)
           step == [n \in 1 .. N |-> [v \in Area |-> Beside(v, blocks[n])]]
           Solves(f) == f = [s \in SUBSET DOMAIN blocks |->
                               IF s = {} THEN Empty
                               ELSE Beside(f[s \ {Max(s)}], blocks[Max(s)])]
           f == CHOOSE g : Solves(g)
<1>1. N \in Nat /\ DOMAIN blocks = 1 .. N /\ \A n \in 1 .. N : blocks[n] \in Area
  OBVIOUS
<1>2. step \in [1 .. N -> [Area -> Area]]
  <2>1. \A v \in Area, b \in Area : Beside(v, b) \in Area
    BY JoinsTyped
  <2>2. QED BY <1>1, <2>1
<1>3. PICK g \in [SUBSET (1 .. N) -> Area] : IsFold(g, N, Empty, step)
  <2>1. N \in Nat /\ Empty \in Area
    BY <1>1, JoinsTyped
  <2> HIDE DEF step, N
  <2>2. QED BY <2>1, <1>2, FoldExists
<1>4. Solves(g)
  <2>1. ASSUME NEW s \in SUBSET (1 .. N), s # {}
        PROVE  g[s] = Beside(g[s \ {Max(s)}], blocks[Max(s)])
    <3>1. Max(s) \in 1 .. N
      BY <1>1, <2>1, MaxExists
    <3>2. g[s \ {Max(s)}] \in Area
      OBVIOUS
    <3>3. QED BY <1>3, <2>1, <3>1, <3>2 DEF IsFold
  <2>2. g[{}] = Empty
    BY <1>3 DEF IsFold
  <2>3. QED BY <1>1, <1>3, <2>1, <2>2
<1>5. Solves(f)
  <2> HIDE DEF Solves
  <2>1. QED BY <1>4
<1>6. InRow(blocks) = f[1 .. N]
  BY <1>1 DEF InRow, FoldLeft, MapThenFoldSet
<1> HIDE DEF f
<1> DEFINE h == [n \in 0 .. N |-> f[1 .. n]]
<1>7. h[0] = Empty
  <2>1. 1 .. 0 = {} /\ {} \in SUBSET DOMAIN blocks
    OBVIOUS
  <2>2. f[{}] = Empty
    BY <1>5, <2>1
  <2>3. QED BY <1>1, <2>1, <2>2
<1>8. ASSUME NEW n \in 1 .. N PROVE h[n] = Beside(h[n - 1], blocks[n])
  <2>1. f[1 .. n] = Beside(f[1 .. n - 1], blocks[n])
    <3>1. /\ 1 .. n \in SUBSET DOMAIN blocks /\ 1 .. n # {}
          /\ Max(1 .. n) = n /\ (1 .. n) \ {n} = 1 .. n - 1
      BY <1>1, Peel
    <3>2. \A s \in SUBSET DOMAIN blocks :
            f[s] = IF s = {} THEN Empty
                   ELSE Beside(f[s \ {Max(s)}], blocks[Max(s)])
      BY <1>5
    <3>3. f[1 .. n] = Beside(f[(1 .. n) \ {Max(1 .. n)}], blocks[Max(1 .. n)])
      <4> HIDE DEF N
      <4>1. QED BY <3>1, <3>2
    <3>4. QED BY <3>1, <3>3
  <2>2. n \in 0 .. N /\ n - 1 \in 0 .. N
    BY <1>1
  <2>3. QED BY <2>1, <2>2
<1>9. h[N] = InRow(blocks)
  BY <1>1, <1>6
<1>10. QED BY <1>7, <1>8, <1>9

\* and a column, from the top.
LEMMA ColumnRuns ==
  ASSUME NEW blocks \in Seq(Area)
  PROVE  \E h : /\ h[0] = Empty
                /\ \A n \in 1 .. Len(blocks) : h[n] = Above(h[n - 1], blocks[n])
                /\ h[Len(blocks)] = InColumn(blocks)
<1> DEFINE N == Len(blocks)
           step == [n \in 1 .. N |-> [v \in Area |-> Above(v, blocks[n])]]
           Solves(f) == f = [s \in SUBSET DOMAIN blocks |->
                               IF s = {} THEN Empty
                               ELSE Above(f[s \ {Max(s)}], blocks[Max(s)])]
           f == CHOOSE g : Solves(g)
<1>1. N \in Nat /\ DOMAIN blocks = 1 .. N /\ \A n \in 1 .. N : blocks[n] \in Area
  OBVIOUS
<1>2. step \in [1 .. N -> [Area -> Area]]
  <2>1. \A v \in Area, b \in Area : Above(v, b) \in Area
    BY JoinsTyped
  <2>2. QED BY <1>1, <2>1
<1>3. PICK g \in [SUBSET (1 .. N) -> Area] : IsFold(g, N, Empty, step)
  <2>1. N \in Nat /\ Empty \in Area
    BY <1>1, JoinsTyped
  <2> HIDE DEF step, N
  <2>2. QED BY <2>1, <1>2, FoldExists
<1>4. Solves(g)
  <2>1. ASSUME NEW s \in SUBSET (1 .. N), s # {}
        PROVE  g[s] = Above(g[s \ {Max(s)}], blocks[Max(s)])
    <3>1. Max(s) \in 1 .. N
      BY <1>1, <2>1, MaxExists
    <3>2. g[s \ {Max(s)}] \in Area
      OBVIOUS
    <3>3. QED BY <1>3, <2>1, <3>1, <3>2 DEF IsFold
  <2>2. g[{}] = Empty
    BY <1>3 DEF IsFold
  <2>3. QED BY <1>1, <1>3, <2>1, <2>2
<1>5. Solves(f)
  <2> HIDE DEF Solves
  <2>1. QED BY <1>4
<1>6. InColumn(blocks) = f[1 .. N]
  BY <1>1 DEF InColumn, FoldLeft, MapThenFoldSet
<1> HIDE DEF f
<1> DEFINE h == [n \in 0 .. N |-> f[1 .. n]]
<1>7. h[0] = Empty
  <2>1. 1 .. 0 = {} /\ {} \in SUBSET DOMAIN blocks
    OBVIOUS
  <2>2. f[{}] = Empty
    BY <1>5, <2>1
  <2>3. QED BY <1>1, <2>1, <2>2
<1>8. ASSUME NEW n \in 1 .. N PROVE h[n] = Above(h[n - 1], blocks[n])
  <2>1. f[1 .. n] = Above(f[1 .. n - 1], blocks[n])
    <3>1. /\ 1 .. n \in SUBSET DOMAIN blocks /\ 1 .. n # {}
          /\ Max(1 .. n) = n /\ (1 .. n) \ {n} = 1 .. n - 1
      BY <1>1, Peel
    <3>2. \A s \in SUBSET DOMAIN blocks :
            f[s] = IF s = {} THEN Empty
                   ELSE Above(f[s \ {Max(s)}], blocks[Max(s)])
      BY <1>5
    <3>3. f[1 .. n] = Above(f[(1 .. n) \ {Max(1 .. n)}], blocks[Max(1 .. n)])
      <4> HIDE DEF N
      <4>1. QED BY <3>1, <3>2
    <3>4. QED BY <3>1, <3>3
  <2>2. n \in 0 .. N /\ n - 1 \in 0 .. N
    BY <1>1
  <2>3. QED BY <2>1, <2>2
<1>9. h[N] = InColumn(blocks)
  BY <1>1, <1>6
<1>10. QED BY <1>7, <1>8, <1>9

\* Blocks of a height fill a row, and blocks of a width a column.
LEMMA BlocksJoin ==
  ASSUME NEW a \in Nat, NEW b \in Nat, NEW c \in Nat
  PROVE  /\ Beside(Block(a, c), Block(b, c)) = Block(a + b, c)
         /\ Above(Block(c, a), Block(c, b)) = Block(c, a + b)
         /\ Beside(Empty, Block(a, c)) = Block(a, c)
         /\ Above(Empty, Block(c, a)) = Block(c, a)
<1>1. a * c + b * c = (a + b) * c /\ c * a + c * b = c * (a + b) /\ a * c \in Nat
  OBVIOUS
<1>2. AtLeast(c, c) = c /\ AtLeast(0, c) = c
  BY DEF AtLeast
<1>3. Beside(Block(a, c), Block(b, c)) = Block(a + b, c)
  BY <1>1, <1>2 DEF Beside, Block
<1>4. Above(Block(c, a), Block(c, b)) = Block(c, a + b)
  BY <1>1, <1>2 DEF Above, Block
<1>5. Beside(Empty, Block(a, c)) = Block(a, c)
  BY <1>1, <1>2 DEF Beside, Empty, Block
<1>6. Above(Empty, Block(c, a)) = Block(c, a)
  <2>1. c * a \in Nat
    OBVIOUS
  <2>2. QED BY <1>2, <2>1 DEF Above, Empty, Block
<1>7. QED BY <1>3, <1>4, <1>5, <1>6

\* The division with rest that Go's / and % make of naturals.
LEMMA Division ==
  ASSUME NEW a \in Nat, NEW k \in Nat \ {0}
  PROVE  /\ a \div k \in Nat /\ a % k \in Nat /\ a % k < k
         /\ a = k * (a \div k) + (a % k)
OBVIOUS

LEMMA Product ==
  ASSUME NEW a \in Nat, NEW b \in Nat
  PROVE  /\ a * b \in Nat /\ (a + 1) * b = a * b + b /\ 0 * b = 0 /\ 1 * b = b
         /\ a * b = b * a
OBVIOUS

LEMMA ProductGrows ==
  ASSUME NEW a \in Nat, NEW b \in Nat, NEW c \in Nat, a <= b
  PROVE  a * c <= b * c
OBVIOUS

\* Equal parts with the rest in the last fill the row.
LEMMA RowOfParts ==
  ASSUME NEW total \in Nat, NEW k \in Nat \ {0}, NEW height_ \in Nat
  PROVE  InRow([i \in 1 .. k |-> Block(LastTakesRest(total, k)[i], height_)])
           = Block(total, height_)
<1> DEFINE q == total \div k
           blocks == [i \in 1 .. k |-> Block(LastTakesRest(total, k)[i], height_)]
           Before(n) == IF n < k THEN n * q ELSE total
<1>1. q \in Nat /\ k * q <= total /\ (k - 1) * q <= total
  <2>1. q \in Nat /\ k * q <= total
    BY Division
  <2>2. (k - 1) * q <= k * q
    BY <2>1, ProductGrows
  <2>3. (k - 1) * q \in Int /\ k * q \in Int
    BY <2>1
  <2>4. QED BY <2>1, <2>2, <2>3
<1>2. \A i \in 1 .. k : LastTakesRest(total, k)[i] = IF i < k THEN q ELSE total - q * (k - 1)
  BY DEF LastTakesRest
<1> HIDE DEF q
<1>3. q * (k - 1) = (k - 1) * q /\ (k - 1) * q \in Nat /\ total - (k - 1) * q \in Nat
  BY <1>1
<1>4. \A i \in 1 .. k : blocks[i] = Block(IF i < k THEN q ELSE total - (k - 1) * q, height_)
  BY <1>2, <1>3
<1>5. blocks \in Seq(Area) /\ Len(blocks) = k
  <2>1. \A m, n \in Nat : Block(m, n) \in Area
    BY DEF Block, Area
  <2>2. \A i \in 1 .. k : blocks[i] \in Area
    BY <1>1, <1>3, <1>4, <2>1
  <2> DEFINE b(i) == Block(LastTakesRest(total, k)[i], height_)
  <2>3. \A i \in 1 .. k : b(i) \in Area
    BY <2>2
  <2> HIDE DEF b
  <2>4. [i \in 1 .. k |-> b(i)] \in Seq(Area) /\ Len([i \in 1 .. k |-> b(i)]) = k
    BY <2>3
  <2>5. QED BY <2>4 DEF b
<1> HIDE DEF blocks
<1>6. PICK h : /\ h[0] = Empty
               /\ \A n \in 1 .. k : h[n] = Beside(h[n - 1], blocks[n])
               /\ h[k] = InRow(blocks)
  BY <1>5, RowRuns
<1> DEFINE S == {n \in Nat : n \in 1 .. k => h[n] = Block(Before(n), height_)}
<1>7. 0 \in S
  OBVIOUS
<1>8. ASSUME NEW n \in 1 .. k, n - 1 \in S PROVE n \in S
  <2> DEFINE c == IF n < k THEN q ELSE total - (k - 1) * q
  <2>1. h[n] = Beside(h[n - 1], Block(c, height_))
    BY <1>4, <1>6
  <2>2. c \in Nat
    BY <1>1, <1>3
  <2>3. CASE n = 1
    <3>1. h[1] = Block(c, height_)
      <4> HIDE DEF c
      <4>1. h[1] = Beside(Empty, Block(c, height_))
        BY <1>6, <2>1, <2>3
      <4>2. QED BY <2>2, <4>1, BlocksJoin
    <3>2. c = Before(n)
      BY <1>1, <1>3, <2>3
    <3>3. QED BY <2>3, <3>1, <3>2
  <2>4. CASE n # 1
    <3>1. n - 1 \in 1 .. k /\ n - 1 < k
      BY <2>4
    <3>2. h[n - 1] = Block((n - 1) * q, height_)
      BY <1>8, <3>1
    <3>3. (n - 1) * q \in Nat
      BY <1>1, <3>1
    <3>4. h[n] = Block((n - 1) * q + c, height_)
      <4> HIDE DEF c
      <4>1. QED BY <2>1, <2>2, <3>2, <3>3, BlocksJoin
    <3>5. (n - 1) * q + c = Before(n)
      <4>1. CASE n < k
        BY <1>1, <4>1
      <4>2. CASE n = k
        BY <1>1, <1>3, <4>2
      <4>3. QED BY <4>1, <4>2
    <3>6. QED BY <3>4, <3>5
  <2>5. QED BY <2>3, <2>4
<1>9. k \in S
  <2> HIDE DEF S
  <2>1. k \in Nat /\ 0 .. k \subseteq S
    BY <1>7, <1>8, UpTo
  <2>2. QED BY <2>1
<1>10. h[k] = Block(total, height_)
  BY <1>9
<1>11. QED BY <1>6, <1>10 DEF blocks

\* Shares fill the column.
LEMMA ColumnOfShares ==
  ASSUME NEW total \in Nat, NEW k \in Nat \ {0}, NEW width_ \in Nat
  PROVE  InColumn([i \in 1 .. k |-> Block(width_, Shares(total, k)[i])])
           = Block(width_, total)
<1> DEFINE q == total \div k
           r == total % k
           blocks == [i \in 1 .. k |-> Block(width_, Shares(total, k)[i])]
           Before(n) == n * q + (IF n <= r THEN n ELSE r)
<1>1. q \in Nat /\ r \in Nat /\ r < k /\ total = k * q + r
  BY Division
<1>2. \A i \in 1 .. k : Shares(total, k)[i] = q + (IF i <= r THEN 1 ELSE 0)
  BY DEF Shares
<1> HIDE DEF q, r
<1>3. \A i \in 1 .. k : blocks[i] = Block(width_, q + (IF i <= r THEN 1 ELSE 0))
  BY <1>2
<1>4. blocks \in Seq(Area) /\ Len(blocks) = k
  <2>1. \A m, n \in Nat : Block(m, n) \in Area
    BY DEF Block, Area
  <2> DEFINE b(i) == Block(width_, Shares(total, k)[i])
  <2>2. \A i \in 1 .. k : b(i) \in Area
    BY <1>1, <1>2, <2>1
  <2> HIDE DEF b
  <2>3. [i \in 1 .. k |-> b(i)] \in Seq(Area) /\ Len([i \in 1 .. k |-> b(i)]) = k
    BY <2>2
  <2>4. QED BY <2>3 DEF b
<1> HIDE DEF blocks
<1>5. PICK h : /\ h[0] = Empty
               /\ \A n \in 1 .. k : h[n] = Above(h[n - 1], blocks[n])
               /\ h[k] = InColumn(blocks)
  BY <1>4, ColumnRuns
<1> DEFINE S == {n \in Nat : n \in 1 .. k => h[n] = Block(width_, Before(n))}
<1>6. 0 \in S
  OBVIOUS
<1>7. ASSUME NEW n \in 1 .. k, n - 1 \in S PROVE n \in S
  <2> DEFINE c == q + (IF n <= r THEN 1 ELSE 0)
  <2>1. h[n] = Above(h[n - 1], Block(width_, c))
    BY <1>3, <1>5
  <2>2. c \in Nat
    BY <1>1
  <2>3. CASE n = 1
    <3>1. h[1] = Block(width_, c)
      <4> HIDE DEF c
      <4>1. h[1] = Above(Empty, Block(width_, c))
        BY <1>5, <2>1, <2>3
      <4>2. QED BY <2>2, <4>1, BlocksJoin
    <3>2. c = Before(n)
      BY <1>1, <2>3
    <3>3. QED BY <2>3, <3>1, <3>2
  <2>4. CASE n # 1
    <3>1. n - 1 \in 1 .. k /\ n - 1 \in Nat
      BY <2>4
    <3>2. h[n - 1] = Block(width_, Before(n - 1))
      BY <1>7, <3>1
    <3>3. (n - 1) * q \in Nat /\ n * q = (n - 1) * q + q
      BY <1>1, <3>1
    <3>4. Before(n - 1) \in Nat /\ Before(n - 1) + c = Before(n)
      BY <1>1, <3>1, <3>3
    <3>5. h[n] = Block(width_, Before(n - 1) + c)
      <4> HIDE DEF c, Before
      <4>1. QED BY <2>1, <2>2, <3>2, <3>4, BlocksJoin
    <3>6. h[n] = Block(width_, Before(n))
      <4> HIDE DEF c, Before
      <4>1. QED BY <3>4, <3>5
    <3>7. QED BY <3>6
  <2>5. QED BY <2>3, <2>4
<1>8. k \in S
  <2> HIDE DEF S
  <2>1. k \in Nat /\ 0 .. k \subseteq S
    BY <1>6, <1>7, UpTo
  <2>2. QED BY <2>1
<1>9. h[k] = Block(width_, total)
  <2>1. Before(k) = total
    BY <1>1
  <2>2. h[k] = Block(width_, Before(k))
    BY <1>8
  <2>3. QED BY <2>1, <2>2
<1>10. QED BY <1>5, <1>9 DEF blocks

LEMMA PanelIs ==
  ASSUME NEW a \in Int, NEW b \in Int
  PROVE  Panel(a, b - 2) = Block(a, b)
<1>1. (b - 2) + 2 = b
  OBVIOUS
<1>2. QED BY <1>1 DEF Panel

\* As many rows as viewers need, of p to a row, leave a viewer for each.
LEMMA RowsNeeded ==
  ASSUME NEW v \in Nat \ {0}, NEW p \in Nat \ {0}, NEW c \in Nat,
         c <= (v + p - 1) \div p, NEW g \in 1 .. c
  PROVE  (g - 1) * p < v /\ (g - 1) * p < p * c
<1> DEFINE d == (v + p - 1) \div p
<1>1. d \in Nat /\ p * d <= v + p - 1
  <2>1. v + p - 1 \in Nat
    OBVIOUS
  <2>2. QED BY <2>1, Division
<1> HIDE DEF d
<1>2. g \in Nat /\ g <= d /\ c <= d
  BY <1>1 DEF d
<1>3. g * p <= d * p /\ d * p = p * d /\ g * p \in Nat
  BY <1>1, <1>2, ProductGrows, Product
<1>4. (g - 1) * p = g * p - p
  BY <1>2
<1>5. g * p <= c * p /\ c * p = p * c
  BY <1>2, ProductGrows, Product
<1>6. p * c \in Nat /\ p * d \in Nat
  BY <1>1, Product
<1>7. QED BY <1>1, <1>3, <1>4, <1>5, <1>6

\* A viewer's panel or more, the rows it takes among as many.
LEMMA ViewerPanelsFill ==
  ASSUME NEW viewers_ \in Nat \ {0}, NEW w \in Nat,
         NEW rows \in Nat, rows >= MinPanelRows
  PROVE  ViewerPanels(viewers_, w, rows) = Block(w, rows)
<1> DEFINE perRow   == AtMost(AtLeast(w \div 36, 1), viewers_)
           gridRows == AtMost((viewers_ + perRow - 1) \div perRow, rows \div MinPanelRows)
           heights  == Shares(rows, gridRows)
           drawn    == AtMost(viewers_, perRow * gridRows)
           inRow(g) == AtMost(perRow, drawn - (g - 1) * perRow)
           line(g)  == InRow([i \in 1 .. inRow(g) |->
                                Panel(LastTakesRest(w, inRow(g))[i], heights[g] - 2)])
<1>1. perRow \in Nat \ {0}
  <2>1. w \div 36 \in Nat
    OBVIOUS
  <2>2. QED BY <2>1 DEF AtMost, AtLeast
<1> HIDE DEF perRow
<1>2. (viewers_ + perRow - 1) \div perRow \in Nat \ {0}
  <2> DEFINE a == viewers_ + perRow - 1
  <2>1. a \in Nat /\ a >= perRow
    BY <1>1
  <2> HIDE DEF a
  <2>2. /\ a \div perRow \in Nat /\ a % perRow < perRow /\ a % perRow \in Nat
        /\ a = perRow * (a \div perRow) + (a % perRow)
    BY <1>1, <2>1, Division
  <2>3. a \div perRow # 0
    <3>1. SUFFICES ASSUME a \div perRow = 0 PROVE FALSE
      OBVIOUS
    <3>2. perRow * 0 = 0
      BY <1>1
    <3>3. QED BY <1>1, <2>1, <2>2, <3>1, <3>2
  <2>4. QED BY <2>2, <2>3 DEF a
<1>3. rows \div MinPanelRows \in Nat \ {0}
  BY DEF MinPanelRows
<1>4. gridRows \in Nat \ {0} /\ gridRows <= (viewers_ + perRow - 1) \div perRow
  <2> DEFINE a == (viewers_ + perRow - 1) \div perRow
             b == rows \div MinPanelRows
  <2> HIDE DEF a, b
  <2>1. a \in Nat \ {0} /\ b \in Nat \ {0}
    BY <1>2, <1>3 DEF a, b
  <2>2. AtMost(a, b) \in Nat \ {0} /\ AtMost(a, b) <= a
    BY <2>1 DEF AtMost
  <2>3. QED BY <2>2 DEF a, b
<1> HIDE DEF gridRows
<1>5. \A g \in 1 .. gridRows : heights[g] \in Nat
  <2>1. rows \div gridRows \in Nat
    BY <1>4, Division
  <2>2. QED BY <1>4, <2>1 DEF Shares
<1>6. \A g \in 1 .. gridRows : inRow(g) \in Nat \ {0}
  <2>1. TAKE g \in 1 .. gridRows
  <2>2. (g - 1) * perRow < viewers_ /\ (g - 1) * perRow < perRow * gridRows
    BY <1>1, <1>4, RowsNeeded
  <2>3. (g - 1) * perRow \in Nat /\ perRow * gridRows \in Nat
    BY <1>1, <1>4, Product
  <2> DEFINE a == (g - 1) * perRow
             b == perRow * gridRows
  <2> HIDE DEF a, b
  <2>4. a < viewers_ /\ a < b /\ a \in Nat /\ b \in Nat
    BY <2>2, <2>3 DEF a, b
  <2>5. AtMost(perRow, AtMost(viewers_, b) - a) \in Nat \ {0}
    BY <1>1, <2>4 DEF AtMost
  <2>6. QED BY <2>5 DEF a, b
<1> HIDE DEF heights, inRow
<1>7. \A g \in 1 .. gridRows : line(g) = Block(w, heights[g])
  <2>1. TAKE g \in 1 .. gridRows
  <2>2. heights[g] \in Nat /\ inRow(g) \in Nat \ {0}
    BY <1>5, <1>6
  <2> DEFINE k == inRow(g)
  <2> HIDE DEF k
  <2>3. k \in Nat \ {0} /\ w \div k \in Int
    BY <2>2, Division DEF k
  <2>4. \A i \in 1 .. k : LastTakesRest(w, k)[i] \in Int
    BY <2>3 DEF LastTakesRest
  <2>5. \A i \in 1 .. k : Panel(LastTakesRest(w, k)[i], heights[g] - 2)
                            = Block(LastTakesRest(w, k)[i], heights[g])
    BY <2>2, <2>4, PanelIs
  <2>6. [i \in 1 .. k |-> Panel(LastTakesRest(w, k)[i], heights[g] - 2)]
          = [i \in 1 .. k |-> Block(LastTakesRest(w, k)[i], heights[g])]
    BY <2>5
  <2>7. InRow([i \in 1 .. k |-> Block(LastTakesRest(w, k)[i], heights[g])])
          = Block(w, heights[g])
    BY <2>2, <2>3, RowOfParts
  <2>8. QED BY <2>6, <2>7 DEF k
<1>8. ViewerPanels(viewers_, w, rows) = InColumn([g \in 1 .. gridRows |-> line(g)])
  BY DEF ViewerPanels, perRow, gridRows, heights, inRow
<1>9. [g \in 1 .. gridRows |-> line(g)] = [g \in 1 .. gridRows |-> Block(w, heights[g])]
  <2> HIDE DEF line
  <2>1. QED BY <1>7
<1>10. InColumn([g \in 1 .. gridRows |-> Block(w, heights[g])]) = Block(w, rows)
  BY <1>4, ColumnOfShares DEF heights
<1>11. QED BY <1>8, <1>9, <1>10

\* The three views fill what they are given, if it is as high as the least.
LEMMA GraphMainFills ==
  ASSUME NEW viewers_ \in Nat, NEW w \in Nat, NEW rows \in Nat, rows >= MinMainRows
  PROVE  GraphMain(viewers_, w, rows) = Block(w, rows)
<1> DEFINE share == AtLeast((rows * 55) \div 100, MinPlotRows)
           plot  == IF rows - share < MinPanelRows THEN rows - MinPanelRows ELSE share
<1>1. plot \in Nat /\ rows - plot \in Nat /\ rows - plot >= MinPanelRows
  <2>1. (rows * 55) \div 100 \in Nat
    OBVIOUS
  <2>2. QED BY <2>1 DEF AtLeast, MinPlotRows, MinPanelRows, MinMainRows
<1>2. GraphMain(viewers_, w, rows)
        = IF viewers_ = 0 THEN OverlayPanel(w, rows)
          ELSE Above(OverlayPanel(w, plot), ViewerPanels(viewers_, w, rows - plot))
  BY DEF GraphMain
<1> HIDE DEF plot
<1>3. OverlayPanel(w, rows) = Block(w, rows) /\ OverlayPanel(w, plot) = Block(w, plot)
  BY <1>1, PanelIs DEF OverlayPanel
<1>4. CASE viewers_ = 0
  BY <1>2, <1>3, <1>4
<1>5. CASE viewers_ # 0
  <2>1. ViewerPanels(viewers_, w, rows - plot) = Block(w, rows - plot)
    BY <1>1, <1>5, ViewerPanelsFill
  <2>2. Above(Block(w, plot), Block(w, rows - plot)) = Block(w, plot + (rows - plot))
    BY <1>1, BlocksJoin
  <2>3. plot + (rows - plot) = rows
    BY <1>1
  <2>4. QED BY <1>2, <1>3, <1>5, <2>1, <2>2, <2>3
<1>6. QED BY <1>4, <1>5

LEMMA UsersMainFills ==
  ASSUME NEW viewers_ \in Nat, NEW w \in Nat, NEW rows \in Nat, rows >= MinMainRows
  PROVE  UsersMain(viewers_, w, rows) = Block(w, rows)
<1> DEFINE t == TableRows(viewers_, rows)
<1>1. t \in Nat /\ rows - t \in Nat
  BY DEF TableRows, AtLeast, AtMost, MinMainRows, MinPlotRows, MinPanelRows
<1> HIDE DEF t
<1>2. Panel(w, t - 2) = Block(w, t) /\ OverlayPanel(w, rows - t) = Block(w, rows - t)
  BY <1>1, PanelIs DEF OverlayPanel
<1>3. Above(Block(w, t), Block(w, rows - t)) = Block(w, t + (rows - t))
  BY <1>1, BlocksJoin
<1>4. t + (rows - t) = rows
  BY <1>1
<1>5. UsersMain(viewers_, w, rows) = Above(Panel(w, t - 2), OverlayPanel(w, rows - t))
  BY DEF UsersMain, t
<1>6. QED BY <1>2, <1>3, <1>4, <1>5

LEMMA JoinMainFills ==
  ASSUME NEW viewers_ \in Nat, NEW code, code.w \in Nat, code.h \in Nat, NEW info \in Nat,
         NEW w \in Nat, NEW rows \in Nat
  PROVE  JoinMain(viewers_, code, info, w, rows) = Block(w, rows)
<1>1. CASE code.h = 0 \/ code.h + 2 > rows \/ code.w + 4 + MinInfoWidth > w
  <2>1. JoinMain(viewers_, code, info, w, rows) = Panel(w, rows - 2)
    BY <1>1 DEF JoinMain
  <2>2. QED BY <2>1, PanelIs
<1>2. CASE ~(code.h = 0 \/ code.h + 2 > rows \/ code.w + 4 + MinInfoWidth > w)
  <2> DEFINE spare     == rows - (code.h + 2)
             left      == IF spare >= MinPanelRows
                            THEN Above(Panel(code.w + 4, code.h), Panel(code.w + 4, spare - 2))
                          ELSE IF spare > 0 THEN Panel(code.w + 4, rows - 2)
                          ELSE Panel(code.w + 4, code.h)
             right     == w - code.w - 4
             spareInfo == IF rows > info + 2 THEN rows - (info + 2) ELSE 0
             facts     == IF spareInfo >= MinPlotRows /\ viewers_ > 0
                            THEN Above(Panel(right, info), OverlayPanel(right, spareInfo))
                            ELSE Panel(right, rows - 2)
  <2>1. /\ spare \in Nat /\ (code.h + 2) + spare = rows
        /\ right \in Nat /\ (code.w + 4) + right = w
    BY <1>2 DEF MinInfoWidth
  <2>2. JoinMain(viewers_, code, info, w, rows) = Beside(left, facts)
    BY <1>2 DEF JoinMain
  <2> DEFINE cw == code.w + 4
             ch == code.h + 2
  <2>3. /\ cw \in Nat /\ ch \in Nat
        /\ Panel(code.w + 4, code.h) = Block(cw, ch)
        /\ Panel(code.w + 4, rows - 2) = Block(cw, rows)
        /\ Panel(code.w + 4, spare - 2) = Block(cw, spare)
    <3>1. cw \in Int /\ spare \in Int /\ rows \in Int
      BY <2>1
    <3>2. cw \in Nat /\ ch \in Nat
      OBVIOUS
    <3>3. Panel(cw, code.h) = Block(cw, ch)
      BY DEF Panel
    <3> HIDE DEF spare
    <3>4. Panel(cw, rows - 2) = Block(cw, rows) /\ Panel(cw, spare - 2) = Block(cw, spare)
      BY <3>1, PanelIs
    <3>5. QED BY <3>2, <3>3, <3>4
  <2>4. left = Block(cw, rows)
    <3>1. ch + spare = rows
      BY <2>1
    <3>2. CASE spare >= MinPanelRows
      <4> HIDE DEF cw, ch, spare
      <4>1. Above(Block(cw, ch), Block(cw, spare)) = Block(cw, ch + spare)
        BY <2>1, <2>3, BlocksJoin
      <4>2. QED BY <2>3, <3>1, <3>2, <4>1
    <3>3. CASE ~(spare >= MinPanelRows) /\ spare > 0
      <4> HIDE DEF cw, spare
      <4>1. QED BY <2>3, <3>3
    <3>4. CASE ~(spare >= MinPanelRows) /\ ~(spare > 0)
      <4>1. ch = rows
        BY <2>1, <3>4
      <4> HIDE DEF cw, ch, spare
      <4>2. QED BY <2>3, <3>4, <4>1
    <3>5. QED BY <3>2, <3>3, <3>4
  <2>5. facts = Block(right, rows)
    <3>1. CASE spareInfo >= MinPlotRows /\ viewers_ > 0
      <4>1. spareInfo \in Nat /\ (info + 2) + spareInfo = rows
        BY <3>1 DEF MinPlotRows
      <4> HIDE DEF right, spareInfo
      <4>2. Panel(right, info) = Block(right, info + 2)
        BY DEF Panel
      <4>3. OverlayPanel(right, spareInfo) = Block(right, spareInfo)
        BY <2>1, <4>1, PanelIs DEF OverlayPanel
      <4>4. Above(Block(right, info + 2), Block(right, spareInfo))
              = Block(right, (info + 2) + spareInfo)
        <5>1. info + 2 \in Nat
          OBVIOUS
        <5>2. QED BY <2>1, <4>1, <5>1, BlocksJoin
      <4>5. QED BY <3>1, <4>1, <4>2, <4>3, <4>4
    <3>2. CASE ~(spareInfo >= MinPlotRows /\ viewers_ > 0)
      <4>1. facts = Panel(right, rows - 2)
        BY <3>2
      <4> HIDE DEF right, spareInfo, facts
      <4>2. Panel(right, rows - 2) = Block(right, rows)
        BY <2>1, PanelIs
      <4>3. QED BY <4>1, <4>2
    <3>3. QED BY <3>1, <3>2
  <2> HIDE DEF left, facts, right
  <2>6. Beside(Block(cw, rows), Block(right, rows)) = Block(cw + right, rows)
    <3> HIDE DEF cw
    <3>1. QED BY <2>1, <2>3, BlocksJoin
  <2>7. cw + right = w
    BY <2>1
  <2>8. QED BY <2>2, <2>4, <2>5, <2>6, <2>7
<1>3. QED BY <1>1, <1>2

LEMMA StatCardsFill ==
  ASSUME NEW w \in Nat
  PROVE  StatCards(w) = Block(w, CardRows)
<1>1. \A i \in 1 .. 5 : LastTakesRest(w, 5)[i] \in Int
  BY DEF LastTakesRest
<1>2. CardRows \in Nat
  BY DEF CardRows
<1>3. \A i \in 1 .. 5 : Panel(LastTakesRest(w, 5)[i], CardRows - 2)
                          = Block(LastTakesRest(w, 5)[i], CardRows)
  BY <1>1, <1>2, PanelIs
<1>4. [i \in 1 .. 5 |-> Panel(LastTakesRest(w, 5)[i], CardRows - 2)]
        = [i \in 1 .. 5 |-> Block(LastTakesRest(w, 5)[i], CardRows)]
  BY <1>3
<1>5. 5 \in Nat \ {0}
  OBVIOUS
<1>6. InRow([i \in 1 .. 5 |-> Block(LastTakesRest(w, 5)[i], CardRows)]) = Block(w, CardRows)
  BY <1>2, <1>5, RowOfParts
<1>7. QED BY <1>4, <1>6 DEF StatCards

\* Five blocks of a width, one above another.
Stack(w, a, b, c, d, e) ==
    <<Block(w, a), Block(w, b), Block(w, c), Block(w, d), Block(w, e)>>

LEMMA FiveInColumn ==
  ASSUME NEW w \in Nat, NEW a \in Nat, NEW b \in Nat, NEW c \in Nat, NEW d \in Nat,
         NEW e \in Nat
  PROVE  InColumn(Stack(w, a, b, c, d, e)) = Block(w, a + b + c + d + e)
<1> DEFINE blocks == Stack(w, a, b, c, d, e)
<1>1. \A n \in Nat : Block(w, n) \in Area
  BY DEF Block, Area
<1>2. blocks \in Seq(Area) /\ Len(blocks) = 5
  BY <1>1 DEF Stack
<1>3. /\ blocks[1] = Block(w, a) /\ blocks[2] = Block(w, b) /\ blocks[3] = Block(w, c)
      /\ blocks[4] = Block(w, d) /\ blocks[5] = Block(w, e)
  BY DEF Stack
<1> HIDE DEF blocks
<1>4. PICK h : /\ h[0] = Empty
               /\ \A n \in 1 .. 5 : h[n] = Above(h[n - 1], blocks[n])
               /\ h[5] = InColumn(blocks)
  BY <1>2, ColumnRuns
<1>5. /\ h[1] = Above(h[0], Block(w, a)) /\ h[2] = Above(h[1], Block(w, b))
      /\ h[3] = Above(h[2], Block(w, c)) /\ h[4] = Above(h[3], Block(w, d))
      /\ h[5] = Above(h[4], Block(w, e))
  <2>1. /\ 1 \in 1 .. 5 /\ 2 \in 1 .. 5 /\ 3 \in 1 .. 5 /\ 4 \in 1 .. 5 /\ 5 \in 1 .. 5
        /\ 1 - 1 = 0 /\ 2 - 1 = 1 /\ 3 - 1 = 2 /\ 4 - 1 = 3 /\ 5 - 1 = 4
    OBVIOUS
  <2>2. QED BY <1>3, <1>4, <2>1
<1>6. \A m \in Nat, n \in Nat : Above(Block(w, m), Block(w, n)) = Block(w, m + n)
  BY BlocksJoin
<1>7. h[1] = Block(w, a)
  BY <1>4, <1>5, BlocksJoin
<1>8. h[2] = Block(w, a + b)
  BY <1>5, <1>6, <1>7
<1>9. h[3] = Block(w, a + b + c)
  <2>1. a + b \in Nat
    OBVIOUS
  <2>2. QED BY <1>5, <1>6, <1>8, <2>1
<1>10. h[4] = Block(w, a + b + c + d)
  <2>1. a + b + c \in Nat
    OBVIOUS
  <2>2. QED BY <1>5, <1>6, <1>9, <2>1
<1>11. h[5] = Block(w, a + b + c + d + e)
  <2>1. a + b + c + d \in Nat
    OBVIOUS
  <2>2. QED BY <1>5, <1>6, <1>10, <2>1
<1>12. QED BY <1>4, <1>11 DEF blocks

\* For every terminal, number of viewers and invite, each view covers the whole
\* of the screen, or of the least there must be, and nothing twice.
THEOREM ConsoleFills ==
  ASSUME NEW v, NEW invite \in BOOLEAN, NEW viewers_ \in Nat,
         NEW code, code.w \in Nat, code.h \in Nat,
         NEW info \in Nat, NEW columns \in Nat, NEW rows \in Nat
  PROVE  Console(v, invite, viewers_, code, info, columns, rows)
           = Block(AtLeast(columns, MinWidth), AtLeast(rows, MinHeight(invite)))
<1> DEFINE w        == AtLeast(columns, MinWidth)
           h        == AtLeast(rows, MinHeight(invite))
           inviteH  == InviteRows(invite)
           mainRows == h - HeaderRows - CardRows - inviteH - ActivityRows
<1>1. /\ w \in Nat /\ h \in Nat /\ inviteH \in Nat /\ mainRows \in Nat
      /\ mainRows >= MinMainRows /\ h >= HeaderRows
      /\ h = HeaderRows + CardRows + inviteH + mainRows + ActivityRows
  BY DEF AtLeast, MinHeight, InviteRows, HeaderRows, CardRows, ActivityRows, MinMainRows,
         MinPlotRows, MinPanelRows, MinWidth
<1>2. /\ HeaderRows \in Nat /\ CardRows \in Nat /\ ActivityRows \in Nat
      /\ h - HeaderRows \in Nat
  BY <1>1 DEF HeaderRows, CardRows, ActivityRows
<1>3. CASE v = "join"
  <2>1. Console(v, invite, viewers_, code, info, columns, rows)
          = Above(Block(w, HeaderRows), JoinMain(viewers_, code, info, w, h - HeaderRows))
    BY <1>3 DEF Console
  <2> HIDE DEF w, h
  <2>2. JoinMain(viewers_, code, info, w, h - HeaderRows) = Block(w, h - HeaderRows)
    BY <1>1, <1>2, JoinMainFills
  <2>3. Above(Block(w, HeaderRows), Block(w, h - HeaderRows))
          = Block(w, HeaderRows + (h - HeaderRows))
    BY <1>1, <1>2, BlocksJoin
  <2>4. HeaderRows + (h - HeaderRows) = h
    BY <1>1, <1>2
  <2>5. QED BY <2>1, <2>2, <2>3, <2>4 DEF w, h
<1>4. CASE v # "join"
  <2> DEFINE main == IF v = "graph" THEN GraphMain(viewers_, w, mainRows)
                                    ELSE UsersMain(viewers_, w, mainRows)
  <2>1. Console(v, invite, viewers_, code, info, columns, rows)
          = InColumn(<<Block(w, HeaderRows), StatCards(w), Block(w, inviteH), main,
                       ActivityStrip(w)>>)
    BY <1>4 DEF Console
  <2> HIDE DEF w, h, inviteH, mainRows
  <2>2. main = Block(w, mainRows)
    BY <1>1, GraphMainFills, UsersMainFills
  <2>3. StatCards(w) = Block(w, CardRows) /\ ActivityStrip(w) = Block(w, ActivityRows)
    BY <1>1, <1>2, StatCardsFill, PanelIs DEF ActivityStrip
  <2>4. InColumn(<<Block(w, HeaderRows), Block(w, CardRows), Block(w, inviteH),
                   Block(w, mainRows), Block(w, ActivityRows)>>)
          = Block(w, HeaderRows + CardRows + inviteH + mainRows + ActivityRows)
    <3>1. /\ w \in Nat /\ inviteH \in Nat /\ mainRows \in Nat
          /\ HeaderRows \in Nat /\ CardRows \in Nat /\ ActivityRows \in Nat
      BY <1>1, <1>2
    <3>2. InColumn(Stack(w, HeaderRows, CardRows, inviteH, mainRows, ActivityRows))
            = Block(w, HeaderRows + CardRows + inviteH + mainRows + ActivityRows)
      BY <3>1, FiveInColumn
    <3>3. QED BY <3>2 DEF Stack
  <2> HIDE DEF main
  <2>5. QED BY <1>1, <2>1, <2>2, <2>3, <2>4 DEF w, h
<1>5. QED BY <1>3, <1>4

-----------------------------------------------------------------------------
(* ConsoleScreen.                                                          *)

\* What the console lays its screen out by are natural numbers.
Sizes ==
    /\ showInvite \in BOOLEAN
    /\ width \in Nat /\ height \in Nat /\ viewers \in Nat
    /\ qr.w \in Nat /\ qr.h \in Nat

LEMMA SizesInit == ScreenInit => Sizes
<1> SUFFICES ASSUME ScreenInit PROVE Sizes
  OBVIOUS
<1>1. width \in Nat /\ height \in Nat /\ viewers \in Nat /\ showInvite \in BOOLEAN
  BY ScreenAssumption DEF ScreenInit
<1>2. PICK h \in QRHeight : qr = QRCode(h)
  BY DEF ScreenInit
<1>3. qr.w \in Nat /\ qr.h \in Nat
  <2>1. h \in Nat
    BY ScreenAssumption
  <2>2. QED BY <1>2, <2>1 DEF QRCode
<1>4. QED BY <1>1, <1>3 DEF Sizes

LEMMA SizesNext == Sizes /\ [ScreenNext]_screenVars => Sizes'
<1> SUFFICES ASSUME Sizes, [ScreenNext]_screenVars PROVE Sizes'
  OBVIOUS
<1>1. CASE UNCHANGED screenVars
  BY <1>1 DEF screenVars, Sizes
<1>2. ASSUME NEW key, ControlKey(key) PROVE Sizes'
  <2>1. /\ showInvite' = ~showInvite \/ showInvite' = showInvite
        /\ UNCHANGED <<width, height, viewers, qr>>
    BY <1>2 DEF ControlKey
  <2>2. QED BY <2>1 DEF Sizes
<1>3. ASSUME NEW key \in DOMAIN FirstLetter, Press(key) PROVE Sizes'
  BY <1>2, <1>3 DEF Press
<1>4. ASSUME NEW x \in 0 .. MinWidth - 1, Click(x) PROVE Sizes'
  BY <1>2, <1>4 DEF Click
<1>5. CASE Tab \/ (\E i \in 1 .. 3 : SelectView(Views[i]))
  BY <1>5 DEF Tab, SelectView, Sizes
<1>6. ASSUME NEW w \in Width, NEW h \in Height, WindowSize(w, h) PROVE Sizes'
  BY <1>6, ScreenAssumption DEF WindowSize, Sizes
<1>7. ASSUME NEW n \in 0 .. MaxViewers, Snapshot(n) PROVE Sizes'
  BY <1>7, ScreenAssumption DEF Snapshot, Sizes
<1>8. QED BY <1>1, <1>3, <1>4, <1>5, <1>6, <1>7 DEF ScreenNext

\* Whatever keys are pressed, sizes the terminal takes and snapshots come, the
\* panels of the view shown cover the whole screen and nothing twice.
THEOREM ScreenSpent == ScreenSpec => []EveryRowIsSpent
<1>1. Sizes => EveryRowIsSpent
  <2> SUFFICES ASSUME Sizes, NEW info \in InfoRows
      PROVE  LET drawn == Console(view, showInvite, viewers, qr, info, width, height) IN
             /\ drawn.w = AtLeast(width, MinWidth)
             /\ drawn.h = AtLeast(height, MinHeight(showInvite))
             /\ drawn.area = drawn.w * drawn.h
    BY DEF EveryRowIsSpent
  <2>1. info \in Nat
    BY ScreenAssumption
  <2>2. Console(view, showInvite, viewers, qr, info, width, height)
          = Block(AtLeast(width, MinWidth), AtLeast(height, MinHeight(showInvite)))
    BY <2>1, ConsoleFills DEF Sizes
  <2>3. QED BY <2>2 DEF Block
<1>2. QED BY <1>1, SizesInit, SizesNext, PTL DEF ScreenSpec

-----------------------------------------------------------------------------
(* The keybar, a button at a time.                                         *)

Keys   == {"r", "k", "i", "c", "q"}
Button == [key : Keys, w : Nat]

\* The column of the next button, and of the one after those of the bar.
PastButton(col, b) == col + b.w + 3
ColumnsOf(bar)     == FoldLeft(LAMBDA col, b : col + b.w + 3, 0, bar)

LEMMA ButtonRuns ==
  ASSUME NEW bar \in Seq(Button)
  PROVE  \E h : /\ h[0] = 0
                /\ \A n \in 1 .. Len(bar) : h[n] = PastButton(h[n - 1], bar[n])
                /\ h[Len(bar)] = ColumnsOf(bar)
<1> DEFINE N == Len(bar)
           step == [n \in 1 .. N |-> [v \in Nat |-> PastButton(v, bar[n])]]
           Solves(f) == f = [s \in SUBSET DOMAIN bar |->
                               IF s = {} THEN 0
                               ELSE PastButton(f[s \ {Max(s)}], bar[Max(s)])]
           f == CHOOSE g : Solves(g)
<1>1. N \in Nat /\ DOMAIN bar = 1 .. N /\ \A n \in 1 .. N : bar[n] \in Button
  OBVIOUS
<1>2. step \in [1 .. N -> [Nat -> Nat]]
  <2>1. \A v \in Nat, b \in Button : PastButton(v, b) \in Nat
    BY DEF PastButton, Button
  <2>2. QED BY <1>1, <2>1
<1>3. PICK g \in [SUBSET (1 .. N) -> Nat] : IsFold(g, N, 0, step)
  <2>1. N \in Nat /\ 0 \in Nat
    BY <1>1
  <2> HIDE DEF step, N
  <2>2. QED BY <2>1, <1>2, FoldExists
<1>4. Solves(g)
  <2>1. ASSUME NEW s \in SUBSET (1 .. N), s # {}
        PROVE  g[s] = PastButton(g[s \ {Max(s)}], bar[Max(s)])
    <3>1. Max(s) \in 1 .. N
      BY <1>1, <2>1, MaxExists
    <3>2. g[s \ {Max(s)}] \in Nat
      OBVIOUS
    <3>3. QED BY <1>3, <2>1, <3>1, <3>2 DEF IsFold
  <2>2. g[{}] = 0
    BY <1>3 DEF IsFold
  <2>3. QED BY <1>1, <1>3, <2>1, <2>2
<1>5. Solves(f)
  <2> HIDE DEF Solves
  <2>1. QED BY <1>4
<1>6. ColumnsOf(bar) = f[1 .. N]
  BY <1>1 DEF ColumnsOf, PastButton, FoldLeft, MapThenFoldSet
<1> HIDE DEF f
<1> DEFINE h == [n \in 0 .. N |-> f[1 .. n]]
<1>7. h[0] = 0
  <2>1. 1 .. 0 = {} /\ {} \in SUBSET DOMAIN bar
    OBVIOUS
  <2>2. f[{}] = 0
    BY <1>5, <2>1
  <2>3. QED BY <1>1, <2>1, <2>2
<1>8. ASSUME NEW n \in 1 .. N PROVE h[n] = PastButton(h[n - 1], bar[n])
  <2>1. f[1 .. n] = PastButton(f[1 .. n - 1], bar[n])
    <3>1. /\ 1 .. n \in SUBSET DOMAIN bar /\ 1 .. n # {}
          /\ Max(1 .. n) = n /\ (1 .. n) \ {n} = 1 .. n - 1
      BY <1>1, Peel
    <3>2. \A s \in SUBSET DOMAIN bar :
            f[s] = IF s = {} THEN 0
                   ELSE PastButton(f[s \ {Max(s)}], bar[Max(s)])
      BY <1>5
    <3>3. f[1 .. n] = PastButton(f[(1 .. n) \ {Max(1 .. n)}], bar[Max(1 .. n)])
      <4> HIDE DEF N
      <4>1. QED BY <3>1, <3>2
    <3>4. QED BY <3>1, <3>3
  <2>2. n \in 0 .. N /\ n - 1 \in 0 .. N
    BY <1>1
  <2>3. QED BY <2>1, <2>2
<1>9. h[N] = ColumnsOf(bar)
  BY <1>1, <1>6
<1>10. QED BY <1>7, <1>8, <1>9

\* One after another, the columns that the buttons start at.
LEMMA ButtonColumns ==
  /\ Buttons \in Seq(Button) /\ Len(Buttons) = 5
  /\ StartCol(1) = 0
  /\ \A i \in 1 .. 4 : StartCol(i + 1) = StartCol(i) + Buttons[i].w + 3
<1>1. Buttons \in Seq(Button) /\ Len(Buttons) = 5
  <2> DEFINE x == IF showInvite THEN 8 ELSE 10
  <2>1. x \in Nat
    OBVIOUS
  <2> HIDE DEF x
  <2>2. /\ [key |-> "r", w |-> 11] \in Button /\ [key |-> "k", w |-> 16] \in Button
        /\ [key |-> "i", w |-> x] \in Button /\ [key |-> "c", w |-> 8] \in Button
        /\ [key |-> "q", w |-> 9] \in Button
    <3>1. ASSUME NEW k \in Keys, NEW n \in Nat PROVE [key |-> k, w |-> n] \in Button
      BY DEF Button
    <3>2. 11 \in Nat /\ 16 \in Nat /\ 8 \in Nat /\ 9 \in Nat
      OBVIOUS
    <3>3. "r" \in Keys /\ "k" \in Keys /\ "i" \in Keys /\ "c" \in Keys /\ "q" \in Keys
      BY DEF Keys
    <3>4. QED BY <2>1, <3>1, <3>2, <3>3
  <2>3. Buttons = <<[key |-> "r", w |-> 11], [key |-> "k", w |-> 16],
                    [key |-> "i", w |-> x], [key |-> "c", w |-> 8],
                    [key |-> "q", w |-> 9]>>
    BY DEF Buttons, x
  <2>4. QED BY <2>2, <2>3
<1> DEFINE bar(i) == SubSeq(Buttons, 1, i - 1)
<1>2. \A i \in 1 .. 5 : StartCol(i) = ColumnsOf(bar(i))
  BY DEF StartCol, ColumnsOf
<1>3. \A i \in 1 .. 5 : /\ bar(i) \in Seq(Button) /\ Len(bar(i)) = i - 1
                        /\ \A n \in 1 .. i - 1 : bar(i)[n] = Buttons[n]
  <2>1. ASSUME NEW bs \in Seq(Button), NEW m \in 0 .. Len(bs)
        PROVE  /\ SubSeq(bs, 1, m) \in Seq(Button) /\ Len(SubSeq(bs, 1, m)) = m
               /\ \A n \in 1 .. m : SubSeq(bs, 1, m)[n] = bs[n]
    OBVIOUS
  <2>2. \A i \in 1 .. 5 : i - 1 \in 0 .. Len(Buttons)
    BY <1>1
  <2>3. QED BY <1>1, <2>1, <2>2
<1> HIDE DEF bar
<1>4. StartCol(1) = 0
  <2>1. PICK h : h[0] = 0 /\ h[Len(bar(1))] = ColumnsOf(bar(1))
    BY <1>3, ButtonRuns
  <2>2. Len(bar(1)) = 0
    BY <1>3
  <2>3. QED BY <1>2, <2>1, <2>2
<1>5. ASSUME NEW i \in 1 .. 4 PROVE StartCol(i + 1) = StartCol(i) + Buttons[i].w + 3
  <2>1. i \in 1 .. 5 /\ i + 1 \in 1 .. 5
    OBVIOUS
  <2>2. PICK g : /\ g[0] = 0
                 /\ \A n \in 1 .. Len(bar(i)) : g[n] = PastButton(g[n - 1], bar(i)[n])
                 /\ g[Len(bar(i))] = ColumnsOf(bar(i))
    BY <1>3, <2>1, ButtonRuns
  <2>3. PICK h : /\ h[0] = 0
                 /\ \A n \in 1 .. Len(bar(i + 1)) :
                      h[n] = PastButton(h[n - 1], bar(i + 1)[n])
                 /\ h[Len(bar(i + 1))] = ColumnsOf(bar(i + 1))
    BY <1>3, <2>1, ButtonRuns
  <2>4. /\ Len(bar(i)) = i - 1 /\ Len(bar(i + 1)) = i
        /\ \A n \in 1 .. i - 1 : bar(i)[n] = Buttons[n]
        /\ \A n \in 1 .. i : bar(i + 1)[n] = Buttons[n]
    <3>1. (i + 1) - 1 = i
      OBVIOUS
    <3>2. QED BY <1>3, <2>1, <3>1
  <2> DEFINE S == {n \in 0 .. i - 1 : g[n] = h[n]}
  <2>5. 0 \in S
    BY <2>2, <2>3
  <2>6. ASSUME NEW n \in 1 .. i - 1, n - 1 \in S PROVE n \in S
    <3>1. n \in 1 .. i /\ n \in 0 .. i - 1
      OBVIOUS
    <3>2. g[n] = PastButton(g[n - 1], Buttons[n])
      BY <2>2, <2>4
    <3>3. h[n] = PastButton(h[n - 1], Buttons[n])
      BY <2>3, <2>4, <3>1
    <3>4. QED BY <2>6, <3>1, <3>2, <3>3
  <2>7. i - 1 \in S
    <3> HIDE DEF S
    <3>1. i - 1 \in Nat /\ 0 .. i - 1 \subseteq S
      BY <2>5, <2>6, UpTo
    <3>2. QED BY <3>1
  <2>8. h[i] = PastButton(h[i - 1], Buttons[i])
    BY <2>3, <2>4
  <2>9. QED BY <1>2, <2>1, <2>2, <2>3, <2>4, <2>7, <2>8 DEF PastButton
<1>6. QED BY <1>1, <1>4, <1>5

\* No column belongs to two buttons, and all are on the narrowest screen.
ButtonsLieApart ==
    \A i \in DOMAIN Buttons :
      /\ Region(i) \subseteq 0 .. MinWidth - 1
      /\ \A j \in DOMAIN Buttons : i # j => Region(i) \cap Region(j) = {}

\* Whatever the label of the invite's button, a click of the mouse into the
\* keybar presses one button at most, and the least width of the console is
\* enough for every button.
THEOREM ClicksAreClear == ScreenSpec => []ButtonsLieApart
<1>1. ButtonsLieApart
  <2>1. DOMAIN Buttons = 1 .. 5
    BY ButtonColumns
  <2> DEFINE x == IF showInvite THEN 8 ELSE 10
  <2>2. /\ Buttons[1].w = 11 /\ Buttons[2].w = 16 /\ Buttons[3].w = x
        /\ Buttons[4].w = 8 /\ Buttons[5].w = 9
    BY DEF Buttons
  <2>3. x \in {8, 10}
    OBVIOUS
  <2> HIDE DEF x
  <2>4. /\ StartCol(1) = 0 /\ StartCol(2) = StartCol(1) + 14
        /\ StartCol(3) = StartCol(2) + 19 /\ StartCol(4) = StartCol(3) + x + 3
        /\ StartCol(5) = StartCol(4) + 11
    <3>1. /\ 1 \in 1 .. 4 /\ 2 \in 1 .. 4 /\ 3 \in 1 .. 4 /\ 4 \in 1 .. 4
          /\ 1 + 1 = 2 /\ 2 + 1 = 3 /\ 3 + 1 = 4 /\ 4 + 1 = 5
      OBVIOUS
    <3>2. /\ StartCol(2) = StartCol(1) + Buttons[1].w + 3
          /\ StartCol(3) = StartCol(2) + Buttons[2].w + 3
          /\ StartCol(4) = StartCol(3) + Buttons[3].w + 3
          /\ StartCol(5) = StartCol(4) + Buttons[4].w + 3
      BY <3>1, ButtonColumns
    <3>3. StartCol(1) = 0
      BY ButtonColumns
    <3>4. QED BY <2>2, <2>3, <3>2, <3>3
  <2> DEFINE Begin == <<0, 14, 33, 36 + x, 47 + x>>
             End   == <<10, 29, 32 + x, 43 + x, 55 + x>>
  <2>5. /\ StartCol(1) = 0 /\ StartCol(2) = 14 /\ StartCol(3) = 33
        /\ StartCol(4) = 36 + x /\ StartCol(5) = 47 + x
    BY <2>3, <2>4
  <2>6. \A i \in 1 .. 5 : \A col \in Region(i) :
          col \in Int /\ Begin[i] <= col /\ col <= End[i]
    <3>1. ASSUME NEW i \in 1 .. 5, NEW col \in Region(i)
          PROVE  col \in Int /\ StartCol(i) <= col /\ col <= StartCol(i) + Buttons[i].w - 1
      <4>1. StartCol(i) \in Int /\ Buttons[i].w \in Int
        BY <2>2, <2>3, <2>5
      <4>2. QED BY <3>1, <4>1 DEF Region
    <3>2. \A i \in 1 .. 5 : StartCol(i) = Begin[i] /\ StartCol(i) + Buttons[i].w - 1 = End[i]
      BY <2>2, <2>3, <2>5
    <3> HIDE DEF Begin, End
    <3>3. QED BY <3>1, <3>2
  <2>7. \A i \in 1 .. 5 : /\ Begin[i] \in Int /\ End[i] \in Int
                          /\ 0 <= Begin[i] /\ End[i] <= 65
    BY <2>3
  <2>8. \A i \in 1 .. 5, j \in 1 .. 5 : i < j => End[i] < Begin[j]
    BY <2>3
  <2> HIDE DEF Begin, End
  <2>9. ASSUME NEW i \in 1 .. 5 PROVE Region(i) \subseteq 0 .. MinWidth - 1
    BY <2>6, <2>7 DEF MinWidth
  <2>10. ASSUME NEW i \in 1 .. 5, NEW j \in 1 .. 5, i # j
         PROVE  Region(i) \cap Region(j) = {}
    <3>1. SUFFICES ASSUME NEW col, col \in Region(i), col \in Region(j) PROVE FALSE
      OBVIOUS
    <3>2. /\ col \in Int /\ Begin[i] <= col /\ col <= End[i]
          /\ Begin[j] <= col /\ col <= End[j]
      BY <2>6, <3>1
    <3>3. i < j \/ j < i
      BY <2>10
    <3>4. QED BY <2>7, <2>8, <3>2, <3>3
  <2>11. QED BY <2>1, <2>9, <2>10 DEF ButtonsLieApart
<1>2. QED BY <1>1, PTL DEF ScreenSpec

=============================================================================
