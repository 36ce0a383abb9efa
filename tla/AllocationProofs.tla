--------------------------- MODULE AllocationProofs ---------------------------
(***************************************************************************)
(* Proofs about Allocation, for any hardware, catalog, settings, pools and  *)
(* bounds: no GPU is handed out twice, layouts match the GPUs, models that  *)
(* can serve do, and what shrinking or growing a pool does to its models.   *)
(*                                                                         *)
(* The invariant AllocInv speaks of two panels, the current one and the one *)
(* auto_select_models put aside.  GoodPanel says of a list of models what   *)
(* every step has to keep; the lemmas named Panel... say that appending,    *)
(* removing or replacing a model, shrinking or dropping a pool and new      *)
(* settings keep it.                                                       *)
(***************************************************************************)
EXTENDS Allocation, Arithmetic

\* What model m takes from pool p.
Share(m, p) == IF m.pool = p THEN m.gpus ELSE 0

LEMMA Rows ==
    ASSUME NEW S, NEW ms \in Seq(S)
    PROVE  Len(ms) \in Nat /\ ms \in [1..Len(ms) -> S] /\ DOMAIN ms = 1..Len(ms)
OBVIOUS

LEMMA Shares ==
    ASSUME NEW m \in Assignment, NEW p
    PROVE  m.gpus \in Int /\ Share(m, p) \in Int
BY DEF Assignment, Share

LEMMA UsedToSums ==
    ASSUME NEW ms \in Seq(Assignment), NEW p
    PROVE  /\ UsedTo(ms, p) \in [0..Len(ms) -> Int]
           /\ UsedTo(ms, p)[0] = 0
           /\ \A k \in 1..Len(ms) : UsedTo(ms, p)[k] = UsedTo(ms, p)[k - 1] + Share(ms[k], p)
<1> DEFINE n == Len(ms)
           w == [i \in 1..n |-> Share(ms[i], p)]
           c == CHOOSE s : s = [i \in 0..n |-> IF i = 0 THEN 0
                                               ELSE s[i - 1] + IF ms[i].pool = p THEN ms[i].gpus ELSE 0]
<1>1. n \in Nat /\ \A i \in 1..n : Share(ms[i], p) \in Int
  BY Rows, Shares
<1>2. w \in [1..n -> Int]
  BY <1>1
<1> HIDE DEF n
<1>3. PICK s \in [0..n -> Int] : s[0] = 0 /\ \A i \in 1..n : s[i] = s[i - 1] + w[i]
  BY <1>1, <1>2, RunningSum
<1>4. \A i \in 1..n : w[i] = IF ms[i].pool = p THEN ms[i].gpus ELSE 0
  BY DEF Share
<1> HIDE DEF w
<1>5. s = [i \in 0..n |-> IF i = 0 THEN 0 ELSE s[i - 1] + IF ms[i].pool = p THEN ms[i].gpus ELSE 0]
  BY <1>1, <1>3, <1>4
<1>6. c = [i \in 0..n |-> IF i = 0 THEN 0 ELSE c[i - 1] + IF ms[i].pool = p THEN ms[i].gpus ELSE 0]
  BY <1>5
<1>7. UsedTo(ms, p) = c
  BY DEF UsedTo, n
<1> HIDE DEF c
<1>8. c[0] = 0 /\ \A i \in 1..n : c[i] = c[i - 1] + Share(ms[i], p)
  BY <1>1, <1>6 DEF Share
<1>9. \A i \in 0..n : c[i] \in Int
  <2> DEFINE T == {i \in Nat : i <= n => c[i] \in Int}
  <2>1. 0 \in T
    BY <1>8
  <2>2. ASSUME NEW i \in Nat, i \in T PROVE i + 1 \in T
    <3>1. CASE i + 1 <= n
      <4>1. i \in 0..n /\ i + 1 \in 1..n /\ (i + 1) - 1 = i
        BY <1>1, <3>1
      <4>2. c[i] \in Int /\ Share(ms[i + 1], p) \in Int
        BY <1>1, <2>2, <3>1, <4>1
      <4>3. c[i + 1] = c[i] + Share(ms[i + 1], p)
        BY <1>8, <4>1
      <4> QED
        BY <4>2, <4>3
    <3> QED
      BY <3>1
  <2> HIDE DEF T
  <2>3. Nat \subseteq T
    BY <2>1, <2>2, EveryNumber
  <2> QED
    BY <1>1, <2>3 DEF T
<1> QED
  BY <1>6, <1>7, <1>8, <1>9 DEF n

LEMMA UsedToType ==
    ASSUME NEW ms \in Seq(Assignment), NEW p
    PROVE  /\ UsedTo(ms, p) \in [0..Len(ms) -> Int]
           /\ UsedTo(ms, p)[0] = 0
           /\ \A k \in 0..Len(ms) : UsedTo(ms, p)[k] \in Int
<1>1. UsedTo(ms, p) \in [0..Len(ms) -> Int] /\ UsedTo(ms, p)[0] = 0
  BY UsedToSums
<1> QED
  BY <1>1

LEMMA UsedToStep ==
    ASSUME NEW ms \in Seq(Assignment), NEW p, NEW k \in 1..Len(ms)
    PROVE  /\ UsedTo(ms, p)[k] = UsedTo(ms, p)[k - 1] + Share(ms[k], p)
           /\ UsedTo(ms, p)[k] \in Int /\ UsedTo(ms, p)[k - 1] \in Int /\ Share(ms[k], p) \in Int
<1>1. k \in 0..Len(ms) /\ k - 1 \in 0..Len(ms) /\ ms[k] \in Assignment
  BY Rows
<1> QED
  BY <1>1, UsedToSums, UsedToType, Shares

LEMMA UsedInt ==
    ASSUME NEW ms \in Seq(Assignment), NEW p
    PROVE  Used(ms, p) \in Int /\ (ms = <<>> => Used(ms, p) = 0)
<1>1. Len(ms) \in 0..Len(ms) /\ (ms = <<>> => Len(ms) = 0)
  BY Rows
<1> QED
  BY <1>1, UsedToType DEF Used

\* Runs of the same shares add the same.
LEMMA Alike ==
    ASSUME NEW ms \in Seq(Assignment), NEW ns \in Seq(Assignment), NEW p,
           NEW a \in 0..Len(ms), NEW e \in a..Len(ms), e <= Len(ns),
           \A k \in (a + 1)..e : Share(ns[k], p) = Share(ms[k], p)
    PROVE  UsedTo(ns, p)[e] - UsedTo(ms, p)[e] = UsedTo(ns, p)[a] - UsedTo(ms, p)[a]
<1> DEFINE f == UsedTo(ns, p)
           g == UsedTo(ms, p)
           d == f[a] - g[a]
           T == {x \in Nat : x \in a..e => f[x] = g[x] + d}
<1>1. /\ Len(ms) \in Nat /\ Len(ns) \in Nat /\ a \in Nat /\ e \in Nat /\ a <= e
      /\ a \in 0..Len(ns) /\ e \in 0..Len(ns) /\ e \in 0..Len(ms)
  BY Rows
<1>2. f[a] \in Int /\ g[a] \in Int /\ f[e] \in Int /\ g[e] \in Int
  BY <1>1, UsedToType
<1>3. d \in Int /\ f[a] = g[a] + d
  BY <1>2
<1> HIDE DEF d
<1>4. 0 \in T
  BY <1>1, <1>3
<1>5. ASSUME NEW x \in Nat, x \in T
      PROVE  x + 1 \in T
  <2> SUFFICES ASSUME x + 1 \in a..e, x + 1 # a PROVE f[x + 1] = g[x + 1] + d
    BY <1>3
  <2>1. PICK y \in 1..Len(ns) : y = x + 1 /\ y - 1 = x /\ y \in 1..Len(ms) /\ x \in a..e
    BY <1>1
  <2>2. Share(ns[y], p) = Share(ms[y], p)
    BY <1>1, <2>1
  <2>3. f[y - 1] = g[y - 1] + d
    BY <1>5, <2>1
  <2>4. /\ f[y] = f[y - 1] + Share(ns[y], p)
        /\ f[y - 1] \in Int /\ Share(ns[y], p) \in Int
    BY UsedToStep
  <2>5. /\ g[y] = g[y - 1] + Share(ms[y], p)
        /\ g[y - 1] \in Int /\ Share(ms[y], p) \in Int
    BY <2>1, UsedToStep
  <2> HIDE DEF f, g
  <2>6. f[y] = g[y] + d
    BY <1>3, <2>2, <2>3, <2>4, <2>5
  <2> QED
    BY <2>1, <2>6
<1> HIDE DEF T
<1>6. e \in T
  BY <1>1, <1>4, <1>5, EveryNumber
<1>7. f[e] = g[e] + d
  BY <1>1, <1>6 DEF T
<1> HIDE DEF f, g
<1>8. f[e] - g[e] = f[a] - g[a]
  BY <1>2, <1>3, <1>7
<1> QED
  BY <1>8 DEF f, g

\* Sequences that take the same from a pool at each place.
LEMMA UsedSame ==
    ASSUME NEW ms \in Seq(Assignment), NEW ns \in Seq(Assignment), NEW p,
           NEW k \in 0..Len(ms), k <= Len(ns),
           \A j \in 1..k : Share(ns[j], p) = Share(ms[j], p)
    PROVE  UsedTo(ns, p)[k] = UsedTo(ms, p)[k]
<1>1. 0 \in 0..Len(ms) /\ k \in 0..Len(ms) /\ Len(ms) \in Nat
  BY Rows
<1>2. UsedTo(ns, p)[k] - UsedTo(ms, p)[k] = UsedTo(ns, p)[0] - UsedTo(ms, p)[0]
  <2>1. \A j \in (0 + 1)..k : Share(ns[j], p) = Share(ms[j], p)
    OBVIOUS
  <2> QED
    BY <1>1, <2>1, Alike
<1>3. UsedTo(ns, p)[0] = 0
  BY UsedToType
<1>4. UsedTo(ms, p)[0] = 0
  BY UsedToType
<1>5. UsedTo(ms, p)[k] \in Int
  BY <1>1, UsedToType
<1>6. UsedTo(ns, p)[k] \in Int
  <2>1. k \in 0..Len(ns)
    BY <1>1, Rows
  <2> QED
    BY <2>1, UsedToType
<1> QED
  BY <1>2, <1>3, <1>4, <1>5, <1>6


\* One model changed.
LEMMA RowsExcept ==
    ASSUME NEW S, NEW ms \in Seq(S), NEW i \in 1..Len(ms), NEW m \in S
    PROVE  /\ [ms EXCEPT ![i] = m] \in Seq(S)
           /\ Len([ms EXCEPT ![i] = m]) = Len(ms)
           /\ \A j \in 1..Len(ms) : [ms EXCEPT ![i] = m][j] = IF j = i THEN m ELSE ms[j]
OBVIOUS

LEMMA UsedExcept ==
    ASSUME NEW ms \in Seq(Assignment), NEW i \in 1..Len(ms), NEW m \in Assignment, NEW p
    PROVE  Used([ms EXCEPT ![i] = m], p) = Used(ms, p) - Share(ms[i], p) + Share(m, p)
<1> DEFINE ns == [ms EXCEPT ![i] = m]
           n  == Len(ms)
<1>1. /\ ns \in Seq(Assignment) /\ Len(ns) = n
      /\ \A j \in 1..n : ns[j] = IF j = i THEN m ELSE ms[j]
  BY RowsExcept
<1>2. n \in Nat /\ i \in 0..n /\ i - 1 \in 0..n /\ i \in 1..n /\ n \in i..n
  BY Rows
<1> HIDE DEF ns
<1>3. UsedTo(ns, p)[i - 1] = UsedTo(ms, p)[i - 1]
  <2>1. \A j \in 1..(i - 1) : Share(ns[j], p) = Share(ms[j], p)
    BY <1>1
  <2> QED
    BY <1>1, <1>2, <2>1, UsedSame
<1>4. /\ UsedTo(ms, p)[i] = UsedTo(ms, p)[i - 1] + Share(ms[i], p)
      /\ UsedTo(ms, p)[i] \in Int /\ UsedTo(ms, p)[i - 1] \in Int /\ Share(ms[i], p) \in Int
  BY UsedToStep
<1>5. /\ UsedTo(ns, p)[i] = UsedTo(ns, p)[i - 1] + Share(m, p)
      /\ UsedTo(ns, p)[i] \in Int /\ Share(m, p) \in Int
  <2>1. i \in 1..Len(ns) /\ ns[i] = m
    BY <1>1
  <2> QED
    BY <1>1, <2>1, UsedToStep
<1>6. UsedTo(ns, p)[n] - UsedTo(ms, p)[n] = UsedTo(ns, p)[i] - UsedTo(ms, p)[i]
  <2>1. \A k \in (i + 1)..n : Share(ns[k], p) = Share(ms[k], p)
    BY <1>1
  <2> QED
    BY <1>1, <1>2, <2>1, Alike, SMTT(30)
<1>7. Used(ns, p) = UsedTo(ns, p)[n] /\ Used(ms, p) = UsedTo(ms, p)[n]
  BY <1>1 DEF Used
<1>8. Used(ns, p) \in Int /\ Used(ms, p) \in Int
  BY <1>1, UsedInt
<1>9. Used(ns, p) = Used(ms, p) - Share(ms[i], p) + Share(m, p)
  <2>1. UsedTo(ns, p)[i] - UsedTo(ms, p)[i] = Share(m, p) - Share(ms[i], p)
    BY <1>3, <1>4, <1>5
  <2>2. Used(ns, p) - Used(ms, p) = Share(m, p) - Share(ms[i], p)
    BY <1>6, <1>7, <2>1
  <2>3. Share(ms[i], p) \in Int /\ Share(m, p) \in Int
    BY <1>4, <1>5
  <2> QED
    BY <1>8, <2>2, <2>3
<1> QED
  BY <1>9 DEF ns

LEMMA UsedAppend ==
    ASSUME NEW ms \in Seq(Assignment), NEW m \in Assignment, NEW p
    PROVE  Used(Append(ms, m), p) = Used(ms, p) + Share(m, p)
<1> DEFINE ns == Append(ms, m)
           n  == Len(ms)
<1>1. /\ ns \in Seq(Assignment) /\ Len(ns) = n + 1 /\ n \in Nat /\ ns[n + 1] = m
      /\ \A j \in 1..n : ns[j] = ms[j]
  OBVIOUS
<1> HIDE DEF ns
<1>2. UsedTo(ns, p)[n] = UsedTo(ms, p)[n]
  <2>1. n \in 0..Len(ms) /\ n <= Len(ns)
    BY <1>1
  <2>2. \A j \in 1..n : Share(ns[j], p) = Share(ms[j], p)
    BY <1>1
  <2> QED
    BY <1>1, <2>1, <2>2, UsedSame
<1>3. UsedTo(ns, p)[n + 1] = UsedTo(ns, p)[(n + 1) - 1] + Share(m, p)
  <2>1. n + 1 \in 1..Len(ns)
    BY <1>1
  <2> QED
    BY <1>1, <2>1, UsedToStep
<1>4. (n + 1) - 1 = n
  BY <1>1
<1> QED
  BY <1>1, <1>2, <1>3, <1>4 DEF Used, ns

LEMMA RowsRemoved ==
    ASSUME NEW S, NEW ms \in Seq(S), NEW i \in 1..Len(ms)
    PROVE  /\ RemoveAt(ms, i) \in Seq(S)
           /\ Len(RemoveAt(ms, i)) = Len(ms) - 1
           /\ \A j \in 1..(i - 1) : RemoveAt(ms, i)[j] = ms[j]
           /\ \A j \in i..(Len(ms) - 1) : RemoveAt(ms, i)[j] = ms[j + 1]
<1> DEFINE u == SubSeq(ms, 1, i - 1)
           v == SubSeq(ms, i + 1, Len(ms))
<1>1. Len(ms) \in Nat /\ i \in 1..Len(ms)
  BY Rows
<1>2. u \in Seq(S) /\ Len(u) = i - 1 /\ \A j \in 1..(i - 1) : u[j] = ms[j]
  BY <1>1
<1>3. v \in Seq(S) /\ Len(v) = Len(ms) - i /\ \A j \in 1..(Len(ms) - i) : v[j] = ms[i + j]
  BY <1>1
<1>4. RemoveAt(ms, i) = u \o v
  BY DEF RemoveAt
<1> HIDE DEF u, v
<1>5. /\ u \o v \in Seq(S) /\ Len(u \o v) = Len(ms) - 1
      /\ \A j \in 1..(i - 1) : (u \o v)[j] = u[j]
      /\ \A j \in i..(Len(ms) - 1) : (u \o v)[j] = v[j - (i - 1)]
  <2>1. /\ u \o v \in Seq(S) /\ Len(u \o v) = Len(u) + Len(v)
        /\ \A j \in 1..(Len(u) + Len(v)) :
              (u \o v)[j] = IF j <= Len(u) THEN u[j] ELSE v[j - Len(u)]
    <3>1. u \in Seq(S) /\ v \in Seq(S)
      BY <1>2, <1>3
    <3> QED
      BY <3>1
  <2>2. Len(u) + Len(v) = Len(ms) - 1
    BY <1>1, <1>2, <1>3
  <2>3. \A j \in 1..(i - 1) : j \in 1..(Len(ms) - 1) /\ j <= Len(u)
    BY <1>1, <1>2
  <2>4. \A j \in i..(Len(ms) - 1) : j \in 1..(Len(ms) - 1) /\ ~(j <= Len(u))
    BY <1>1, <1>2
  <2> QED
    BY <1>2, <2>1, <2>2, <2>3, <2>4
<1>6. \A j \in i..(Len(ms) - 1) : v[j - (i - 1)] = ms[j + 1]
  <2> TAKE j \in i..(Len(ms) - 1)
  <2>1. j - (i - 1) \in 1..(Len(ms) - i) /\ i + (j - (i - 1)) = j + 1
    BY <1>1
  <2> QED
    BY <1>3, <2>1
<1> QED
  BY <1>2, <1>4, <1>5, <1>6

LEMMA UsedRemoved ==
    ASSUME NEW ms \in Seq(Assignment), NEW i \in 1..Len(ms), NEW p
    PROVE  Used(RemoveAt(ms, i), p) = Used(ms, p) - Share(ms[i], p)
<1> DEFINE ns == RemoveAt(ms, i)
           n  == Len(ms)
<1>1. /\ ns \in Seq(Assignment) /\ Len(ns) = n - 1
      /\ \A j \in 1..(i - 1) : ns[j] = ms[j]
      /\ \A j \in i..(n - 1) : ns[j] = ms[j + 1]
  BY RowsRemoved
<1>2. n \in Nat /\ i \in Nat /\ i - 1 \in Nat /\ n - 1 \in Nat /\ i - 1 \in 0..n /\ i \in 1..n
  BY Rows
<1> HIDE DEF ns
<1>3. UsedTo(ns, p)[i - 1] = UsedTo(ms, p)[i - 1]
  <2>1. \A j \in 1..(i - 1) : Share(ns[j], p) = Share(ms[j], p)
    BY <1>1
  <2>2. i - 1 <= Len(ns)
    BY <1>1, <1>2
  <2> QED
    BY <1>1, <1>2, <2>1, <2>2, UsedSame
<1>4. /\ UsedTo(ms, p)[i] = UsedTo(ms, p)[i - 1] + Share(ms[i], p)
      /\ UsedTo(ms, p)[i] \in Int /\ UsedTo(ms, p)[i - 1] \in Int /\ Share(ms[i], p) \in Int
  BY UsedToStep
<1>5. UsedTo(ns, p)[n - 1] = UsedTo(ms, p)[n] - Share(ms[i], p)
  <2> DEFINE f == UsedTo(ns, p)
             g == UsedTo(ms, p)
             d == Share(ms[i], p)
             T == {x \in Nat : x \in (i - 1)..(n - 1) => f[x] = g[x + 1] - d}
  <2>1. 0 \in T
    <3> SUFFICES ASSUME i = 1 PROVE f[0] = g[1] - d
      BY <1>2
    <3> QED
      BY <1>3, <1>4
  <2>2. ASSUME NEW x \in Nat, x \in T
        PROVE  x + 1 \in T
    <3> SUFFICES ASSUME x + 1 \in (i - 1)..(n - 1) PROVE f[x + 1] = g[(x + 1) + 1] - d
      OBVIOUS
    <3>1. CASE x + 1 = i - 1
      <4>1. (x + 1) + 1 = i
        BY <1>2, <3>1
      <4> HIDE DEF f, g
      <4>2. f[i - 1] = g[i] - d
        BY <1>3, <1>4 DEF f, g
      <4> QED
        BY <3>1, <4>1, <4>2
    <3>2. CASE x + 1 # i - 1
      <4>1. PICK y \in 1..Len(ns) : y = x + 1 /\ y - 1 = x /\ y \in i..(n - 1) /\ x \in (i - 1)..(n - 1)
        BY <1>1, <1>2, <3>2
      <4>2. PICK z \in 1..Len(ms) : z = y + 1 /\ z - 1 = y
        BY <1>2, <4>1
      <4>3. Share(ns[y], p) = Share(ms[z], p)
        BY <1>1, <4>1, <4>2
      <4>4. f[y - 1] = g[z - 1] - d
        BY <2>2, <4>1, <4>2
      <4>5. /\ f[y] = f[y - 1] + Share(ns[y], p)
            /\ f[y - 1] \in Int /\ Share(ns[y], p) \in Int
        BY <1>1, UsedToStep
      <4>6. /\ g[z] = g[z - 1] + Share(ms[z], p)
            /\ g[z - 1] \in Int /\ Share(ms[z], p) \in Int
        BY UsedToStep
      <4>7. d \in Int
        BY <1>4
      <4> HIDE DEF f, g, d
      <4>8. f[y] = g[z] - d
        BY <4>3, <4>4, <4>5, <4>6, <4>7
      <4> QED
        BY <4>1, <4>2, <4>8
    <3> QED
      BY <3>1, <3>2
  <2> HIDE DEF T
  <2>3. n - 1 \in T
    BY <1>2, <2>1, <2>2, EveryNumber
  <2> QED
    BY <1>2, <2>3 DEF T
<1>6. Used(ns, p) = UsedTo(ns, p)[n - 1] /\ Used(ms, p) = UsedTo(ms, p)[n]
  BY <1>1 DEF Used
<1>7. Used(ns, p) = Used(ms, p) - Share(ms[i], p)
  BY <1>5, <1>6
<1> QED
  BY <1>7 DEF ns

\* The models of a sequence that use a natural number of GPUs.
Counted(ms) == \A i \in 1..Len(ms) : ms[i].gpus \in Nat

LEMMA UsedGrows ==
    ASSUME NEW ms \in Seq(Assignment), Counted(ms), NEW p,
           NEW i \in 0..Len(ms), NEW j \in i..Len(ms)
    PROVE  UsedTo(ms, p)[i] <= UsedTo(ms, p)[j]
<1> DEFINE f == UsedTo(ms, p)
           T == {x \in Nat : x \in i..Len(ms) => f[i] <= f[x]}
<1>1. Len(ms) \in Nat /\ i \in Nat /\ j \in Nat
  BY Rows
<1>2. f[i] \in Int
  BY UsedToType
<1>3. 0 \in T
  BY <1>1, <1>2
<1>4. ASSUME NEW x \in Nat, x \in T
      PROVE  x + 1 \in T
  <2> SUFFICES ASSUME x + 1 \in i..Len(ms), x + 1 # i PROVE f[i] <= f[x + 1]
    BY <1>2
  <2>1. PICK y \in 1..Len(ms) : y = x + 1 /\ y - 1 = x /\ x \in i..Len(ms)
    BY <1>1
  <2>2. f[y] = f[y - 1] + Share(ms[y], p) /\ f[y - 1] \in Int
    BY UsedToStep
  <2>3. Share(ms[y], p) \in Nat
    BY DEF Share, Counted
  <2>4. f[i] <= f[y - 1]
    BY <1>4, <2>1
  <2> HIDE DEF f
  <2>5. f[i] <= f[y]
    BY <1>2, <2>2, <2>3, <2>4
  <2> QED
    BY <2>1, <2>5
<1> HIDE DEF T
<1>5. j \in T
  BY <1>1, <1>3, <1>4, EveryNumber
<1> QED
  BY <1>5 DEF T

LEMMA UsedNat ==
    ASSUME NEW ms \in Seq(Assignment), Counted(ms), NEW p
    PROVE  Used(ms, p) \in Nat
<1>1. 0 \in 0..Len(ms) /\ Len(ms) \in 0..Len(ms)
  BY Rows
<1>2. UsedTo(ms, p)[0] = 0
  BY UsedToType
<1>3. UsedTo(ms, p)[0] <= UsedTo(ms, p)[Len(ms)]
  BY <1>1, UsedGrows
<1>4. UsedTo(ms, p)[Len(ms)] \in Int
  BY <1>1, UsedToType
<1> QED
  BY <1>2, <1>3, <1>4 DEF Used

\* A model uses no more of a pool than all models do.
LEMMA ShareOfUsed ==
    ASSUME NEW ms \in Seq(Assignment), Counted(ms), NEW p, NEW i \in 1..Len(ms)
    PROVE  Share(ms[i], p) \in Nat /\ Share(ms[i], p) <= Used(ms, p) /\ Used(ms, p) \in Nat
<1>1. /\ i - 1 \in 0..Len(ms) /\ i \in 0..Len(ms) /\ 0 \in 0..Len(ms)
      /\ i - 1 \in 0..Len(ms) /\ Len(ms) \in i..Len(ms)
  BY Rows
<1>2. UsedTo(ms, p)[0] <= UsedTo(ms, p)[i - 1]
  BY <1>1, UsedGrows
<1>3. UsedTo(ms, p)[i] <= UsedTo(ms, p)[Len(ms)]
  BY <1>1, UsedGrows
<1>4. /\ UsedTo(ms, p)[i] = UsedTo(ms, p)[i - 1] + Share(ms[i], p)
      /\ UsedTo(ms, p)[i] \in Int /\ UsedTo(ms, p)[i - 1] \in Int
  BY UsedToStep
<1>5. UsedTo(ms, p)[0] = 0
  BY UsedToType
<1>6. Share(ms[i], p) \in Nat
  BY DEF Share, Counted
<1>7. Used(ms, p) \in Nat
  BY UsedNat
<1> QED
  BY <1>2, <1>3, <1>4, <1>5, <1>6, <1>7 DEF Used

\* A pool that no model uses.
LEMMA UnusedPool ==
    ASSUME NEW ms \in Seq(Assignment), NEW p, \A i \in 1..Len(ms) : Share(ms[i], p) = 0
    PROVE  Used(ms, p) = 0
<1> DEFINE f == UsedTo(ms, p)
           T == {x \in Nat : x \in 0..Len(ms) => f[x] = 0}
<1>1. Len(ms) \in Nat
  BY Rows
<1>2. 0 \in T
  BY UsedToType
<1>3. ASSUME NEW x \in Nat, x \in T
      PROVE  x + 1 \in T
  <2> SUFFICES ASSUME x + 1 \in 0..Len(ms) PROVE f[x + 1] = 0
    OBVIOUS
  <2>1. PICK y \in 1..Len(ms) : y = x + 1 /\ y - 1 = x
    BY <1>1
  <2>2. f[y] = f[y - 1] + Share(ms[y], p)
    BY UsedToStep
  <2>3. f[y - 1] = 0 /\ Share(ms[y], p) = 0
    BY <1>1, <1>3, <2>1
  <2> HIDE DEF f
  <2>4. f[y] = 0
    BY <2>2, <2>3
  <2> QED
    BY <2>1, <2>4
<1> HIDE DEF T
<1>4. Len(ms) \in T
  BY <1>1, <1>2, <1>3, EveryNumber
<1> QED
  BY <1>1, <1>4 DEF T, Used

\* The models off a pool: each is one of the models, and they take from the
\* other pools what all models take.
LEMMA OffPoolRows ==
    ASSUME NEW ms \in Seq(Assignment), NEW p, NEW q
    PROVE  /\ OffPool(ms, p) \in Seq(Assignment) /\ Len(OffPool(ms, p)) <= Len(ms)
           /\ \A j \in 1..Len(OffPool(ms, p)) :
                 \E i \in 1..Len(ms) : OffPool(ms, p)[j] = ms[i] /\ ms[i].pool # p
           /\ Used(OffPool(ms, p), q) = IF q = p THEN 0 ELSE Used(ms, q)
<1> DEFINE n == Len(ms)
           V == Seq(Assignment)
           H == [x \in (1..n) \X V |-> IF ms[x[1]].pool = p THEN x[2] ELSE Append(x[2], ms[x[1]])]
           Next1(i, a) == IF ms[i].pool = p THEN a ELSE Append(a, ms[i])
           K(k) == [i \in 0..n |-> IF i = 0 THEN <<>> 
                                   ELSE IF ms[i].pool = p THEN k[i - 1] ELSE Append(k[i - 1], ms[i])]
           c == CHOOSE k : k = K(k)
<1>1. n \in Nat /\ <<>> \in V /\ \A i \in 1..n : ms[i] \in Assignment
  BY Rows
<1>2. \A a \in V, i \in 1..n : Append(a, ms[i]) \in V
  BY <1>1
<1>3. H \in [(1..n) \X V -> V]
  BY <1>2
<1>4. \A i \in 1..n, a \in V : H[<<i, a>>] = IF ms[i].pool = p THEN a ELSE Append(a, ms[i])
  OBVIOUS
<1> HIDE DEF V, H, n
<1>5. Runs(n, V, <<>>, H) # {}
  BY <1>1, <1>3, Recursion
<1>6. PICK s \in [0..n -> V] : s[0] = <<>> /\ \A i \in 1..n : s[i] = H[<<i, s[i - 1]>>]
  BY <1>5 DEF Runs
<1>7. ASSUME NEW i \in 1..n
      PROVE  s[i] = IF ms[i].pool = p THEN s[i - 1] ELSE Append(s[i - 1], ms[i])
  <2>1. i - 1 \in 0..n
    BY <1>1
  <2>2. s[i - 1] \in V
    BY <2>1
  <2> QED
    BY <1>4, <1>6, <2>2
<1>8. s = K(s)
  <2>1. \A i \in 0..n : s[i] = IF i = 0 THEN <<>> ELSE Next1(i, s[i - 1])
    <3> HIDE DEF Next1
    <3>1. \A i \in 1..n : s[i] = Next1(i, s[i - 1])
      BY <1>7 DEF Next1
    <3>2. \A i \in 0..n : i = 0 \/ i \in 1..n
      BY <1>1
    <3>3. s[0] = <<>> /\ \A i \in 1..n : i # 0
      BY <1>1, <1>6
    <3> QED
      BY <3>1, <3>2, <3>3
  <2> QED
    BY <2>1
<1>9. c = K(c)
  BY <1>8
<1>10. OffPool(ms, p) = c[n]
  BY DEF OffPool, n
<1> HIDE DEF c
<1>11. c[0] = <<>> /\ \A i \in 1..n : c[i] = IF ms[i].pool = p THEN c[i - 1] ELSE Append(c[i - 1], ms[i])
  <2> HIDE DEF K
  <2>1. ASSUME NEW i \in 0..n
        PROVE  K(c)[i] = IF i = 0 THEN <<>> ELSE Next1(i, c[i - 1])
    BY DEF K
  <2>2. 0 \in 0..n /\ \A i \in 1..n : i \in 0..n /\ i # 0
    BY <1>1
  <2> HIDE DEF Next1
  <2>3. c[0] = <<>> /\ \A i \in 1..n : c[i] = Next1(i, c[i - 1])
    BY <1>9, <2>1, <2>2
  <2> QED
    BY <2>3 DEF Next1
<1> HIDE DEF K
<1> DEFINE Part(x) == /\ c[x] \in V /\ Len(c[x]) <= x
                      /\ \A j \in 1..Len(c[x]) : \E i \in 1..n : c[x][j] = ms[i] /\ ms[i].pool # p
                      /\ Used(c[x], q) = IF q = p THEN 0 ELSE UsedTo(ms, q)[x]
           T == {x \in Nat : x \in 0..n => Part(x)}
<1>12. 0 \in T
  <2>1. Used(<<>>, q) = 0 /\ UsedTo(ms, q)[0] = 0
    BY <1>1, UsedInt, UsedToType DEF V
  <2>2. Len(<<>>) = 0
    OBVIOUS
  <2> QED
    BY <1>1, <1>11, <2>1, <2>2
<1>13. ASSUME NEW x \in Nat, x \in T
       PROVE  x + 1 \in T
  <2> SUFFICES ASSUME x + 1 \in 0..n PROVE Part(x + 1)
    OBVIOUS
  <2>1. PICK y \in 1..n : y = x + 1 /\ y - 1 = x /\ x \in 0..n
    BY <1>1
  <2>2. Part(x)
    BY <1>13, <2>1
  <2>3. /\ UsedTo(ms, q)[y] = UsedTo(ms, q)[x] + Share(ms[y], q)
        /\ UsedTo(ms, q)[x] \in Int /\ Share(ms[y], q) \in Int
    BY <2>1, UsedToStep DEF n
  <2>4. CASE ms[y].pool = p
    <3>1. c[y] = c[x]
      BY <1>11, <2>1, <2>4
    <3>2. q # p => Share(ms[y], q) = 0
      BY <2>4 DEF Share
    <3>3. Len(c[x]) \in Nat
      BY <2>2 DEF V
    <3>4. Part(y)
      BY <2>1, <2>2, <2>3, <3>1, <3>2, <3>3
    <3> QED
      BY <2>1, <3>4
  <2>5. CASE ms[y].pool # p
    <3> DEFINE a == c[x]
               b == Append(a, ms[y])
    <3>1. c[y] = b
      BY <1>11, <2>1, <2>5
    <3>2. a \in Seq(Assignment) /\ ms[y] \in Assignment
      BY <1>1, <2>2 DEF V
    <3> HIDE DEF a
    <3>3. /\ b \in Seq(Assignment) /\ Len(b) = Len(a) + 1 /\ Len(a) \in Nat
          /\ \A j \in 1..Len(b) : b[j] = IF j = Len(b) THEN ms[y] ELSE a[j]
      BY <3>2
    <3>4. Used(b, q) = Used(a, q) + Share(ms[y], q)
      BY <3>2, UsedAppend
    <3> HIDE DEF b
    <3>5. \A j \in 1..Len(b) : \E i \in 1..n : b[j] = ms[i] /\ ms[i].pool # p
      <4> TAKE j \in 1..Len(b)
      <4>1. CASE j = Len(b)
        BY <2>5, <3>3, <4>1
      <4>2. CASE j # Len(b)
        <5>1. j \in 1..Len(a) /\ b[j] = a[j]
          BY <3>3, <4>2
        <5> QED
          BY <2>2, <5>1 DEF a
      <4> QED
        BY <4>1, <4>2
    <3>6. Len(b) <= y
      BY <2>1, <2>2, <3>3 DEF a
    <3>7. Used(b, q) = IF q = p THEN 0 ELSE UsedTo(ms, q)[y]
      <4>1. q = p => Share(ms[y], q) = 0
        BY <2>5 DEF Share
      <4> QED
        BY <2>2, <2>3, <3>4, <4>1 DEF a
    <3>8. Part(y)
      BY <3>1, <3>3, <3>5, <3>6, <3>7 DEF V
    <3> QED
      BY <2>1, <3>8
  <2> QED
    BY <2>4, <2>5
<1> HIDE DEF T
<1>14. n \in T
  BY <1>1, <1>12, <1>13, EveryNumber
<1>15. Part(n)
  BY <1>1, <1>14 DEF T
<1>16. Used(ms, q) = UsedTo(ms, q)[n]
  BY DEF Used, n
<1> QED
  <2> DEFINE o == OffPool(ms, p)
  <2>1. /\ o \in V /\ Len(o) <= n
        /\ \A j \in 1..Len(o) : \E i \in 1..n : o[j] = ms[i] /\ ms[i].pool # p
        /\ Used(o, q) = IF q = p THEN 0 ELSE UsedTo(ms, q)[n]
    BY <1>10, <1>15
  <2> HIDE DEF o
  <2>2. /\ o \in V /\ Len(o) <= n
        /\ \A j \in 1..Len(o) : \E i \in 1..n : o[j] = ms[i] /\ ms[i].pool # p
        /\ Used(o, q) = IF q = p THEN 0 ELSE Used(ms, q)
    BY <1>16, <2>1
  <2> QED
    BY <2>2 DEF n, V, o

-----------------------------------------------------------------------------
(* Layouts                                                                 *)

PoolTable == [Pool -> [type : GpuType, count : 1..MaxCount] \cup {None}]

\* The pool that gives model m its GPUs exists.
Hosted(m, ps) == m.gpus \in Nat /\ (m.gpus > 0 => m.pool \in Pool /\ ps[m.pool] # None)

Filled(m) ==
    /\ Size(m.decode) = IF m.gpus = 0 THEN 1 ELSE m.gpus
    /\ Size(m.prefill) = IF m.gpus = 0 THEN 1 ELSE m.gpus

Served(m, ps, e) ==
    Valid(m, ps, e) # {} => m.prefill = m.decode /\ m.decode \in Valid(m, ps, e)

\* The clients set one layout for both phases of a model, unless it is an
\* embedding model, whose phases the route sets together.
BothSent == \A k \in Key : Kind[k] # "embedding" => PhasesSent[Kind[k]] \subseteq {"both"}

Good(m, ps, e) ==
    /\ m \in Assignment
    /\ Hosted(m, ps)
    /\ Filled(m)
    /\ BothSent => Served(m, ps, e)

LEMMA PoolKinds ==
    ASSUME NEW ps \in PoolTable, NEW p \in Pool, ps[p] # None
    PROVE  ps[p].type \in GpuType /\ ps[p].count \in 1..MaxCount
BY DEF PoolTable

\* The valid layouts of a model with GPUs are layouts of just these GPUs, and
\* the preferred layout is one of them if there is one.
LEMMA LayoutFacts ==
    ASSUME NEW m \in Assignment, NEW ps \in PoolTable, NEW e \in Env,
           m.gpus \in 1..MaxCount, m.pool \in Pool, ps[m.pool] # None
    PROVE  /\ \A l \in Valid(m, ps, e) : l \in Layout /\ Size(l) = m.gpus
           /\ Preferred(m, ps, e) \in Layout /\ Size(Preferred(m, ps, e)) = m.gpus
           /\ Valid(m, ps, e) # {} => Preferred(m, ps, e) \in Valid(m, ps, e)
<1> DEFINE x == <<m.key, m.prec, m.spec, ps[m.pool].type, e, m.gpus>>
           D == Key \X Prec \X BOOLEAN \X GpuType \X Env \X (1..MaxCount)
<1>1. ps[m.pool].type \in GpuType
  BY PoolKinds
<1>2. m.key \in Key /\ m.prec \in Prec /\ m.spec \in BOOLEAN
  BY DEF Assignment
<1>3. x \in D
  BY <1>1, <1>2
<1>4. x[6] = m.gpus
  OBVIOUS
<1>5. Valid(m, ps, e) = ValidLayouts[x] /\ Preferred(m, ps, e) = BestLayout[x]
  <2>1. ~(m.gpus <= 0)
    OBVIOUS
  <2> QED
    BY <2>1 DEF Valid, ValidOn, Preferred
<1> HIDE DEF x
<1>6. /\ ValidLayouts[x] \subseteq {l \in Nat \X Nat \X Nat : l[1] * l[2] * l[3] = x[6]}
      /\ IF ValidLayouts[x] = {} THEN BestLayout[x] = <<x[6], 1, 1>>
         ELSE BestLayout[x] \in ValidLayouts[x]
  BY <1>3, CatalogAssumption DEF D
<1>7. \A l \in ValidLayouts[x] : l \in Layout /\ Size(l) = m.gpus
  BY <1>4, <1>6 DEF Layout, Size
<1>8. CASE ValidLayouts[x] = {}
  <2>1. BestLayout[x] = <<m.gpus, 1, 1>>
    BY <1>4, <1>6, <1>8
  <2>2. <<m.gpus, 1, 1>> \in Layout /\ Size(<<m.gpus, 1, 1>>) = m.gpus
    BY DEF Layout, Size
  <2> QED
    BY <1>5, <1>8, <2>1, <2>2
<1>9. CASE ValidLayouts[x] # {}
  BY <1>5, <1>6, <1>7, <1>9
<1> QED
  BY <1>8, <1>9

LEMMA WithLayoutFields ==
    ASSUME NEW m \in Assignment, NEW l \in Layout
    PROVE  /\ WithLayout(m, l) \in Assignment
           /\ WithLayout(m, l).key = m.key /\ WithLayout(m, l).pool = m.pool
           /\ WithLayout(m, l).gpus = m.gpus /\ WithLayout(m, l).prec = m.prec
           /\ WithLayout(m, l).spec = m.spec
           /\ WithLayout(m, l).decode = l /\ WithLayout(m, l).prefill = l
BY DEF WithLayout, Assignment

\* Whether a layout is valid does not depend on the layout in use.
LEMMA ValidFields ==
    ASSUME NEW m, NEW r, NEW ps, NEW e, r.key = m.key, r.pool = m.pool, r.gpus = m.gpus,
           r.prec = m.prec, r.spec = m.spec
    PROVE  Valid(r, ps, e) = Valid(m, ps, e)
BY DEF Valid

LEMMA RetuneGood ==
    ASSUME NEW m \in Assignment, NEW ps \in PoolTable, NEW e \in Env,
           NEW preserve \in BOOLEAN, m.gpus \in 0..MaxCount, Hosted(m, ps)
    PROVE  /\ Good(Retune(m, preserve, ps, e), ps, e)
           /\ Retune(m, preserve, ps, e).pool = m.pool
           /\ Retune(m, preserve, ps, e).gpus = m.gpus
<1> DEFINE kept == IF Kind[m.key] = "llm" THEN m.decode ELSE m.prefill
           r == Retune(m, preserve, ps, e)
<1>1. CASE m.gpus = 0
  <2>1. r = WithLayout(m, UnitLayout)
    BY <1>1 DEF Retune
  <2>2. UnitLayout \in Layout /\ Size(UnitLayout) = 1
    BY DEF UnitLayout, Layout, Size
  <2> HIDE DEF r
  <2>3. /\ r \in Assignment /\ r.key = m.key /\ r.pool = m.pool /\ r.gpus = 0
        /\ r.decode = UnitLayout /\ r.prefill = UnitLayout
    BY <1>1, <2>1, <2>2, WithLayoutFields
  <2>4. Valid(r, ps, e) = {}
    BY <2>3 DEF Valid
  <2>5. Good(r, ps, e)
    BY <2>2, <2>3, <2>4 DEF Good, Hosted, Filled, Served
  <2> QED
    BY <1>1, <2>3, <2>5 DEF r
<1>2. CASE m.gpus # 0
  <2>1. m.gpus \in 1..MaxCount /\ m.pool \in Pool /\ ps[m.pool] # None
    BY <1>2 DEF Hosted
  <2>2. PICK l \in Layout : /\ r = WithLayout(m, l) /\ Size(l) = m.gpus
                            /\ Valid(m, ps, e) # {} => l \in Valid(m, ps, e)
    <3>1. ~(m.gpus <= 0) /\ ~(m.pool \notin Pool \/ ps[m.pool] = None)
      BY <2>1
    <3>2. CASE preserve /\ kept \in Valid(m, ps, e)
      <4>1. r = WithLayout(m, kept)
        BY <3>1, <3>2 DEF Retune
      <4>2. kept \in Layout /\ Size(kept) = m.gpus
        BY <2>1, <3>2, LayoutFacts
      <4> QED
        BY <3>2, <4>1, <4>2
    <3>3. CASE ~(preserve /\ kept \in Valid(m, ps, e))
      <4>1. r = WithLayout(m, Preferred(m, ps, e))
        BY <3>1, <3>3 DEF Retune
      <4> QED
        BY <2>1, <4>1, LayoutFacts
    <3> QED
      BY <3>2, <3>3
  <2> HIDE DEF r
  <2>3. /\ r \in Assignment /\ r.key = m.key /\ r.pool = m.pool /\ r.gpus = m.gpus
        /\ r.prec = m.prec /\ r.spec = m.spec /\ r.decode = l /\ r.prefill = l
    BY <2>2, WithLayoutFields
  <2>4. Valid(r, ps, e) = Valid(m, ps, e)
    BY <2>3, ValidFields
  <2>5. Hosted(r, ps) /\ Filled(r) /\ Served(r, ps, e)
    BY <1>2, <2>1, <2>2, <2>3, <2>4 DEF Hosted, Filled, Served
  <2> QED
    BY <2>3, <2>5 DEF Good, r
<1> QED
  BY <1>1, <1>2

\* A model stays good while its pool keeps its type.
LEMMA GoodKept ==
    ASSUME NEW m, NEW ps, NEW qs, NEW e, Good(m, ps, e),
           m.gpus > 0 => qs[m.pool] # None /\ qs[m.pool].type = ps[m.pool].type
    PROVE  Good(m, qs, e)
<1>1. m.gpus \in Nat /\ (m.gpus > 0 => m.pool \in Pool /\ ps[m.pool] # None)
  BY DEF Good, Hosted
<1>2. Hosted(m, qs)
  BY <1>1 DEF Hosted
<1>3. Valid(m, qs, e) = Valid(m, ps, e)
  BY <1>1 DEF Valid
<1> QED
  BY <1>2, <1>3 DEF Good, Served

LEMMA IdleGood ==
    ASSUME NEW m, NEW ps, NEW qs, NEW e, NEW f, Good(m, ps, e), m.gpus = 0
    PROVE  Good(m, qs, f)
<1>1. Valid(m, qs, f) = {}
  BY DEF Valid
<1> QED
  BY <1>1 DEF Good, Served, Hosted

-----------------------------------------------------------------------------
(* Panels                                                                  *)

\* The models of a panel with pools ps under settings e.
GoodPanel(ms, ps, e) ==
    /\ ms \in Seq(Assignment) /\ Len(ms) <= MaxModels
    /\ \A i \in 1..Len(ms) : Good(ms[i], ps, e)
    /\ \A p \in Pool : ps[p] # None => Used(ms, p) <= ps[p].count

LEMMA EmptyPanel ==
    ASSUME NEW ps \in PoolTable, NEW e \in Env
    PROVE  GoodPanel(<<>>, ps, e)
<1>1. <<>> \in Seq(Assignment) /\ Len(<<>>) = 0
  OBVIOUS
<1>2. \A p : Used(<<>>, p) = 0
  BY <1>1, UsedInt
<1>3. \A p \in Pool : ps[p] # None => ps[p].count \in 1..MaxCount
  BY PoolKinds
<1> QED
  BY <1>1, <1>2, <1>3, HardwareAssumption DEF GoodPanel

LEMMA PanelFacts ==
    ASSUME NEW ms, NEW ps \in PoolTable, NEW e, GoodPanel(ms, ps, e), NEW i \in 1..Len(ms)
    PROVE  /\ Counted(ms) /\ ms[i] \in Assignment /\ Good(ms[i], ps, e)
           /\ ms[i].gpus \in 0..MaxCount
           /\ ms[i].gpus > 0 => ms[i].pool \in Pool /\ ps[ms[i].pool] # None
<1>1. ms \in Seq(Assignment) /\ Counted(ms)
  BY DEF GoodPanel, Good, Hosted, Counted
<1>2. ms[i] \in Assignment /\ Good(ms[i], ps, e) /\ Hosted(ms[i], ps)
  BY DEF GoodPanel, Good
<1>3. CASE ms[i].gpus > 0
  <2> DEFINE p == ms[i].pool
  <2>1. p \in Pool /\ ps[p] # None /\ ms[i].gpus \in Nat
    BY <1>2, <1>3 DEF Hosted
  <2>2. Share(ms[i], p) <= Used(ms, p) /\ Used(ms, p) \in Nat
    BY <1>1, ShareOfUsed
  <2>3. Share(ms[i], p) = ms[i].gpus
    BY DEF Share
  <2>4. Used(ms, p) <= ps[p].count
    BY <2>1 DEF GoodPanel
  <2>5. ps[p].count \in 1..MaxCount
    BY <2>1, PoolKinds
  <2> HIDE DEF p
  <2>6. ms[i].gpus \in 0..MaxCount
    BY <2>1, <2>2, <2>3, <2>4, <2>5, HardwareAssumption
  <2> QED
    BY <1>1, <1>2, <2>1, <2>6 DEF p
<1>4. CASE ~(ms[i].gpus > 0)
  <2>1. ms[i].gpus \in 0..MaxCount
    BY <1>2, <1>4, HardwareAssumption DEF Hosted
  <2> QED
    BY <1>1, <1>2, <1>4, <2>1
<1> QED
  BY <1>3, <1>4

LEMMA PanelExcept ==
    ASSUME NEW ms, NEW ps \in PoolTable, NEW e, GoodPanel(ms, ps, e), NEW i \in 1..Len(ms),
           NEW m, Good(m, ps, e),
           \A p \in Pool : ps[p] # None =>
              Used(ms, p) - Share(ms[i], p) + Share(m, p) <= ps[p].count
    PROVE  GoodPanel([ms EXCEPT ![i] = m], ps, e)
<1> DEFINE ns == [ms EXCEPT ![i] = m]
<1>1. ms \in Seq(Assignment) /\ m \in Assignment
  BY DEF GoodPanel, Good
<1>2. /\ ns \in Seq(Assignment) /\ Len(ns) = Len(ms)
      /\ \A j \in 1..Len(ms) : ns[j] = IF j = i THEN m ELSE ms[j]
  BY <1>1, RowsExcept
<1>3. \A p : Used(ns, p) = Used(ms, p) - Share(ms[i], p) + Share(m, p)
  BY <1>1, UsedExcept
<1> HIDE DEF ns
<1>4. GoodPanel(ns, ps, e)
  BY <1>2, <1>3 DEF GoodPanel
<1> QED
  BY <1>4 DEF ns

\* One model changed and retuned.
LEMMA PanelRetuned ==
    ASSUME NEW ms, NEW ps \in PoolTable, NEW e \in Env, GoodPanel(ms, ps, e),
           NEW i \in 1..Len(ms), NEW m \in Assignment, Hosted(m, ps),
           NEW preserve \in BOOLEAN,
           \A p \in Pool : ps[p] # None =>
              Used(ms, p) - Share(ms[i], p) + Share(m, p) <= ps[p].count
    PROVE  GoodPanel([ms EXCEPT ![i] = Retune(m, preserve, ps, e)], ps, e)
<1> DEFINE r == Retune(m, preserve, ps, e)
<1>1. ms \in Seq(Assignment) /\ Counted(ms)
  BY PanelFacts DEF GoodPanel
<1>2. m.gpus \in 0..MaxCount
  <2>1. CASE m.gpus > 0
    <3> DEFINE p == m.pool
    <3>1. p \in Pool /\ ps[p] # None /\ m.gpus \in Nat
      BY <2>1 DEF Hosted
    <3>2. Share(ms[i], p) <= Used(ms, p) /\ Used(ms, p) \in Nat /\ Share(ms[i], p) \in Nat
      BY <1>1, ShareOfUsed
    <3>3. Share(m, p) = m.gpus
      BY DEF Share
    <3>4. ps[p].count \in 1..MaxCount
      BY <3>1, PoolKinds
    <3>5. Used(ms, p) - Share(ms[i], p) + Share(m, p) <= ps[p].count
      BY <3>1
    <3> HIDE DEF p
    <3> QED
      BY <3>1, <3>2, <3>3, <3>4, <3>5, HardwareAssumption
  <2>2. CASE ~(m.gpus > 0)
    BY <2>2, HardwareAssumption DEF Hosted
  <2> QED
    BY <2>1, <2>2
<1>3. Good(r, ps, e) /\ r.pool = m.pool /\ r.gpus = m.gpus
  BY <1>2, RetuneGood
<1> HIDE DEF r
<1>4. \A p : Share(r, p) = Share(m, p)
  BY <1>3 DEF Share
<1>5. GoodPanel([ms EXCEPT ![i] = r], ps, e)
  BY <1>3, <1>4, PanelExcept
<1> QED
  BY <1>5 DEF r

LEMMA PanelAppend ==
    ASSUME NEW ms, NEW ps \in PoolTable, NEW e \in Env, GoodPanel(ms, ps, e),
           Len(ms) < MaxModels, NEW m \in Assignment, m.gpus \in Nat,
           m.pool \in Pool, ps[m.pool] # None,
           Used(ms, m.pool) + m.gpus <= ps[m.pool].count
    PROVE  GoodPanel(Append(ms, Retune(m, FALSE, ps, e)), ps, e)
<1> DEFINE r == Retune(m, FALSE, ps, e)
           ns == Append(ms, r)
<1>1. ms \in Seq(Assignment) /\ Counted(ms) /\ Len(ms) \in Nat
  BY DEF GoodPanel, Good, Hosted, Counted
<1>2. Used(ms, m.pool) \in Nat
  BY <1>1, UsedNat
<1>3. ps[m.pool].count \in 1..MaxCount
  BY PoolKinds
<1>4. m.gpus \in 0..MaxCount /\ Hosted(m, ps) /\ FALSE \in BOOLEAN
  BY <1>2, <1>3, HardwareAssumption DEF Hosted
<1>5. Good(r, ps, e) /\ r.pool = m.pool /\ r.gpus = m.gpus
  BY <1>4, RetuneGood
<1>6. r \in Assignment
  BY <1>5 DEF Good
<1> HIDE DEF r
<1>7. /\ ns \in Seq(Assignment) /\ Len(ns) = Len(ms) + 1
      /\ \A j \in 1..Len(ns) : ns[j] = IF j = Len(ns) THEN r ELSE ms[j]
  BY <1>1, <1>6
<1>8. \A p : Used(ns, p) = Used(ms, p) + Share(r, p)
  BY <1>1, <1>6, UsedAppend
<1> HIDE DEF ns
<1>9. \A j \in 1..Len(ns) : Good(ns[j], ps, e)
  <2> TAKE j \in 1..Len(ns)
  <2>1. j # Len(ns) => j \in 1..Len(ms)
    BY <1>1, <1>7
  <2> QED
    BY <1>5, <1>7, <2>1 DEF GoodPanel
<1>10. \A p \in Pool : ps[p] # None => Used(ns, p) <= ps[p].count
  <2> SUFFICES ASSUME NEW p \in Pool, ps[p] # None PROVE Used(ns, p) <= ps[p].count
    OBVIOUS
  <2>1. CASE p = m.pool
    <3>1. Share(r, p) = m.gpus
      BY <1>5, <2>1 DEF Share
    <3> QED
      BY <1>8, <2>1, <3>1
  <2>2. CASE p # m.pool
    <3>1. Share(r, p) = 0
      BY <1>5, <2>2 DEF Share
    <3>2. Used(ms, p) \in Nat
      BY <1>1, UsedNat
    <3>3. Used(ns, p) = Used(ms, p)
      BY <1>8, <3>1, <3>2
    <3> QED
      BY <3>3 DEF GoodPanel
  <2> QED
    BY <2>1, <2>2
<1>11. GoodPanel(ns, ps, e)
  <2>1. Len(ns) <= MaxModels
    BY <1>1, <1>7, HardwareAssumption
  <2> QED
    BY <1>7, <1>9, <1>10, <2>1 DEF GoodPanel
<1> QED
  BY <1>11 DEF ns, r

LEMMA PanelRemove ==
    ASSUME NEW ms, NEW ps \in PoolTable, NEW e, GoodPanel(ms, ps, e), NEW i \in 1..Len(ms)
    PROVE  GoodPanel(RemoveAt(ms, i), ps, e)
<1> DEFINE ns == RemoveAt(ms, i)
<1>1. ms \in Seq(Assignment) /\ Counted(ms) /\ Len(ms) \in Nat /\ i \in 1..Len(ms)
  BY DEF GoodPanel, Good, Hosted, Counted
<1>2. /\ ns \in Seq(Assignment) /\ Len(ns) = Len(ms) - 1
      /\ \A j \in 1..(i - 1) : ns[j] = ms[j]
      /\ \A j \in i..(Len(ms) - 1) : ns[j] = ms[j + 1]
  BY <1>1, RowsRemoved
<1>3. \A p : Used(ns, p) = Used(ms, p) - Share(ms[i], p)
  BY <1>1, UsedRemoved
<1>4. \A p : Share(ms[i], p) \in Nat /\ Used(ms, p) \in Nat
  BY <1>1, ShareOfUsed
<1> HIDE DEF ns
<1>5. \A j \in 1..Len(ns) : \E k \in 1..Len(ms) : ns[j] = ms[k]
  <2> TAKE j \in 1..Len(ns)
  <2>1. CASE j < i
    <3>1. j \in 1..(i - 1) /\ j \in 1..Len(ms)
      BY <1>1, <1>2, <2>1
    <3> QED
      BY <1>2, <3>1
  <2>2. CASE ~(j < i)
    <3>1. j \in i..(Len(ms) - 1) /\ j + 1 \in 1..Len(ms)
      BY <1>1, <1>2, <2>2
    <3> QED
      BY <1>2, <3>1
  <2> QED
    BY <2>1, <2>2
<1>6. \A p \in Pool : ps[p] # None => Used(ns, p) <= ps[p].count
  <2> SUFFICES ASSUME NEW p \in Pool, ps[p] # None PROVE Used(ns, p) <= ps[p].count
    OBVIOUS
  <2>1. ps[p].count \in 1..MaxCount
    BY PoolKinds
  <2>2. Used(ms, p) <= ps[p].count
    BY DEF GoodPanel
  <2> QED
    BY <1>3, <1>4, <2>1, <2>2
<1>7. Len(ns) <= MaxModels
  BY <1>1, <1>2, HardwareAssumption DEF GoodPanel
<1>8. GoodPanel(ns, ps, e)
  BY <1>2, <1>5, <1>6, <1>7 DEF GoodPanel
<1> QED
  BY <1>8 DEF ns

\* The pools keep their types and lose no GPU: new pools appear, others grow.
LEMMA PanelPools ==
    ASSUME NEW ms, NEW ps \in PoolTable, NEW qs \in PoolTable, NEW e, GoodPanel(ms, ps, e),
           \A p \in Pool : ps[p] # None =>
              qs[p] # None /\ qs[p].type = ps[p].type /\ ps[p].count <= qs[p].count
    PROVE  GoodPanel(ms, qs, e)
<1>1. ms \in Seq(Assignment) /\ Counted(ms)
  BY DEF GoodPanel, Good, Hosted, Counted
<1>2. ASSUME NEW i \in 1..Len(ms)
      PROVE  Good(ms[i], qs, e)
  <2>1. Good(ms[i], ps, e) /\ (ms[i].gpus > 0 => ms[i].pool \in Pool /\ ps[ms[i].pool] # None)
    BY PanelFacts
  <2> QED
    BY <2>1, GoodKept
<1>3. ASSUME NEW p \in Pool, qs[p] # None
      PROVE  Used(ms, p) <= qs[p].count
  <2>1. qs[p].count \in 1..MaxCount
    BY <1>3, PoolKinds
  <2>2. CASE ps[p] # None
    <3>1. Used(ms, p) <= ps[p].count /\ ps[p].count <= qs[p].count
      BY <2>2 DEF GoodPanel
    <3>2. ps[p].count \in 1..MaxCount /\ Used(ms, p) \in Nat
      BY <1>1, <2>2, PoolKinds, UsedNat
    <3> QED
      BY <2>1, <3>1, <3>2
  <2>3. CASE ps[p] = None
    <3>1. ASSUME NEW i \in 1..Len(ms)
          PROVE  Share(ms[i], p) = 0
      <4>1. ms[i].gpus \in 0..MaxCount /\ (ms[i].gpus > 0 => ms[i].pool # p)
        BY <2>3, PanelFacts
      <4> QED
        BY <4>1, HardwareAssumption DEF Share
    <3>2. Used(ms, p) = 0
      BY <1>1, <3>1, UnusedPool
    <3> QED
      BY <2>1, <3>2
  <2> QED
    BY <2>2, <2>3
<1> QED
  BY <1>2, <1>3 DEF GoodPanel

\* A pool is removed together with its models.
LEMMA PanelOff ==
    ASSUME NEW ms, NEW ps \in PoolTable, NEW e, GoodPanel(ms, ps, e), NEW p \in Pool
    PROVE  GoodPanel(OffPool(ms, p), [ps EXCEPT ![p] = None], e)
<1> DEFINE ns == OffPool(ms, p)
           qs == [ps EXCEPT ![p] = None]
<1>1. ms \in Seq(Assignment) /\ Counted(ms) /\ Len(ms) \in Nat
  BY DEF GoodPanel, Good, Hosted, Counted
<1>2. \A q : /\ ns \in Seq(Assignment) /\ Len(ns) <= Len(ms)
             /\ \A j \in 1..Len(ns) : \E i \in 1..Len(ms) : ns[j] = ms[i] /\ ms[i].pool # p
             /\ Used(ns, q) = IF q = p THEN 0 ELSE Used(ms, q)
  BY <1>1, OffPoolRows
<1>3. \A q \in Pool : qs[q] = IF q = p THEN None ELSE ps[q]
  BY DEF PoolTable
<1> HIDE DEF ns, qs
<1>4. ASSUME NEW j \in 1..Len(ns)
      PROVE  Good(ns[j], qs, e)
  <2>1. PICK i \in 1..Len(ms) : ns[j] = ms[i] /\ ms[i].pool # p
    BY <1>2
  <2>2. Good(ms[i], ps, e) /\ (ms[i].gpus > 0 => ms[i].pool \in Pool /\ ps[ms[i].pool] # None)
    BY PanelFacts
  <2>3. ms[i].gpus > 0 => qs[ms[i].pool] # None /\ qs[ms[i].pool].type = ps[ms[i].pool].type
    BY <1>3, <2>1, <2>2
  <2> QED
    BY <2>1, <2>2, <2>3, GoodKept
<1>5. \A q \in Pool : qs[q] # None => Used(ns, q) <= qs[q].count
  BY <1>2, <1>3 DEF GoodPanel
<1>6. Len(ns) <= MaxModels
  <2>1. ns \in Seq(Assignment) /\ Len(ns) <= Len(ms) /\ Len(ms) <= MaxModels
    BY <1>2 DEF GoodPanel
  <2>2. Len(ns) \in Nat
    BY <2>1, Rows
  <2> QED
    BY <1>1, <2>1, <2>2, HardwareAssumption
<1>7. GoodPanel(ns, qs, e)
  BY <1>2, <1>4, <1>5, <1>6 DEF GoodPanel
<1> QED
  BY <1>7 DEF ns, qs

\* The settings change and every running model is retuned.
LEMMA PanelSettings ==
    ASSUME NEW ms, NEW ps \in PoolTable, NEW e, NEW f \in Env, GoodPanel(ms, ps, e)
    PROVE  GoodPanel(RetuneAll(ms, ps, f), ps, f)
<1> DEFINE n  == Len(ms)
           ns == [i \in 1..n |-> IF ms[i].gpus > 0 THEN Retune(ms[i], FALSE, ps, f) ELSE ms[i]]
<1>1. ms \in Seq(Assignment) /\ Counted(ms) /\ n \in Nat /\ DOMAIN ms = 1..n
  BY DEF GoodPanel, Good, Hosted, Counted
<1>2. RetuneAll(ms, ps, f) = ns
  BY <1>1 DEF RetuneAll
<1>3. ASSUME NEW i \in 1..n
      PROVE  /\ Good(ns[i], ps, f) /\ ns[i] \in Assignment
             /\ ns[i].pool = ms[i].pool /\ ns[i].gpus = ms[i].gpus
  <2>1. ns[i] = IF ms[i].gpus > 0 THEN Retune(ms[i], FALSE, ps, f) ELSE ms[i]
    OBVIOUS
  <2> HIDE DEF ns
  <2>2. ms[i] \in Assignment /\ Good(ms[i], ps, e) /\ ms[i].gpus \in 0..MaxCount
    BY PanelFacts
  <2>3. Hosted(ms[i], ps) /\ FALSE \in BOOLEAN
    BY <2>2 DEF Good
  <2>4. CASE ms[i].gpus > 0
    <3> DEFINE r == Retune(ms[i], FALSE, ps, f)
    <3>1. Good(r, ps, f) /\ r.pool = ms[i].pool /\ r.gpus = ms[i].gpus
      BY <2>2, <2>3, RetuneGood
    <3>2. r \in Assignment
      BY <3>1 DEF Good
    <3>3. ns[i] = r
      BY <2>1, <2>4
    <3> HIDE DEF r
    <3> QED
      BY <3>1, <3>2, <3>3
  <2>5. CASE ~(ms[i].gpus > 0)
    <3>1. ms[i].gpus = 0
      BY <2>2, <2>5
    <3>2. Good(ms[i], ps, f)
      BY <2>2, <3>1, IdleGood
    <3>3. ns[i] = ms[i]
      BY <2>1, <2>5
    <3> QED
      BY <2>2, <3>2, <3>3
  <2> QED
    BY <2>4, <2>5
<1>4. ns \in Seq(Assignment) /\ Len(ns) = n
  <2>1. ns = [i \in 1..n |-> ns[i]]
    OBVIOUS
  <2> HIDE DEF ns, n
  <2>2. ns \in [1..n -> Assignment]
    BY <1>3, <2>1
  <2> QED
    BY <1>1, <2>2
<1> HIDE DEF ns
<1>5. ASSUME NEW p
      PROVE  Used(ns, p) = Used(ms, p)
  <2>1. \A j \in 1..n : Share(ns[j], p) = Share(ms[j], p)
    BY <1>3 DEF Share
  <2>2. n \in 0..Len(ms) /\ n <= Len(ns)
    BY <1>1, <1>4
  <2>3. UsedTo(ns, p)[n] = UsedTo(ms, p)[n]
    BY <1>1, <1>4, <2>1, <2>2, UsedSame
  <2> QED
    BY <1>4, <2>3 DEF Used
<1>6. GoodPanel(ns, ps, f)
  BY <1>3, <1>4, <1>5 DEF GoodPanel
<1> QED
  BY <1>2, <1>6

-----------------------------------------------------------------------------
(* The counts of pools                                                     *)

LEMMA Multiples ==
    ASSUME NEW m \in Nat \ {0}, NEW n \in Nat
    PROVE  /\ (n + m - 1) \div m \in Nat /\ ((n + m - 1) \div m) * m >= n
           /\ (n * m + m - 1) \div m = n
OBVIOUS

\* A normalised count is no smaller, and stays what it is when normalised.
LEMMA SnapFacts ==
    ASSUME NEW t \in GpuType, NEW n \in Nat
    PROVE  /\ Snap(t, n) \in Nat \ {0} /\ n <= Snap(t, n)
           /\ Snap(t, Snap(t, n)) = Snap(t, n)
<1> DEFINE m == CountMultiple[t]
           c == MinCount[t]
           most == IF n > c THEN n ELSE c
           q == (most + m - 1) \div m
<1>1. m \in Nat \ {0} /\ c \in Nat \ {0}
  BY HardwareAssumption
<1>2. most \in Nat /\ n <= most /\ c <= most
  BY <1>1
<1>3. Snap(t, n) = q * m
  BY DEF Snap
<1>4. q \in Nat /\ most <= q * m /\ (q * m + m - 1) \div m = q
  <2> HIDE DEF m, most
  <2>1. q \in Nat /\ q * m >= most
    BY <1>1, <1>2, Multiples
  <2>2. q * m \in Nat /\ most <= q * m
    BY <1>1, <1>2, <2>1
  <2> HIDE DEF q
  <2>3. (q * m + m - 1) \div m = q
    BY <1>1, <2>1, Multiples
  <2> QED
    BY <2>1, <2>2, <2>3
<1> DEFINE s == q * m
<1> HIDE DEF q
<1>5. s \in Nat
  <2> HIDE DEF m
  <2> QED
    BY <1>1, <1>4
<1>6. (IF s > c THEN s ELSE c) = s
  <2>1. c <= s
    BY <1>1, <1>2, <1>4, <1>5
  <2> HIDE DEF s, c, m
  <2> QED
    BY <1>1, <1>5, <2>1
<1>7. Snap(t, s) = s
  <2>1. Snap(t, s) = (((IF s > c THEN s ELSE c) + m - 1) \div m) * m
    BY DEF Snap
  <2>2. Snap(t, s) = ((s + m - 1) \div m) * m
    BY <1>6, <2>1
  <2> QED
    BY <1>4, <2>2
<1>8. s \in Nat \ {0} /\ n <= s
  <2>1. s >= most /\ s # 0
    BY <1>1, <1>2, <1>4, <1>5
  <2> HIDE DEF s, most, m, c
  <2> QED
    BY <1>2, <1>5, <2>1
<1> QED
  BY <1>3, <1>7, <1>8

-----------------------------------------------------------------------------
(* Shrinking a pool                                                        *)

LEMMA ShrunkRows ==
    ASSUME env \in Env, NEW ms, NEW ps \in PoolTable, GoodPanel(ms, ps, env),
           NEW p \in Pool, ps[p] # None, NEW count \in 1..MaxCount, NEW qs \in PoolTable,
           \A q \in Pool : q # p => qs[q] = ps[q],
           qs[p] # None, qs[p].type = ps[p].type
    PROVE  LET ns == Shrunk(ms, p, count, qs)
               U  == UsedTo(ms, p)
           IN  /\ ns \in Seq(Assignment) /\ Len(ns) = Len(ms)
               /\ \A i \in 1..Len(ms) :
                     /\ Good(ns[i], qs, env) /\ ns[i].pool = ms[i].pool
                     /\ ns[i].gpus = IF ms[i].pool # p \/ U[i] <= count THEN ms[i].gpus
                                     ELSE IF U[i] - count < ms[i].gpus
                                     THEN ms[i].gpus - (U[i] - count) ELSE 0
                     /\ (ms[i].pool # p \/ U[i] <= count) => ns[i] = ms[i]
<1> DEFINE n == Len(ms)
           U == UsedTo(ms, p)
           take(i) == LET left == (Used(ms, p) - count) - (Used(ms, p) - U[i])
                      IN  IF ms[i].pool # p \/ left <= 0 THEN 0
                          ELSE IF left < ms[i].gpus THEN left ELSE ms[i].gpus
           ns == [i \in 1..n |-> IF take(i) = 0 THEN ms[i]
                                 ELSE Retune([ms[i] EXCEPT !.gpus = @ - take(i)], FALSE, qs, env)]
<1>1. ms \in Seq(Assignment) /\ Counted(ms) /\ n \in Nat /\ DOMAIN ms = 1..n
  BY DEF GoodPanel, Good, Hosted, Counted
<1>2. Shrunk(ms, p, count, qs) = ns
  BY <1>1 DEF Shrunk, UsedAfter
<1>3. ASSUME NEW i \in 1..n
      PROVE  /\ ns[i] \in Assignment /\ Good(ns[i], qs, env) /\ ns[i].pool = ms[i].pool
             /\ ns[i].gpus = IF ms[i].pool # p \/ U[i] <= count THEN ms[i].gpus
                             ELSE IF U[i] - count < ms[i].gpus
                             THEN ms[i].gpus - (U[i] - count) ELSE 0
             /\ (ms[i].pool # p \/ U[i] <= count) => ns[i] = ms[i]
  <2> DEFINE m == ms[i]
             u == U[i]
             g == m.gpus
             k == take(i)
             r == [m EXCEPT !.gpus = @ - k]
  <2>1. u \in Int /\ Used(ms, p) \in Nat /\ count \in Nat
    <3>1. u \in Int
      BY <1>1, UsedToStep
    <3>2. Used(ms, p) \in Nat
      BY <1>1, UsedNat
    <3> QED
      BY <3>1, <3>2
  <2>2. /\ m \in Assignment /\ Good(m, ps, env) /\ g \in 0..MaxCount
        /\ g > 0 => m.pool \in Pool /\ ps[m.pool] # None
    BY PanelFacts
  <2>3. k = IF m.pool # p \/ u <= count THEN 0 ELSE IF u - count < g THEN u - count ELSE g
    <3> HIDE DEF U
    <3>1. (Used(ms, p) - count) - (Used(ms, p) - U[i]) = u - count
      BY <2>1
    <3>2. k = LET left == u - count
              IN  IF m.pool # p \/ left <= 0 THEN 0 ELSE IF left < g THEN left ELSE g
      BY <3>1
    <3> HIDE DEF k, u, m
    <3> QED
      BY <2>1, <3>2
  <2>4. ns[i] = IF k = 0 THEN m ELSE Retune(r, FALSE, qs, env)
    OBVIOUS
  <2>5. r \in Assignment /\ r.pool = m.pool /\ r.gpus = g - k
    <3>1. g - k \in Int
      <4> HIDE DEF k, u, g
      <4> QED
        BY <2>1, <2>2, <2>3, HardwareAssumption
    <3> HIDE DEF k
    <3> QED
      BY <2>2, <3>1 DEF Assignment
  <2>6. g - k \in 0..MaxCount /\ g \in Nat
    <3> HIDE DEF k, u, g
    <3> QED
      BY <2>1, <2>2, <2>3, HardwareAssumption
  <2>7. g > 0 => qs[m.pool] # None /\ qs[m.pool].type = ps[m.pool].type
    BY <2>2
  <2>8. Good(m, qs, env)
    BY <2>2, <2>7, GoodKept
  <2>9. Hosted(r, qs)
    <3>1. r.gpus \in Nat /\ (r.gpus > 0 => g > 0)
      <4> HIDE DEF k, g, r
      <4>1. k >= 0 /\ k \in Int
        BY <2>1, <2>2, <2>3, HardwareAssumption
      <4> QED
        BY <2>5, <2>6, <4>1, HardwareAssumption
    <3> QED
      BY <2>2, <2>5, <2>7, <3>1 DEF Hosted
  <2>10. LET s == Retune(r, FALSE, qs, env)
         IN  Good(s, qs, env) /\ s.pool = r.pool /\ s.gpus = r.gpus
    <3> HIDE DEF r
    <3>1. r.gpus \in 0..MaxCount /\ FALSE \in BOOLEAN
      BY <2>5, <2>6
    <3> QED
      BY <2>5, <2>9, <3>1, RetuneGood
  <2>11. Good(ns[i], qs, env) /\ ns[i].pool = m.pool /\ ns[i].gpus = g - k
    <3>1. CASE k = 0
      <4>1. g - k = g
        BY <2>6, <3>1
      <4> QED
        BY <2>4, <2>8, <3>1, <4>1
    <3>2. CASE k # 0
      <4> HIDE DEF ns, r, k
      <4> QED
        BY <2>4, <2>5, <2>10, <3>2
    <3> QED
      BY <3>1, <3>2
  <2>12. (m.pool # p \/ u <= count) => ns[i] = m /\ g - k = g
    <3> SUFFICES ASSUME m.pool # p \/ u <= count
                 PROVE  ns[i] = m /\ g - k = g
      OBVIOUS
    <3> HIDE DEF ns, r, k, g, u, m
    <3>1. k = 0
      BY <2>3
    <3> QED
      BY <2>4, <2>6, <3>1
  <2>13. ~(m.pool # p \/ u <= count) =>
            g - k = IF u - count < g THEN g - (u - count) ELSE 0
    <3> HIDE DEF k, g, u
    <3> QED
      BY <2>1, <2>3, <2>6
  <2> HIDE DEF ns, k, r
  <2> QED
    BY <2>11, <2>12, <2>13 DEF Good
<1>4. ns \in Seq(Assignment) /\ Len(ns) = n
  <2>1. ns = [i \in 1..n |-> ns[i]]
    OBVIOUS
  <2> HIDE DEF ns, n
  <2>2. ns \in [1..n -> Assignment]
    BY <1>3, <2>1
  <2> QED
    BY <1>1, <2>2
<1> HIDE DEF ns, take
<1> QED
  BY <1>2, <1>3, <1>4

LEMMA ShrunkUse ==
    ASSUME env \in Env, NEW ms, NEW ps \in PoolTable, GoodPanel(ms, ps, env),
           NEW p \in Pool, ps[p] # None, NEW count \in 1..MaxCount, NEW qs \in PoolTable,
           \A q \in Pool : q # p => qs[q] = ps[q],
           qs[p] # None, qs[p].type = ps[p].type
    PROVE  /\ Used(Shrunk(ms, p, count, qs), p)
                = IF Used(ms, p) <= count THEN Used(ms, p) ELSE count
           /\ \A q : q # p => Used(Shrunk(ms, p, count, qs), q) = Used(ms, q)
<1> DEFINE n == Len(ms)
           U == UsedTo(ms, p)
           ns == Shrunk(ms, p, count, qs)
           N == UsedTo(ns, p)
           Low(u) == IF u <= count THEN u ELSE count
           T == {x \in Nat : x \in 0..n => N[x] = Low(U[x])}
<1>1. ms \in Seq(Assignment) /\ Counted(ms) /\ n \in Nat
  BY DEF GoodPanel, Good, Hosted, Counted
<1>2. /\ ns \in Seq(Assignment) /\ Len(ns) = n
      /\ \A i \in 1..n :
            /\ ns[i].pool = ms[i].pool
            /\ ns[i].gpus = IF ms[i].pool # p \/ U[i] <= count THEN ms[i].gpus
                            ELSE IF U[i] - count < ms[i].gpus
                            THEN ms[i].gpus - (U[i] - count) ELSE 0
  BY ShrunkRows
<1>3. count \in Nat
  BY HardwareAssumption
<1> HIDE DEF ns
<1>4. 0 \in T
  <2>1. N[0] = 0 /\ U[0] = 0
    BY <1>1, <1>2, UsedToType
  <2> QED
    BY <1>3, <2>1
<1>5. ASSUME NEW x \in Nat, x \in T
      PROVE  x + 1 \in T
  <2> SUFFICES ASSUME x + 1 \in 0..n PROVE N[x + 1] = Low(U[x + 1])
    OBVIOUS
  <2>1. PICK y \in 1..n : y = x + 1 /\ y - 1 = x
    BY <1>1
  <2>2. N[y] = N[y - 1] + Share(ns[y], p)
    BY <1>2, UsedToStep
  <2>3. U[y] = U[y - 1] + Share(ms[y], p) /\ U[y - 1] \in Int
    BY <1>1, UsedToStep
  <2>4. N[y - 1] = Low(U[y - 1])
    BY <1>1, <1>5, <2>1
  <2>5. ms[y].gpus \in Nat
    BY <1>1 DEF Counted
  <2>6. /\ ns[y].pool = ms[y].pool
        /\ ns[y].gpus = IF ms[y].pool # p \/ U[y] <= count THEN ms[y].gpus
                        ELSE IF U[y] - count < ms[y].gpus
                        THEN ms[y].gpus - (U[y] - count) ELSE 0
    BY <1>2
  <2> HIDE DEF N, U
  <2>7. CASE ms[y].pool # p
    <3>1. Share(ms[y], p) = 0 /\ Share(ns[y], p) = 0
      BY <2>6, <2>7 DEF Share
    <3> QED
      BY <1>3, <2>1, <2>2, <2>3, <2>4, <3>1
  <2>8. CASE ms[y].pool = p
    <3>1. Share(ms[y], p) = ms[y].gpus /\ Share(ns[y], p) = ns[y].gpus
      BY <2>6, <2>8 DEF Share
    <3>2. CASE U[y] <= count
      <4>1. ns[y].gpus = ms[y].gpus
        BY <2>6, <3>2
      <4>2. U[y - 1] <= count
        BY <1>3, <2>3, <2>5, <3>1, <3>2
      <4> QED
        BY <2>1, <2>2, <2>3, <2>4, <3>1, <3>2, <4>1, <4>2
    <3>3. CASE ~(U[y] <= count)
      <4>1. ns[y].gpus = IF U[y] - count < ms[y].gpus
                         THEN ms[y].gpus - (U[y] - count) ELSE 0
        BY <2>6, <2>8, <3>3
      <4>2. N[y] = count
        <5>1. U[y] = U[y - 1] + ms[y].gpus /\ N[y] = N[y - 1] + ns[y].gpus
          BY <2>2, <2>3, <3>1
        <5>2. CASE U[y - 1] <= count
          BY <1>3, <2>3, <2>4, <2>5, <3>3, <4>1, <5>1, <5>2
        <5>3. CASE ~(U[y - 1] <= count)
          BY <1>3, <2>3, <2>4, <2>5, <3>3, <4>1, <5>1, <5>3
        <5> QED
          BY <5>2, <5>3
      <4> QED
        BY <2>1, <3>3, <4>2
    <3> QED
      BY <3>2, <3>3
  <2> QED
    BY <2>7, <2>8
<1> HIDE DEF T
<1>6. n \in T
  BY <1>1, <1>4, <1>5, EveryNumber
<1>7. Used(ns, p) = Low(Used(ms, p))
  BY <1>1, <1>2, <1>6 DEF T, Used
<1>8. ASSUME NEW q, q # p
      PROVE  Used(ns, q) = Used(ms, q)
  <2>1. \A j \in 1..n : Share(ns[j], q) = Share(ms[j], q)
    BY <1>2, <1>8 DEF Share
  <2>2. n \in 0..Len(ms) /\ n <= Len(ns)
    BY <1>1, <1>2
  <2>3. UsedTo(ns, q)[n] = UsedTo(ms, q)[n]
    BY <1>1, <1>2, <2>1, <2>2, UsedSame
  <2> QED
    BY <1>2, <2>3 DEF Used
<1> QED
  BY <1>7, <1>8 DEF ns

LEMMA PanelShrunk ==
    ASSUME env \in Env, NEW ms, NEW ps \in PoolTable, GoodPanel(ms, ps, env),
           NEW p \in Pool, ps[p] # None, NEW count \in 1..MaxCount, NEW qs \in PoolTable,
           \A q \in Pool : q # p => qs[q] = ps[q],
           qs[p] # None, qs[p].type = ps[p].type, qs[p].count = count
    PROVE  GoodPanel(Shrunk(ms, p, count, qs), qs, env)
<1> DEFINE ns == Shrunk(ms, p, count, qs)
<1>1. /\ ns \in Seq(Assignment) /\ Len(ns) = Len(ms)
      /\ \A i \in 1..Len(ms) : Good(ns[i], qs, env)
  BY ShrunkRows
<1>2. /\ Used(ns, p) = IF Used(ms, p) <= count THEN Used(ms, p) ELSE count
      /\ \A q : q # p => Used(ns, q) = Used(ms, q)
  BY ShrunkUse
<1> HIDE DEF ns
<1>3. \A q \in Pool : qs[q] # None => Used(ns, q) <= qs[q].count
  <2> SUFFICES ASSUME NEW q \in Pool, qs[q] # None PROVE Used(ns, q) <= qs[q].count
    OBVIOUS
  <2>1. CASE q = p
    BY <1>2, <2>1, HardwareAssumption
  <2>2. CASE q # p
    BY <1>2, <2>2 DEF GoodPanel
  <2> QED
    BY <2>1, <2>2
<1>4. GoodPanel(ns, qs, env)
  BY <1>1, <1>3 DEF GoodPanel
<1> QED
  BY <1>4 DEF ns

\* A model loses GPUs only when every later model of the pool has none left.
LEMMA ShrunkFromLast ==
    ASSUME env \in Env, NEW ms, NEW ps \in PoolTable, GoodPanel(ms, ps, env),
           NEW p \in Pool, ps[p] # None, NEW count \in 1..MaxCount, NEW qs \in PoolTable,
           \A q \in Pool : q # p => qs[q] = ps[q],
           qs[p] # None, qs[p].type = ps[p].type,
           NEW i \in 1..Len(ms), NEW j \in 1..Len(ms), i < j, ms[j].pool = p,
           Shrunk(ms, p, count, qs)[i].gpus < ms[i].gpus
    PROVE  Shrunk(ms, p, count, qs)[j].gpus = 0
<1> DEFINE n == Len(ms)
           U == UsedTo(ms, p)
           ns == Shrunk(ms, p, count, qs)
<1>1. ms \in Seq(Assignment) /\ Counted(ms) /\ n \in Nat /\ count \in Nat
  BY HardwareAssumption DEF GoodPanel, Good, Hosted, Counted
<1>2. \A k \in 1..n :
         ns[k].gpus = IF ms[k].pool # p \/ U[k] <= count THEN ms[k].gpus
                      ELSE IF U[k] - count < ms[k].gpus
                      THEN ms[k].gpus - (U[k] - count) ELSE 0
  BY ShrunkRows
<1>3. ms[i].gpus \in Nat /\ ms[j].gpus \in Nat
  BY <1>1 DEF Counted
<1>4. ns[i].gpus < ms[i].gpus
  OBVIOUS
<1> HIDE DEF ns
<1>5. i \in 0..n /\ j - 1 \in i..n
  BY <1>1
<1>6. U[i] <= U[j - 1]
  BY <1>1, <1>5, UsedGrows
<1>7. U[j] = U[j - 1] + Share(ms[j], p) /\ U[j - 1] \in Int
  BY <1>1, UsedToStep
<1>8. U[i] \in Int
  BY <1>1, UsedToStep
<1>9. Share(ms[j], p) = ms[j].gpus
  BY DEF Share
<1> HIDE DEF U
<1>10. ~(U[i] <= count)
  <2> SUFFICES ASSUME U[i] <= count PROVE FALSE
    OBVIOUS
  <2>1. ns[i].gpus = ms[i].gpus
    BY <1>2
  <2> QED
    BY <1>3, <1>4, <2>1
<1>11. ~(U[j] <= count) /\ ~(U[j] - count < ms[j].gpus)
  BY <1>1, <1>3, <1>6, <1>7, <1>8, <1>9, <1>10
<1>12. ns[j].gpus = 0
  BY <1>2, <1>11
<1> QED
  BY <1>12 DEF ns

-----------------------------------------------------------------------------
(* Changes of one model                                                    *)

LEMMA PanelNumbers ==
    ASSUME NEW ms, NEW ps \in PoolTable, NEW e, GoodPanel(ms, ps, e), NEW i \in 1..Len(ms), NEW p
    PROVE  /\ Share(ms[i], p) \in Nat /\ Used(ms, p) \in Nat /\ Share(ms[i], p) <= Used(ms, p)
           /\ (p \in Pool /\ ps[p] # None) => Used(ms, p) <= ps[p].count /\ ps[p].count \in 1..MaxCount
<1>1. ms \in Seq(Assignment) /\ Counted(ms)
  BY PanelFacts DEF GoodPanel
<1>2. Share(ms[i], p) \in Nat /\ Used(ms, p) \in Nat /\ Share(ms[i], p) <= Used(ms, p)
  BY <1>1, ShareOfUsed
<1>3. (p \in Pool /\ ps[p] # None) => Used(ms, p) <= ps[p].count /\ ps[p].count \in 1..MaxCount
  BY PoolKinds DEF GoodPanel
<1> QED
  BY <1>2, <1>3

\* A model that stays where it is, with the GPUs it has.
LEMMA PanelSamePlace ==
    ASSUME NEW ms, NEW ps \in PoolTable, NEW e \in Env, GoodPanel(ms, ps, e),
           NEW i \in 1..Len(ms), NEW m \in Assignment, m.pool = ms[i].pool, m.gpus = ms[i].gpus,
           NEW preserve \in BOOLEAN
    PROVE  GoodPanel([ms EXCEPT ![i] = Retune(m, preserve, ps, e)], ps, e)
<1>1. Hosted(m, ps)
  BY PanelFacts DEF Good, Hosted
<1>2. ASSUME NEW p \in Pool, ps[p] # None
      PROVE  Used(ms, p) - Share(ms[i], p) + Share(m, p) <= ps[p].count
  <2>1. Share(m, p) = Share(ms[i], p)
    BY DEF Share
  <2>2. /\ Share(ms[i], p) \in Nat /\ Used(ms, p) \in Nat
        /\ Used(ms, p) <= ps[p].count /\ ps[p].count \in 1..MaxCount
    BY <1>2, PanelNumbers
  <2> QED
    BY <2>1, <2>2
<1> QED
  BY <1>1, <1>2, PanelRetuned

\* set_model_gpu_count keeps a panel good, whatever count it is asked for.
LEMMA PanelWithCount ==
    ASSUME env \in Env, NEW ms, NEW ps \in PoolTable, GoodPanel(ms, ps, env),
           NEW i \in 1..Len(ms), NEW n \in Nat
    PROVE  GoodPanel(WithCount(ms, i, n, ps), ps, env)
<1> DEFINE m == ms[i]
<1>1. /\ ms \in Seq(Assignment) /\ m \in Assignment /\ Good(m, ps, env) /\ m.gpus \in 0..MaxCount
      /\ m.gpus > 0 => m.pool \in Pool /\ ps[m.pool] # None
  BY PanelFacts DEF GoodPanel
<1>2. CASE m.pool \notin Pool \/ ps[m.pool] = None
  <2> DEFINE r == [m EXCEPT !.gpus = 0]
  <2>1. WithCount(ms, i, n, ps) = [ms EXCEPT ![i] = r]
    BY <1>2 DEF WithCount
  <2>2. m.gpus = 0
    BY <1>1, <1>2, HardwareAssumption
  <2>3. r = m
    BY <1>1, <2>2 DEF Assignment
  <2> HIDE DEF r, m
  <2>4. ASSUME NEW p \in Pool, ps[p] # None
        PROVE  Used(ms, p) - Share(m, p) + Share(m, p) <= ps[p].count
    <3>1. /\ Share(m, p) \in Nat /\ Used(ms, p) \in Nat
          /\ Used(ms, p) <= ps[p].count /\ ps[p].count \in 1..MaxCount
      BY <2>4, PanelNumbers DEF m
    <3> QED
      BY <3>1
  <2>5. GoodPanel([ms EXCEPT ![i] = m], ps, env)
    BY <1>1, <2>4, PanelExcept DEF m
  <2> QED
    BY <2>1, <2>3, <2>5
<1>3. CASE ~(m.pool \notin Pool \/ ps[m.pool] = None)
  <2> DEFINE p == m.pool
             room == ps[p].count - (Used(ms, p) - m.gpus)
             most == IF room > 0 THEN room ELSE 0
             g == IF n < most THEN n ELSE most
             r == [m EXCEPT !.gpus = g]
  <2>1. WithCount(ms, i, n, ps) = [ms EXCEPT ![i] = Retune(r, FALSE, ps, env)]
    BY <1>3 DEF WithCount, Others
  <2>2. Share(m, p) = m.gpus
    BY DEF Share
  <2>3. /\ m.gpus \in Nat /\ Used(ms, p) \in Nat /\ m.gpus <= Used(ms, p)
        /\ Used(ms, p) <= ps[p].count /\ ps[p].count \in 1..MaxCount /\ p \in Pool /\ ps[p] # None
    BY <1>3, <2>2, PanelNumbers
  <2>4. g \in Nat /\ Used(ms, p) - m.gpus + g <= ps[p].count
    <3> HIDE DEF p, m
    <3> QED
      BY <2>3
  <2> HIDE DEF g
  <2>5. r \in Assignment /\ r.pool = p /\ r.gpus = g
    BY <1>1, <2>4 DEF Assignment
  <2> HIDE DEF r
  <2>6. Hosted(r, ps)
    BY <2>3, <2>4, <2>5 DEF Hosted
  <2>7. ASSUME NEW q \in Pool, ps[q] # None
        PROVE  Used(ms, q) - Share(m, q) + Share(r, q) <= ps[q].count
    <3>1. CASE q = p
      <4>1. Share(r, q) = g /\ Share(m, q) = m.gpus
        BY <2>5, <3>1 DEF Share
      <4> QED
        BY <2>4, <3>1, <4>1
    <3>2. CASE q # p
      <4>1. Share(r, q) = 0 /\ Share(m, q) = 0
        BY <2>5, <3>2 DEF Share
      <4>2. Used(ms, q) \in Nat /\ Used(ms, q) <= ps[q].count
        BY <2>7, PanelNumbers
      <4> QED
        BY <4>1, <4>2
    <3> QED
      BY <3>1, <3>2
  <2>8. FALSE \in BOOLEAN
    OBVIOUS
  <2> HIDE DEF p
  <2>9. GoodPanel([ms EXCEPT ![i] = Retune(r, FALSE, ps, env)], ps, env)
    BY <2>5, <2>6, <2>7, <2>8, PanelRetuned
  <2> QED
    BY <2>1, <2>9
<1> QED
  BY <1>2, <1>3

-----------------------------------------------------------------------------
(* The invariant                                                           *)

GoodPools(ps) ==
    /\ ps \in PoolTable
    /\ \A p \in Pool : ps[p] # None => ps[p].count = Snap(ps[p].type, ps[p].count)

\* The pools are normalised and the panel is good, as is the one that the
\* automatic selection put aside and may put back.
AllocInv ==
    /\ GoodPools(pools)
    /\ env \in Env
    /\ GoodPanel(models, pools, env)
    /\ GoodPanel(saved, pools, env)
    /\ auto \in {"idle", "place", "seed", "grow"}
    /\ auto # "place" => saved = <<>>

LEMMA QuietStep ==
    ASSUME AllocInv, Quiet, GoodPools(pools'), env' \in Env, GoodPanel(models', pools', env')
    PROVE  AllocInv'
<1>1. saved' = <<>> /\ auto' = "idle"
  BY DEF AllocInv, Quiet
<1>2. GoodPanel(<<>>, pools', env')
  BY EmptyPanel DEF GoodPools
<1> QED
  BY <1>1, <1>2 DEF AllocInv

\* The pools and the settings stay.
LEMMA PanelStep ==
    ASSUME AllocInv, Quiet, UNCHANGED <<pools, env>>, GoodPanel(models', pools, env)
    PROVE  AllocInv'
BY QuietStep DEF AllocInv

LEMMA AllocInitGood == AllocInit => AllocInv
<1> SUFFICES ASSUME AllocInit PROVE AllocInv
  OBVIOUS
<1>1. GoodPools(pools)
  <2>1. ASSUME NEW p \in Pool, pools[p] # None
        PROVE  /\ pools[p] \in [type : GpuType, count : 1..MaxCount]
               /\ pools[p].count = Snap(pools[p].type, pools[p].count)
    <3>1. pools[p] \in PoolRecords /\ pools[p].count <= MaxCount
      BY <2>1 DEF AllocInit
    <3>2. PICK t \in GpuType, n \in 1..MaxCount : pools[p] = [type |-> t, count |-> Snap(t, n)]
      BY <3>1 DEF PoolRecords
    <3>3. n \in Nat
      BY HardwareAssumption
    <3>4. Snap(t, n) \in Nat \ {0} /\ Snap(t, Snap(t, n)) = Snap(t, n)
      BY <3>3, SnapFacts
    <3> DEFINE s == Snap(t, n)
    <3> HIDE DEF s
    <3>5. pools[p].type = t /\ pools[p].count = s /\ s \in 1..MaxCount
      BY <3>1, <3>2, <3>4, HardwareAssumption DEF s
    <3> QED
      BY <3>2, <3>4, <3>5 DEF s
  <2>2. pools \in [Pool -> {r \in PoolRecords : r.count <= MaxCount} \cup {None}]
    BY DEF AllocInit
  <2>3. pools \in PoolTable
    BY <2>1, <2>2 DEF PoolTable
  <2> QED
    BY <2>1, <2>3 DEF GoodPools
<1>2. env \in Env /\ auto = "idle" /\ saved = <<>> /\ pools \in PoolTable
  BY <1>1 DEF AllocInit, GoodPools
<1>3. GoodPanel(<<>>, pools, env)
  BY <1>2, EmptyPanel
<1>4. GoodPanel(models, pools, env)
  <2>1. CASE models = <<>>
    BY <1>3, <2>1
  <2>2. CASE models # <<>>
    <3>1. PICK m \in ImportedRows(pools) : models = <<m>>
      BY <2>2 DEF AllocInit, ImportedModels
    <3> DEFINE p == m.pool
               n == m.gpus
    <3>2. AllLayouts \subseteq Layout
      BY CatalogAssumption DEF AllLayouts, Layout
    <3>3. n \in 0..MaxCount /\ n \in Nat /\ n \in Int
      BY HardwareAssumption DEF ImportedRows
    <3>4. m \in Assignment /\ p \in Pool /\ pools[p] # None
      BY <3>2, <3>3 DEF ImportedRows, Assignment
    <3>5. models = <<m>>
      BY <3>1
    <3>6. m.gpus <= pools[m.pool].count /\ Retune(m, TRUE, pools, env) = m
      <4>1. DOMAIN models = {1} /\ models[1] = m
        BY <3>5
      <4> QED
        BY <4>1 DEF AllocInit
    <3>7. Hosted(m, pools) /\ TRUE \in BOOLEAN /\ m.gpus \in 0..MaxCount
      BY <3>3, <3>4 DEF Hosted
    <3>8. Good(m, pools, env)
      BY <1>2, <3>4, <3>6, <3>7, RetuneGood
    <3>9. models \in Seq(Assignment) /\ Len(models) = 1 /\ models[1] = m
      BY <3>4, <3>5
    <3>10. ASSUME NEW q \in Pool, pools[q] # None
           PROVE  Used(models, q) <= pools[q].count
      <4>1. <<>> \in Seq(Assignment) /\ models = Append(<<>>, m)
        BY <3>5
      <4>2. Used(models, q) = Used(<<>>, q) + Share(m, q) /\ Used(<<>>, q) = 0
        BY <3>4, <4>1, UsedAppend, UsedInt
      <4>3. pools[q].count \in 1..MaxCount
        BY <1>2, <3>10, PoolKinds
      <4>4. CASE q = p
        <5>1. Share(m, q) = n
          BY <3>4, <4>4 DEF Share
        <5> QED
          BY <3>3, <3>4, <3>6, <4>2, <4>4, <5>1
      <4>5. CASE q # p
        <5>1. Share(m, q) = 0
          BY <3>4, <4>5 DEF Share
        <5> QED
          BY <4>2, <4>3, <5>1
      <4> QED
        BY <4>4, <4>5
    <3>11. \A i \in 1..Len(models) : Good(models[i], pools, env)
      <4>1. \A i \in 1..Len(models) : i = 1
        BY <3>9
      <4> QED
        BY <3>8, <3>9, <4>1
    <3>12. Len(models) <= MaxModels
      BY <3>9, HardwareAssumption
    <3> QED
      BY <3>9, <3>10, <3>11, <3>12 DEF GoodPanel
  <2> QED
    BY <2>1, <2>2
<1> QED
  BY <1>1, <1>2, <1>3, <1>4 DEF AllocInv

-----------------------------------------------------------------------------
(* The steps of the pools                                                  *)

\* Buying GPUs: no pool changes its type or loses a GPU.
LEMMA AddedPools ==
    ASSUME AllocInv, NEW t \in GpuType, NEW n \in 1..MaxCount, AddGpu(t, n)
    PROVE  /\ GoodPools(pools')
           /\ \A q \in Pool : pools[q] # None =>
                 /\ pools'[q] # None /\ pools'[q].type = pools[q].type
                 /\ pools[q].count <= pools'[q].count
<1> DEFINE count == Snap(t, n)
<1>1. /\ GoodPools(pools) /\ env \in Env /\ GoodPanel(models, pools, env) /\ Quiet
      /\ pools \in PoolTable /\ models' = models /\ env' = env
  BY DEF AllocInv, AddGpu, GoodPools
<1>2. count \in Nat \ {0} /\ Snap(t, count) = count
  BY SnapFacts, HardwareAssumption
<1>3. PICK p \in Pool, c \in 1..MaxCount :
         /\ pools' = [pools EXCEPT ![p] = [type |-> t, count |-> c]]
         /\ Snap(t, c) = c
         /\ pools[p] # None => pools[p].type = t /\ pools[p].count <= c
  <2>1. CASE \E p \in {q \in Pools : pools[q].type = t} :
                /\ Snap(t, pools[p].count + count) <= MaxCount
                /\ pools' = [pools EXCEPT ![p].count = Snap(t, @ + count)]
    <3>1. PICK p \in Pools : /\ pools[p].type = t
                             /\ Snap(t, pools[p].count + count) <= MaxCount
                             /\ pools' = [pools EXCEPT ![p].count = Snap(t, @ + count)]
      BY <2>1
    <3> DEFINE old == pools[p].count
               c == Snap(t, old + count)
    <3>2. p \in Pool /\ pools[p] # None /\ old \in 1..MaxCount
      BY <1>1, <3>1, PoolKinds DEF Pools
    <3>3. old + count \in Nat /\ old <= old + count
      <4> HIDE DEF count, old
      <4> QED
        BY <1>2, <3>2, HardwareAssumption
    <3>4. c \in Nat \ {0} /\ old + count <= c /\ Snap(t, c) = c
      BY <3>3, SnapFacts
    <3>5. [pools[p] EXCEPT !.count = c] = [type |-> t, count |-> c]
      <4>1. pools[p] \in [type : GpuType, count : 1..MaxCount]
        BY <1>1, <3>2 DEF PoolTable
      <4> HIDE DEF c
      <4> QED
        BY <3>1, <4>1
    <3>6. pools' = [pools EXCEPT ![p] = [pools[p] EXCEPT !.count = c]]
      BY <3>1
    <3>7. c \in 1..MaxCount /\ old <= c
      <4>1. c <= MaxCount
        BY <3>1
      <4> HIDE DEF c, old, count
      <4> QED
        BY <1>2, <3>2, <3>3, <3>4, <4>1, HardwareAssumption
    <3> HIDE DEF c
    <3> QED
      BY <3>1, <3>2, <3>4, <3>5, <3>6, <3>7
  <2>2. CASE count <= MaxCount /\ \E p \in Pool \ Pools :
                pools' = [pools EXCEPT ![p] = [type |-> t, count |-> count]]
    <3>1. PICK p \in Pool \ Pools : pools' = [pools EXCEPT ![p] = [type |-> t, count |-> count]]
      BY <2>2
    <3>2. pools[p] = None
      BY DEF Pools
    <3>3. count \in 1..MaxCount
      <4> HIDE DEF count
      <4> QED
        BY <1>2, <2>2, HardwareAssumption
    <3> HIDE DEF count
    <3> QED
      BY <1>2, <3>1, <3>2, <3>3
  <2> QED
    BY <2>1, <2>2 DEF AddGpu
<1>4. [type |-> t, count |-> c] # None
  <2>1. c \in Nat
    BY HardwareAssumption
  <2> QED
    BY <2>1, HardwareAssumption
<1>5. \A q \in Pool : pools'[q] = IF q = p THEN [type |-> t, count |-> c] ELSE pools[q]
  BY <1>1, <1>3 DEF PoolTable
<1>6. pools' \in PoolTable
  BY <1>1, <1>3 DEF PoolTable
<1>7. GoodPools(pools')
  BY <1>1, <1>3, <1>5, <1>6 DEF GoodPools
<1>8. \A q \in Pool : pools[q] # None =>
         pools'[q] # None /\ pools'[q].type = pools[q].type /\ pools[q].count <= pools'[q].count
  <2> SUFFICES ASSUME NEW q \in Pool, pools[q] # None
               PROVE  /\ pools'[q] # None /\ pools'[q].type = pools[q].type
                      /\ pools[q].count <= pools'[q].count
    OBVIOUS
  <2>1. pools[q].count \in 1..MaxCount
    BY <1>1, PoolKinds
  <2> QED
    BY <1>3, <1>4, <1>5, <2>1, HardwareAssumption
<1> QED
  BY <1>7, <1>8

LEMMA AddGpuGood ==
    ASSUME AllocInv, NEW t \in GpuType, NEW n \in 1..MaxCount, AddGpu(t, n)
    PROVE  AllocInv'
<1>1. /\ env \in Env /\ GoodPanel(models, pools, env) /\ Quiet
      /\ pools \in PoolTable /\ models' = models /\ env' = env
  BY DEF AllocInv, AddGpu, GoodPools
<1>2. GoodPools(pools') /\ pools' \in PoolTable
  BY AddedPools DEF GoodPools
<1>3. GoodPanel(models, pools', env)
  BY <1>1, <1>2, AddedPools, PanelPools
<1> QED
  BY <1>1, <1>2, <1>3, QuietStep

LEMMA RemovedPoolGood ==
    ASSUME AllocInv, NEW p \in Pool
    PROVE  /\ GoodPools([pools EXCEPT ![p] = None])
           /\ GoodPanel(OffPool(models, p), [pools EXCEPT ![p] = None], env)
<1>1. GoodPools(pools) /\ pools \in PoolTable /\ GoodPanel(models, pools, env)
  BY DEF AllocInv, GoodPools
<1>2. GoodPools([pools EXCEPT ![p] = None])
  BY <1>1 DEF GoodPools, PoolTable
<1> QED
  BY <1>1, <1>2, PanelOff

LEMMA RemoveGpuGood ==
    ASSUME AllocInv, NEW p \in Pool, RemoveGpu(p)
    PROVE  AllocInv'
<1>1. /\ pools' = [pools EXCEPT ![p] = None] /\ models' = OffPool(models, p)
      /\ env' = env /\ Quiet /\ env \in Env
  BY DEF RemoveGpu, AllocInv
<1> QED
  BY <1>1, RemovedPoolGood, QuietStep

\* A pool with another count that is normalised.
LEMMA PoolCount ==
    ASSUME GoodPools(pools), NEW p \in Pool, pools[p] # None, NEW c \in 1..MaxCount,
           Snap(pools[p].type, c) = c
    PROVE  LET qs == [pools EXCEPT ![p].count = c]
           IN  /\ GoodPools(qs) /\ qs \in PoolTable
               /\ \A q \in Pool : q # p => qs[q] = pools[q]
               /\ qs[p] # None /\ qs[p].type = pools[p].type /\ qs[p].count = c
<1> DEFINE r == [pools[p] EXCEPT !.count = c]
           qs == [pools EXCEPT ![p] = r]
<1>1. pools \in PoolTable /\ pools[p] \in [type : GpuType, count : 1..MaxCount]
  BY DEF GoodPools, PoolTable
<1>2. c \in Nat
  BY HardwareAssumption
<1>3. r \in [type : GpuType, count : 1..MaxCount] /\ r.type = pools[p].type /\ r.count = c
  BY <1>1
<1>4. r # None
  <2>1. r \in [type : GpuType, count : Nat]
    BY <1>1, <1>2
  <2> QED
    BY <2>1, HardwareAssumption
<1> HIDE DEF r
<1>5. qs \in PoolTable /\ \A q \in Pool : qs[q] = IF q = p THEN r ELSE pools[q]
  BY <1>1, <1>3 DEF PoolTable
<1> HIDE DEF qs
<1>6. GoodPools(qs)
  BY <1>3, <1>5 DEF GoodPools
<1>7. /\ GoodPools(qs) /\ qs \in PoolTable
      /\ \A q \in Pool : q # p => qs[q] = pools[q]
      /\ qs[p] # None /\ qs[p].type = pools[p].type /\ qs[p].count = c
  BY <1>3, <1>4, <1>5, <1>6
<1> QED
  BY <1>7 DEF qs, r

\* What change_gpu_qty makes of the count it is given.
LEMMA QtyFacts ==
    ASSUME GoodPools(pools), NEW p \in Pool, pools[p] # None, NEW n \in Nat
    PROVE  /\ ChangedQty(p, n) = 0 <=> n = 0
           /\ n # 0 => /\ ChangedQty(p, n) \in Nat \ {0} /\ n <= ChangedQty(p, n)
                       /\ Snap(pools[p].type, ChangedQty(p, n)) = ChangedQty(p, n)
<1>1. pools[p].type \in GpuType
  BY PoolKinds DEF GoodPools
<1>2. CASE n = 0
  BY <1>2 DEF ChangedQty
<1>3. CASE n # 0
  <2>1. ChangedQty(p, n) = Snap(pools[p].type, n)
    BY <1>3 DEF ChangedQty
  <2> QED
    BY <1>1, <1>3, <2>1, SnapFacts
<1> QED
  BY <1>2, <1>3

LEMMA ChangeGpuQtyGood ==
    ASSUME AllocInv, NEW p \in Pool, NEW n \in 0..MaxCount, ChangeGpuQty(p, n)
    PROVE  AllocInv'
<1> DEFINE count == ChangedQty(p, n)
           kept == [pools EXCEPT ![p].count = count]
<1>1. /\ GoodPools(pools) /\ pools \in PoolTable /\ env \in Env /\ GoodPanel(models, pools, env)
      /\ Quiet /\ env' = env /\ pools[p] # None /\ n \in Nat /\ count <= MaxCount
  BY HardwareAssumption DEF AllocInv, GoodPools, ChangeGpuQty, Pools
<1>2. CASE count = 0
  <2>1. pools' = [pools EXCEPT ![p] = None] /\ models' = OffPool(models, p)
    BY <1>2 DEF ChangeGpuQty
  <2> QED
    BY <1>1, <2>1, RemovedPoolGood, QuietStep
<1>3. CASE count # 0
  <2>1. pools' = kept /\ models' = Shrunk(models, p, count, kept)
    BY <1>3 DEF ChangeGpuQty
  <2>2. count \in 1..MaxCount /\ Snap(pools[p].type, count) = count
    <3>1. count \in Nat \ {0} /\ Snap(pools[p].type, count) = count
      BY <1>1, <1>3, QtyFacts
    <3> HIDE DEF count
    <3> QED
      BY <1>1, <3>1, HardwareAssumption
  <2> HIDE DEF count
  <2>3. /\ GoodPools(kept) /\ kept \in PoolTable
        /\ \A q \in Pool : q # p => kept[q] = pools[q]
        /\ kept[p] # None /\ kept[p].type = pools[p].type /\ kept[p].count = count
    BY <1>1, <2>2, PoolCount
  <2> HIDE DEF kept
  <2>4. GoodPanel(Shrunk(models, p, count, kept), kept, env)
    BY <1>1, <2>2, <2>3, PanelShrunk
  <2> QED
    BY <1>1, <2>1, <2>3, <2>4, QuietStep
<1> QED
  BY <1>2, <1>3

LEMMA ChangeSettingsGood ==
    ASSUME AllocInv, NEW e \in Env, ChangeSettings(e)
    PROVE  AllocInv'
<1>1. /\ GoodPools(pools) /\ pools \in PoolTable /\ GoodPanel(models, pools, env) /\ Quiet
      /\ env' = e /\ models' = RetuneAll(models, pools, e) /\ pools' = pools
  BY DEF AllocInv, GoodPools, ChangeSettings
<1>2. GoodPanel(RetuneAll(models, pools, e), pools, e)
  BY <1>1, PanelSettings
<1> QED
  BY <1>1, <1>2, QuietStep

-----------------------------------------------------------------------------
(* The steps of the models                                                 *)

LEMMA ModelsNow ==
    ASSUME AllocInv
    PROVE  /\ GoodPools(pools) /\ pools \in PoolTable /\ env \in Env
           /\ GoodPanel(models, pools, env)
           /\ models \in Seq(Assignment) /\ DOMAIN models = 1..Len(models) /\ Len(models) \in Nat
BY DEF AllocInv, GoodPools, GoodPanel

LEMMA RemoveModelGood ==
    ASSUME AllocInv, NEW i \in DOMAIN models, RemoveModel(i)
    PROVE  AllocInv'
<1>1. GoodPanel(RemoveAt(models, i), pools, env)
  BY ModelsNow, PanelRemove
<1> QED
  BY <1>1, PanelStep DEF RemoveModel

LEMMA SetModelPrecGood ==
    ASSUME AllocInv, NEW i \in DOMAIN models, NEW prec \in Prec, SetModelPrec(i, prec)
    PROVE  AllocInv'
<1> DEFINE m == [models[i] EXCEPT !.prec = prec]
<1>1. Quiet /\ UNCHANGED <<pools, env>> /\ models' = [models EXCEPT ![i] = Retune(m, TRUE, pools, env)]
  BY DEF SetModelPrec, Change
<1>0. models[i] \in Assignment
  BY ModelsNow
<1>2. m \in Assignment /\ m.pool = models[i].pool /\ m.gpus = models[i].gpus
  BY <1>0 DEF Assignment
<1>3. i \in 1..Len(models) /\ TRUE \in BOOLEAN
  BY ModelsNow
<1> HIDE DEF m
<1>4. GoodPanel([models EXCEPT ![i] = Retune(m, TRUE, pools, env)], pools, env)
  BY <1>2, <1>3, ModelsNow, PanelSamePlace
<1> QED
  BY <1>1, <1>4, PanelStep

LEMMA SetModelSpecGood ==
    ASSUME AllocInv, NEW i \in DOMAIN models, NEW on \in BOOLEAN, SetModelSpec(i, on)
    PROVE  AllocInv'
<1> DEFINE s == [models[i] EXCEPT !.spec = on]
           refused == on /\ s.gpus > 0 /\ Valid(s, pools, env) = {}
           m == [s EXCEPT !.spec = @ /\ ~refused]
<1>1. Quiet /\ UNCHANGED <<pools, env>> /\ models' = [models EXCEPT ![i] = Retune(m, TRUE, pools, env)]
  BY DEF SetModelSpec, Change
<1>0. models[i] \in Assignment
  BY ModelsNow
<1>2. s \in Assignment /\ s.pool = models[i].pool /\ s.gpus = models[i].gpus
  BY <1>0 DEF Assignment
<1>3. refused \in BOOLEAN
  OBVIOUS
<1> HIDE DEF s, refused
<1>4. m \in Assignment /\ m.pool = models[i].pool /\ m.gpus = models[i].gpus
  BY <1>2, <1>3 DEF Assignment
<1>5. i \in 1..Len(models) /\ TRUE \in BOOLEAN
  BY ModelsNow
<1> HIDE DEF m
<1>6. GoodPanel([models EXCEPT ![i] = Retune(m, TRUE, pools, env)], pools, env)
  BY <1>4, <1>5, ModelsNow, PanelSamePlace
<1> QED
  BY <1>1, <1>6, PanelStep

LEMMA SetModelKeyGood ==
    ASSUME AllocInv, NEW i \in DOMAIN models, NEW key \in Key, NEW prec \in Prec,
           SetModelKey(i, key, prec)
    PROVE  AllocInv'
<1> DEFINE m == [models[i] EXCEPT !.key = key, !.prec = prec]
<1>1. Quiet /\ UNCHANGED <<pools, env>> /\ models' = [models EXCEPT ![i] = Retune(m, FALSE, pools, env)]
  BY DEF SetModelKey, Change
<1>0. models[i] \in Assignment
  BY ModelsNow
<1>2. m \in Assignment /\ m.pool = models[i].pool /\ m.gpus = models[i].gpus
  BY <1>0 DEF Assignment
<1>3. i \in 1..Len(models) /\ FALSE \in BOOLEAN
  BY ModelsNow
<1> HIDE DEF m
<1>4. GoodPanel([models EXCEPT ![i] = Retune(m, FALSE, pools, env)], pools, env)
  BY <1>2, <1>3, ModelsNow, PanelSamePlace
<1> QED
  BY <1>1, <1>4, PanelStep

LEMMA SetModelGpuCountGood ==
    ASSUME AllocInv, NEW i \in DOMAIN models, NEW n \in 0..MaxCount, SetModelGpuCount(i, n)
    PROVE  AllocInv'
<1>1. i \in 1..Len(models) /\ n \in Nat
  BY ModelsNow, HardwareAssumption
<1>2. GoodPanel(WithCount(models, i, n, pools), pools, env)
  BY <1>1, ModelsNow, PanelWithCount
<1> QED
  BY <1>2, PanelStep DEF SetModelGpuCount

LEMMA SetModelGpuPoolGood ==
    ASSUME AllocInv, NEW i \in DOMAIN models, NEW p \in Pool \cup {NoPool}, SetModelGpuPool(i, p)
    PROVE  AllocInv'
<1> DEFINE m == models[i]
           room == IF p \in Pools THEN pools[p].count - Others(models, i, p) ELSE 0
           g == IF m.gpus < room THEN m.gpus ELSE room
           r == [m EXCEPT !.pool = p, !.gpus = g]
<1>1. Quiet /\ UNCHANGED <<pools, env>> /\ models' = [models EXCEPT ![i] = Retune(r, FALSE, pools, env)]
  BY DEF SetModelGpuPool, Change
<1>2. /\ i \in 1..Len(models) /\ GoodPools(pools) /\ pools \in PoolTable /\ env \in Env
      /\ GoodPanel(models, pools, env) /\ FALSE \in BOOLEAN
  BY ModelsNow
<1>3. m \in Assignment /\ m.gpus \in 0..MaxCount
  BY <1>2, PanelFacts
<1>4. m.gpus \in Nat
  BY <1>3, HardwareAssumption
<1>5. CASE p \in Pools
  <2>1. p \in Pool /\ pools[p] # None
    BY <1>5 DEF Pools
  <2>2. /\ Share(m, p) \in Nat /\ Used(models, p) \in Nat /\ Share(m, p) <= Used(models, p)
        /\ Used(models, p) <= pools[p].count /\ pools[p].count \in 1..MaxCount
    BY <1>2, <2>1, PanelNumbers
  <2>3. room = pools[p].count - (Used(models, p) - Share(m, p))
    BY <1>5 DEF Others, Share
  <2>4. g \in Nat /\ Used(models, p) - Share(m, p) + g <= pools[p].count
    <3> HIDE DEF m, room
    <3> QED
      BY <1>4, <2>2, <2>3
  <2> HIDE DEF g
  <2>5. r \in Assignment /\ r.pool = p /\ r.gpus = g
    <3>1. m \in Assignment /\ g \in Int
      BY <1>3, <2>4
    <3> HIDE DEF m
    <3> QED
      BY <3>1 DEF Assignment
  <2> HIDE DEF r
  <2>6. Hosted(r, pools)
    BY <2>1, <2>4, <2>5 DEF Hosted
  <2>7. ASSUME NEW q \in Pool, pools[q] # None
        PROVE  Used(models, q) - Share(m, q) + Share(r, q) <= pools[q].count
    <3>1. /\ Share(m, q) \in Nat /\ Used(models, q) \in Nat
          /\ Used(models, q) <= pools[q].count /\ pools[q].count \in 1..MaxCount
      BY <1>2, <2>7, PanelNumbers
    <3>2. CASE q = p
      <4>1. Share(r, q) = g
        BY <2>5, <3>2 DEF Share
      <4> QED
        BY <2>4, <3>2, <4>1
    <3>3. CASE q # p
      <4>1. Share(r, q) = 0
        BY <2>5, <3>3 DEF Share
      <4> HIDE DEF m
      <4> QED
        BY <3>1, <4>1, HardwareAssumption
    <3> QED
      BY <3>2, <3>3
  <2>8. GoodPanel([models EXCEPT ![i] = Retune(r, FALSE, pools, env)], pools, env)
    BY <1>2, <2>5, <2>6, <2>7, PanelRetuned
  <2> QED
    BY <1>1, <2>8, PanelStep
<1>6. CASE p \notin Pools
  <2>1. g = 0
    <3>1. room = 0
      BY <1>6
    <3> HIDE DEF room, m
    <3> QED
      BY <1>4, <3>1
  <2> HIDE DEF g
  <2>2. r \in Assignment /\ r.pool = p /\ r.gpus = 0
    <3>1. m \in Assignment /\ g \in Int /\ g = 0
      BY <1>3, <2>1
    <3> HIDE DEF m
    <3> QED
      BY <3>1 DEF Assignment
  <2> HIDE DEF r
  <2>3. Hosted(r, pools)
    BY <2>2 DEF Hosted
  <2>4. ASSUME NEW q \in Pool, pools[q] # None
        PROVE  Used(models, q) - Share(m, q) + Share(r, q) <= pools[q].count
    <3>1. /\ Share(m, q) \in Nat /\ Used(models, q) \in Nat
          /\ Used(models, q) <= pools[q].count /\ pools[q].count \in 1..MaxCount
      BY <1>2, <2>4, PanelNumbers
    <3>2. Share(r, q) = 0
      BY <2>2 DEF Share
    <3> HIDE DEF m
    <3> QED
      BY <3>1, <3>2, HardwareAssumption
  <2>5. GoodPanel([models EXCEPT ![i] = Retune(r, FALSE, pools, env)], pools, env)
    BY <1>2, <2>2, <2>3, <2>4, PanelRetuned
  <2> QED
    BY <1>1, <2>5, PanelStep
<1> QED
  BY <1>5, <1>6

\* A layout set by hand fits the GPUs; it serves if clients set both phases.
LEMMA SetModelStratGood ==
    ASSUME AllocInv, NEW i \in DOMAIN models, NEW l, NEW phase, SetModelStrat(i, l, phase)
    PROVE  AllocInv'
<1> DEFINE m == models[i]
           all == Kind[m.key] = "embedding"
           a == IF all \/ phase \in {"prefill", "both"} THEN l ELSE m.prefill
           b == IF all \/ phase \in {"decode", "both"} THEN l ELSE m.decode
           r == [m EXCEPT !.prefill = a, !.decode = b]
<1>1. /\ Quiet /\ UNCHANGED <<pools, env>> /\ l \in Valid(m, pools, env)
      /\ phase \in PhasesSent[Kind[m.key]]
  BY DEF SetModelStrat
<1>2. models' = [models EXCEPT ![i] = r]
  BY DEF SetModelStrat
<1>3. /\ i \in 1..Len(models) /\ GoodPools(pools) /\ pools \in PoolTable /\ env \in Env
      /\ GoodPanel(models, pools, env) /\ models \in Seq(Assignment)
  BY ModelsNow
<1>4. m \in Assignment /\ Good(m, pools, env) /\ m.gpus \in 0..MaxCount
  BY <1>3, PanelFacts
<1>5. m.pool \in Pool /\ pools[m.pool] # None /\ m.gpus \in 1..MaxCount
  <2>1. m.pool \in Pool /\ pools[m.pool] # None /\ ~(m.gpus <= 0)
    BY <1>1 DEF Valid
  <2> QED
    BY <1>4, <2>1, HardwareAssumption
<1>6. l \in Layout /\ Size(l) = m.gpus
  BY <1>1, <1>3, <1>4, <1>5, LayoutFacts
<1>7. Size(m.decode) = m.gpus /\ Size(m.prefill) = m.gpus /\ m.gpus # 0
  <2>1. m.gpus # 0
    BY <1>5
  <2> QED
    BY <1>4, <2>1 DEF Good, Filled
<1>8. a \in Layout /\ b \in Layout /\ Size(a) = m.gpus /\ Size(b) = m.gpus
  <2>1. m.prefill \in Layout /\ m.decode \in Layout
    BY <1>4 DEF Assignment
  <2> QED
    BY <1>6, <1>7, <2>1
<1>9. BothSent => a = l /\ b = l
  <2>1. m.key \in Key
    BY <1>4 DEF Assignment
  <2> QED
    BY <1>1, <2>1 DEF BothSent
<1> HIDE DEF a, b
<1>10. /\ r \in Assignment /\ r.key = m.key /\ r.pool = m.pool /\ r.gpus = m.gpus
       /\ r.prec = m.prec /\ r.spec = m.spec /\ r.prefill = a /\ r.decode = b
  BY <1>4, <1>8 DEF Assignment
<1> HIDE DEF r
<1>11. Valid(r, pools, env) = Valid(m, pools, env)
  BY <1>10, ValidFields
<1>12. Good(r, pools, env)
  <2>1. Hosted(r, pools)
    BY <1>4, <1>10 DEF Good, Hosted
  <2>2. Filled(r)
    BY <1>7, <1>8, <1>10 DEF Filled
  <2>3. BothSent => Served(r, pools, env)
    BY <1>1, <1>9, <1>10, <1>11 DEF Served
  <2> QED
    BY <1>10, <2>1, <2>2, <2>3 DEF Good
<1>13. ASSUME NEW q \in Pool, pools[q] # None
       PROVE  Used(models, q) - Share(m, q) + Share(r, q) <= pools[q].count
  <2>1. Share(r, q) = Share(m, q)
    BY <1>10 DEF Share
  <2>2. /\ Share(m, q) \in Nat /\ Used(models, q) \in Nat
        /\ Used(models, q) <= pools[q].count /\ pools[q].count \in 1..MaxCount
    BY <1>3, <1>13, PanelNumbers
  <2> HIDE DEF m
  <2> QED
    BY <2>1, <2>2
<1>14. GoodPanel([models EXCEPT ![i] = r], pools, env)
  BY <1>3, <1>12, <1>13, PanelExcept
<1> QED
  BY <1>1, <1>2, <1>14, PanelStep

\* The pool after apply_gpu_expansion grew it.
LEMMA ExpandedPools ==
    ASSUME AllocInv, NEW p, NEW added \in 1..MaxCount, NEW qs,
           qs = IF p \notin Pools THEN pools
                ELSE [pools EXCEPT ![p].count = ChangedQty(p, @ + added)],
           p \in Pools => qs[p].count <= MaxCount
    PROVE  /\ GoodPools(qs) /\ qs \in PoolTable /\ GoodPanel(models, qs, env)
           /\ p \in Pools => /\ p \in Pool /\ qs[p] # None /\ pools[p].count + added <= qs[p].count
                             /\ pools[p].count \in Nat /\ qs[p].count \in Nat
           /\ \A q \in Pool : q # p => qs[q] = pools[q]
<1>1. /\ GoodPools(pools) /\ pools \in PoolTable /\ env \in Env
      /\ GoodPanel(models, pools, env)
  BY ModelsNow
<1>2. CASE p \notin Pools
  BY <1>1, <1>2
<1>3. CASE p \in Pools
  <2> DEFINE old == pools[p].count
             c == ChangedQty(p, old + added)
  <2>1. p \in Pool /\ pools[p] # None /\ old \in 1..MaxCount
    BY <1>1, <1>3, PoolKinds DEF Pools
  <2>2. old + added \in Nat /\ old + added # 0 /\ old \in Nat
    <3> HIDE DEF old
    <3> QED
      BY <2>1, HardwareAssumption
  <2>3. c \in Nat \ {0} /\ old + added <= c /\ Snap(pools[p].type, c) = c
    <3> HIDE DEF old
    <3> QED
      BY <1>1, <2>1, <2>2, QtyFacts
  <2>4. qs = [pools EXCEPT ![p].count = c]
    BY <1>3
  <2>5. qs[p].count = c
    <3>1. pools[p] \in [type : GpuType, count : 1..MaxCount] /\ pools \in PoolTable
      BY <1>1, <2>1 DEF PoolTable
    <3> HIDE DEF c
    <3> QED
      BY <2>1, <2>4, <3>1 DEF PoolTable
  <2>6. c \in 1..MaxCount
    <3>1. c <= MaxCount
      BY <1>3, <2>5
    <3> HIDE DEF c
    <3> QED
      BY <2>3, <3>1, HardwareAssumption
  <2> HIDE DEF c, old
  <2>7. /\ GoodPools(qs) /\ qs \in PoolTable
        /\ \A q \in Pool : q # p => qs[q] = pools[q]
        /\ qs[p] # None /\ qs[p].type = pools[p].type /\ qs[p].count = c
    <3> DEFINE rs == [pools EXCEPT ![p].count = c]
    <3>1. /\ GoodPools(rs) /\ rs \in PoolTable
          /\ \A q \in Pool : q # p => rs[q] = pools[q]
          /\ rs[p] # None /\ rs[p].type = pools[p].type /\ rs[p].count = c
      BY <1>1, <2>1, <2>3, <2>6, PoolCount
    <3>2. qs = rs
      BY <2>4
    <3> HIDE DEF rs
    <3> QED
      BY <3>1, <3>2
  <2>8. old <= c /\ c \in Nat
    BY <2>2, <2>3, HardwareAssumption
  <2>9. \A q \in Pool : pools[q] # None =>
           qs[q] # None /\ qs[q].type = pools[q].type /\ pools[q].count <= qs[q].count
    <3> SUFFICES ASSUME NEW q \in Pool, pools[q] # None
                 PROVE  qs[q] # None /\ qs[q].type = pools[q].type /\ pools[q].count <= qs[q].count
      OBVIOUS
    <3>1. pools[q].count \in 1..MaxCount
      BY <1>1, PoolKinds
    <3>2. CASE q = p
      BY <2>7, <2>8, <3>2 DEF old
    <3>3. CASE q # p
      BY <2>7, <3>1, <3>3, HardwareAssumption
    <3> QED
      BY <3>2, <3>3
  <2>10. GoodPanel(models, qs, env)
    BY <1>1, <2>7, <2>9, PanelPools
  <2> QED
    BY <2>1, <2>2, <2>3, <2>7, <2>8, <2>10 DEF old
<1> QED
  BY <1>2, <1>3

LEMMA ApplyGpuExpansionGood ==
    ASSUME AllocInv, NEW i \in DOMAIN models, NEW added \in 1..MaxCount,
           ApplyGpuExpansion(i, added)
    PROVE  AllocInv'
<1> DEFINE p == models[i].pool
           target == models[i].gpus + added
           grown == IF p \notin Pools THEN pools
                    ELSE [pools EXCEPT ![p].count = ChangedQty(p, @ + added)]
<1>1. /\ Quiet /\ env' = env /\ pools' = grown /\ models' = WithCount(models, i, target, grown)
      /\ p \in Pools => grown[p].count <= MaxCount
  BY DEF ApplyGpuExpansion
<1>2. i \in 1..Len(models) /\ env \in Env /\ target \in Nat
  <2>1. i \in 1..Len(models) /\ models[i].gpus \in 0..MaxCount /\ env \in Env
    BY ModelsNow, PanelFacts
  <2> QED
    BY <2>1, HardwareAssumption
<1>3. GoodPools(grown) /\ grown \in PoolTable /\ GoodPanel(models, grown, env)
  <2> HIDE DEF p
  <2>1. p \in Pools => grown[p].count <= MaxCount
    BY <1>1
  <2>2. \E qs : /\ qs = IF p \notin Pools THEN pools
                        ELSE [pools EXCEPT ![p].count = ChangedQty(p, @ + added)]
                /\ qs = grown
    OBVIOUS
  <2> HIDE DEF grown
  <2> QED
    BY <2>1, <2>2, ExpandedPools
<1> HIDE DEF grown, target
<1>4. GoodPanel(WithCount(models, i, target, grown), grown, env)
  BY <1>2, <1>3, PanelWithCount
<1> QED
  BY <1>1, <1>2, <1>3, <1>4, QuietStep

-----------------------------------------------------------------------------
(* The engines that choose a pool                                          *)

LEMMA FreeFacts ==
    ASSUME AllocInv, NEW p \in Pools
    PROVE  /\ p \in Pool /\ pools[p] # None /\ pools[p].count \in 1..MaxCount
           /\ Free(p) \in 0..MaxCount /\ Free(p) <= pools[p].count
           /\ Used(models, p) \in Nat /\ Free(p) = pools[p].count - Used(models, p)
<1>1. p \in Pool /\ pools[p] # None
  BY DEF Pools
<1>2. models \in Seq(Assignment) /\ Counted(models)
  BY DEF AllocInv, GoodPanel, Good, Hosted, Counted
<1>3. Used(models, p) \in Nat
  BY <1>2, UsedNat
<1>4. Used(models, p) <= pools[p].count /\ pools[p].count \in 1..MaxCount
  BY <1>1, PoolKinds DEF AllocInv, GoodPools, GoodPanel
<1>5. Free(p) = pools[p].count - Used(models, p)
  BY DEF Free
<1> HIDE DEF Free
<1>6. Free(p) \in 0..MaxCount /\ Free(p) <= pools[p].count
  BY <1>3, <1>4, <1>5, HardwareAssumption
<1> QED
  BY <1>1, <1>3, <1>4, <1>5, <1>6

\* The smallest fitting number of GPUs is within the limit, or there is none.
LEMMA MinNeedRange ==
    ASSUME NEW key, NEW prec, NEW p, NEW limit \in 0..MaxCount
    PROVE  /\ MinNeed(key, prec, p, limit) \in 1..Infinite
           /\ MinNeed(key, prec, p, limit) < Infinite => MinNeed(key, prec, p, limit) <= limit
<1> DEFINE fits == {n \in 1..limit : ValidOn(key, n, prec, FALSE, pools[p].type, env) # {}}
           best == CHOOSE n \in fits : \A k \in fits : n <= k
<1>1. limit \in Nat /\ limit <= MaxCount /\ MaxCount \in Nat
  BY HardwareAssumption
<1>2. CASE fits = {}
  <2>1. MinNeed(key, prec, p, limit) = Infinite
    BY <1>2 DEF MinNeed
  <2> QED
    BY <1>1, <2>1 DEF Infinite
<1>3. CASE fits # {}
  <2>1. MinNeed(key, prec, p, limit) = best
    BY <1>3 DEF MinNeed
  <2>2. fits \in SUBSET Nat
    <3>1. \A n \in fits : n \in 1..limit
      OBVIOUS
    <3> HIDE DEF fits
    <3> QED
      BY <1>1, <3>1
  <2>3. \E n \in fits : \A k \in fits : n <= k
    <3> HIDE DEF fits
    <3> QED
      BY <1>3, <2>2, LeastNumber
  <2>4. best \in fits
    BY <2>3
  <2>5. best \in 1..limit
    BY <2>4
  <2> HIDE DEF best
  <2> QED
    BY <1>1, <2>1, <2>5 DEF Infinite
<1> QED
  BY <1>2, <1>3

\* The least need over the precisions is the need of one of them.
LEMMA BestNeedRange ==
    ASSUME NEW key \in Key, NEW p, NEW limit \in 0..MaxCount
    PROVE  /\ BestNeed(key, p, limit) \in 1..Infinite
           /\ BestNeed(key, p, limit) < Infinite => BestNeed(key, p, limit) <= limit
<1> DEFINE need(pr) == MinNeed(key, pr, p, limit)
           needs == {need(pr) : pr \in Prec}
           P(n) == /\ \E pr \in Prec : need(pr) = n
                   /\ \A pr \in Prec : n <= need(pr)
           best == CHOOSE n \in 1..Infinite : P(n)
<1>1. MaxCount \in Nat /\ Infinite \in Nat
  BY HardwareAssumption DEF Infinite
<1>2. \A pr \in Prec : need(pr) \in 1..Infinite /\ (need(pr) < Infinite => need(pr) <= limit)
  BY MinNeedRange
<1> HIDE DEF need
<1>3. needs \in SUBSET Nat /\ needs # {}
  <2>1. NativePrec[key] \in Prec
    BY CatalogAssumption
  <2> QED
    BY <1>1, <1>2, <2>1
<1>4. PICK n \in needs : \A k \in needs : n <= k
  <2> HIDE DEF needs
  <2> QED
    BY <1>3, LeastNumber
<1>5. n \in 1..Infinite /\ P(n)
  BY <1>2, <1>4
<1>6. best \in 1..Infinite /\ P(best)
  <2> HIDE DEF P
  <2> QED
    BY <1>5
<1>7. BestNeed(key, p, limit) = best
  BY DEF BestNeed, need
<1> HIDE DEF best
<1> QED
  BY <1>2, <1>6, <1>7

\* A pool that exists, GPUs that are free there, a precision.
Plans == {x \in Pools \X (0..MaxCount) \X Prec : x[2] <= Free(x[1])}

LEMMA PlansFit ==
    ASSUME AllocInv, NEW key \in Key
    PROVE  AddPlans(key) \subseteq Plans
<1> DEFINE native == [p \in Pools |-> MinNeed(key, NativePrec[key], p, Free(p))]
           now    == [p \in Pools |-> BestNeed(key, p, Free(p))]
           full   == [p \in Pools |-> BestNeed(key, p, pools[p].count)]
           Fewest(need) == {p \in Pools : /\ need[p] < Infinite
                                         /\ \A q \in Pools : need[p] <= need[q]}
           A == {<<p, native[p], NativePrec[key]>> : p \in Fewest(native)}
           B == {<<p, now[p], pr>> : p \in Fewest(now),
                   pr \in {q \in Prec : \E r \in Fewest(now) :
                                           MinNeed(key, q, r, Free(r)) = now[r]}}
           C == {<<p, Free(p), pr>> : p \in Fewest(full),
                   pr \in {q \in Prec : \E r \in Fewest(full) :
                                           MinNeed(key, q, r, pools[r].count) = full[r]}}
<1>1. AddPlans(key) = IF Fewest(native) # {} THEN A ELSE IF Fewest(now) # {} THEN B ELSE C
  BY DEF AddPlans
<1>2. NativePrec[key] \in Prec /\ MaxCount \in Nat
  BY CatalogAssumption, HardwareAssumption
<1>3. ASSUME NEW p \in Pools, NEW n \in 1..Infinite, n <= Free(p), NEW pr \in Prec
      PROVE  <<p, n, pr>> \in Plans
  <2>1. Free(p) \in 0..MaxCount
    BY FreeFacts
  <2> HIDE DEF Free
  <2>2. n \in 0..MaxCount
    BY <1>2, <1>3, <2>1 DEF Infinite
  <2> QED
    BY <1>3, <2>2 DEF Plans
<1>4. ASSUME NEW p \in Pools, NEW pr \in Prec
      PROVE  <<p, Free(p), pr>> \in Plans
  <2>1. Free(p) \in 0..MaxCount
    BY FreeFacts
  <2> HIDE DEF Free
  <2> QED
    BY <1>2, <2>1 DEF Plans
<1>5. \A p \in Fewest(native) : p \in Pools /\ native[p] \in 1..Infinite /\ native[p] <= Free(p)
  <2> TAKE p \in Fewest(native)
  <2>1. p \in Pools /\ native[p] < Infinite /\ native[p] = MinNeed(key, NativePrec[key], p, Free(p))
    OBVIOUS
  <2>2. Free(p) \in 0..MaxCount
    BY <2>1, FreeFacts
  <2> HIDE DEF native
  <2> QED
    BY <2>1, <2>2, MinNeedRange
<1>6. \A p \in Fewest(now) : p \in Pools /\ now[p] \in 1..Infinite /\ now[p] <= Free(p)
  <2> TAKE p \in Fewest(now)
  <2>1. p \in Pools /\ now[p] < Infinite /\ now[p] = BestNeed(key, p, Free(p))
    OBVIOUS
  <2>2. Free(p) \in 0..MaxCount
    BY <2>1, FreeFacts
  <2> HIDE DEF now
  <2> QED
    BY <2>1, <2>2, BestNeedRange
<1>7. \A p \in Fewest(full) : p \in Pools
  OBVIOUS
<1> HIDE DEF native, now, full, Fewest
<1>8. A \subseteq Plans
  BY <1>2, <1>3, <1>5
<1>9. B \subseteq Plans
  BY <1>3, <1>6
<1>10. C \subseteq Plans
  BY <1>4, <1>7
<1> QED
  BY <1>1, <1>8, <1>9, <1>10

\* The model that a plan adds.
LEMMA PlannedModel ==
    ASSUME AllocInv, Len(models) < MaxModels, NEW key \in Key, NEW x \in Plans
    PROVE  GoodPanel(Append1(NewModel(key, x[1], x[2], x[3]), env), pools, env)
<1> DEFINE m == NewModel(key, x[1], x[2], x[3])
<1>1. /\ x[1] \in Pools /\ x[2] \in 0..MaxCount /\ x[3] \in Prec /\ x[2] <= Free(x[1])
  BY DEF Plans
<1>2. x[1] \in Pool /\ x[2] \in Nat /\ UnitLayout \in Layout
  BY <1>1, HardwareAssumption DEF Pools, UnitLayout, Layout
<1>3. m \in Assignment /\ m.pool = x[1] /\ m.gpus = x[2]
  BY <1>1, <1>2 DEF NewModel, Assignment
<1>4. /\ pools[m.pool] # None /\ Used(models, m.pool) + m.gpus <= pools[m.pool].count
  <2> HIDE DEF m
  <2>1. /\ pools[x[1]] # None /\ pools[x[1]].count \in 1..MaxCount /\ Used(models, x[1]) \in Nat
        /\ Free(x[1]) = pools[x[1]].count - Used(models, x[1])
    BY <1>1, FreeFacts
  <2> QED
    BY <1>1, <1>2, <1>3, <2>1
<1> HIDE DEF m
<1>5. GoodPanel(Append(models, Retune(m, FALSE, pools, env)), pools, env)
  BY <1>2, <1>3, <1>4, ModelsNow, PanelAppend
<1> QED
  BY <1>5 DEF Append1, m

LEMMA AddModelGood ==
    ASSUME AllocInv, NEW key \in Key, AddModel(key)
    PROVE  AllocInv'
<1>1. PICK x \in AddPlans(key) : models' = Append1(NewModel(key, x[1], x[2], x[3]), env)
  BY DEF AddModel
<1>2. Quiet /\ UNCHANGED <<pools, env>> /\ Len(models) < MaxModels
  BY DEF AddModel
<1>3. x \in Plans
  BY PlansFit
<1>4. GoodPanel(models', pools, env)
  BY <1>1, <1>2, <1>3, PlannedModel
<1> QED
  BY <1>2, <1>4, PanelStep

-----------------------------------------------------------------------------
(* The automatic selection                                                 *)

\* A step of the selection that leaves the pools and the settings alone.
LEMMA SelectStep ==
    ASSUME AllocInv, UNCHANGED <<pools, env>>, GoodPanel(models', pools, env),
           GoodPanel(saved', pools, env), auto' \in {"idle", "place", "seed", "grow"},
           auto' # "place" => saved' = <<>>
    PROVE  AllocInv'
BY DEF AllocInv

LEMMA NoneSaved ==
    ASSUME AllocInv
    PROVE  GoodPanel(<<>>, pools, env)
BY EmptyPanel DEF AllocInv, GoodPools

LEMMA AutoStartGood ==
    ASSUME AllocInv, AutoStart
    PROVE  AllocInv'
<1>1. /\ UNCHANGED <<pools, env>> /\ auto' = "place" /\ saved' = models /\ models' = <<>>
  BY DEF AutoStart
<1> QED
  BY <1>1, NoneSaved, SelectStep DEF AllocInv

LEMMA PlaceGood ==
    ASSUME AllocInv, NEW key \in Key, NEW P \in SUBSET Pools, Place(key, P)
    PROVE  AllocInv'
<1>1. PICK x \in Placements(key, P) :
         models' = Append1(NewModel(key, x[1], x[2], x[3]), env)
  BY DEF Place
<1>2. UNCHANGED <<pools, env, auto, saved>> /\ Len(models) < MaxModels
  BY DEF Place
<1>3. x \in Plans
  <2>1. PICK p \in P, pr \in Prec :
           x = <<p, MinNeed(key, pr, p, Free(p)), pr>> /\ x[2] < Infinite
    BY DEF Placements
  <2>2. p \in Pools /\ Free(p) \in 0..MaxCount
    BY FreeFacts
  <2>3. x[1] = p /\ x[3] = pr /\ x[2] = MinNeed(key, pr, p, Free(p))
    BY <2>1
  <2>4. x[2] \in 1..Infinite /\ x[2] <= Free(p)
    BY <2>1, <2>2, <2>3, MinNeedRange
  <2>5. x[2] \in 0..MaxCount
    <3> HIDE DEF Free
    <3> QED
      BY <2>1, <2>2, <2>4, HardwareAssumption DEF Infinite
  <2>6. x = <<x[1], x[2], x[3]>>
    BY <2>1
  <2> QED
    BY <2>2, <2>3, <2>4, <2>5, <2>6 DEF Plans
<1>4. GoodPanel(models', pools, env)
  BY <1>1, <1>2, <1>3, PlannedModel
<1> QED
  BY <1>2, <1>4, SelectStep DEF AllocInv

LEMMA AutoPlacedGood ==
    ASSUME AllocInv, NEW lean \in BOOLEAN, AutoPlaced(lean)
    PROVE  AllocInv'
<1>1. UNCHANGED <<pools, env>> /\ saved' = <<>>
  BY DEF AutoPlaced
<1>2. CASE models = <<>>
  <2>1. models' = saved /\ auto' = "idle"
    BY <1>2 DEF AutoPlaced
  <2> QED
    BY <1>1, <2>1, NoneSaved, SelectStep DEF AllocInv
<1>3. CASE models # <<>>
  <2>1. models' = models /\ auto' \in {"idle", "seed"}
    BY <1>3 DEF AutoPlaced
  <2> QED
    BY <1>1, <2>1, NoneSaved, SelectStep DEF AllocInv
<1> QED
  BY <1>2, <1>3

\* The growth loop gives a model one of the GPUs that its pool has left.
LEMMA AutoGrowGood ==
    ASSUME AllocInv, NEW i \in DOMAIN models, AutoGrow(i)
    PROVE  AllocInv'
<1> DEFINE m == models[i]
           r == Grown(i)
           p == m.pool
<1>1. /\ UNCHANGED <<pools, env, auto, saved>> /\ Free(p) > 0 /\ Valid(r, pools, env) # {}
      /\ models' = [models EXCEPT ![i] = Retune(r, FALSE, pools, env)]
  BY DEF AutoGrow, CanGrow
<1>2. /\ i \in 1..Len(models) /\ GoodPools(pools) /\ pools \in PoolTable /\ env \in Env
      /\ GoodPanel(models, pools, env) /\ FALSE \in BOOLEAN
  BY ModelsNow
<1>3. m \in Assignment /\ m.gpus \in 0..MaxCount
  BY <1>2, PanelFacts
<1>4. m.gpus \in Nat /\ m.gpus + 1 \in Int /\ m.gpus + 1 \in Nat
  <2> HIDE DEF m
  <2> QED
    BY <1>3, HardwareAssumption
<1>5. r = [m EXCEPT !.gpus = m.gpus + 1]
  BY DEF Grown
<1>6. r \in Assignment /\ r.pool = p /\ r.gpus = m.gpus + 1
  <2> HIDE DEF m
  <2> QED
    BY <1>3, <1>4, <1>5 DEF Assignment
<1> HIDE DEF r
<1>7. p \in Pools
  BY <1>1, <1>6 DEF Valid, Pools
<1>8. Hosted(r, pools)
  BY <1>4, <1>6, <1>7 DEF Hosted, Pools
<1>9. ASSUME NEW q \in Pool, pools[q] # None
      PROVE  Used(models, q) - Share(m, q) + Share(r, q) <= pools[q].count
  <2>1. /\ Share(m, q) \in Nat /\ Used(models, q) \in Nat
        /\ Used(models, q) <= pools[q].count /\ pools[q].count \in 1..MaxCount
    BY <1>2, <1>9, PanelNumbers
  <2>2. CASE q = p
    <3>1. Share(m, q) = m.gpus /\ Share(r, q) = m.gpus + 1
      BY <1>6, <2>2 DEF Share
    <3>2. pools[q].count - Used(models, q) > 0
      BY <1>1, <2>2 DEF Free
    <3> HIDE DEF m
    <3> QED
      BY <1>4, <2>1, <3>1, <3>2, HardwareAssumption
  <2>3. CASE q # p
    <3>1. Share(r, q) = 0 /\ Share(m, q) = 0
      BY <1>6, <2>3 DEF Share
    <3> QED
      BY <2>1, <3>1
  <2> QED
    BY <2>2, <2>3
<1>10. GoodPanel([models EXCEPT ![i] = Retune(r, FALSE, pools, env)], pools, env)
  BY <1>2, <1>6, <1>8, <1>9, PanelRetuned
<1> QED
  BY <1>1, <1>10, SelectStep DEF AllocInv

LEMMA AutoStepGood ==
    ASSUME AllocInv, AutoStep
    PROVE  AllocInv'
<1>1. ASSUME NEW k \in Key, AutoPlace(k) PROVE AllocInv'
  BY <1>1, PlaceGood DEF AutoPlace
<1>2. ASSUME NEW lean \in BOOLEAN, AutoPlaced(lean) PROVE AllocInv'
  BY <1>2, AutoPlacedGood
<1>3. ASSUME NEW k \in Key, NEW p \in Pools, AutoSeed(k, p) PROVE AllocInv'
  BY <1>3, PlaceGood DEF AutoSeed
<1>4. CASE AutoSeeded
  <2>1. UNCHANGED <<pools, models, env, saved>> /\ auto = "seed" /\ auto' = "grow"
    BY <1>4 DEF AutoSeeded
  <2> QED
    BY <2>1, SelectStep DEF AllocInv
<1>5. ASSUME NEW i \in DOMAIN models, AutoGrow(i) PROVE AllocInv'
  BY <1>5, AutoGrowGood
<1>6. CASE AutoGrew
  <2>1. UNCHANGED <<pools, models, env, saved>> /\ auto = "grow" /\ auto' = "idle"
    BY <1>6 DEF AutoGrew
  <2> QED
    BY <2>1, SelectStep DEF AllocInv
<1> QED
  BY <1>1, <1>2, <1>3, <1>4, <1>5, <1>6 DEF AutoStep

LEMMA PoolStepGood ==
    ASSUME AllocInv, PoolStep
    PROVE  AllocInv'
<1>1. ASSUME NEW t \in GpuType, NEW n \in 1..MaxCount, AddGpu(t, n) PROVE AllocInv'
  BY <1>1, AddGpuGood
<1>2. ASSUME NEW p \in Pool, RemoveGpu(p) PROVE AllocInv'
  BY <1>2, RemoveGpuGood
<1>3. ASSUME NEW p \in Pool, NEW n \in 0..MaxCount, ChangeGpuQty(p, n) PROVE AllocInv'
  BY <1>3, ChangeGpuQtyGood
<1>4. ASSUME NEW e \in Env, ChangeSettings(e) PROVE AllocInv'
  BY <1>4, ChangeSettingsGood
<1> QED
  BY <1>1, <1>2, <1>3, <1>4 DEF PoolStep

LEMMA ModelStepGood ==
    ASSUME AllocInv, NEW i \in DOMAIN models, ModelStep(i)
    PROVE  AllocInv'
<1>1. CASE RemoveModel(i)
  BY <1>1, RemoveModelGood
<1>2. ASSUME NEW pr \in Prec, SetModelPrec(i, pr) PROVE AllocInv'
  BY <1>2, SetModelPrecGood
<1>3. ASSUME NEW on \in BOOLEAN, SetModelSpec(i, on) PROVE AllocInv'
  BY <1>3, SetModelSpecGood
<1>4. ASSUME NEW k \in Key, NEW pr \in Prec, SetModelKey(i, k, pr) PROVE AllocInv'
  BY <1>4, SetModelKeyGood
<1>5. ASSUME NEW n \in 0..MaxCount, SetModelGpuCount(i, n) PROVE AllocInv'
  BY <1>5, SetModelGpuCountGood
<1>6. ASSUME NEW p \in Pool \cup {NoPool}, SetModelGpuPool(i, p) PROVE AllocInv'
  BY <1>6, SetModelGpuPoolGood
<1>7. ASSUME NEW l \in AllLayouts, NEW ph \in {"decode", "prefill", "both"},
             SetModelStrat(i, l, ph)
      PROVE  AllocInv'
  BY <1>7, SetModelStratGood
<1>8. ASSUME NEW n \in 1..MaxCount, ApplyGpuExpansion(i, n) PROVE AllocInv'
  BY <1>8, ApplyGpuExpansionGood
<1> QED
  BY <1>1, <1>2, <1>3, <1>4, <1>5, <1>6, <1>7, <1>8 DEF ModelStep

LEMMA AllocStepGood == AllocInv /\ [AllocNext]_allocVars => AllocInv'
<1> SUFFICES ASSUME AllocInv, [AllocNext]_allocVars PROVE AllocInv'
  OBVIOUS
<1>1. CASE PoolStep
  BY <1>1, PoolStepGood
<1>2. ASSUME NEW k \in Key, AddModel(k) PROVE AllocInv'
  BY <1>2, AddModelGood
<1>3. ASSUME NEW i \in DOMAIN models, ModelStep(i) PROVE AllocInv'
  BY <1>3, ModelStepGood
<1>4. CASE AutoStart
  BY <1>4, AutoStartGood
<1>5. CASE AutoStep
  BY <1>5, AutoStepGood
<1>6. CASE UNCHANGED allocVars
  BY <1>6 DEF allocVars, AllocInv
<1> QED
  BY <1>1, <1>2, <1>3, <1>4, <1>5, <1>6 DEF AllocNext

-----------------------------------------------------------------------------
(* What the steps do to the GPUs of the models                             *)

\* set_model_gpu_count gives a model the GPUs it is asked for, if there is room.
LEMMA WithCountDelivers ==
    ASSUME env \in Env, NEW ms, NEW ps \in PoolTable, GoodPanel(ms, ps, env),
           NEW i \in 1..Len(ms), NEW n \in Nat \ {0}, ms[i].pool \in Pool, ps[ms[i].pool] # None,
           Used(ms, ms[i].pool) - ms[i].gpus + n <= ps[ms[i].pool].count
    PROVE  /\ WithCount(ms, i, n, ps)[i].gpus = n
           /\ \A j \in 1..Len(ms) : j # i => WithCount(ms, i, n, ps)[j] = ms[j]
<1> DEFINE m == ms[i]
           p == m.pool
           room == ps[p].count - (Used(ms, p) - m.gpus)
           most == IF room > 0 THEN room ELSE 0
           g == IF n < most THEN n ELSE most
           r == [m EXCEPT !.gpus = g]
           t == Retune(r, FALSE, ps, env)
<1>1. WithCount(ms, i, n, ps) = [ms EXCEPT ![i] = t]
  BY DEF WithCount, Others
<1>2. /\ ms \in Seq(Assignment) /\ m \in Assignment /\ m.gpus \in 0..MaxCount
      /\ p \in Pool /\ ps[p] # None
  BY PanelFacts DEF GoodPanel
<1>3. Used(ms, p) \in Nat /\ ps[p].count \in 1..MaxCount /\ m.gpus \in Nat
  BY <1>2, PanelNumbers, HardwareAssumption
<1>4. n <= room
  <2>1. Used(ms, p) - m.gpus + n <= ps[p].count
    OBVIOUS
  <2> HIDE DEF p, m
  <2> QED
    BY <1>3, <2>1, HardwareAssumption
<1>5. g = n
  <2>1. room \in Int
    <3> HIDE DEF p, m
    <3> QED
      BY <1>3, HardwareAssumption
  <2> HIDE DEF room
  <2> QED
    BY <1>4, <2>1
<1>6. ps[p].count \in Nat /\ n \in 0..MaxCount
  <2>1. room <= MaxCount
    <3>1. m.gpus <= Used(ms, p)
      <4>1. Share(m, p) = m.gpus
        BY DEF Share
      <4> QED
        BY <1>2, <4>1, PanelNumbers
    <3> HIDE DEF p, m
    <3> QED
      BY <1>3, <3>1, HardwareAssumption
  <2>2. room \in Int
    <3> HIDE DEF p, m
    <3> QED
      BY <1>3, HardwareAssumption
  <2>3. ps[p].count \in Nat
    <3> HIDE DEF p, m
    <3> QED
      BY <1>3, HardwareAssumption
  <2> HIDE DEF room, p, m
  <2> QED
    BY <1>4, <2>1, <2>2, <2>3, HardwareAssumption
<1> HIDE DEF g
<1>7. r \in Assignment /\ r.pool = p /\ r.gpus = n
  <2> HIDE DEF m
  <2> QED
    BY <1>2, <1>5, SMTT(30) DEF Assignment, p
<1> HIDE DEF r
<1>8. Hosted(r, ps)
  BY <1>2, <1>7 DEF Hosted
<1>9. FALSE \in BOOLEAN
  OBVIOUS
<1>10. t.gpus = n
  <2>1. r.gpus \in 0..MaxCount
    BY <1>6, <1>7
  <2> QED
    BY <1>7, <1>8, <1>9, <2>1, RetuneGood
<1> HIDE DEF t
<1> QED
  BY <1>1, <1>2, <1>10

\* A smaller count than the pool's models use leaves none of the rest free; a
\* count they fit in changes no model.
LEMMA ShrunkOrKept ==
    ASSUME env \in Env, NEW ms, NEW ps \in PoolTable, GoodPanel(ms, ps, env),
           NEW p \in Pool, ps[p] # None, NEW count \in 1..MaxCount, NEW qs \in PoolTable,
           \A q \in Pool : q # p => qs[q] = ps[q],
           qs[p] # None, qs[p].type = ps[p].type
    PROVE  /\ Used(ms, p) <= count => Shrunk(ms, p, count, qs) = ms
           /\ ~(Used(ms, p) <= count) => Used(Shrunk(ms, p, count, qs), p) = count
<1> DEFINE n == Len(ms)
           U == UsedTo(ms, p)
           ns == Shrunk(ms, p, count, qs)
<1>1. CASE Used(ms, p) <= count
  <2>1. ms \in Seq(Assignment) /\ Counted(ms) /\ n \in Nat
    BY DEF GoodPanel, Good, Hosted, Counted
  <2>2. Used(ms, p) = U[n]
    BY DEF Used
  <2>3. ASSUME NEW k \in 1..n PROVE U[k] <= count
    <3>1. U[k] <= U[n] /\ U[k] \in Int /\ U[n] \in Int
      <4>1. k \in 0..n /\ n \in k..n /\ n \in 0..n
        BY <2>1
      <4>2. U[k] <= U[n]
        BY <2>1, <4>1, UsedGrows
      <4>3. U[k] \in Int /\ U[n] \in Int
        BY <2>1, <4>1, UsedToType
      <4> QED
        BY <4>2, <4>3
    <3> HIDE DEF U, n
    <3> QED
      BY <1>1, <2>2, <3>1, HardwareAssumption
  <2>4. ns \in Seq(Assignment) /\ Len(ns) = n
    BY ShrunkRows
  <2>5. \A k \in 1..n : U[k] <= count => ns[k] = ms[k]
    BY ShrunkRows
  <2> HIDE DEF ns, U
  <2>6. ns = ms
    BY <2>1, <2>3, <2>4, <2>5
  <2> QED
    BY <1>1, <2>6 DEF ns
<1>2. CASE ~(Used(ms, p) <= count)
  BY <1>2, ShrunkUse
<1> QED
  BY <1>1, <1>2

\* change_gpu_qty on pool p that keeps the pool.
LEMMA QtyStep ==
    ASSUME AllocInv, NEW p \in Pool, NEW n \in 0..MaxCount, ChangeGpuQty(p, n), pools'[p] # None
    PROVE  /\ pools[p] # None /\ pools'[p].count \in 1..MaxCount
           /\ pools' \in PoolTable /\ pools'[p].type = pools[p].type
           /\ \A q \in Pool : q # p => pools'[q] = pools[q]
           /\ models' = Shrunk(models, p, pools'[p].count, pools')
<1> DEFINE count == ChangedQty(p, n)
           kept == [pools EXCEPT ![p].count = count]
<1>1. /\ GoodPools(pools) /\ pools \in PoolTable /\ pools[p] # None /\ n \in Nat
      /\ count <= MaxCount
  BY HardwareAssumption DEF AllocInv, GoodPools, ChangeGpuQty, Pools
<1>2. count # 0
  <2> SUFFICES ASSUME count = 0 PROVE FALSE
    OBVIOUS
  <2>1. pools' = [pools EXCEPT ![p] = None]
    BY DEF ChangeGpuQty
  <2> QED
    BY <1>1, <2>1 DEF PoolTable
<1>3. pools' = kept /\ models' = Shrunk(models, p, count, kept)
  BY <1>2 DEF ChangeGpuQty
<1>4. count \in 1..MaxCount /\ Snap(pools[p].type, count) = count
  <2>1. count \in Nat \ {0} /\ Snap(pools[p].type, count) = count
    BY <1>1, <1>2, QtyFacts
  <2> HIDE DEF count
  <2> QED
    BY <1>1, <2>1, HardwareAssumption
<1> HIDE DEF count
<1>5. /\ kept \in PoolTable
      /\ \A q \in Pool : q # p => kept[q] = pools[q]
      /\ kept[p] # None /\ kept[p].type = pools[p].type /\ kept[p].count = count
  BY <1>1, <1>4, PoolCount
<1> HIDE DEF kept
<1> QED
  BY <1>1, <1>3, <1>4, <1>5

\* apply_gpu_expansion on a model whose pool exists.
LEMMA ExpansionStep ==
    ASSUME AllocInv, NEW i \in DOMAIN models, NEW n \in 1..MaxCount, ApplyGpuExpansion(i, n)
    PROVE  /\ models[i].pool \in Pools =>
                /\ pools[models[i].pool].count <= pools'[models[i].pool].count
                /\ models'[i].gpus = models[i].gpus + n
                /\ \A j \in DOMAIN models : j # i => models'[j] = models[j]
           /\ \A q \in Pools : q # models[i].pool => pools'[q] = pools[q]
<1> DEFINE m == models[i]
           p == m.pool
           target == m.gpus + n
           grown == IF p \notin Pools THEN pools
                    ELSE [pools EXCEPT ![p].count = ChangedQty(p, @ + n)]
<1>1. /\ pools' = grown /\ models' = WithCount(models, i, target, grown)
      /\ p \in Pools => grown[p].count <= MaxCount
  BY DEF ApplyGpuExpansion
<1>2. /\ i \in 1..Len(models) /\ env \in Env /\ pools \in PoolTable
      /\ GoodPanel(models, pools, env) /\ DOMAIN models = 1..Len(models)
  BY ModelsNow
<1>3. /\ grown \in PoolTable /\ GoodPanel(models, grown, env)
      /\ p \in Pools => /\ p \in Pool /\ grown[p] # None /\ pools[p].count + n <= grown[p].count
                        /\ pools[p].count \in Nat /\ grown[p].count \in Nat
      /\ \A q \in Pool : q # p => grown[q] = pools[q]
  <2> HIDE DEF p
  <2>1. p \in Pools => grown[p].count <= MaxCount
    BY <1>1
  <2>2. \E qs : /\ qs = IF p \notin Pools THEN pools
                        ELSE [pools EXCEPT ![p].count = ChangedQty(p, @ + n)]
                /\ qs = grown
    OBVIOUS
  <2> HIDE DEF grown
  <2> QED
    BY <2>1, <2>2, ExpandedPools
<1> HIDE DEF grown
<1>4. \A q \in Pools : q # p => pools'[q] = pools[q]
  BY <1>1, <1>3 DEF Pools
<1>5. CASE p \in Pools
  <2>1. p \in Pool /\ pools[p] # None
    BY <1>5 DEF Pools
  <2>2. m \in Assignment /\ m.gpus \in 0..MaxCount
    BY <1>2, PanelFacts
  <2>3. m.gpus \in Nat /\ n \in Nat \ {0} /\ target \in Nat \ {0}
    <3> HIDE DEF m
    <3> QED
      BY <2>2, HardwareAssumption
  <2>4. Used(models, p) \in Nat /\ Used(models, p) <= pools[p].count
    BY <1>2, <2>1, PanelNumbers
  <2>5. Used(models, p) - m.gpus + target <= grown[p].count
    <3> HIDE DEF m, p
    <3> QED
      BY <1>3, <1>5, <2>3, <2>4 DEF target
  <2>6. pools[p].count <= grown[p].count
    <3> HIDE DEF m, p
    <3> QED
      BY <1>3, <1>5, <2>3
  <2> HIDE DEF target
  <2>7. /\ WithCount(models, i, target, grown)[i].gpus = target
        /\ \A j \in 1..Len(models) : j # i => WithCount(models, i, target, grown)[j] = models[j]
    BY <1>2, <1>3, <1>5, <2>1, <2>3, <2>5, WithCountDelivers
  <2> QED
    BY <1>1, <1>2, <1>4, <2>6, <2>7 DEF target
<1>6. CASE p \notin Pools
  BY <1>4, <1>6
<1> QED
  BY <1>5, <1>6

\* What can change a pool that stays.
LEMMA PoolMoves ==
    ASSUME AllocInv, [AllocNext]_allocVars, NEW p \in Pools, pools'[p] # None,
           pools'[p] # pools[p]
    PROVE  \/ models' = models /\ pools[p].count <= pools'[p].count
           \/ \E n \in 0..MaxCount : ChangeGpuQty(p, n)
           \/ \E i \in DOMAIN models, n \in 1..MaxCount :
                 models[i].pool = p /\ ApplyGpuExpansion(i, n)
<1>0. p \in Pool /\ pools[p] # None /\ pools \in PoolTable /\ pools' # pools
  BY DEF Pools, AllocInv, GoodPools
<1>1. ASSUME NEW t \in GpuType, NEW n \in 1..MaxCount, AddGpu(t, n)
      PROVE  models' = models /\ pools[p].count <= pools'[p].count
  BY <1>0, <1>1, AddedPools DEF AddGpu
<1>2. ASSUME NEW q \in Pool, RemoveGpu(q) PROVE FALSE
  <2>1. pools' = [pools EXCEPT ![q] = None]
    BY <1>2 DEF RemoveGpu
  <2> QED
    BY <1>0, <2>1 DEF PoolTable
<1>3. ASSUME NEW q \in Pool, NEW n \in 0..MaxCount, ChangeGpuQty(q, n) PROVE q = p
  <2> SUFFICES ASSUME q # p PROVE pools'[p] = pools[p]
    OBVIOUS
  <2>1. \/ pools' = [pools EXCEPT ![q] = None]
        \/ pools' = [pools EXCEPT ![q].count = ChangedQty(q, n)]
    BY <1>3 DEF ChangeGpuQty
  <2> QED
    BY <1>0, <2>1 DEF PoolTable
<1>4. ASSUME NEW e \in Env, ChangeSettings(e) PROVE FALSE
  BY <1>0, <1>4 DEF ChangeSettings
<1>5. ASSUME NEW k \in Key, AddModel(k) PROVE FALSE
  BY <1>0, <1>5 DEF AddModel
<1>6. ASSUME NEW i \in DOMAIN models, ModelStep(i)
      PROVE  \E n \in 1..MaxCount : models[i].pool = p /\ ApplyGpuExpansion(i, n)
  <2>1. PICK n \in 1..MaxCount : ApplyGpuExpansion(i, n)
    BY <1>0, <1>6 DEF ModelStep, RemoveModel, SetModelPrec, SetModelSpec, SetModelKey,
       SetModelGpuCount, SetModelGpuPool, SetModelStrat
  <2>2. models[i].pool = p
    BY <2>1, ExpansionStep
  <2> WITNESS n \in 1..MaxCount
  <2> QED
    BY <2>1, <2>2
<1>7. ~AutoStart
  BY <1>0 DEF AutoStart
<1>8. ~AutoStep
  BY <1>0 DEF AutoStep, AutoPlace, AutoPlaced, AutoSeed, AutoSeeded, AutoGrow, AutoGrew, Place
<1>9. ~UNCHANGED allocVars
  BY <1>0 DEF allocVars
<1>10. CASE PoolStep
  BY <1>1, <1>2, <1>3, <1>4, <1>10 DEF PoolStep
<1> QED
  BY <1>5, <1>6, <1>7, <1>8, <1>9, <1>10 DEF AllocNext

\* The models of the panel have numbers of GPUs.
LEMMA GpusNow ==
    ASSUME AllocInv, NEW i \in DOMAIN models
    PROVE  models[i].gpus \in Nat /\ i \in 1..Len(models)
BY DEF AllocInv, GoodPanel, Good, Hosted

LEMMA ShrinkStep ==
    ASSUME AllocInv, [AllocNext]_allocVars, NEW p \in Pools,
           pools'[p] # None, pools'[p].count < pools[p].count
    PROVE  /\ \/ models' = models
              \/ Used(models', p) = pools'[p].count
           /\ \A i, j \in DOMAIN models :
                 i < j /\ models[j].pool = p /\ models'[i].gpus < models[i].gpus
                    => models'[j].gpus = 0
<1>1. /\ p \in Pool /\ pools[p] # None /\ pools \in PoolTable /\ env \in Env
      /\ GoodPanel(models, pools, env) /\ pools[p].count \in 1..MaxCount
      /\ DOMAIN models = 1..Len(models)
  BY ModelsNow, PoolKinds DEF Pools
<1>2. CASE models' = models
  <2>1. \A i \in DOMAIN models : ~(models'[i].gpus < models[i].gpus)
    BY <1>2, GpusNow
  <2> QED
    BY <1>2, <2>1
<1>3. CASE \E n \in 0..MaxCount : ChangeGpuQty(p, n)
  <2>1. PICK n \in 0..MaxCount : ChangeGpuQty(p, n)
    BY <1>3
  <2> DEFINE count == pools'[p].count
  <2>2. /\ count \in 1..MaxCount /\ pools' \in PoolTable /\ pools'[p].type = pools[p].type
        /\ \A q \in Pool : q # p => pools'[q] = pools[q]
        /\ models' = Shrunk(models, p, count, pools')
    BY <1>1, <2>1, QtyStep
  <2> HIDE DEF count
  <2>3. models' = models \/ Used(models', p) = count
    BY <1>1, <2>2, ShrunkOrKept
  <2>4. ASSUME NEW i \in 1..Len(models), NEW j \in 1..Len(models), i < j, models[j].pool = p,
               models'[i].gpus < models[i].gpus
        PROVE  models'[j].gpus = 0
    BY <1>1, <2>2, <2>4, ShrunkFromLast
  <2> QED
    BY <1>1, <2>3, <2>4 DEF count
<1>4. ASSUME NEW i \in DOMAIN models, NEW n \in 1..MaxCount, models[i].pool = p,
             ApplyGpuExpansion(i, n)
      PROVE  FALSE
  <2>1. pools[p].count <= pools'[p].count
    BY <1>4, ExpansionStep
  <2>2. pools'[p].count \in 1..MaxCount
    <3>1. AllocInv'
      BY AllocStepGood
    <3>2. pools' \in PoolTable
      BY <3>1 DEF AllocInv, GoodPools
    <3> QED
      BY <1>1, <3>2, PoolKinds
  <2> QED
    BY <1>1, <2>1, <2>2, HardwareAssumption
<1>5. CASE models' = models /\ pools[p].count <= pools'[p].count
  BY <1>2, <1>5
<1>6. pools'[p] # pools[p]
  BY <1>1, HardwareAssumption
<1> QED
  BY <1>3, <1>4, <1>5, <1>6, PoolMoves

LEMMA GrowStep ==
    ASSUME AllocInv, [AllocNext]_allocVars, NEW p \in Pools,
           pools'[p] # None, pools'[p].count > pools[p].count
    PROVE  /\ \A i \in DOMAIN models : models'[i].gpus >= models[i].gpus
           /\ \A i \in DOMAIN models, n \in 1..MaxCount :
                 models[i].pool = p /\ ApplyGpuExpansion(i, n)
                    => models'[i].gpus = models[i].gpus + n
<1>1. /\ p \in Pool /\ pools[p] # None /\ pools \in PoolTable /\ env \in Env
      /\ GoodPanel(models, pools, env) /\ pools[p].count \in 1..MaxCount
  BY ModelsNow, PoolKinds DEF Pools
<1>2. \A i \in DOMAIN models, n \in 1..MaxCount :
         models[i].pool = p /\ ApplyGpuExpansion(i, n) => models'[i].gpus = models[i].gpus + n
  BY ExpansionStep
<1>3. CASE models' = models
  <2>1. \A i \in DOMAIN models : models'[i].gpus >= models[i].gpus
    BY <1>3, GpusNow
  <2> QED
    BY <1>2, <2>1
<1>4. CASE \E n \in 0..MaxCount : ChangeGpuQty(p, n)
  <2>1. PICK n \in 0..MaxCount : ChangeGpuQty(p, n)
    BY <1>4
  <2> DEFINE count == pools'[p].count
  <2>2. /\ count \in 1..MaxCount /\ pools' \in PoolTable /\ pools'[p].type = pools[p].type
        /\ \A q \in Pool : q # p => pools'[q] = pools[q]
        /\ models' = Shrunk(models, p, count, pools') /\ count > pools[p].count
    BY <1>1, <2>1, QtyStep
  <2>3. Used(models, p) <= count
    <3>1. models \in Seq(Assignment) /\ Counted(models)
      BY DEF AllocInv, GoodPanel, Good, Hosted, Counted
    <3>2. Used(models, p) \in Nat
      BY <3>1, UsedNat
    <3>3. Used(models, p) <= pools[p].count
      BY <1>1 DEF GoodPanel
    <3> HIDE DEF count
    <3> QED
      BY <1>1, <2>2, <3>2, <3>3, HardwareAssumption
  <2> HIDE DEF count
  <2>4. models' = models
    BY <1>1, <2>2, <2>3, ShrunkOrKept
  <2> QED
    BY <1>3, <2>4
<1>5. ASSUME NEW k \in DOMAIN models, NEW n \in 1..MaxCount, models[k].pool = p,
             ApplyGpuExpansion(k, n)
      PROVE  \A i \in DOMAIN models : models'[i].gpus >= models[i].gpus
  <2> TAKE i \in DOMAIN models
  <2>1. models[i].gpus \in Nat /\ n \in Nat
    BY GpusNow, HardwareAssumption
  <2>2. models'[k].gpus = models[k].gpus + n
    BY <1>5, ExpansionStep
  <2>3. i # k => models'[i] = models[i]
    BY <1>5, ExpansionStep
  <2> QED
    BY <2>1, <2>2, <2>3
<1>6. pools'[p] # pools[p]
  BY <1>1, HardwareAssumption
<1> QED
  BY <1>2, <1>3, <1>4, <1>5, <1>6, PoolMoves

-----------------------------------------------------------------------------
(* Theorems                                                                *)

\* Whatever the mutators and the two engines do, in any order, the pools stay
\* normalised and every model, of the panel and of the copy that the automatic
\* selection may put back, has GPUs its pool owns and layouts of these GPUs.
THEOREM AllocInvariantHolds == AllocSpec => []AllocInv
BY AllocInitGood, AllocStepGood, PTL DEF AllocSpec

\* The pools are normalised and the panel is a list of assignments.
THEOREM AllocTyped == AllocSpec => []AllocTypeOK
<1>1. AllocInv => AllocTypeOK
  BY DEF AllocInv, GoodPools, GoodPanel, PoolTable, AllocTypeOK, Pools
<1> QED
  BY <1>1, AllocInvariantHolds, PTL

\* No GPU is handed out twice: every mutator that grows or moves a model or
\* shrinks a pool (change_gpu_qty, set_model_gpu_count, set_model_gpu_pool,
\* remove_gpu, apply_gpu_expansion, auto_select_models) clamps on its own.
THEOREM NoGpuTwice == AllocSpec => []NoOversubscription
<1>1. AllocInv => NoOversubscription
  <2> SUFFICES ASSUME AllocInv PROVE NoOversubscription
    OBVIOUS
  <2>1. ASSUME NEW i \in DOMAIN models
        PROVE  models[i].gpus >= 0 /\ (models[i].gpus > 0 => models[i].pool \in Pools)
    <3>1. models[i].gpus \in Nat
      BY GpusNow
    <3>2. i \in 1..Len(models) /\ Hosted(models[i], pools)
      BY GpusNow DEF AllocInv, GoodPanel, Good
    <3> QED
      BY <3>1, <3>2 DEF Hosted, Pools
  <2>2. \A p \in Pools : Used(models, p) <= pools[p].count
    BY DEF AllocInv, GoodPanel, Pools
  <2> QED
    BY <2>1, <2>2 DEF NoOversubscription
<1> QED
  BY <1>1, AllocInvariantHolds, PTL

\* The layouts of a model multiply to its GPUs: whoever changes the count of a
\* model retunes it, and a layout set by hand must be valid for the count.
THEOREM LayoutsMatch == AllocSpec => []LayoutUsesItsGpus
<1>1. AllocInv => LayoutUsesItsGpus
  <2> SUFFICES ASSUME AllocInv, NEW i \in DOMAIN models
               PROVE  /\ Size(models[i].decode) = IF models[i].gpus = 0 THEN 1 ELSE models[i].gpus
                      /\ Size(models[i].prefill) = IF models[i].gpus = 0 THEN 1 ELSE models[i].gpus
    BY DEF LayoutUsesItsGpus
  <2>1. Good(models[i], pools, env)
    BY GpusNow DEF AllocInv, GoodPanel
  <2> QED
    BY <2>1 DEF Good, Filled
<1> QED
  BY <1>1, AllocInvariantHolds, PTL

\* If the clients set both phases of a model at once (the page does so for all
\* but decision models), a model whose GPUs can serve it is deployed: whatever
\* changed its room, its precision, its drafter or the settings retuned it.
THEOREM ModelsServe == BothSent => (AllocSpec => []Serving)
<1>1. BothSent /\ AllocInv => Serving
  <2> SUFFICES ASSUME BothSent, AllocInv, NEW i \in DOMAIN models,
                      Valid(models[i], pools, env) # {}
               PROVE  Deployed(models[i])
    BY DEF Serving
  <2>1. Good(models[i], pools, env)
    BY GpusNow DEF AllocInv, GoodPanel
  <2> QED
    BY <2>1 DEF Good, Served, Deployed
<1>2. ASSUME BothSent PROVE AllocSpec => []Serving
  <2>1. AllocInv => Serving
    BY <1>1, <1>2
  <2> QED
    BY <2>1, AllocInvariantHolds, PTL
<1> QED
  BY <1>2

\* change_gpu_qty takes what exceeds the new count, no more, and from the last
\* models: a model loses GPUs only when every later one of the pool has none.
THEOREM ShrinksFromTheLast == AllocSpec => ShrinkTakesFromTheLast
<1> DEFINE Step ==
      \A p \in Pools :
          pools'[p] # None /\ pools'[p].count < pools[p].count =>
             /\ \/ models' = models
                \/ Used(models', p) = pools'[p].count
             /\ \A i, j \in DOMAIN models :
                   i < j /\ models[j].pool = p /\ models'[i].gpus < models[i].gpus
                      => models'[j].gpus = 0
<1>1. AllocInv /\ [AllocNext]_allocVars => [Step]_allocVars
  BY ShrinkStep
<1>2. AllocSpec => [][Step]_allocVars
  <2> HIDE DEF Step
  <2> QED
    BY <1>1, AllocInvariantHolds, PTL DEF AllocSpec
<1> QED
  BY <1>2 DEF ShrinkTakesFromTheLast

\* Growing a pool takes no GPU from a model, and apply_gpu_expansion gives the
\* model exactly the GPUs that the recommendation was scored with.
THEOREM ExpansionsDeliver == AllocSpec => ExpansionDelivers
<1> DEFINE Step ==
      \A p \in Pools :
          pools'[p] # None /\ pools'[p].count > pools[p].count =>
             /\ \A i \in DOMAIN models : models'[i].gpus >= models[i].gpus
             /\ \A i \in DOMAIN models, n \in 1..MaxCount :
                   models[i].pool = p /\ ApplyGpuExpansion(i, n)
                      => models'[i].gpus = models[i].gpus + n
<1>1. AllocInv /\ [AllocNext]_allocVars => [Step]_allocVars
  BY GrowStep
<1>2. AllocSpec => [][Step]_allocVars
  <2> HIDE DEF Step
  <2> QED
    BY <1>1, AllocInvariantHolds, PTL DEF AllocSpec
<1> QED
  BY <1>2 DEF ExpansionDelivers
=============================================================================
