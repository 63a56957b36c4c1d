--------------------------- MODULE MachinesProofs ---------------------------
(***************************************************************************)
(* The machines of a cluster, for any number of hosts, requests, failures  *)
(* and sizes: the disk of the storage VM is its own while it runs, and the *)
(* disk of the CCVM is resized only while it is stopped and never past the *)
(* limit.  A request is a list of steps: what is known of the machine when *)
(* a list begins is what its steps need, wherever it is interrupted.       *)
(***************************************************************************)
EXTENDS MCMachines, CCVMSnapProofs, FiniteSetTheorems, FunctionTheorems, WellFoundedInduction


-----------------------------------------------------------------------------
(* Handlers: what a step leaves to do                                        *)

\* What is left after the first n steps.
After(s, n) == SubSeq(s, n + 1, Len(s))

LEMMA AfterFacts ==
    ASSUME NEW S, NEW s \in Seq(S), NEW n \in Nat
    PROVE  /\ After(s, n) \in Seq(S)
           /\ \A i \in 1..Len(After(s, n)) : i + n \in 1..Len(s) /\ After(s, n)[i] = s[i + n]
           /\ n <= Len(s) => Len(After(s, n)) = Len(s) - n
           /\ n >= Len(s) => After(s, n) = <<>>
<1>1. PICK l \in Nat : l = Len(s)
  OBVIOUS
<1>2. CASE n < l
  <2>1. n + 1 \in 1..(l + 1) /\ l \in (n + 1 - 1)..l /\ l - (n + 1) + 1 = l - n
    BY <1>2
  <2>2. After(s, n) \in Seq(S) /\ Len(After(s, n)) = l - n /\ \A i \in 1..(l - n) : After(s, n)[i] = s[n + 1 + i - 1]
    BY ONLY <1>1, <2>1, SubSeqProperties DEF After
  <2>3. \A i \in 1..(l - n) : n + 1 + i - 1 = i + n /\ i + n \in 1..l
    BY <1>2
  <2> QED
    BY <1>1, <1>2, <2>2, <2>3
<1>3. CASE n >= l
  <2>1. After(s, n) = <<>>
    BY <1>1, <1>3 DEF After
  <2>2. Len(<<>>) = 0 /\ <<>> \in Seq(S) /\ 1..0 = {}
    OBVIOUS
  <2> QED
    BY <1>1, <1>3, <2>1, <2>2
<1> QED
  BY <1>1, <1>2, <1>3

\* k says which steps stop the VM, start it, and harm it if it runs.  The k-th step of s comes
\* when the VM has stopped, if it is m at the beginning.
NeverStarts(s, i, k) == \A j \in 1..(i - 1) : s[j] \notin k.starts
StopsBefore(s, i, k) ==
    \E g \in 1..(i - 1) : s[g] \in k.stops /\ \A j \in (g + 1)..(i - 1) : s[j] \notin k.starts
Quiet2(s, i, m, k) == (m = "down" /\ NeverStarts(s, i, k)) \/ StopsBefore(s, i, k)
Held(s, m, k) == \A i \in 1..Len(s) : s[i] \in k.harms => Quiet2(s, i, m, k)
\* What is known of the VM after s.
Leaves2(s, m, k) == IF Quiet2(s, Len(s) + 1, m, k) THEN "down" ELSE "up"
\* Where steps are skipped, none of them stops the VM, other than where a step of k.skips fails.
Whole(s, k) == \A i \in 1..Len(s) :
    /\ i + s[i].skip <= Len(s)
    /\ s[i] \notin k.skips => \A j \in (i + 1)..(i + s[i].skip) : s[j] \notin k.stops

LEMMA HeldMore ==
    ASSUME NEW s, NEW k, NEW m, Held(s, "up", k)
    PROVE  Held(s, m, k)
  BY DEF Held, Quiet2

LEMMA HeldOne ==
    ASSUME NEW x, NEW k, NEW m \in {"up", "down"}
    PROVE  /\ Held(<<x>>, m, k) <=> (x \in k.harms => m = "down")
           /\ Leaves2(<<x>>, m, k) = IF x \in k.stops \/ (m = "down" /\ x \notin k.starts) THEN "down" ELSE "up"
<1>1. Len(<<x>>) = 1 /\ <<x>>[1] = x /\ 1..1 = {1} /\ 1..0 = {} /\ 1..(2 - 1) = {1} /\ 1..(1 - 1) = {} /\ (1 + 1)..(2 - 1) = {}
  OBVIOUS
<1>2. Quiet2(<<x>>, 1, m, k) <=> m = "down"
  BY <1>1 DEF Quiet2, NeverStarts, StopsBefore
<1>3. Quiet2(<<x>>, 2, m, k) <=> x \in k.stops \/ (m = "down" /\ x \notin k.starts)
  <2>1. StopsBefore(<<x>>, 2, k) <=> x \in k.stops
    BY <1>1 DEF StopsBefore
  <2>2. NeverStarts(<<x>>, 2, k) <=> x \notin k.starts
    BY <1>1 DEF NeverStarts
  <2> QED
    BY <2>1, <2>2 DEF Quiet2
<1> QED
  BY <1>1, <1>2, <1>3 DEF Held, Leaves2

LEMMA HeldNone ==
    ASSUME NEW k, NEW m \in {"up", "down"}
    PROVE  Held(<<>>, m, k) /\ Leaves2(<<>>, m, k) = m /\ Whole(<<>>, k)
  BY DEF Held, Leaves2, Quiet2, NeverStarts, StopsBefore, Whole

LEMMA HeldAfter ==
    ASSUME NEW S, NEW s \in Seq(S), NEW n \in Nat, NEW k, NEW m \in {"up", "down"}, Held(s, m, k)
    PROVE  Held(After(s, n), "down", k)
<1> SUFFICES ASSUME NEW i \in 1..Len(After(s, n)), After(s, n)[i] \in k.harms
             PROVE  Quiet2(After(s, n), i, "down", k)
  BY DEF Held
<1>1. i + n \in 1..Len(s) /\ \A j \in 1..i : After(s, n)[j] = s[j + n]
  BY AfterFacts
<1>2. Quiet2(s, i + n, m, k)
  BY <1>1 DEF Held
<1>3. CASE NeverStarts(s, i + n, k)
  <2>1. \A j \in 1..(i - 1) : j \in 1..i /\ j + n \in 1..(i + n - 1)
    BY <1>1
  <2>2. NeverStarts(After(s, n), i, k)
    BY <1>1, <1>3, <2>1 DEF NeverStarts
  <2> QED
    BY <2>2 DEF Quiet2
<1>4. CASE StopsBefore(s, i + n, k)
  <2>1. PICK g \in 1..(i + n - 1) : s[g] \in k.stops /\ \A j \in (g + 1)..(i + n - 1) : s[j] \notin k.starts
    BY <1>4 DEF StopsBefore
  <2>2. CASE g <= n
    <3>1. \A j \in 1..(i - 1) : j \in 1..i /\ j + n \in (g + 1)..(i + n - 1)
      BY <1>1, <2>2
    <3>2. \A j \in 1..(i - 1) : After(s, n)[j] \notin k.starts
      BY <1>1, <2>1, <3>1
    <3> QED
      BY <3>2 DEF Quiet2, NeverStarts
  <2>3. CASE g > n
    <3>1. PICK h \in Nat : g = h + n
      BY <2>3
    <3>2. h \in 1..(i - 1) /\ h \in 1..i /\ \A j \in (h + 1)..(i - 1) : j \in 1..i /\ j + n \in (g + 1)..(i + n - 1)
      BY <2>3, <3>1
    <3>3. After(s, n)[h] \in k.stops /\ \A j \in (h + 1)..(i - 1) : After(s, n)[j] \notin k.starts
      BY <1>1, <2>1, <3>1, <3>2
    <3> QED
      BY <3>2, <3>3 DEF Quiet2, StopsBefore
  <2> QED
    BY <2>2, <2>3
<1> QED
  BY <1>2, <1>3, <1>4 DEF Quiet2

LEMMA HeldRest ==
    ASSUME NEW S, NEW s \in Seq(S), NEW n \in Nat, NEW k, NEW m \in {"up", "down"}, Held(s, m, k),
           \A j \in 1..n : j <= Len(s) => s[j] \notin k.stops
    PROVE  Held(After(s, n), m, k)
<1> SUFFICES ASSUME NEW i \in 1..Len(After(s, n)), After(s, n)[i] \in k.harms
             PROVE  Quiet2(After(s, n), i, m, k)
  BY DEF Held
<1>1. i + n \in 1..Len(s) /\ \A j \in 1..i : After(s, n)[j] = s[j + n]
  BY AfterFacts
<1>2. Quiet2(s, i + n, m, k)
  BY <1>1 DEF Held
<1>3. CASE m = "down"
  BY <1>3, HeldAfter DEF Held
<1>4. CASE m # "down"
  <2>0. StopsBefore(s, i + n, k)
    BY <1>2, <1>4 DEF Quiet2
  <2>1. PICK g \in 1..(i + n - 1) : s[g] \in k.stops /\ \A j \in (g + 1)..(i + n - 1) : s[j] \notin k.starts
    BY <2>0 DEF StopsBefore
  <2>2. g <= Len(s)
    <3>1. PICK l \in Nat : l = Len(s)
      OBVIOUS
    <3> QED
      BY <1>1, <3>1
  <2>3. g > n
    BY <2>1, <2>2
  <2>4. PICK h \in Nat : g = h + n
    BY <2>3
  <2>5. h \in 1..(i - 1) /\ h \in 1..i /\ \A j \in (h + 1)..(i - 1) : j \in 1..i /\ j + n \in (g + 1)..(i + n - 1)
    BY <2>3, <2>4
  <2>6. After(s, n)[h] \in k.stops /\ \A j \in (h + 1)..(i - 1) : After(s, n)[j] \notin k.starts
    BY <1>1, <2>1, <2>4, <2>5
  <2> QED
    BY <2>5, <2>6 DEF Quiet2, StopsBefore
<1> QED
  BY <1>3, <1>4

LEMMA WholeAfter ==
    ASSUME NEW T, \A x \in T : x.skip \in Nat, NEW s \in Seq(T), NEW n \in Nat, NEW k, Whole(s, k)
    PROVE  Whole(After(s, n), k)
<1> SUFFICES ASSUME NEW i \in 1..Len(After(s, n))
             PROVE  /\ i + After(s, n)[i].skip <= Len(After(s, n))
                    /\ After(s, n)[i] \notin k.skips => \A j \in (i + 1)..(i + After(s, n)[i].skip) : After(s, n)[j] \notin k.stops
  BY DEF Whole
<1>1. PICK l \in Nat : l + n = Len(s) /\ l = Len(After(s, n))
  BY AfterFacts
<1>2. i + n \in 1..Len(s) /\ \A j \in 1..l : After(s, n)[j] = s[j + n]
  BY <1>1, AfterFacts
<1>3. PICK p \in Nat : p = s[i + n].skip
  <2>1. s[i + n] \in T
    BY <1>2, ElementOfSeq
  <2> QED
    BY <2>1
<1>4. i + n + p <= l + n /\ (s[i + n] \notin k.skips => \A j \in (i + n + 1)..(i + n + p) : s[j] \notin k.stops)
  BY <1>1, <1>2, <1>3 DEF Whole
<1>5. i + p <= l /\ \A j \in (i + 1)..(i + p) : j \in 1..l /\ j + n \in (i + n + 1)..(i + n + p)
  BY <1>4
<1>6. i \in 1..l /\ After(s, n)[i] = s[i + n]
  BY <1>1, <1>2
<1>7. s[i + n] \notin k.skips => \A j \in (i + 1)..(i + p) : After(s, n)[j] \notin k.stops
  BY <1>2, <1>4, <1>5
<1> QED
  BY <1>1, <1>3, <1>5, <1>6, <1>7

LEMMA ConcatFacts ==
    ASSUME NEW S, NEW s \in Seq(S), NEW t \in Seq(S)
    PROVE  /\ Len(s \o t) = Len(s) + Len(t)
           /\ \A j \in 1..Len(s) : (s \o t)[j] = s[j]
           /\ \A j \in 1..Len(t) : (s \o t)[Len(s) + j] = t[j]
<1>1. PICK l \in Nat, p \in Nat : l = Len(s) /\ p = Len(t)
  OBVIOUS
<1>2. PICK u : u = s \o t
  OBVIOUS
<1>3. Len(u) = l + p /\ \A j \in 1..(l + p) : u[j] = IF j <= l THEN s[j] ELSE t[j - l]
  BY ONLY s \in Seq(S), t \in Seq(S), <1>1, <1>2, ConcatProperties
<1>4. ASSUME NEW j \in 1..p
      PROVE  u[l + j] = t[j]
  <2>1. l + j \in 1..(l + p) /\ ~(l + j <= l) /\ (l + j) - l = j
    OBVIOUS
  <2> QED
    BY <1>3, <2>1
<1>5. ASSUME NEW j \in 1..l
      PROVE  u[j] = s[j]
  <2>1. j \in 1..(l + p) /\ j <= l
    OBVIOUS
  <2> QED
    BY <1>3, <2>1
<1> QED
  BY <1>1, <1>2, <1>3, <1>4, <1>5

LEMMA QuietConcat ==
    ASSUME NEW S, NEW s \in Seq(S), NEW t \in Seq(S), NEW k, NEW m \in {"up", "down"}, NEW i \in Nat \ {0},
           i <= Len(t) + 1
    PROVE  Quiet2(s \o t, Len(s) + i, m, k) <=> Quiet2(t, i, Leaves2(s, m, k), k)
<1>1. PICK l \in Nat : l = Len(s)
  OBVIOUS
<1>2. PICK u : u = s \o t
  OBVIOUS
<1>3. /\ \A j \in 1..l : u[j] = s[j]
      /\ \A j \in 1..(i - 1) : u[j + l] = t[j]
  <2>1. \A j \in 1..(Len(s) + Len(t)) : u[j] = IF j <= Len(s) THEN s[j] ELSE t[j - Len(s)]
    BY ONLY s \in Seq(S), t \in Seq(S), <1>2, ConcatProperties
  <2>2. PICK p \in Nat : p = Len(t)
    OBVIOUS
  <2>3. ASSUME NEW j \in 1..(i - 1)
        PROVE  u[j + l] = t[j]
    <3>1. j + l \in 1..(l + p) /\ ~(j + l <= l) /\ (j + l) - l = j
      BY <2>2
    <3> QED
      BY <1>1, <2>1, <2>2, <3>1
  <2>4. \A j \in 1..l : j \in 1..(l + p) /\ j <= l
    BY <2>2
  <2> QED
    BY <1>1, <2>1, <2>2, <2>3, <2>4
<1>4. (NeverStarts(s, l + 1, k) /\ NeverStarts(t, i, k)) <=> NeverStarts(u, l + i, k)
  <2>1. ASSUME NeverStarts(s, l + 1, k), NeverStarts(t, i, k), NEW j \in 1..(l + i - 1)
        PROVE  u[j] \notin k.starts
    <3>1. CASE j <= l
      BY <1>3, <2>1, <3>1 DEF NeverStarts
    <3>2. CASE j > l
      <4>1. PICK h \in Nat : j = h + l
        BY <3>2
      <4>2. h \in 1..(i - 1)
        BY <3>2, <4>1
      <4> QED
        BY <1>3, <2>1, <4>1, <4>2 DEF NeverStarts
    <3> QED
      BY <3>1, <3>2
  <2>2. ASSUME NeverStarts(u, l + i, k)
        PROVE  NeverStarts(s, l + 1, k) /\ NeverStarts(t, i, k)
    <3>1. \A j \in 1..(l + 1 - 1) : j \in 1..l /\ j \in 1..(l + i - 1)
      OBVIOUS
    <3>2. \A j \in 1..(i - 1) : j + l \in 1..(l + i - 1)
      OBVIOUS
    <3> QED
      BY <1>3, <2>2, <3>1, <3>2 DEF NeverStarts
  <2> QED
    BY <2>1, <2>2 DEF NeverStarts
<1>5. ASSUME StopsBefore(t, i, k)
      PROVE  StopsBefore(u, l + i, k)
  <2>1. PICK g \in 1..(i - 1) : t[g] \in k.stops /\ \A j \in (g + 1)..(i - 1) : t[j] \notin k.starts
    BY <1>5 DEF StopsBefore
  <2>2. g + l \in 1..(l + i - 1) /\ u[g + l] \in k.stops
    BY <1>3, <2>1
  <2>3. ASSUME NEW j \in (g + l + 1)..(l + i - 1)
        PROVE  u[j] \notin k.starts
    <3>1. PICK h \in Nat : j = h + l
      OBVIOUS
    <3>2. h \in (g + 1)..(i - 1) /\ h \in 1..(i - 1)
      BY <2>1, <3>1
    <3> QED
      BY <1>3, <2>1, <3>1, <3>2
  <2> QED
    BY <2>2, <2>3 DEF StopsBefore
<1>6. ASSUME StopsBefore(s, l + 1, k), NeverStarts(t, i, k)
      PROVE  StopsBefore(u, l + i, k)
  <2>1. PICK g \in 1..(l + 1 - 1) : s[g] \in k.stops /\ \A j \in (g + 1)..(l + 1 - 1) : s[j] \notin k.starts
    BY <1>6 DEF StopsBefore
  <2>2. g \in 1..l /\ g \in 1..(l + i - 1) /\ u[g] \in k.stops
    BY <1>3, <2>1
  <2>3. ASSUME NEW j \in (g + 1)..(l + i - 1)
        PROVE  u[j] \notin k.starts
    <3>1. CASE j <= l
      <4>1. j \in (g + 1)..(l + 1 - 1) /\ j \in 1..l
        BY <3>1
      <4> QED
        BY <1>3, <2>1, <4>1
    <3>2. CASE j > l
      <4>1. PICK h \in Nat : j = h + l
        BY <3>2
      <4>2. h \in 1..(i - 1)
        BY <3>2, <4>1
      <4> QED
        BY <1>3, <1>6, <4>1, <4>2 DEF NeverStarts
    <3> QED
      BY <3>1, <3>2
  <2> QED
    BY <2>2, <2>3 DEF StopsBefore
<1>7. ASSUME StopsBefore(u, l + i, k)
      PROVE  StopsBefore(t, i, k) \/ (StopsBefore(s, l + 1, k) /\ NeverStarts(t, i, k))
  <2>1. PICK g \in 1..(l + i - 1) : u[g] \in k.stops /\ \A j \in (g + 1)..(l + i - 1) : u[j] \notin k.starts
    BY <1>7 DEF StopsBefore
  <2>2. CASE g <= l
    <3>1. g \in 1..(l + 1 - 1) /\ s[g] \in k.stops
      BY <1>3, <2>1, <2>2
    <3>2. \A j \in (g + 1)..(l + 1 - 1) : j \in 1..l /\ j \in (g + 1)..(l + i - 1)
      OBVIOUS
    <3>3. \A j \in 1..(i - 1) : j + l \in (g + 1)..(l + i - 1)
      BY <2>2
    <3> QED
      BY <1>3, <2>1, <3>1, <3>2, <3>3 DEF StopsBefore, NeverStarts
  <2>3. CASE g > l
    <3>1. PICK h \in Nat : g = h + l
      BY <2>3
    <3>2. h \in 1..(i - 1) /\ \A j \in (h + 1)..(i - 1) : j \in 1..(i - 1) /\ j + l \in (g + 1)..(l + i - 1)
      BY <2>3, <3>1
    <3>3. t[h] \in k.stops /\ \A j \in (h + 1)..(i - 1) : t[j] \notin k.starts
      BY <1>3, <2>1, <3>1, <3>2
    <3> QED
      BY <3>2, <3>3 DEF StopsBefore
  <2> QED
    BY <2>2, <2>3
<1>8. Leaves2(s, m, k) = "down" <=> (m = "down" /\ NeverStarts(s, l + 1, k)) \/ StopsBefore(s, l + 1, k)
  BY <1>1 DEF Leaves2, Quiet2
<1>9. Quiet2(u, l + i, m, k) <=> (m = "down" /\ NeverStarts(u, l + i, k)) \/ StopsBefore(u, l + i, k)
  BY DEF Quiet2
<1>10. Quiet2(t, i, Leaves2(s, m, k), k) <=> (Leaves2(s, m, k) = "down" /\ NeverStarts(t, i, k)) \/ StopsBefore(t, i, k)
  BY DEF Quiet2
<1>11. Quiet2(u, l + i, m, k) <=> Quiet2(t, i, Leaves2(s, m, k), k)
  BY <1>4, <1>5, <1>6, <1>7, <1>8, <1>9, <1>10
<1> QED
  BY <1>1, <1>2, <1>11

LEMMA HeldConcat ==
    ASSUME NEW S, NEW s \in Seq(S), NEW t \in Seq(S), NEW k, NEW m \in {"up", "down"}
    PROVE  /\ Held(s \o t, m, k) <=> Held(s, m, k) /\ Held(t, Leaves2(s, m, k), k)
           /\ Leaves2(s \o t, m, k) = Leaves2(t, Leaves2(s, m, k), k)
<1>1. PICK l \in Nat, p \in Nat : l = Len(s) /\ p = Len(t)
  OBVIOUS
<1>2. PICK u : u = s \o t
  OBVIOUS
<1>3. /\ \A j \in 1..l : u[j] = s[j]
      /\ \A j \in 1..p : u[l + j] = t[j]
      /\ Len(u) = l + p
  BY ONLY s \in Seq(S), t \in Seq(S), <1>1, <1>2, ConcatFacts
<1>4. \A i \in 1..(p + 1) : Quiet2(u, l + i, m, k) <=> Quiet2(t, i, Leaves2(s, m, k), k)
  BY <1>1, <1>2, QuietConcat
<1>5. Leaves2(u, m, k) = Leaves2(t, Leaves2(s, m, k), k)
  <2>1. p + 1 \in 1..(p + 1) /\ l + (p + 1) = l + p + 1
    OBVIOUS
  <2>2. Quiet2(u, l + p + 1, m, k) <=> Quiet2(t, p + 1, Leaves2(s, m, k), k)
    BY <1>4, <2>1
  <2> QED
    BY <1>1, <1>3, <2>2 DEF Leaves2
<1>6. \A i \in 1..l : Quiet2(u, i, m, k) <=> Quiet2(s, i, m, k)
  <2> SUFFICES ASSUME NEW i \in 1..l
               PROVE  Quiet2(u, i, m, k) <=> Quiet2(s, i, m, k)
    OBVIOUS
  <2>1. \A j \in 1..(i - 1) : j \in 1..l
    OBVIOUS
  <2>2. \A g \in 1..(i - 1) : \A j \in (g + 1)..(i - 1) : j \in 1..l
    OBVIOUS
  <2>3. NeverStarts(u, i, k) <=> NeverStarts(s, i, k)
    BY <1>3, <2>1 DEF NeverStarts
  <2>4. StopsBefore(u, i, k) <=> StopsBefore(s, i, k)
    BY <1>3, <2>1, <2>2 DEF StopsBefore
  <2> QED
    BY <2>3, <2>4 DEF Quiet2
<1>7. Held(u, m, k) <=> Held(s, m, k) /\ Held(t, Leaves2(s, m, k), k)
  <2>1. ASSUME Held(u, m, k)
        PROVE  Held(s, m, k) /\ Held(t, Leaves2(s, m, k), k)
    <3>1. \A i \in 1..l : i \in 1..(l + p)
      OBVIOUS
    <3>2. \A i \in 1..p : l + i \in 1..(l + p) /\ i \in 1..(p + 1)
      OBVIOUS
    <3>3. \A i \in 1..(l + p) : u[i] \in k.harms => Quiet2(u, i, m, k)
      BY <1>3, <2>1 DEF Held
    <3>4. \A i \in 1..l : s[i] \in k.harms => Quiet2(s, i, m, k)
      BY <1>3, <1>6, <3>1, <3>3
    <3>5. \A i \in 1..p : t[i] \in k.harms => Quiet2(t, i, Leaves2(s, m, k), k)
      BY <1>3, <1>4, <3>2, <3>3
    <3> QED
      BY <1>1, <3>4, <3>5 DEF Held
  <2>2. ASSUME Held(s, m, k), Held(t, Leaves2(s, m, k), k), NEW i \in 1..(l + p), u[i] \in k.harms
        PROVE  Quiet2(u, i, m, k)
    <3>1. CASE i <= l
      BY <1>1, <1>3, <1>6, <2>2, <3>1 DEF Held
    <3>2. CASE i > l
      <4>1. PICK j \in Nat : i = l + j
        BY <3>2
      <4>2. j \in 1..p /\ j \in 1..(p + 1)
        BY <3>2, <4>1
      <4>3. t[j] \in k.harms
        BY <1>3, <2>2, <4>1, <4>2
      <4>4. Quiet2(t, j, Leaves2(s, m, k), k)
        BY <1>1, <2>2, <4>2, <4>3 DEF Held
      <4> QED
        BY <1>4, <4>1, <4>2, <4>4
    <3> QED
      BY <3>1, <3>2
  <2> QED
    BY <1>3, <2>1, <2>2 DEF Held
<1> QED
  BY <1>2, <1>5, <1>7

LEMMA WholeOne ==
    ASSUME NEW x, NEW k, x.skip = 0
    PROVE  Whole(<<x>>, k)
<1>1. Len(<<x>>) = 1 /\ <<x>>[1] = x /\ 1..1 = {1} /\ (1 + 1)..(1 + 0) = {} /\ 1 + 0 <= 1
  OBVIOUS
<1> QED
  BY <1>1 DEF Whole

LEMMA WholeConcat ==
    ASSUME NEW T, \A x \in T : x.skip \in Nat, NEW s \in Seq(T), NEW t \in Seq(T),
           NEW k, Whole(s, k), Whole(t, k)
    PROVE  Whole(s \o t, k)
<1>1. PICK l \in Nat, p \in Nat : l = Len(s) /\ p = Len(t)
  OBVIOUS
<1>2. PICK u : u = s \o t
  OBVIOUS
<1>3. /\ \A j \in 1..l : u[j] = s[j]
      /\ \A j \in 1..p : u[l + j] = t[j]
      /\ Len(u) = l + p
  BY ONLY s \in Seq(T), t \in Seq(T), <1>1, <1>2, ConcatFacts
<1>4. ASSUME NEW i \in 1..(l + p)
      PROVE  /\ i + u[i].skip <= l + p
             /\ u[i] \notin k.skips => \A j \in (i + 1)..(i + u[i].skip) : u[j] \notin k.stops
  <2>1. CASE i <= l
    <3>1. PICK n \in Nat : n = s[i].skip
      <4>1. i \in 1..Len(s)
        BY <1>1, <2>1
      <4>2. s[i] \in T
        BY <4>1, ElementOfSeq
      <4> QED
        BY <4>2
    <3>2. i + n <= l /\ (s[i] \notin k.skips => \A j \in (i + 1)..(i + n) : s[j] \notin k.stops)
      BY <1>1, <2>1, <3>1 DEF Whole
    <3>3. \A j \in (i + 1)..(i + n) : j \in 1..l
      BY <3>2
    <3>4. u[i] = s[i] /\ \A j \in (i + 1)..(i + n) : u[j] = s[j]
      BY <1>3, <2>1, <3>3
    <3> QED
      BY <3>1, <3>2, <3>4
  <2>2. CASE i > l
    <3>1. PICK h \in Nat : i = l + h /\ h \in 1..p
      <4>1. i - l \in Nat /\ i = l + (i - l) /\ i - l \in 1..p
        BY <2>2
      <4> QED
        BY <4>1
    <3>2. PICK n \in Nat : n = t[h].skip
      <4>1. t[h] \in T
        BY <1>1, <3>1, ElementOfSeq
      <4> QED
        BY <4>1
    <3>3. h + n <= p /\ (t[h] \notin k.skips => \A j \in (h + 1)..(h + n) : t[j] \notin k.stops)
      BY <1>1, <3>1, <3>2 DEF Whole
    <3>4. u[i] = t[h]
      BY <1>3, <3>1
    <3>5. ASSUME t[h] \notin k.skips, NEW j \in (i + 1)..(i + n)
          PROVE  u[j] \notin k.stops
      <4>1. PICK g \in Nat : j = l + g
        BY <3>1
      <4>2. g \in (h + 1)..(h + n)
        BY <3>1, <4>1
      <4>3. g \in 1..p
        BY <3>3, <4>2
      <4> QED
        BY <1>3, <3>3, <3>5, <4>1, <4>2, <4>3
    <3> QED
      BY <3>1, <3>2, <3>3, <3>4, <3>5
  <2> QED
    BY <2>1, <2>2
<1> QED
  BY <1>2, <1>3, <1>4 DEF Whole

\* Steps none of which has to do with the VM.
LEMMA HeldOthers ==
    ASSUME NEW S, NEW s \in Seq(S), NEW k, NEW m \in {"up", "down"},
           \A i \in 1..Len(s) : s[i] \notin k.stops /\ s[i] \notin k.starts /\ s[i] \notin k.harms
    PROVE  Held(s, m, k) /\ Leaves2(s, m, k) = m
<1>1. PICK l \in Nat : l = Len(s)
  OBVIOUS
<1>2. Held(s, m, k)
  BY DEF Held
<1>3. l + 1 - 1 = l
  OBVIOUS
<1>4. NeverStarts(s, l + 1, k) /\ ~StopsBefore(s, l + 1, k)
  BY <1>1, <1>3 DEF NeverStarts, StopsBefore
<1> QED
  BY <1>1, <1>2, <1>4 DEF Leaves2, Quiet2

LEMMA WholeOthers ==
    ASSUME NEW S, NEW s \in Seq(S), NEW k,
           \A i \in 1..Len(s) : s[i] \notin k.stops /\ i + s[i].skip <= Len(s) /\ s[i].skip \in Nat
    PROVE  Whole(s, k)
<1> SUFFICES ASSUME NEW i \in 1..Len(s)
             PROVE  \A j \in (i + 1)..(i + s[i].skip) : s[j] \notin k.stops
  BY DEF Whole
<1>1. PICK l \in Nat, n \in Nat : l = Len(s) /\ n = s[i].skip
  OBVIOUS
<1>2. \A j \in (i + 1)..(i + n) : j \in 1..l
  BY <1>1
<1> QED
  BY <1>1, <1>2

\* A step and what follows it.
LEMMA HeadAndTail ==
    ASSUME NEW S, NEW s \in Seq(S), s # <<>>
    PROVE  /\ Head(s) \in S /\ Tail(s) \in Seq(S) /\ Tail(s) = After(s, 1) /\ Head(s) = s[1]
           /\ Len(s) \in Nat \ {0} /\ Len(Tail(s)) = Len(s) - 1
           /\ \A i \in 1..(Len(s) - 1) : Tail(s)[i] = s[i + 1]
           /\ s = <<Head(s)>> \o Tail(s)
<1>1. PICK l \in Nat : l = Len(s) /\ l > 0
  BY EmptySeq
<1>2. Head(s) \in S /\ Tail(s) \in Seq(S) /\ Len(Tail(s)) = l - 1 /\ \A i \in 1..(l - 1) : Tail(s)[i] = s[i + 1]
  BY ONLY s \in Seq(S), s # <<>>, <1>1, HeadTailProperties
<1>3. Tail(s) = After(s, 1) /\ Head(s) = s[1]
  <2>1. Tail(s) = SubSeq(s, 2, Len(s))
    BY ONLY s \in Seq(S), s # <<>>, TailIsSubSeq
  <2> QED
    BY <2>1 DEF After
<1>4. <<Head(s)>> \in Seq(S) /\ Len(<<Head(s)>>) = 1 /\ <<Head(s)>>[1] = Head(s)
  BY <1>2
<1>5. PICK u : u = <<Head(s)>> \o Tail(s)
  OBVIOUS
<1>6. u \in Seq(S) /\ Len(u) = l /\ u[1] = s[1] /\ \A i \in 2..l : u[i] = Tail(s)[i - 1]
  <2>1. u \in Seq(S) /\ Len(u) = 1 + (l - 1) /\ \A i \in 1..(1 + (l - 1)) : u[i] = IF i <= 1 THEN <<Head(s)>>[i] ELSE Tail(s)[i - 1]
    BY ONLY <1>2, <1>4, <1>5, ConcatProperties
  <2> QED
    BY <1>1, <1>3, <1>4, <2>1
<1>7. \A i \in 1..l : u[i] = s[i]
  <2> SUFFICES ASSUME NEW i \in 1..l
               PROVE  u[i] = s[i]
    OBVIOUS
  <2>1. i # 1 => i \in 2..l /\ i - 1 \in 1..(l - 1) /\ (i - 1) + 1 = i
    OBVIOUS
  <2>2. i # 1 => Tail(s)[i - 1] = s[(i - 1) + 1]
    BY <1>2, <2>1
  <2> QED
    BY <1>6, <2>1, <2>2
<1>8. u = s
  BY <1>1, <1>6, <1>7, SeqEqual
<1> QED
  BY <1>1, <1>2, <1>3, <1>5, <1>8

LEMMA SkipAndTail ==
    ASSUME NEW S, NEW s \in Seq(S), NEW n \in Nat, n + 1 <= Len(s)
    PROVE  After(s, n) # <<>> /\ Tail(After(s, n)) = After(Tail(s), n)
<1>1. PICK l \in Nat : l + n + 1 = Len(s)
  <2>1. PICK c \in Nat : c = Len(s)
    OBVIOUS
  <2>2. c - (n + 1) \in Nat /\ (c - (n + 1)) + n + 1 = c
    BY <2>1
  <2> QED
    BY <2>1, <2>2
<1>2. s # <<>>
  BY <1>1
<1>3. Tail(s) \in Seq(S) /\ Len(Tail(s)) = l + n /\ \A i \in 1..(l + n) : Tail(s)[i] = s[i + 1]
  BY <1>1, <1>2, HeadAndTail
<1>4. After(s, n) \in Seq(S) /\ Len(After(s, n)) = l + 1 /\ \A i \in 1..(l + 1) : After(s, n)[i] = s[i + n]
  BY <1>1, AfterFacts
<1>5. After(s, n) # <<>>
  BY <1>4
<1>6. Tail(After(s, n)) \in Seq(S) /\ Len(Tail(After(s, n))) = l /\ \A i \in 1..l : Tail(After(s, n))[i] = After(s, n)[i + 1]
  BY <1>4, <1>5, HeadAndTail
<1>7. After(Tail(s), n) \in Seq(S) /\ Len(After(Tail(s), n)) = l /\ \A i \in 1..l : After(Tail(s), n)[i] = Tail(s)[i + n]
  <2>1. PICK u \in Seq(S) : u = Tail(s) /\ Len(u) = l + n
    BY <1>3
  <2>2. After(u, n) \in Seq(S) /\ Len(After(u, n)) = (l + n) - n /\ \A i \in 1..Len(After(u, n)) : After(u, n)[i] = u[i + n]
    <3>1. n <= l + n
      OBVIOUS
    <3> QED
      BY <2>1, <3>1, AfterFacts
  <2>3. (l + n) - n = l
    OBVIOUS
  <2> QED
    BY <2>1, <2>2, <2>3
<1>8. \A i \in 1..l : Tail(After(s, n))[i] = After(Tail(s), n)[i]
  <2> SUFFICES ASSUME NEW i \in 1..l
               PROVE  Tail(After(s, n))[i] = After(Tail(s), n)[i]
    OBVIOUS
  <2>1. i + 1 \in 1..(l + 1) /\ i + n \in 1..(l + n) /\ (i + 1) + n = (i + n) + 1
    OBVIOUS
  <2> QED
    BY <1>3, <1>4, <1>6, <1>7, <2>1
<1> QED
  BY <1>5, <1>6, <1>7, <1>8, SeqEqual

\* What a step leaves to do is held too, as what is known of the VM after it.
LEMMA HeldNext ==
    ASSUME NEW T, \A x \in T : x.skip \in Nat, NEW s \in Seq(T), s # <<>>, NEW k,
           NEW m \in {"up", "down"}, NEW n \in {"up", "down"}, Held(s, m, k), Whole(s, k),
           Leaves2(<<Head(s)>>, m, k) = "down" => n = "down"
    PROVE  /\ Head(s) \in k.harms => m = "down"
           /\ Held(Tail(s), n, k) /\ Whole(Tail(s), k)
           /\ Tail(s) \in Seq(T)
           /\ Head(s).skip \in Nat /\ Head(s).skip + 1 <= Len(s)
           /\ Whole(After(Tail(s), Head(s).skip), k)
           /\ After(Tail(s), Head(s).skip) \in Seq(T)
           /\ Head(s) \notin k.skips \/ n = "down" => Held(After(Tail(s), Head(s).skip), n, k)
<1>1. /\ Head(s) \in T /\ Tail(s) \in Seq(T) /\ Tail(s) = After(s, 1) /\ Head(s) = s[1]
      /\ Len(s) \in Nat \ {0} /\ Len(Tail(s)) = Len(s) - 1
      /\ \A i \in 1..(Len(s) - 1) : Tail(s)[i] = s[i + 1]
      /\ s = <<Head(s)>> \o Tail(s)
  <2> QED
    BY HeadAndTail
<1>2. PICK p \in Nat : p = Head(s).skip
  BY <1>1
<1>3. PICK l \in Nat : l + 1 = Len(s)
  <2>1. Len(s) - 1 \in Nat /\ (Len(s) - 1) + 1 = Len(s)
    BY <1>1
  <2> QED
    BY <2>1
<1>4. <<Head(s)>> \in Seq(T)
  BY <1>1
<1>5. Held(<<Head(s)>>, m, k) /\ Held(Tail(s), Leaves2(<<Head(s)>>, m, k), k)
  <2>1. Held(<<Head(s)>> \o Tail(s), m, k)
    BY <1>1
  <2>2. Tail(s) \in Seq(T)
    BY <1>1
  <2> QED
    <3>1. PICK h : h = <<Head(s)>>
      OBVIOUS
    <3>2. PICK u : u = Tail(s)
      OBVIOUS
    <3>3. h \in Seq(T) /\ u \in Seq(T) /\ Held(h \o u, m, k)
      BY <1>4, <2>1, <2>2, <3>1, <3>2
    <3>4. Held(h, m, k) /\ Held(u, Leaves2(h, m, k), k)
      BY ONLY m \in {"up", "down"}, <3>3, HeldConcat
    <3> QED
      BY ONLY <3>1, <3>2, <3>4
<1>6. Leaves2(<<Head(s)>>, m, k) \in {"up", "down"}
  BY DEF Leaves2
<1>7. Held(Tail(s), n, k)
  BY <1>5, <1>6, HeldMore
<1>8. Whole(Tail(s), k) /\ Whole(After(Tail(s), p), k) /\ After(Tail(s), p) \in Seq(T)
  <2>1. Whole(Tail(s), k)
    <3>1. Whole(After(s, 1), k)
      BY WholeAfter
    <3> QED
      BY <1>1, <3>1
  <2>2. Tail(s) \in Seq(T)
    BY <1>1
  <2> QED
    BY <2>1, <2>2, AfterFacts, WholeAfter
<1>9. 1 \in 1..Len(s)
  BY <1>1
<1>10. p + 1 <= Len(s) /\ (Head(s) \notin k.skips => \A j \in 2..(p + 1) : s[j] \notin k.stops)
  BY <1>1, <1>2, <1>9 DEF Whole
<1>11. ASSUME Head(s) \notin k.skips \/ n = "down"
       PROVE  Held(After(Tail(s), p), n, k)
  <2>1. CASE n = "down"
    BY <1>1, <1>7, <2>1, HeldAfter
  <2>2. CASE n # "down"
    <3>1. ASSUME NEW j \in 1..p
          PROVE  Tail(s)[j] \notin k.stops
      <4>1. j \in 1..(Len(s) - 1) /\ j + 1 \in 2..(p + 1)
        BY <1>3, <1>10
      <4> QED
        BY <1>1, <1>10, <1>11, <2>2, <4>1
    <3>2. \A j \in 1..p : j <= Len(Tail(s)) => Tail(s)[j] \notin k.stops
      BY <3>1
    <3>3. Tail(s) \in Seq(T)
      BY <1>1
    <3> QED
      BY <1>7, <3>2, <3>3, HeldRest
  <2> QED
    BY <2>1, <2>2
<1>12. Head(s) \in k.harms => m = "down"
  BY <1>5, HeldOne
<1> QED
  BY <1>1, <1>2, <1>7, <1>8, <1>10, <1>11, <1>12

-----------------------------------------------------------------------------
(* Parts of a handler                                                        *)

\* The steps t harm no VM when it is m before them, and it is n after them.
Brings(t, m, n, T, k) ==
    /\ t \in Seq(T) /\ Whole(t, k)
    /\ Held(t, m, k) /\ (n = "down" => Leaves2(t, m, k) = "down")

LEMMA BringsOne ==
    ASSUME NEW T, NEW k, NEW x \in T, x.skip = 0, NEW m \in {"up", "down"}, NEW n \in {"up", "down"},
           x \in k.harms => m = "down",
           n = "down" => x \in k.stops \/ (m = "down" /\ x \notin k.starts)
    PROVE  Brings(<<x>>, m, n, T, k)
<1>1. <<x>> \in Seq(T) /\ Whole(<<x>>, k)
  BY WholeOne
<1> QED
  BY <1>1, HeldOne DEF Brings

LEMMA BringsThen ==
    ASSUME NEW T, \A x \in T : x.skip \in Nat, NEW k, NEW s, NEW t,
           NEW m \in {"up", "down"}, NEW n \in {"up", "down"}, NEW p \in {"up", "down"},
           Brings(s, m, n, T, k), Brings(t, n, p, T, k)
    PROVE  Brings(s \o t, m, p, T, k)
<1>1. s \in Seq(T) /\ t \in Seq(T) /\ s \o t \in Seq(T)
  BY DEF Brings
<1>2. Whole(s \o t, k)
  BY <1>1, WholeConcat DEF Brings
<1>3. PICK q \in {"up", "down"} : q = Leaves2(s, m, k)
  BY DEF Leaves2
<1>4. Held(t, q, k) /\ (p = "down" => Leaves2(t, q, k) = "down")
  <2>1. CASE q = n
    BY <2>1 DEF Brings
  <2>2. CASE q # n
    <3>1. n = "up" /\ q = "down"
      BY <1>3, <2>2 DEF Brings
    <3>2. Held(t, q, k)
      BY <3>1, HeldMore DEF Brings
    <3>3. p = "down" => StopsBefore(t, Len(t) + 1, k)
      BY <3>1 DEF Brings, Leaves2, Quiet2
    <3> QED
      BY <3>2, <3>3 DEF Leaves2, Quiet2
  <2> QED
    BY <2>1, <2>2
<1>5. Held(s \o t, m, k) <=> Held(s, m, k) /\ Held(t, q, k)
  BY <1>1, <1>3, HeldConcat
<1>6. Leaves2(s \o t, m, k) = Leaves2(t, q, k)
  BY <1>1, <1>3, HeldConcat
<1> QED
  BY <1>1, <1>2, <1>4, <1>5, <1>6 DEF Brings

LEMMA BringsNone ==
    ASSUME NEW T, NEW k, NEW m \in {"up", "down"}
    PROVE  Brings(<<>>, m, m, T, k)
  BY HeldNone DEF Brings

LEMMA BringsLess ==
    ASSUME NEW T, NEW k, NEW t, NEW m \in {"up", "down"}, NEW n \in {"up", "down"}, Brings(t, m, n, T, k)
    PROVE  Brings(t, m, "up", T, k) /\ (m = "up" => Brings(t, "down", n, T, k))
<1>1. m = "up" => Held(t, "down", k)
  BY HeldMore DEF Brings
<1>2. m = "up" /\ Leaves2(t, m, k) = "down" => Leaves2(t, "down", k) = "down"
  BY DEF Leaves2, Quiet2
<1> QED
  BY <1>1, <1>2 DEF Brings

Sc == INSTANCE Script

-----------------------------------------------------------------------------
(* Steps of a handler.  None of the machines' handlers defers a call.        *)

Handlers(T) == [todo : Seq(T), defer : {<<>>}, bad : BOOLEAN]
Ons == {"return", "ignore", "keep", "verdict", "call"}

\* The script operators of the modules are one.
LEMMA SameScripts ==
    ASSUME NEW r
    PROVE  /\ V!Passes(r) = Sc!Passes(r) /\ V!Fails(r) = Sc!Fails(r)
           /\ V!Inner(r) = Sc!Inner(r) /\ V!Now(r) = Sc!Now(r) /\ V!Ended(r) = Sc!Ended(r)
           /\ C!Passes(r) = Sc!Passes(r) /\ C!Fails(r) = Sc!Fails(r)
           /\ C!Inner(r) = Sc!Inner(r) /\ C!Now(r) = Sc!Now(r) /\ C!Ended(r) = Sc!Ended(r)
           /\ Z!Passes(r) = Sc!Passes(r) /\ Z!Fails(r) = Sc!Fails(r)
           /\ Z!Inner(r) = Sc!Inner(r) /\ Z!Now(r) = Sc!Now(r) /\ Z!Ended(r) = Sc!Ended(r)
<1>1. V!Passes(r) = Sc!Passes(r) /\ V!Fails(r) = Sc!Fails(r)
  BY DEF V!Passes, V!Fails, V!Return, V!On, V!Skips, V!Go, V!Settle,
         Sc!Passes, Sc!Fails, Sc!Return, Sc!On, Sc!Skips, Sc!Go, Sc!Settle
<1>2. C!Passes(r) = Sc!Passes(r) /\ C!Fails(r) = Sc!Fails(r)
  BY DEF C!Passes, C!Fails, C!Return, C!On, C!Skips, C!Go, C!Settle,
         Sc!Passes, Sc!Fails, Sc!Return, Sc!On, Sc!Skips, Sc!Go, Sc!Settle
<1>3. Z!Passes(r) = Sc!Passes(r) /\ Z!Fails(r) = Sc!Fails(r)
  BY DEF Z!Passes, Z!Fails, Z!Return, Z!On, Z!Skips, Z!Go, Z!Settle,
         Sc!Passes, Sc!Fails, Sc!Return, Sc!On, Sc!Skips, Sc!Go, Sc!Settle
<1>4. /\ V!Inner(r) = Sc!Inner(r) /\ V!Now(r) = Sc!Now(r) /\ V!Ended(r) = Sc!Ended(r)
      /\ C!Inner(r) = Sc!Inner(r) /\ C!Now(r) = Sc!Now(r) /\ C!Ended(r) = Sc!Ended(r)
      /\ Z!Inner(r) = Sc!Inner(r) /\ Z!Now(r) = Sc!Now(r) /\ Z!Ended(r) = Sc!Ended(r)
  BY DEF V!Inner, Sc!Inner, V!On, Sc!On, V!Now, Sc!Now, V!Ended, Sc!Ended,
         C!Inner, C!On, C!Now, C!Ended, Z!Inner, Z!On, Z!Now, Z!Ended
<1> QED
  BY <1>1, <1>2, <1>3, <1>4

\* A handler by its parts.
At(t, b) == [todo |-> t, defer |-> <<>>, bad |-> b]

LEMMA AtParts ==
    ASSUME NEW t, NEW b
    PROVE  At(t, b).todo = t /\ At(t, b).defer = <<>> /\ At(t, b).bad = b
  BY DEF At

LEMMA AtTodo ==
    ASSUME NEW t, NEW b, NEW x
    PROVE  [At(t, b) EXCEPT !.todo = x] = At(x, b)
  BY DEF At

LEMMA AtBad ==
    ASSUME NEW t, NEW b, NEW x
    PROVE  [At(t, b) EXCEPT !.bad = x] = At(t, x)
  BY DEF At

LEMMA AtReturn ==
    ASSUME NEW t, NEW b
    PROVE  [At(t, b) EXCEPT !.todo = <<>>, !.bad = TRUE] = At(<<>>, TRUE)
<1>1. [At(t, b) EXCEPT !.todo = <<>>, !.bad = TRUE] = [[At(t, b) EXCEPT !.todo = <<>>] EXCEPT !.bad = TRUE]
  BY DEF At
<1>2. [At(t, b) EXCEPT !.todo = <<>>] = At(<<>>, b)
  BY AtTodo
<1>3. [At(<<>>, b) EXCEPT !.bad = TRUE] = At(<<>>, TRUE)
  BY AtBad
<1> QED
  BY <1>1, <1>2, <1>3

LEMMA HandlerGoes ==
    ASSUME NEW T, \A x \in T : x.skip \in Nat /\ x.on \in Ons, NEW r \in Handlers(T), r.todo # <<>>,
           Head(r.todo).skip + 1 <= Len(r.todo)
    PROVE  /\ Sc!Now(r) = Head(r.todo).cmd /\ (Sc!Inner(r) <=> Head(r.todo).on \in {"verdict", "call"})
           /\ Sc!Passes(r) = At(Tail(r.todo), r.bad)
           /\ Head(r.todo).on = "return" => Sc!Fails(r) = At(<<>>, TRUE)
           /\ Head(r.todo).on # "return" =>
                 \E b \in BOOLEAN : Sc!Fails(r) = At(After(Tail(r.todo), Head(r.todo).skip), b)
<1>1. PICK t \in Seq(T) : t = r.todo /\ t # <<>> /\ Head(t) \in T /\ Tail(t) \in Seq(T)
  BY HeadAndTail DEF Handlers
<1>2. PICK b \in BOOLEAN : b = r.bad /\ r = At(t, b)
  BY <1>1 DEF Handlers, At
<1>3. PICK p \in Nat : p = Head(t).skip /\ p + 1 <= Len(t)
  BY <1>1
<1>4. Tail(After(t, p)) = After(Tail(t), p)
  BY <1>1, <1>3, SkipAndTail
<1>5. ASSUME NEW s, NEW c
      PROVE  Sc!Settle(At(s, c)) = At(s, c) /\ Sc!Go(At(s, c)) = At(Tail(s), c)
  <2>1. ASSUME NEW u
        PROVE  Sc!Settle(At(u, c)) = At(u, c)
    BY DEF Sc!Settle, At
  <2>2. [At(s, c) EXCEPT !.todo = Tail(At(s, c).todo)] = At(Tail(s), c)
    <3>1. At(s, c).todo = s /\ \A x : [At(s, c) EXCEPT !.todo = x] = At(x, c)
      BY AtParts, AtTodo, Zenon
    <3> QED
      BY <3>1, Zenon
  <2> QED
    BY <2>1, <2>2 DEF Sc!Go
<1>6. Sc!Return(r) = At(<<>>, TRUE)
  <2>1. [At(t, b) EXCEPT !.todo = <<>>, !.bad = TRUE] = At(<<>>, TRUE)
    BY AtReturn, Zenon
  <2> QED
    <3>1. Sc!Settle(At(<<>>, TRUE)) = At(<<>>, TRUE)
      BY <1>5
    <3>2. r = At(t, b)
      BY <1>2
    <3> QED
      BY <2>1, <3>1, <3>2, Zenon DEF Sc!Return
<1>7. ASSUME NEW c \in BOOLEAN
      PROVE  Sc!Skips(At(t, c)) = At(After(Tail(t), p), c)
  <2>1. [At(t, c) EXCEPT !.todo = After(At(t, c).todo, Head(At(t, c).todo).skip)] = At(After(t, p), c)
    <3>1. At(t, c).todo = t /\ \A x : [At(t, c) EXCEPT !.todo = x] = At(x, c)
      BY AtParts, AtTodo, Zenon
    <3>2. Head(t).skip = p
      BY <1>3
    <3> QED
      BY <3>1, <3>2, Zenon
  <2> QED
    BY <1>4, <1>5, <2>1 DEF Sc!Skips, After
<1>8. Head(t).on # "return" => \E c \in BOOLEAN : Sc!Fails(r) = At(After(Tail(t), p), c)
  <2>1. PICK c \in BOOLEAN : c = (b \/ Sc!On(r) = "keep")
    OBVIOUS
  <2>2. [r EXCEPT !.bad = @ \/ Sc!On(r) = "keep"] = At(t, c)
    BY <1>2, <2>1 DEF At
  <2>3. Head(t).on # "return" => Sc!Fails(r) = Sc!Skips(At(t, c))
    BY <1>1, <2>2 DEF Sc!Fails, Sc!On, Ons
  <2> QED
    BY <1>7, <2>3
<1>9. Sc!On(r) = Head(t).on /\ Head(t).on # "first"
  BY <1>1 DEF Sc!On, Ons
<1>10. Sc!Passes(r) = At(Tail(t), b)
  BY <1>2, <1>5, <1>9 DEF Sc!Passes
<1>11. Head(t).on = "return" => Sc!Fails(r) = At(<<>>, TRUE)
  BY <1>6, <1>9 DEF Sc!Fails
<1>12. Sc!Now(r) = Head(t).cmd /\ (Sc!Inner(r) <=> Head(t).on \in {"verdict", "call"})
  BY <1>1, <1>9 DEF Sc!Now, Sc!Inner, Ons
<1> QED
  BY <1>1, <1>2, <1>3, <1>8, <1>10, <1>11, <1>12

LEMMA WholeNext ==
    ASSUME NEW T, \A x \in T : x.skip \in Nat, NEW s \in Seq(T), s # <<>>, NEW k, Whole(s, k)
    PROVE  /\ Head(s) \in T /\ Head(s).skip \in Nat /\ Head(s).skip + 1 <= Len(s)
           /\ Tail(s) \in Seq(T) /\ Whole(Tail(s), k)
           /\ After(Tail(s), Head(s).skip) \in Seq(T) /\ Whole(After(Tail(s), Head(s).skip), k)
<1>1. PICK u \in Seq(T) : u = Tail(s) /\ u = After(s, 1) /\ Head(s) = s[1] /\ Head(s) \in T /\ Len(s) \in Nat \ {0}
  BY ONLY s \in Seq(T), s # <<>>, HeadAndTail
<1>2. PICK p \in Nat : p = Head(s).skip
  BY <1>1
<1>3. p + 1 <= Len(s)
  <2>1. 1 \in 1..Len(s)
    BY <1>1
  <2>2. 1 + s[1].skip <= Len(s)
    BY <2>1 DEF Whole
  <2> QED
    BY <1>1, <1>2, <2>2
<1>4. Whole(u, k)
  <2>1. Whole(After(s, 1), k)
    BY WholeAfter
  <2> QED
    BY <1>1, <2>1
<1>5. After(u, p) \in Seq(T) /\ Whole(After(u, p), k)
  BY <1>4, AfterFacts, WholeAfter
<1> QED
  BY <1>1, <1>2, <1>3, <1>4, <1>5

-----------------------------------------------------------------------------
(* Requests at work                                                          *)

Works(c) == req[c].state = "runs"
ReqTyped(T, k) ==
    /\ DOMAIN req = Requester
    /\ \A c \in Requester : DOMAIN req[c] = {"ask", "state", "run"}
    /\ \A c \in Requester : Works(c) =>
          /\ req[c].run \in Handlers(T)
          /\ req[c].run.todo # <<>> /\ Whole(req[c].run.todo, k)
Alone == \A c, d \in Requester : Works(c) /\ Works(d) => c = d
HeldBy(m, k) == \A c \in Requester : Works(c) => Held(req[c].run.todo, m, k)

NoReq == [ask |-> [act |-> "none"], state |-> "done", run |-> At(<<>>, FALSE)]
GoesOn(c, r) == req' = [req EXCEPT ![c] = IF r.todo = <<>> THEN NoReq ELSE [@ EXCEPT !.run = r]]
Stops(c) == req' = [req EXCEPT ![c] = NoReq]

LEMMA SameRunners ==
    ASSUME NEW c \in Requester, NEW r
    PROVE  /\ V!Becomes(c, r) \/ C!Becomes(c, r) \/ Z!Becomes(c, r) => GoesOn(c, r)
           /\ V!ServerStops(c) \/ C!ServerStops(c) \/ Z!ServerStops(c) =>
                 Stops(c) /\ UNCHANGED <<w, overlap>> /\ lost' = lost \cup {<<"stop">>}
           /\ V!Running = {d \in Requester : Works(d)}
           /\ C!Running = {d \in Requester : Works(d)}
           /\ Z!Running = {d \in Requester : Works(d)}
<1>1. V!Done = NoReq /\ C!Done = NoReq /\ Z!Done = NoReq
  <2>1. ASSUME NEW a, NEW b
        PROVE  [[ask |-> a, state |-> "idle", run |-> b] EXCEPT !.state = "done"] = [ask |-> a, state |-> "done", run |-> b]
    OBVIOUS
  <2>2. V!Handler(<<>>) = At(<<>>, FALSE) /\ C!Handler(<<>>) = At(<<>>, FALSE) /\ Z!Handler(<<>>) = At(<<>>, FALSE)
    BY DEF V!Handler, C!Handler, Z!Handler, At
  <2> QED
    BY <2>1, <2>2, Zenon DEF V!Done, V!Idle, V!NoAsk, C!Done, C!Idle, C!NoAsk, Z!Done, Z!Idle, Z!NoAsk, NoReq
<1>2. V!Becomes(c, r) \/ C!Becomes(c, r) \/ Z!Becomes(c, r) => GoesOn(c, r)
  BY <1>1 DEF V!Becomes, V!Ended, C!Becomes, C!Ended, Z!Becomes, Z!Ended, GoesOn
<1>3. V!ServerStops(c) \/ C!ServerStops(c) \/ Z!ServerStops(c) =>
         Stops(c) /\ UNCHANGED <<w, overlap>> /\ lost' = lost \cup {<<"stop">>}
  BY <1>1 DEF V!ServerStops, C!ServerStops, Z!ServerStops, Stops
<1>4. V!Running = {d \in Requester : Works(d)} /\ C!Running = {d \in Requester : Works(d)}
      /\ Z!Running = {d \in Requester : Works(d)}
  BY DEF V!Running, C!Running, Z!Running, Works
<1> QED
  BY <1>2, <1>3, <1>4

\* A handler goes on with steps of T, or ends.
LEMMA GoingOn ==
    ASSUME NEW T, NEW k, ReqTyped(T, k), NEW c \in Requester, Works(c), NEW r,
           GoesOn(c, r) \/ Stops(c),
           GoesOn(c, r) /\ r.todo # <<>> => r \in Handlers(T) /\ Whole(r.todo, k)
    PROVE  /\ ReqTyped(T, k)'
           /\ \A d \in Requester : d # c => req'[d] = req[d]
           /\ req'[c].state = "runs" => GoesOn(c, r) /\ req'[c].run = r
<1>1. DOMAIN req' = Requester /\ \A d \in Requester : d # c => req'[d] = req[d]
  BY DEF GoesOn, Stops, ReqTyped
<1>2. \/ req'[c] = NoReq
      \/ GoesOn(c, r) /\ r.todo # <<>> /\ req'[c] = [req[c] EXCEPT !.run = r]
  BY DEF GoesOn, Stops, ReqTyped
<1>3. CASE req'[c] = NoReq
  <2>1. DOMAIN req'[c] = {"ask", "state", "run"} /\ req'[c].state = "done"
    BY <1>3 DEF NoReq
  <2> QED
    BY <1>1, <2>1 DEF ReqTyped, Works
<1>4. CASE GoesOn(c, r) /\ r.todo # <<>> /\ req'[c] = [req[c] EXCEPT !.run = r]
  <2>1. DOMAIN req'[c] = {"ask", "state", "run"} /\ req'[c].run = r
    BY <1>4 DEF ReqTyped
  <2> QED
    BY <1>1, <1>4, <2>1 DEF ReqTyped, Works
<1> QED
  BY <1>2, <1>3, <1>4

Arrives(c, a, t) == req' = [req EXCEPT ![c] = [ask |-> a, state |-> "runs", run |-> At(t, FALSE)]]

\* A request arrives.
LEMMA Arriving ==
    ASSUME NEW T, NEW k, ReqTyped(T, k), NEW c \in Requester, NEW a, NEW t,
           Arrives(c, a, t),
           t \in Seq(T), t # <<>>, Whole(t, k)
    PROVE  /\ ReqTyped(T, k)'
           /\ \A d \in Requester : d # c => req'[d] = req[d]
           /\ req'[c].run.todo = t
<1>1. DOMAIN req' = Requester /\ \A d \in Requester : d # c => req'[d] = req[d]
  BY DEF ReqTyped, Arrives
<1>2. req'[c] = [ask |-> a, state |-> "runs", run |-> At(t, FALSE)]
  BY DEF ReqTyped, Arrives
<1>3. DOMAIN req'[c] = {"ask", "state", "run"} /\ req'[c].run = At(t, FALSE)
  <2>1. \A b : DOMAIN [ask |-> a, state |-> "runs", run |-> b] = {"ask", "state", "run"}
               /\ [ask |-> a, state |-> "runs", run |-> b].run = b
    OBVIOUS
  <2> QED
    BY <1>2, <2>1, Zenon
<1>4. At(t, FALSE) \in Handlers(T) /\ At(t, FALSE).todo = t
  BY DEF At, Handlers
<1> QED
  BY <1>1, <1>3, <1>4 DEF ReqTyped, Works

\* The first step of the handler of c.
First(c) == Head(req[c].run.todo)

\* A command of c passes or fails.
LEMMA Proceeds ==
    ASSUME NEW T, \A x \in T : x.skip \in Nat /\ x.on \in Ons, NEW k, ReqTyped(T, k),
           NEW c \in Requester, Works(c), NEW r, r \in {Sc!Passes(req[c].run), Sc!Fails(req[c].run)}
    PROVE  /\ First(c) \in T /\ Sc!Now(req[c].run) = First(c).cmd
           /\ Sc!Inner(req[c].run) <=> First(c).on \in {"verdict", "call"}
           /\ r \in Handlers(T) /\ Whole(r.todo, k)
           /\ \A m, n \in {"up", "down"} :
                 /\ Held(req[c].run.todo, m, k)
                 /\ Leaves2(<<First(c)>>, m, k) = "down" => n = "down"
                 => /\ First(c) \in k.harms => m = "down"
                    /\ \/ r = Sc!Passes(req[c].run)
                       \/ First(c).on = "return" \/ First(c) \notin k.skips \/ n = "down"
                       => Held(r.todo, n, k)
<1> DEFINE t == req[c].run.todo
<1>1. req[c].run \in Handlers(T) /\ t \in Seq(T) /\ t # <<>> /\ Whole(t, k) /\ req[c].run.bad \in BOOLEAN
  BY DEF ReqTyped, Handlers
<1>2. /\ First(c) = Head(t) /\ First(c) \in T /\ First(c).skip \in Nat /\ First(c).skip + 1 <= Len(t)
      /\ Tail(t) \in Seq(T) /\ Whole(Tail(t), k)
      /\ After(Tail(t), First(c).skip) \in Seq(T) /\ Whole(After(Tail(t), First(c).skip), k)
  BY <1>1, WholeNext DEF First
<1>3. /\ Sc!Now(req[c].run) = First(c).cmd /\ (Sc!Inner(req[c].run) <=> First(c).on \in {"verdict", "call"})
      /\ Sc!Passes(req[c].run) = At(Tail(t), req[c].run.bad)
      /\ First(c).on = "return" => Sc!Fails(req[c].run) = At(<<>>, TRUE)
      /\ First(c).on # "return" =>
            \E b \in BOOLEAN : Sc!Fails(req[c].run) = At(After(Tail(t), First(c).skip), b)
  BY <1>1, <1>2, HandlerGoes
<1>4. \E u, b : /\ r = At(u, b) /\ b \in BOOLEAN
                /\ \/ r = Sc!Passes(req[c].run) /\ u = Tail(t)
                   \/ First(c).on = "return" /\ u = <<>>
                   \/ r # Sc!Passes(req[c].run) /\ First(c).on # "return" /\ u = After(Tail(t), First(c).skip)
  <2>1. CASE r = Sc!Passes(req[c].run)
    BY <1>1, <1>3, <2>1
  <2>2. CASE r # Sc!Passes(req[c].run) /\ First(c).on = "return"
    BY <1>3, <2>2
  <2>3. CASE r # Sc!Passes(req[c].run) /\ First(c).on # "return"
    BY <1>3, <2>3
  <2> QED
    BY <2>1, <2>2, <2>3
<1>5. PICK u, b : /\ r = At(u, b) /\ b \in BOOLEAN
                  /\ \/ r = Sc!Passes(req[c].run) /\ u = Tail(t)
                     \/ First(c).on = "return" /\ u = <<>>
                     \/ r # Sc!Passes(req[c].run) /\ First(c).on # "return" /\ u = After(Tail(t), First(c).skip)
  BY <1>4
<1>6. u \in Seq(T) /\ Whole(u, k)
  <2>1. <<>> \in Seq(T) /\ Whole(<<>>, k)
    BY DEF Whole
  <2> QED
    BY <1>2, <1>5, <2>1, Zenon
<1>7. r \in Handlers(T) /\ r.todo = u
  BY <1>5, <1>6 DEF Handlers, At
<1>8. ASSUME NEW m \in {"up", "down"}, NEW n \in {"up", "down"}, Held(t, m, k),
             Leaves2(<<First(c)>>, m, k) = "down" => n = "down"
      PROVE  /\ First(c) \in k.harms => m = "down"
             /\ \/ r = Sc!Passes(req[c].run)
                \/ First(c).on = "return" \/ First(c) \notin k.skips \/ n = "down"
                => Held(u, n, k)
  <2>1. /\ First(c) \in k.harms => m = "down"
        /\ Held(Tail(t), n, k)
        /\ First(c) \notin k.skips \/ n = "down" => Held(After(Tail(t), First(c).skip), n, k)
    <3>1. t \in Seq(T) /\ t # <<>> /\ Held(t, m, k) /\ Whole(t, k) /\ (Leaves2(<<Head(t)>>, m, k) = "down" => n = "down")
      BY <1>1, <1>2, <1>8
    <3> HIDE DEF t
    <3> QED
      BY <1>2, <3>1, HeldNext
  <2>2. Held(<<>>, n, k)
    BY HeldNone
  <2> QED
    BY <1>5, <2>1, <2>2
<1> QED
  BY <1>2, <1>3, <1>6, <1>7, <1>8

\* A step of c that runs no command: a verdict, or a call of the steps b.
LEMMA Turns ==
    ASSUME NEW T, \A x \in T : x.skip \in Nat /\ x.on \in Ons, NEW k, ReqTyped(T, k),
           NEW c \in Requester, Works(c), First(c).on \in {"verdict", "call"}, NEW b, NEW r,
           \/ First(c).on = "verdict" /\ r = IF req[c].run.bad THEN Sc!Return(req[c].run) ELSE Sc!Go(req[c].run)
           \/ /\ First(c).on = "call"
              /\ r = Sc!Settle([req[c].run EXCEPT !.todo = b \o Tail(@)])
              /\ b \in Seq(T) /\ Whole(b, k)
    PROVE  /\ First(c) \in T
           /\ r \in Handlers(T) /\ Whole(r.todo, k)
           /\ \A m \in {"up", "down"} :
                 /\ Held(req[c].run.todo, m, k) /\ First(c) \notin k.stops
                 /\ First(c).on = "call" => Brings(b, m, IF First(c) \in k.starts THEN "up" ELSE m, T, k)
                 /\ First(c).on = "verdict" => First(c) \notin k.starts
                 => Held(r.todo, m, k)
<1>1. PICK t \in Seq(T) : t = req[c].run.todo /\ t # <<>> /\ Whole(t, k)
  BY DEF ReqTyped, Handlers
<1>2. PICK f \in BOOLEAN : f = req[c].run.bad /\ req[c].run = At(t, f)
  BY <1>1 DEF ReqTyped, Handlers, At
<1>3. /\ First(c) = Head(t) /\ First(c) \in T /\ Tail(t) \in Seq(T) /\ Whole(Tail(t), k)
  BY <1>1, WholeNext DEF First
<1>4. ASSUME NEW s
      PROVE  Sc!Settle(At(s, f)) = At(s, f)
  BY DEF Sc!Settle, At
<1>5. Sc!Go(At(t, f)) = At(Tail(t), f)
  <2>1. [At(t, f) EXCEPT !.todo = Tail(At(t, f).todo)] = At(Tail(t), f)
    <3>1. At(t, f).todo = t /\ \A x : [At(t, f) EXCEPT !.todo = x] = At(x, f)
      BY AtParts, AtTodo, Zenon
    <3> QED
      BY <3>1, Zenon
  <2> QED
    BY <1>4, <2>1 DEF Sc!Go
<1>6. Sc!Return(At(t, f)) = At(<<>>, TRUE)
  <2>1. [At(t, f) EXCEPT !.todo = <<>>, !.bad = TRUE] = At(<<>>, TRUE)
    BY AtReturn, Zenon
  <2>2. Sc!Settle(At(<<>>, TRUE)) = At(<<>>, TRUE)
    BY DEF Sc!Settle, At
  <2> QED
    BY <2>1, <2>2, Zenon DEF Sc!Return
<1>7. Sc!Settle([At(t, f) EXCEPT !.todo = b \o Tail(At(t, f).todo)]) = At(b \o Tail(t), f)
  <2>1. [At(t, f) EXCEPT !.todo = b \o Tail(At(t, f).todo)] = At(b \o Tail(t), f)
    <3>1. At(t, f).todo = t /\ \A x : [At(t, f) EXCEPT !.todo = x] = At(x, f)
      BY AtParts, AtTodo, Zenon
    <3> QED
      BY <3>1, Zenon
  <2>2. Sc!Settle(At(b \o Tail(t), f)) = At(b \o Tail(t), f)
    BY <1>4
  <2> QED
    BY <2>1, <2>2, Zenon
<1>8. \A m \in {"up", "down"} : Held(<<>>, m, k)
  BY HeldNone
<1>9. ASSUME NEW m \in {"up", "down"}, Held(t, m, k), First(c) \notin k.stops
      PROVE  /\ First(c) \notin k.starts => Held(Tail(t), m, k)
             /\ First(c) \in k.starts => Held(Tail(t), "up", k)
  <2>1. Leaves2(<<Head(t)>>, m, k) = IF First(c) \in k.starts THEN "up" ELSE m
    BY <1>3, <1>9, HeldOne
  <2>2. ASSUME NEW n \in {"up", "down"}, Leaves2(<<Head(t)>>, m, k) = "down" => n = "down"
        PROVE  Held(Tail(t), n, k)
    BY <1>1, <1>9, <2>2, HeldNext
  <2> QED
    BY <2>1, <2>2
<1>10. CASE First(c).on = "verdict"
  <2>1. r \in {At(<<>>, TRUE), At(Tail(t), f)}
    BY <1>2, <1>5, <1>6, <1>10
  <2>2. PICK u \in {<<>>, Tail(t)}, g \in BOOLEAN : r = At(u, g)
    BY <2>1
  <2>3. u \in Seq(T) /\ Whole(u, k)
    <3>1. <<>> \in Seq(T) /\ Whole(<<>>, k)
      BY DEF Whole
    <3> QED
      BY <1>3, <2>2, <3>1, Zenon
  <2>4. r \in Handlers(T) /\ r.todo = u
    BY <2>2, <2>3 DEF Handlers, At
  <2> QED
    BY <1>1, <1>3, <1>8, <1>9, <1>10, <2>2, <2>3, <2>4
<1>11. CASE First(c).on = "call"
  <2>1. r = At(b \o Tail(t), f) /\ b \in Seq(T) /\ Whole(b, k)
    BY <1>2, <1>7, <1>11
  <2>2. b \o Tail(t) \in Seq(T) /\ Whole(b \o Tail(t), k)
    <3>1. Tail(t) \in Seq(T)
      BY <1>3
    <3>2. b \o Tail(t) \in Seq(T)
      BY ONLY <2>1, <3>1, ConcatProperties
    <3> QED
      BY <1>3, <2>1, <3>2, WholeConcat
  <2>3. r \in Handlers(T) /\ r.todo = b \o Tail(t)
    <3>1. PICK u \in Seq(T) : u = b \o Tail(t)
      BY <2>2
    <3>2. At(u, f) \in Handlers(T) /\ At(u, f).todo = u
      BY DEF Handlers, At
    <3> QED
      BY <2>1, <3>1, <3>2
  <2>4. ASSUME NEW m \in {"up", "down"}, Held(t, m, k), First(c) \notin k.stops,
               Brings(b, m, IF First(c) \in k.starts THEN "up" ELSE m, T, k)
        PROVE  Held(b \o Tail(t), m, k)
    <3>1. PICK n \in {"up", "down"} : n = (IF First(c) \in k.starts THEN "up" ELSE m) /\ Brings(b, m, n, T, k)
      BY <2>4
    <3>2. Held(Tail(t), n, k)
      BY <1>9, <2>4, <3>1
    <3>3. Brings(Tail(t), n, "up", T, k)
      BY <1>3, <3>2 DEF Brings
    <3>4. Brings(b \o Tail(t), m, "up", T, k)
      BY <3>1, <3>3, BringsThen
    <3> QED
      BY <3>4 DEF Brings
  <2> QED
    BY <1>1, <1>3, <1>11, <2>2, <2>3, <2>4
<1> QED
  BY <1>10, <1>11

-----------------------------------------------------------------------------
(* The storage VM                                                            *)

VirshOps == {"start", "running", "shutdown", "shut off", "destroy", "undefine", "define", "autostart", "domstate"}
SCVMCalls == {<<"start">>, <<"stop">>, <<"setup">>, <<"undefine">>, <<"gone">>}
SCVMCommands ==
    {<<"virsh", o>> : o \in VirshOps} \cup {<<"virt-xml", "vcpus">>, <<"virt-xml", "memory">>}
    \cup {<<o>> : o \in {"copy template", "remove image", "xml", "ceph", "mkdir", "config", "refuse"}}
SCVMSteps ==
    [cmd : SCVMCommands, on : {"return", "ignore"}, skip : Nat] \cup [cmd : SCVMCalls, on : {"call"}, skip : {0}]
SCVMKinds ==
    [stops |-> {x \in SCVMSteps : x.cmd = <<"virsh", "destroy">>},
     starts |-> {x \in SCVMSteps : x.cmd \in {<<"virsh", "start">>, <<"start">>, <<"setup">>}},
     harms |-> {x \in SCVMSteps : x.cmd \in {<<"copy template">>, <<"remove image">>}},
     skips |-> {}]
SCVMWorld ==
    [dom : {"none", "off", "running", "transient"}, image : {"none", "fresh", "used"}, auto : BOOLEAN, xml : BOOLEAN,
     ceph : BOOLEAN, cpu : BOOLEAN, memory : BOOLEAN, ripped : BOOLEAN]
Mode(up) == IF up THEN "up" ELSE "down"
SCVMMode == Mode(V!Up(w))

SCVMBrings(t, m, n) == Brings(t, m, n, SCVMSteps, SCVMKinds)

LEMMA SCVMCommandFacts ==
    /\ \A x \in SCVMCommands :
          \/ x[1] = "virsh" /\ x[2] \in VirshOps /\ x = <<"virsh", x[2]>>
          \/ x[1] = "virt-xml" /\ x[2] \in {"vcpus", "memory"}
          \/ x[1] \in {"copy template", "remove image", "xml", "ceph", "mkdir", "config", "refuse"} /\ x = <<x[1]>>
    /\ \A x \in SCVMCalls : x[1] \in {"start", "stop", "setup", "undefine", "gone"} /\ x = <<x[1]>>
<1>1. ASSUME NEW x \in SCVMCommands
      PROVE  \/ x[1] = "virsh" /\ x[2] \in VirshOps /\ x = <<"virsh", x[2]>>
             \/ x[1] = "virt-xml" /\ x[2] \in {"vcpus", "memory"}
             \/ x[1] \in {"copy template", "remove image", "xml", "ceph", "mkdir", "config", "refuse"} /\ x = <<x[1]>>
  <2>1. CASE \E o \in VirshOps : x = <<"virsh", o>>
    BY <2>1
  <2>2. CASE x = <<"virt-xml", "vcpus">> \/ x = <<"virt-xml", "memory">>
    <3>1. \A o : <<"virt-xml", o>>[1] = "virt-xml" /\ <<"virt-xml", o>>[2] = o
      OBVIOUS
    <3>2. x[1] = "virt-xml" /\ x[2] \in {"vcpus", "memory"}
      BY <2>2, <3>1
    <3> QED
      BY <3>2
  <2>3. CASE \E o \in {"copy template", "remove image", "xml", "ceph", "mkdir", "config", "refuse"} : x = <<o>>
    <3>1. PICK o \in {"copy template", "remove image", "xml", "ceph", "mkdir", "config", "refuse"} : x = <<o>>
      BY <2>3
    <3>2. x[1] = o /\ x = <<x[1]>>
      BY <3>1
    <3> QED
      BY <3>2
  <2> QED
    BY <2>1, <2>2, <2>3 DEF SCVMCommands
<1>2. ASSUME NEW x \in SCVMCalls
      PROVE  x[1] \in {"start", "stop", "setup", "undefine", "gone"} /\ x = <<x[1]>>
  BY DEF SCVMCalls
<1> QED
  BY <1>1, <1>2

LEMMA SCVMStepFacts ==
    /\ \A x \in SCVMSteps : x.skip \in Nat /\ x.on \in Ons
    /\ \A x \in SCVMSteps : x.on = "call" => x.cmd \in SCVMCalls
    /\ \A x \in SCVMSteps : x.on # "call" => x.cmd \in SCVMCommands
    /\ \A x \in SCVMSteps : x.on # "verdict"
  BY DEF SCVMSteps, Ons

LEMMA SCVMMust ==
    ASSUME NEW cmd \in SCVMCommands, cmd[1] # "copy template", cmd[1] # "remove image", NEW m \in {"up", "down"}
    PROVE  /\ SCVMBrings(V!Must(cmd), m, "up")
           /\ cmd # <<"virsh", "start">> => SCVMBrings(V!Must(cmd), m, m)
<1>1. PICK x \in SCVMSteps : x = [cmd |-> cmd, on |-> "return", skip |-> 0]
  BY DEF SCVMSteps
<1>2. V!Must(cmd) = <<x>>
  BY <1>1 DEF V!Must, V!Step
<1>3. x \notin SCVMKinds.harms
  <2>1. <<"copy template">>[1] = "copy template" /\ <<"remove image">>[1] = "remove image"
    OBVIOUS
  <2> QED
    BY <1>1, <2>1 DEF SCVMKinds
<1>4. cmd # <<"virsh", "start">> => x \notin SCVMKinds.starts
  <2>1. cmd[1] \notin {"start", "setup"}
    BY SCVMCommandFacts
  <2>2. <<"start">>[1] = "start" /\ <<"setup">>[1] = "setup"
    OBVIOUS
  <2> QED
    BY <1>1, <2>1, <2>2 DEF SCVMKinds
<1> QED
  BY <1>1, <1>2, <1>3, <1>4, BringsOne, SCVMStepFacts DEF SCVMBrings

LEMMA SCVMCall ==
    ASSUME NEW cmd \in SCVMCalls, NEW m \in {"up", "down"}
    PROVE  /\ SCVMBrings(V!Call(cmd), m, "up")
           /\ cmd[1] \notin {"start", "setup"} => SCVMBrings(V!Call(cmd), m, m)
<1>1. PICK x \in SCVMSteps : x = [cmd |-> cmd, on |-> "call", skip |-> 0]
  BY DEF SCVMSteps
<1>2. V!Call(cmd) = <<x>>
  BY <1>1 DEF V!Call, V!Step
<1>3. cmd[1] \in {"start", "stop", "setup", "undefine", "gone"}
  BY SCVMCommandFacts
<1>4. x \notin SCVMKinds.harms
  <2>1. <<"copy template">>[1] = "copy template" /\ <<"remove image">>[1] = "remove image"
    OBVIOUS
  <2> QED
    BY <1>1, <1>3, <2>1 DEF SCVMKinds
<1>5. cmd[1] \notin {"start", "setup"} => x \notin SCVMKinds.starts
  <2>1. <<"start">>[1] = "start" /\ <<"setup">>[1] = "setup" /\ <<"virsh", "start">>[1] = "virsh"
    OBVIOUS
  <2> QED
    BY <1>1, <1>3, <2>1 DEF SCVMKinds
<1> QED
  BY <1>1, <1>2, <1>4, <1>5, BringsOne, SCVMStepFacts DEF SCVMBrings

LEMMA SCVMHarms ==
    ASSUME NEW cmd \in {<<"copy template">>, <<"remove image">>}
    PROVE  SCVMBrings(V!Must(cmd), "down", "down")
<1>1. cmd \in SCVMCommands /\ cmd[1] \in {"copy template", "remove image"}
  <2>1. CASE cmd = <<"copy template">>
    BY <2>1 DEF SCVMCommands
  <2>2. CASE cmd = <<"remove image">>
    BY <2>2 DEF SCVMCommands
  <2> QED
    BY <2>1, <2>2
<1>2. PICK x \in SCVMSteps : x = [cmd |-> cmd, on |-> "return", skip |-> 0]
  BY <1>1 DEF SCVMSteps
<1>3. V!Must(cmd) = <<x>>
  BY <1>2 DEF V!Must, V!Step
<1>4. x \notin SCVMKinds.starts
  <2>1. <<"start">>[1] = "start" /\ <<"setup">>[1] = "setup" /\ <<"virsh", "start">>[1] = "virsh"
    OBVIOUS
  <2> QED
    BY <1>1, <1>2, <2>1 DEF SCVMKinds
<1> QED
  BY <1>2, <1>3, <1>4, BringsOne, SCVMStepFacts DEF SCVMBrings

LEMMA SCVMDestroy ==
    SCVMBrings(V!Try(<<"virsh", "destroy">>), "up", "down")
<1>1. <<"virsh", "destroy">> \in SCVMCommands
  BY DEF SCVMCommands, VirshOps
<1>2. PICK x \in SCVMSteps : x = [cmd |-> <<"virsh", "destroy">>, on |-> "ignore", skip |-> 0]
  BY <1>1 DEF SCVMSteps
<1>3. V!Try(<<"virsh", "destroy">>) = <<x>>
  BY <1>2 DEF V!Try, V!Step
<1>4. x \in SCVMKinds.stops /\ x \notin SCVMKinds.harms
  <2>1. <<"copy template">>[1] = "copy template" /\ <<"remove image">>[1] = "remove image"
        /\ <<"virsh", "destroy">>[1] = "virsh"
    OBVIOUS
  <2> QED
    BY <1>2, <2>1 DEF SCVMKinds
<1> QED
  BY <1>2, <1>3, <1>4, BringsOne, SCVMStepFacts DEF SCVMBrings

LEMMA SCVMGone ==
    ASSUME NEW m \in {"up", "down"}
    PROVE  SCVMBrings(V!WaitForDomainGone, m, m)
<1> DEFINE x == [cmd |-> <<"virsh", "domstate">>, on |-> "ignore", skip |-> 1]
           y == [cmd |-> <<"gone">>, on |-> "call", skip |-> 0]
<1>1. x \in SCVMSteps /\ y \in SCVMSteps /\ x.skip = 1 /\ y.skip = 0
  BY DEF SCVMSteps, SCVMCommands, SCVMCalls, VirshOps
<1>2. /\ x \notin SCVMKinds.stops /\ x \notin SCVMKinds.starts /\ x \notin SCVMKinds.harms
      /\ y \notin SCVMKinds.stops /\ y \notin SCVMKinds.starts /\ y \notin SCVMKinds.harms
  <2>1. <<"copy template">>[1] = "copy template" /\ <<"remove image">>[1] = "remove image" /\ <<"start">>[1] = "start"
        /\ <<"virsh", "destroy">>[1] = "virsh" /\ <<"virsh", "destroy">>[2] = "destroy"
        /\ <<"virsh", "start">>[1] = "virsh" /\ <<"virsh", "start">>[2] = "start" /\ <<"setup">>[1] = "setup"
        /\ <<"gone">>[1] = "gone" /\ <<"virsh", "domstate">>[1] = "virsh" /\ <<"virsh", "domstate">>[2] = "domstate"
    OBVIOUS
  <2> QED
    BY <1>1, <2>1 DEF SCVMKinds
<1>3. V!WaitForDomainGone = <<x>> \o <<y>>
  BY DEF V!WaitForDomainGone, V!TryOr, V!Call, V!Step, V!V
<1> HIDE DEF x, y
<1>4. PICK s \in Seq(SCVMSteps), t \in Seq(SCVMSteps) : s = <<x>> /\ t = <<y>> /\ Len(s) = 1 /\ Len(t) = 1 /\ s[1] = x /\ t[1] = y
  <2>1. \A z \in SCVMSteps : <<z>> \in Seq(SCVMSteps) /\ Len(<<z>>) = 1 /\ <<z>>[1] = z
    OBVIOUS
  <2> QED
    BY <1>1, <2>1
<1>5. PICK u \in Seq(SCVMSteps) : u = s \o t
  BY ONLY <1>4, ConcatProperties
<1>6. Len(u) = 2 /\ u[1] = x /\ u[2] = y
  <2>1. 1 \in 1..1 /\ 1 + 1 = 2
    OBVIOUS
  <2>2. Len(u) = 1 + 1 /\ u[1] = s[1] /\ u[1 + 1] = t[1]
    BY ONLY <1>4, <1>5, <2>1, ConcatFacts
  <2> QED
    BY <1>4, <2>1, <2>2
<1>7. 1..Len(u) = {1, 2}
  BY <1>6
<1>8. Held(u, m, SCVMKinds) /\ Leaves2(u, m, SCVMKinds) = m
  <2>1. \A i \in 1..Len(u) : u[i] \notin SCVMKinds.stops /\ u[i] \notin SCVMKinds.starts /\ u[i] \notin SCVMKinds.harms
    BY <1>2, <1>6, <1>7
  <2> QED
    BY <2>1, HeldOthers
<1>9. Whole(u, SCVMKinds)
  <2>1. \A i \in 1..Len(u) : u[i] \notin SCVMKinds.stops /\ i + u[i].skip <= Len(u) /\ u[i].skip \in Nat
    BY <1>1, <1>2, <1>6, <1>7
  <2> QED
    BY <2>1, WholeOthers
<1> QED
  BY <1>3, <1>4, <1>5, <1>8, <1>9 DEF SCVMBrings, Brings

LEMMA SCVMThen ==
    ASSUME NEW s, NEW t, NEW m \in {"up", "down"}, NEW n \in {"up", "down"}, NEW p \in {"up", "down"},
           SCVMBrings(s, m, n), SCVMBrings(t, n, p)
    PROVE  SCVMBrings(s \o t, m, p)
  BY BringsThen, SCVMStepFacts DEF SCVMBrings

LEMMA SCVMOps ==
    /\ \A o \in VirshOps : V!V(o) = <<"virsh", o>> /\ V!V(o) \in SCVMCommands /\ V!V(o)[1] = "virsh" /\ V!V(o)[2] = o
    /\ \A o \in {"copy template", "remove image", "xml", "ceph", "mkdir", "config", "refuse"} :
          <<o>> \in SCVMCommands /\ <<o>>[1] = o
    /\ \A o \in {"start", "stop", "setup", "undefine", "gone"} : <<o>> \in SCVMCalls /\ <<o>>[1] = o
    /\ \A o \in {"vcpus", "memory"} : <<"virt-xml", o>> \in SCVMCommands /\ <<"virt-xml", o>>[1] = "virt-xml"
  BY DEF V!V, SCVMCommands, SCVMCalls, VirshOps

\* What a call does, at the time of the call.
LEMMA SCVMBody ==
    ASSUME NEW x, NEW cmd \in SCVMCalls, NEW m \in {"up", "down"}, ~V!Up(x) => m = "down"
    PROVE  SCVMBrings(V!Body(cmd, x), m, IF cmd[1] \in {"start", "setup"} THEN "up" ELSE m)
<1>1. PICK o \in {"start", "stop", "setup", "undefine", "gone"} : cmd = <<o>> /\ cmd[1] = o
  BY SCVMCommandFacts
<1>2. \A n \in {"up", "down"} : SCVMBrings(<<>>, n, n)
  BY BringsNone DEF SCVMBrings
<1>3. \A n \in {"up", "down"} : SCVMBrings(V!Must(V!V("start")) \o V!WaitForState("running"), n, "up")
  <2>1. \A n \in {"up", "down"} : SCVMBrings(V!Must(V!V("start")), n, "up")
    BY SCVMOps, SCVMMust DEF VirshOps
  <2>2. SCVMBrings(V!WaitForState("running"), "up", "up")
    BY SCVMOps, SCVMMust DEF VirshOps, V!WaitForState
  <2> QED
    BY <2>1, <2>2, SCVMThen
<1>4. \A n \in {"up", "down"}, p \in VirshOps \ {"start"} : SCVMBrings(V!Must(V!V(p)), n, n)
  <2> SUFFICES ASSUME NEW n \in {"up", "down"}, NEW p \in VirshOps \ {"start"}
               PROVE  SCVMBrings(V!Must(V!V(p)), n, n)
    OBVIOUS
  <2>1. V!V(p) \in SCVMCommands /\ V!V(p)[1] = "virsh" /\ V!V(p)[2] = p
    BY SCVMOps
  <2>2. V!V(p) # <<"virsh", "start">>
    BY <2>1
  <2> QED
    BY <2>1, <2>2, SCVMMust
<1>5. CASE o = "start"
  BY <1>1, <1>2, <1>3, <1>5, BringsLess DEF V!Body, V!StartSCVM, V!If, SCVMBrings
<1>6. CASE o = "stop"
  <2>1. SCVMBrings(V!Refuse, m, m)
    <3>1. <<"refuse">> \in SCVMCommands /\ <<"refuse">>[1] = "refuse" /\ <<"refuse">> # <<"virsh", "start">>
      BY SCVMOps
    <3> QED
      BY <3>1, SCVMMust DEF V!Refuse
  <2>2. SCVMBrings(V!Must(V!V("shutdown")) \o V!WaitForState("shut off"), m, m)
    BY <1>4, SCVMThen DEF VirshOps, V!WaitForState
  <2>3. V!Body(cmd, x) \in {<<>>, V!Refuse, V!Must(V!V("shutdown")) \o V!WaitForState("shut off")}
    BY <1>1, <1>6 DEF V!Body, V!StopSCVM
  <2> QED
    BY <1>1, <1>2, <1>6, <2>1, <2>2, <2>3
<1>7. CASE o = "setup"
  <2>1. CASE V!Up(x)
    <3>1. SCVMBrings(V!Must(V!V("autostart")), m, "up")
      BY <1>4, BringsLess DEF VirshOps, SCVMBrings
    <3> QED
      BY <1>1, <1>7, <2>1, <3>1 DEF V!Body, V!SetupSCVM
  <2>2. CASE ~V!Up(x)
    <3>1. SCVMBrings(V!CopySCVMFile, "down", "down")
      BY SCVMHarms DEF V!CopySCVMFile
    <3>2. SCVMBrings(V!Must(<<"xml">>), "down", "down")
      <4>1. <<"xml">> \in SCVMCommands /\ <<"xml">>[1] = "xml" /\ <<"xml">> # <<"virsh", "start">>
        BY SCVMOps
      <4> QED
        BY <4>1, SCVMMust
    <3>3. SCVMBrings(V!Must(V!V("define")), "down", "down")
      BY <1>4 DEF VirshOps
    <3>4. SCVMBrings(V!Call(<<"start">>), "down", "up")
      BY SCVMOps, SCVMCall
    <3>5. SCVMBrings(V!Must(V!V("autostart")), "up", "up")
      BY <1>4 DEF VirshOps
    <3>6. SCVMBrings(V!CopySCVMFile \o V!Must(<<"xml">>), "down", "down")
      BY <3>1, <3>2, SCVMThen
    <3>7. SCVMBrings(V!CopySCVMFile \o V!Must(<<"xml">>) \o V!Must(V!V("define")), "down", "down")
      BY <3>3, <3>6, SCVMThen
    <3>8. SCVMBrings(V!CopySCVMFile \o V!Must(<<"xml">>) \o V!Must(V!V("define")) \o V!Call(<<"start">>), "down", "up")
      BY <3>4, <3>7, SCVMThen
    <3>9. SCVMBrings(V!CopySCVMFile \o V!Must(<<"xml">>) \o V!Must(V!V("define")) \o V!Call(<<"start">>)
                     \o V!Must(V!V("autostart")), "down", "up")
      BY <3>5, <3>8, SCVMThen
    <3>10. m = "down"
      BY <2>2
    <3> QED
      BY <1>1, <1>7, <2>2, <3>9, <3>10 DEF V!Body, V!SetupSCVM
  <2> QED
    BY <2>1, <2>2
<1>8. CASE o = "undefine"
  <2>1. SCVMBrings(V!Must(V!V("undefine")), m, m)
    BY <1>4 DEF VirshOps
  <2> QED
    BY <1>1, <1>2, <1>8, <2>1 DEF V!Body, V!If
<1>9. CASE o = "gone"
  <2>1. SCVMBrings(V!Refuse, m, m)
    <3>1. <<"refuse">> \in SCVMCommands /\ <<"refuse">>[1] = "refuse" /\ <<"refuse">> # <<"virsh", "start">>
      BY SCVMOps
    <3> QED
      BY <3>1, SCVMMust DEF V!Refuse
  <2> QED
    BY <1>1, <1>2, <1>9, <2>1 DEF V!Body, V!If
<1> QED
  BY <1>5, <1>6, <1>7, <1>8, <1>9

LEMMA ConcatSome ==
    ASSUME NEW S, NEW s \in Seq(S), NEW t \in Seq(S), s # <<>> \/ t # <<>>
    PROVE  s \o t # <<>>
  OBVIOUS

\* What a request asks for begins with steps that harm no VM, whether it runs or not.
LEMMA SCVMStart ==
    ASSUME NEW x, NEW a \in V!Asks(x)
    PROVE  SCVMBrings(V!Start(a, x), "up", "up") /\ V!Start(a, x) # <<>>
<1>1. \A n \in {"up", "down"}, o \in {"xml", "ceph", "mkdir", "config", "refuse"} : SCVMBrings(V!Must(<<o>>), n, n)
  <2> SUFFICES ASSUME NEW n \in {"up", "down"}, NEW o \in {"xml", "ceph", "mkdir", "config", "refuse"}
               PROVE  SCVMBrings(V!Must(<<o>>), n, n)
    OBVIOUS
  <2>1. <<o>> \in SCVMCommands /\ <<o>>[1] = o /\ <<o>> # <<"virsh", "start">>
    BY SCVMOps
  <2> QED
    BY <2>1, SCVMMust
<1>2. SCVMBrings(V!Try(V!V("destroy")), "up", "down")
  BY SCVMDestroy DEF V!V
<1>3. SCVMBrings(V!Undefine, "down", "down")
  <2>1. <<"undefine">> \in SCVMCalls /\ <<"undefine">>[1] = "undefine"
    BY SCVMOps
  <2> QED
    BY <2>1, SCVMCall DEF V!Undefine
<1>5. CASE a.act = "delete"
  <2>1. SCVMBrings(V!Try(V!V("destroy")) \o V!Undefine, "up", "down")
    BY <1>2, <1>3, SCVMThen
  <2>2. SCVMBrings(V!WaitForDomainGone, "down", "down")
    BY SCVMGone
  <2>3. SCVMBrings(V!Try(V!V("destroy")) \o V!Undefine \o V!WaitForDomainGone, "up", "down")
    BY <2>1, <2>2, SCVMThen
  <2>4. SCVMBrings(V!RemoveCephConfigContents, "down", "down")
    BY <1>1 DEF V!RemoveCephConfigContents
  <2>5. SCVMBrings(V!DeleteSCVM, "up", "down")
    BY <2>3, <2>4, SCVMThen DEF V!DeleteSCVM
  <2>6. V!DeleteSCVM # <<>>
    <3>1. V!RemoveCephConfigContents # <<>>
      BY DEF V!RemoveCephConfigContents, V!Must, V!Step
    <3> QED
      BY <2>3, <2>4, <3>1, ConcatSome DEF V!DeleteSCVM, SCVMBrings, Brings
  <2> QED
    BY <1>5, <2>5, <2>6, BringsLess DEF V!Start, V!RunSCVMUpdateLocal, SCVMBrings
<1>6. CASE a.act = "resource"
  <2>1. \A o \in {"vcpus", "memory"} : SCVMBrings(V!Must(<<"virt-xml", o>>), "up", "up") /\ V!Must(<<"virt-xml", o>>) # <<>>
    <3> SUFFICES ASSUME NEW o \in {"vcpus", "memory"}
                 PROVE  SCVMBrings(V!Must(<<"virt-xml", o>>), "up", "up") /\ V!Must(<<"virt-xml", o>>) # <<>>
      OBVIOUS
    <3>1. <<"virt-xml", o>> \in SCVMCommands /\ <<"virt-xml", o>>[1] = "virt-xml"
      BY SCVMOps
    <3> QED
      BY <3>1, SCVMMust DEF V!Must, V!Step
  <2>2. SCVMBrings(<<>>, "up", "up")
    BY BringsNone DEF SCVMBrings
  <2>3. a.cpu \/ a.memory
    BY <1>6 DEF V!Asks
  <2>4. PICK s, t : /\ s = V!If(a.cpu, V!Must(<<"virt-xml", "vcpus">>)) /\ t = V!If(a.memory, V!Must(<<"virt-xml", "memory">>))
                    /\ SCVMBrings(s, "up", "up") /\ SCVMBrings(t, "up", "up") /\ (s # <<>> \/ t # <<>>)
    <3>1. \/ V!If(a.cpu, V!Must(<<"virt-xml", "vcpus">>)) = V!Must(<<"virt-xml", "vcpus">>)
          \/ V!If(a.cpu, V!Must(<<"virt-xml", "vcpus">>)) = <<>> /\ ~a.cpu
      BY DEF V!If
    <3>2. \/ V!If(a.memory, V!Must(<<"virt-xml", "memory">>)) = V!Must(<<"virt-xml", "memory">>)
          \/ V!If(a.memory, V!Must(<<"virt-xml", "memory">>)) = <<>> /\ ~a.memory
      BY DEF V!If
    <3> QED
      BY <2>1, <2>2, <2>3, <3>1, <3>2
  <2>5. SCVMBrings(s \o t, "up", "up")
    BY <2>4, SCVMThen
  <2>6. s \o t # <<>>
    BY <2>4, ConcatSome DEF SCVMBrings, Brings
  <2> QED
    BY <1>6, <2>4, <2>5, <2>6 DEF V!Start, V!RunSCVMUpdateLocal, V!UpdateResource
<1>7. CASE a.act = "reset"
  <2>1. SCVMBrings(V!Must(<<"mkdir">>) \o V!Try(V!V("destroy")), "up", "down")
    BY <1>1, <1>2, SCVMThen
  <2>2. SCVMBrings(V!Must(<<"mkdir">>) \o V!Try(V!V("destroy")) \o V!Undefine, "up", "down")
    BY <1>3, <2>1, SCVMThen
  <2>3. SCVMBrings(V!Must(<<"mkdir">>) \o V!Try(V!V("destroy")) \o V!Undefine \o V!Must(<<"remove image">>), "up", "down")
    BY <2>2, SCVMHarms, SCVMThen
  <2>4. SCVMBrings(V!Must(<<"mkdir">>) \o V!Try(V!V("destroy")) \o V!Undefine \o V!Must(<<"remove image">>)
                   \o V!RemoveCephConfigContents, "up", "down")
    BY <1>1, <2>3, SCVMThen DEF V!RemoveCephConfigContents
  <2>5. SCVMBrings(V!RemoveDirContents, "down", "down") /\ V!RemoveDirContents # <<>>
    BY <1>1 DEF V!RemoveDirContents, V!Must, V!Step
  <2>6. SCVMBrings(V!ResetSCVM, "up", "down")
    BY <2>4, <2>5, SCVMThen DEF V!ResetSCVM
  <2>7. V!ResetSCVM # <<>>
    <3>1. PICK s, t : /\ s = V!Must(<<"mkdir">>) \o V!Try(V!V("destroy")) \o V!Undefine \o V!Must(<<"remove image">>)
                             \o V!RemoveCephConfigContents
                      /\ t = V!RemoveDirContents
      OBVIOUS
    <3>2. s \in Seq(SCVMSteps) /\ t \in Seq(SCVMSteps) /\ t # <<>>
      BY <2>4, <2>5, <3>1 DEF SCVMBrings, Brings
    <3>3. s \o t # <<>>
      BY ONLY <3>2, ConcatSome
    <3> QED
      BY <3>1, <3>3 DEF V!ResetSCVM
  <2> QED
    BY <1>7, <2>6, <2>7, BringsLess DEF V!Start, V!RunSCVMUpdateLocal, SCVMBrings
<1>8. CASE a.act \in {"start", "stop", "setup"}
  <2>1. <<a.act>> \in SCVMCalls
    BY <1>8, SCVMOps
  <2>2. V!Start(a, x) = V!Call(<<a.act>>)
    BY <1>8 DEF V!Start, V!RunSCVMUpdateLocal
  <2>3. V!Call(<<a.act>>) # <<>>
    BY DEF V!Call, V!Step
  <2> QED
    BY <2>1, <2>2, <2>3, SCVMCall
<1> QED
  BY <1>5, <1>6, <1>7, <1>8 DEF V!Asks

SCVMGood(x) == x \in SCVMWorld /\ (x.auto => x.dom \in {"off", "running"})

LEMMA SCVMEffect ==
    ASSUME NEW x, SCVMGood(x), NEW cmd \in SCVMCommands, NEW y \in V!Effect(cmd, x)
    PROVE  /\ SCVMGood(y)
           /\ cmd = <<"virsh", "destroy">> => ~V!Up(y)
           /\ cmd # <<"virsh", "start">> /\ ~V!Up(x) => ~V!Up(y)
           /\ ~x.ripped /\ (cmd \in {<<"copy template">>, <<"remove image">>} => ~V!Up(x)) => ~y.ripped
<1>1. CASE cmd[1] = "virsh"
  <2>1. cmd = <<"virsh", cmd[2]>> /\ cmd[2] \in VirshOps
    BY <1>1, SCVMCommandFacts
  <2>2. PICK o \in VirshOps : o = cmd[2] /\ cmd = <<"virsh", o>>
    BY <2>1
  <2>3. y \in V!Virsh(o, x)
    BY <1>1, <2>2 DEF V!Effect
  <2>4. (cmd = <<"virsh", "destroy">> <=> o = "destroy") /\ (cmd = <<"virsh", "start">> <=> o = "start")
    BY <2>2
  <2>5. /\ SCVMGood(y) /\ y.ripped = x.ripped
        /\ o = "destroy" => ~V!Up(y)
        /\ o # "start" /\ ~V!Up(x) => ~V!Up(y)
    <3>1. CASE o = "start"
      BY <2>3, <3>1 DEF V!Virsh, V!Only, V!Up, SCVMGood, SCVMWorld
    <3>2. CASE o \in {"running", "shut off", "domstate"}
      BY <2>3, <3>2 DEF V!Virsh, V!Only, V!Up, SCVMGood, SCVMWorld
    <3>3. CASE o = "shutdown"
      BY <2>3, <3>3 DEF V!Virsh, V!Only, V!Up, SCVMGood, SCVMWorld
    <3>4. CASE o = "destroy"
      BY <2>3, <3>4 DEF V!Virsh, V!Only, V!Up, SCVMGood, SCVMWorld
    <3>5. CASE o = "undefine"
      BY <2>3, <3>5 DEF V!Virsh, V!Only, V!Up, SCVMGood, SCVMWorld
    <3>6. CASE o = "define"
      BY <2>3, <3>6 DEF V!Virsh, V!Only, V!Up, SCVMGood, SCVMWorld
    <3>7. CASE o = "autostart"
      BY <2>3, <3>7 DEF V!Virsh, V!Only, V!Up, SCVMGood, SCVMWorld
    <3> QED
      BY <3>1, <3>2, <3>3, <3>4, <3>5, <3>6, <3>7 DEF VirshOps
  <2> QED
    BY <2>4, <2>5
<1>2. CASE cmd[1] # "virsh"
  <2>1. cmd # <<"virsh", "destroy">> /\ cmd # <<"virsh", "start">>
    BY <1>2
  <2>2. CASE cmd[1] \in {"copy template", "remove image"}
    <3>1. cmd \in {<<"copy template">>, <<"remove image">>}
      BY <2>2, SCVMCommandFacts
    <3>2. y = [x EXCEPT !.image = "fresh", !.ripped = V!Overwritten(x)] \/ y = [x EXCEPT !.image = "none", !.ripped = V!Overwritten(x)]
      BY <2>2 DEF V!Effect
    <3>3. V!Overwritten(x) \in BOOLEAN
      BY DEF V!Overwritten, SCVMGood, SCVMWorld
    <3>4. y \in SCVMWorld /\ y.dom = x.dom /\ y.auto = x.auto /\ y.ripped = V!Overwritten(x)
      BY <3>2, <3>3 DEF SCVMGood, SCVMWorld
    <3> QED
      BY <2>1, <3>1, <3>4 DEF SCVMGood, V!Overwritten, V!Up
  <2>3. CASE cmd[1] \in {"xml", "ceph", "mkdir", "config", "virt-xml", "refuse"}
    BY <2>1, <2>3 DEF V!Effect, V!Only, SCVMGood, SCVMWorld, V!Up
  <2> QED
    BY <1>2, <2>2, <2>3, SCVMCommandFacts
<1> QED
  BY <1>1, <1>2

\* While one request is alone, nothing else has steps left.
LEMMA AloneStep ==
    ASSUME NEW c \in Requester, Alone, Works(c), \A d \in Requester : d # c => req'[d] = req[d]
    PROVE  Alone' /\ \A d \in Requester : req'[d].state = "runs" => d = c
<1>1. \A d \in Requester : req'[d].state = "runs" => d = c
  BY DEF Alone, Works
<1> QED
  BY <1>1 DEF Alone, Works

\* A request that arrives while none is at work.
LEMMA AloneArrives ==
    ASSUME NEW c \in Requester, \A d \in Requester : d # c => req'[d] = req[d], \A d \in Requester : ~Works(d)
    PROVE  Alone' /\ \A d \in Requester : req'[d].state = "runs" => d = c
<1>1. \A d \in Requester : req'[d].state = "runs" => d = c
  BY DEF Works
<1> QED
  BY <1>1 DEF Alone, Works

LEMMA ModeIs ==
    ASSUME NEW b \in BOOLEAN
    PROVE  Mode(b) \in {"up", "down"} /\ (Mode(b) = "down" <=> ~b)
  BY DEF Mode

SCVMHolds == ~w.ripped /\ HeldBy(SCVMMode, SCVMKinds)
SCVMInv ==
    /\ overlap \in BOOLEAN /\ SCVMGood(w) /\ ReqTyped(SCVMSteps, SCVMKinds)
    /\ ~overlap => Alone
    /\ ~overlap /\ V!V("destroy") \notin lost => SCVMHolds

LEMMA SCVMUp ==
    ASSUME NEW x
    PROVE  V!Up(x) \in BOOLEAN /\ Mode(V!Up(x)) \in {"up", "down"} /\ (Mode(V!Up(x)) = "down" <=> ~V!Up(x))
<1>1. V!Up(x) \in BOOLEAN
  BY DEF V!Up
<1> QED
  BY <1>1, ModeIs

LEMMA SCVMInit ==
    ASSUME V!Init
    PROVE  SCVMInv
<1>1. SCVMGood(w) /\ ~w.ripped
  <2>1. w = V!NoSCVM \/ w = V!Deployed
    BY DEF V!Init, V!Begins
  <2>2. V!NoSCVM \in SCVMWorld /\ ~V!NoSCVM.ripped /\ ~V!NoSCVM.auto
    BY DEF V!NoSCVM, SCVMWorld
  <2>3. V!Deployed \in SCVMWorld /\ ~V!Deployed.ripped /\ V!Deployed.dom = "running"
    BY DEF V!NoSCVM, V!Deployed, SCVMWorld
  <2> QED
    BY <2>1, <2>2, <2>3 DEF SCVMGood
<1>2. DOMAIN req = Requester /\ \A c \in Requester : DOMAIN req[c] = {"ask", "state", "run"} /\ ~Works(c)
  BY DEF V!Init, V!Idle, Works
<1> QED
  BY <1>1, <1>2 DEF SCVMInv, SCVMHolds, HeldBy, Alone, ReqTyped, V!Init

LEMMA SCVMRequest ==
    ASSUME SCVMInv, NEW c \in Requester, V!Request(c)
    PROVE  SCVMInv'
<1>1. PICK a \in V!Asks(w) : req' = [req EXCEPT ![c] = [ask |-> a, state |-> "runs", run |-> V!Handler(V!Start(a, w))]]
  BY DEF V!Request
<1>2. SCVMBrings(V!Start(a, w), "up", "up") /\ V!Start(a, w) # <<>>
  BY SCVMStart
<1>3. PICK t : t = V!Start(a, w)
  OBVIOUS
<1>4. V!Handler(V!Start(a, w)) = At(t, FALSE)
  BY <1>3 DEF V!Handler, At
<1>5. t \in Seq(SCVMSteps) /\ Whole(t, SCVMKinds) /\ Held(t, "up", SCVMKinds) /\ t # <<>>
  BY <1>2, <1>3 DEF SCVMBrings, Brings
<1>6. /\ ReqTyped(SCVMSteps, SCVMKinds)' /\ (\A d \in Requester : d # c => req'[d] = req[d])
      /\ req'[c].run.todo = t
  <2>1. Arrives(c, a, t)
    BY <1>1, <1>4, Zenon DEF Arrives
  <2>2. ReqTyped(SCVMSteps, SCVMKinds)
    BY DEF SCVMInv
  <2> QED
    BY <1>5, <2>1, <2>2, Arriving
<1>7. w' = w /\ lost' = lost /\ overlap' = (overlap \/ V!Running # {}) /\ overlap' \in BOOLEAN
  BY DEF V!Request
<1>8. ~overlap' => /\ ~overlap /\ Alone'
                   /\ \A d \in Requester : req'[d].state = "runs" => d = c
  <2>1. ~overlap' => ~overlap /\ \A d \in Requester : ~Works(d)
    BY <1>7, SameRunners
  <2> QED
    BY <1>6, <2>1, AloneArrives
<1>9. ASSUME ~overlap', V!V("destroy") \notin lost'
      PROVE  SCVMHolds'
  <2>1. SCVMHolds
    BY <1>7, <1>8, <1>9 DEF SCVMInv
  <2>2. Held(t, Mode(V!Up(w)), SCVMKinds)
    BY <1>5, SCVMUp, HeldMore
  <2>3. Held(t, Mode(V!Up(w')), SCVMKinds)
    BY <1>7, <2>2
  <2> QED
    BY <1>6, <1>7, <1>8, <1>9, <2>1, <2>3 DEF SCVMHolds, HeldBy, SCVMMode, Works
<1> QED
  <2>1. (V!V("destroy"))' = V!V("destroy")
    BY DEF V!V
  <2> QED
    BY <1>6, <1>7, <1>8, <1>9, <2>1 DEF SCVMInv

LEMMA SCVMContinue ==
    ASSUME SCVMInv, NEW c \in Requester, Works(c), V!Continue(c)
    PROVE  SCVMInv'
<1>1. PICK r : r = V!Inside(req[c].run, LAMBDA cmd : V!Body(cmd, w)) /\ V!Becomes(c, r)
  BY DEF V!Continue
<1>2. w' = w /\ lost' = lost /\ overlap' = overlap
  BY DEF V!Continue
<1>3. GoesOn(c, r)
  BY <1>1, SameRunners
<1>4. \A x \in SCVMSteps : x.skip \in Nat /\ x.on \in Ons
  BY SCVMStepFacts
<1>5. ReqTyped(SCVMSteps, SCVMKinds)
  BY DEF SCVMInv
<1>6. /\ First(c) \in SCVMSteps /\ Sc!Now(req[c].run) = First(c).cmd
      /\ Sc!Inner(req[c].run) <=> First(c).on \in {"verdict", "call"}
  BY <1>4, <1>5, Proceeds
<1>7. V!Inner(req[c].run) /\ V!Inner(req[c].run) = Sc!Inner(req[c].run) /\ V!Now(req[c].run) = Sc!Now(req[c].run)
  BY SameScripts DEF V!Continue
<1>8. First(c).on = "call" /\ First(c).cmd \in SCVMCalls
  BY <1>6, <1>7, SCVMStepFacts
<1>9. PICK b : b = V!Body(First(c).cmd, w)
  OBVIOUS
<1>10. r = Sc!Settle([req[c].run EXCEPT !.todo = b \o Tail(@)])
  <2>1. V!On(req[c].run) = "call"
    BY <1>8 DEF V!On, First
  <2>2. r = V!Settle([req[c].run EXCEPT !.todo = V!Body(V!Now(req[c].run), w) \o Tail(@)])
    BY <1>1, <2>1 DEF V!Inside
  <2>3. V!Body(V!Now(req[c].run), w) = b
    BY <1>6, <1>7, <1>9
  <2> QED
    BY <2>2, <2>3 DEF V!Settle, Sc!Settle
<1>11. \A m \in {"up", "down"} : (~V!Up(w) => m = "down") =>
          SCVMBrings(b, m, IF First(c).cmd[1] \in {"start", "setup"} THEN "up" ELSE m)
  BY <1>8, <1>9, SCVMBody
<1>12. b \in Seq(SCVMSteps) /\ Whole(b, SCVMKinds)
  BY <1>11 DEF SCVMBrings, Brings
<1>13. /\ r \in Handlers(SCVMSteps) /\ Whole(r.todo, SCVMKinds)
       /\ \A m \in {"up", "down"} :
             /\ Held(req[c].run.todo, m, SCVMKinds) /\ First(c) \notin SCVMKinds.stops
             /\ First(c).on = "call" => Brings(b, m, IF First(c) \in SCVMKinds.starts THEN "up" ELSE m, SCVMSteps, SCVMKinds)
             /\ First(c).on = "verdict" => First(c) \notin SCVMKinds.starts
             => Held(r.todo, m, SCVMKinds)
  BY <1>4, <1>5, <1>8, <1>10, <1>12, Turns
<1>14. First(c) \notin SCVMKinds.stops /\ (First(c) \in SCVMKinds.starts <=> First(c).cmd[1] \in {"start", "setup"})
  <2>1. First(c).cmd \in {<<"start">>, <<"stop">>, <<"setup">>, <<"undefine">>, <<"gone">>}
    BY <1>8 DEF SCVMCalls
  <2>2. PICK o \in {"start", "stop", "setup", "undefine", "gone"} : First(c).cmd = <<o>>
    BY <2>1
  <2>3. <<o>>[1] = o /\ <<"virsh", "destroy">> # <<o>> /\ <<"virsh", "start">> # <<o>>
        /\ (<<o>> = <<"start">> <=> o = "start") /\ (<<o>> = <<"setup">> <=> o = "setup")
    BY <2>2
  <2> QED
    BY <1>6, <2>2, <2>3 DEF SCVMKinds
<1>15. /\ ReqTyped(SCVMSteps, SCVMKinds)' /\ (\A d \in Requester : d # c => req'[d] = req[d])
       /\ req'[c].state = "runs" => req'[c].run = r
  BY <1>3, <1>5, <1>13, GoingOn
<1>16. ~overlap' => Alone' /\ \A d \in Requester : req'[d].state = "runs" => d = c
  BY <1>2, <1>15, AloneStep DEF SCVMInv
<1>17. ASSUME ~overlap', V!V("destroy") \notin lost'
       PROVE  SCVMHolds'
  <2>1. SCVMHolds
    BY <1>2, <1>17 DEF SCVMInv
  <2>2. PICK m \in {"up", "down"} : m = Mode(V!Up(w))
    BY SCVMUp
  <2>3. Held(req[c].run.todo, m, SCVMKinds) /\ (~V!Up(w) => m = "down")
    BY <2>1, <2>2, SCVMUp DEF SCVMHolds, HeldBy, SCVMMode
  <2>4. Brings(b, m, IF First(c) \in SCVMKinds.starts THEN "up" ELSE m, SCVMSteps, SCVMKinds)
    BY <1>11, <1>14, <2>3 DEF SCVMBrings
  <2>5. Held(r.todo, m, SCVMKinds)
    BY <1>8, <1>13, <1>14, <2>3, <2>4
  <2> QED
    BY <1>2, <1>15, <1>16, <1>17, <2>1, <2>2, <2>5 DEF SCVMHolds, HeldBy, SCVMMode, Works
<1> QED
  <2>1. (V!V("destroy"))' = V!V("destroy")
    BY DEF V!V
  <2> QED
    BY <1>2, <1>15, <1>16, <1>17, <2>1 DEF SCVMInv

\* What a command of the handler of c leaves, when it has passed or failed.
LEMMA SCVMCommandStep ==
    ASSUME SCVMInv, NEW c \in Requester, Works(c), NEW r, r \in {Sc!Passes(req[c].run), Sc!Fails(req[c].run)},
           GoesOn(c, r), ~Sc!Inner(req[c].run), w' \in {w} \cup V!Effect(Sc!Now(req[c].run), w),
           overlap' = overlap, lost \subseteq lost',
           Sc!Now(req[c].run) = V!V("destroy") /\ V!V("destroy") \notin lost' => ~V!Up(w')
    PROVE  SCVMInv'
<1>1. \A x \in SCVMSteps : x.skip \in Nat /\ x.on \in Ons
  BY SCVMStepFacts
<1>2. ReqTyped(SCVMSteps, SCVMKinds) /\ SCVMGood(w)
  BY DEF SCVMInv
<1>3. /\ First(c) \in SCVMSteps /\ Sc!Now(req[c].run) = First(c).cmd
      /\ Sc!Inner(req[c].run) <=> First(c).on \in {"verdict", "call"}
      /\ r \in Handlers(SCVMSteps) /\ Whole(r.todo, SCVMKinds)
      /\ \A m, n \in {"up", "down"} :
            /\ Held(req[c].run.todo, m, SCVMKinds)
            /\ Leaves2(<<First(c)>>, m, SCVMKinds) = "down" => n = "down"
            => /\ First(c) \in SCVMKinds.harms => m = "down"
               /\ \/ r = Sc!Passes(req[c].run)
                  \/ First(c).on = "return" \/ First(c) \notin SCVMKinds.skips \/ n = "down"
                  => Held(r.todo, n, SCVMKinds)
  BY <1>1, <1>2, Proceeds
<1>4. First(c).cmd \in SCVMCommands
  BY <1>3, SCVMStepFacts
<1>5. PICK y : y = w' /\ y \in {w} \cup V!Effect(First(c).cmd, w)
  BY <1>3
<1>6. /\ SCVMGood(y)
      /\ First(c).cmd # <<"virsh", "start">> /\ ~V!Up(w) => ~V!Up(y)
      /\ ~w.ripped /\ (First(c).cmd \in {<<"copy template">>, <<"remove image">>} => ~V!Up(w)) => ~y.ripped
  BY <1>2, <1>4, <1>5, SCVMEffect
<1>7. /\ ReqTyped(SCVMSteps, SCVMKinds)' /\ (\A d \in Requester : d # c => req'[d] = req[d])
      /\ req'[c].state = "runs" => req'[c].run = r
  BY <1>2, <1>3, GoingOn
<1>8. ~overlap' => Alone' /\ \A d \in Requester : req'[d].state = "runs" => d = c
  BY <1>7, AloneStep DEF SCVMInv
<1>9. First(c) \in SCVMKinds.stops => First(c).cmd = V!V("destroy")
  BY DEF SCVMKinds, V!V
<1>10. First(c) \notin SCVMKinds.starts => First(c).cmd # <<"virsh", "start">>
  BY <1>3 DEF SCVMKinds
<1>11. First(c).cmd \in {<<"copy template">>, <<"remove image">>} => First(c) \in SCVMKinds.harms
  BY <1>3 DEF SCVMKinds
<1>12. First(c) \notin SCVMKinds.skips
  BY DEF SCVMKinds
<1>13. ASSUME ~overlap', V!V("destroy") \notin lost'
       PROVE  SCVMHolds'
  <2>1. SCVMHolds
    BY <1>13 DEF SCVMInv
  <2>2. PICK m \in {"up", "down"} : m = Mode(V!Up(w)) /\ (m = "down" <=> ~V!Up(w))
    BY SCVMUp
  <2>3. PICK n \in {"up", "down"} : n = Mode(V!Up(y)) /\ (n = "down" <=> ~V!Up(y))
    BY SCVMUp
  <2>4. Held(req[c].run.todo, m, SCVMKinds) /\ ~w.ripped
    BY <2>1, <2>2 DEF SCVMHolds, HeldBy, SCVMMode
  <2>5. Leaves2(<<First(c)>>, m, SCVMKinds) = "down" => n = "down"
    <3>1. Leaves2(<<First(c)>>, m, SCVMKinds) = "down" =>
             First(c) \in SCVMKinds.stops \/ (m = "down" /\ First(c) \notin SCVMKinds.starts)
      BY HeldOne
    <3>2. First(c) \in SCVMKinds.stops => ~V!Up(y)
      BY <1>3, <1>5, <1>9, <1>13
    <3> QED
      BY <1>6, <1>10, <2>2, <2>3, <3>1, <3>2
  <2>6. (First(c) \in SCVMKinds.harms => m = "down") /\ Held(r.todo, n, SCVMKinds)
    BY <1>3, <1>12, <2>4, <2>5
  <2>7. ~y.ripped
    BY <1>6, <1>11, <2>2, <2>4, <2>6
  <2>8. SCVMMode' = n
    BY <1>5, <2>3 DEF SCVMMode
  <2>9. \A d \in Requester : Works(d)' => Held(req'[d].run.todo, n, SCVMKinds)
    BY <1>7, <1>8, <1>13, <2>6 DEF Works
  <2> QED
    BY <1>5, <2>7, <2>8, <2>9 DEF SCVMHolds, HeldBy
<1> QED
  <2>1. (V!V("destroy"))' = V!V("destroy")
    BY DEF V!V
  <2>2. overlap' \in BOOLEAN
    BY DEF SCVMInv
  <2> QED
    BY <1>5, <1>6, <1>7, <1>8, <1>13, <2>1, <2>2 DEF SCVMInv

LEMMA SCVMCommand ==
    ASSUME SCVMInv, NEW c \in Requester, Works(c), V!Command(c) \/ V!CommandFails(c)
    PROVE  SCVMInv'
<1>1. ~Sc!Inner(req[c].run) /\ V!Now(req[c].run) = Sc!Now(req[c].run)
      /\ V!Passes(req[c].run) = Sc!Passes(req[c].run) /\ V!Fails(req[c].run) = Sc!Fails(req[c].run)
  BY SameScripts DEF V!Command, V!CommandFails
<1>2. \A r : V!Becomes(c, r) => GoesOn(c, r)
  BY SameRunners
<1>3. First(c).cmd \in SCVMCommands /\ Sc!Now(req[c].run) = First(c).cmd
  <2>1. \A x \in SCVMSteps : x.skip \in Nat /\ x.on \in Ons
    BY SCVMStepFacts
  <2>2. /\ First(c) \in SCVMSteps /\ Sc!Now(req[c].run) = First(c).cmd
        /\ Sc!Inner(req[c].run) <=> First(c).on \in {"verdict", "call"}
    BY <2>1, Proceeds DEF SCVMInv
  <2> QED
    BY <1>1, <2>2, SCVMStepFacts
<1>4. V!V("destroy") = <<"virsh", "destroy">>
  BY DEF V!V
<1>5. CASE V!CommandFails(c)
  <2>1. /\ GoesOn(c, Sc!Fails(req[c].run)) /\ overlap' = overlap
        /\ w' \in {w} \cup V!Effect(Sc!Now(req[c].run), w)
        /\ lost' = lost \cup {Sc!Now(req[c].run)}
    BY <1>1, <1>2, <1>5 DEF V!CommandFails, V!Matters
  <2> QED
    BY <1>1, <2>1, SCVMCommandStep
<1>6. CASE w' \in V!Effect(Sc!Now(req[c].run), w) /\ V!Becomes(c, Sc!Passes(req[c].run)) /\ UNCHANGED <<overlap, lost>>
  <2>1. PICK y : y = w' /\ y \in V!Effect(First(c).cmd, w)
    BY <1>3, <1>6
  <2>2. First(c).cmd = <<"virsh", "destroy">> => ~V!Up(y)
    BY <1>3, <2>1, SCVMEffect DEF SCVMInv
  <2>3. Sc!Now(req[c].run) = V!V("destroy") /\ V!V("destroy") \notin lost' => ~V!Up(w')
    BY <1>3, <1>4, <2>1, <2>2
  <2> QED
    BY <1>1, <1>2, <1>6, <2>3, SCVMCommandStep
<1>7. CASE /\ V!Effect(Sc!Now(req[c].run), w) = {} /\ V!Becomes(c, Sc!Fails(req[c].run))
           /\ UNCHANGED <<w, overlap, lost>>
  <2>1. First(c).cmd = <<"virsh", "destroy">> => ~V!Up(w)
    <3>1. <<"virsh", "destroy">>[1] = "virsh" /\ <<"virsh", "destroy">>[2] = "destroy"
      OBVIOUS
    <3>2. First(c).cmd = <<"virsh", "destroy">> => V!Virsh("destroy", w) = {}
      BY <1>3, <1>7, <3>1 DEF V!Effect
    <3> QED
      BY <3>2 DEF V!Virsh, V!Only
  <2>2. PICK y : y = w' /\ y = w
    BY <1>7
  <2>3. Sc!Now(req[c].run) = V!V("destroy") /\ V!V("destroy") \notin lost' => ~V!Up(w')
    BY <1>3, <1>4, <2>1, <2>2
  <2> QED
    BY <1>1, <1>2, <1>7, <2>3, SCVMCommandStep
<1> QED
  BY <1>1, <1>5, <1>6, <1>7 DEF V!Command

LEMMA SCVMNext ==
    ASSUME SCVMInv, V!Next
    PROVE  SCVMInv'
<1>1. CASE \E c \in Requester : V!Request(c)
  BY <1>1, SCVMRequest
<1>2. ASSUME NEW c \in V!Running, V!Continue(c) \/ V!Command(c) \/ V!CommandFails(c)
      PROVE  SCVMInv'
  <2>1. c \in Requester /\ Works(c)
    BY DEF V!Running, Works
  <2> QED
    BY <1>2, <2>1, SCVMContinue, SCVMCommand
<1>3. ASSUME NEW c \in V!Running, V!ServerStops(c)
      PROVE  SCVMInv'
  <2>1. c \in Requester /\ Works(c)
    BY DEF V!Running, Works
  <2>2. Stops(c) /\ w' = w /\ overlap' = overlap /\ lost \subseteq lost'
    BY <1>3, <2>1, SameRunners
  <2>3. PICK r : r = NoReq.run
    OBVIOUS
  <2>4. ReqTyped(SCVMSteps, SCVMKinds)
    BY DEF SCVMInv
  <2>5. /\ DOMAIN req' = Requester /\ req'[c] = NoReq /\ \A d \in Requester : d # c => req'[d] = req[d]
    BY <2>1, <2>2, <2>4 DEF Stops, ReqTyped
  <2>6. DOMAIN NoReq = {"ask", "state", "run"} /\ NoReq.state = "done"
    BY DEF NoReq
  <2>7. ReqTyped(SCVMSteps, SCVMKinds)'
    BY <2>4, <2>5, <2>6 DEF ReqTyped, Works
  <2>8. ~overlap' => Alone'
    BY <2>1, <2>2, <2>5, AloneStep DEF SCVMInv
  <2>9. ASSUME ~overlap', V!V("destroy") \notin lost'
        PROVE  SCVMHolds'
    <3>1. SCVMHolds
      BY <2>2, <2>9 DEF SCVMInv
    <3> QED
      BY <2>2, <2>5, <2>6, <3>1 DEF SCVMHolds, HeldBy, SCVMMode, Works
  <2> QED
    <3>1. (V!V("destroy"))' = V!V("destroy")
      BY DEF V!V
    <3> QED
      BY <2>2, <2>7, <2>8, <2>9, <3>1 DEF SCVMInv
<1>4. CASE V!Drift
  BY <1>4 DEF V!Drift, V!Drifts
<1> QED
  BY <1>1, <1>2, <1>3, <1>4 DEF V!Next

LEMMA SCVMStays ==
    ASSUME SCVMInv, UNCHANGED running
    PROVE  SCVMInv'
<1>1. (V!V("destroy"))' = V!V("destroy")
  BY DEF V!V
<1>2. w' = w /\ req' = req /\ overlap' = overlap /\ lost' = lost
  BY DEF running
<1> QED
  BY <1>1, <1>2 DEF SCVMInv, SCVMHolds, HeldBy, SCVMMode, Alone, ReqTyped, Works

LEMMA SCVMImplies ==
    ASSUME SCVMInv
    PROVE  V!TypeOK /\ V!SCVMDiskIsHeld
  BY DEF SCVMInv, SCVMHolds, SCVMGood, SCVMWorld, V!TypeOK, V!SCVMDiskIsHeld

-----------------------------------------------------------------------------
(* Steps with what is known before and after each                            *)

\* F has the steps with what may be known before and after them: t leads from p to q.
Leads(t, p, q, F) ==
    \E s : /\ s[1] = p /\ s[Len(t) + 1] = q
           /\ \A i \in 1..Len(t) : <<t[i], s[i], s[i + 1]>> \in F

LEMMA LeadsOne ==
    ASSUME NEW x, NEW p, NEW q, NEW F, <<x, p, q>> \in F
    PROVE  Leads(<<x>>, p, q, F)
<1>1. PICK s : s = [i \in 1..2 |-> IF i = 1 THEN p ELSE q]
  OBVIOUS
<1>2. s[1] = p /\ s[2] = q /\ Len(<<x>>) = 1 /\ 1 + 1 = 2 /\ 1..1 = {1} /\ <<x>>[1] = x
  BY <1>1
<1> QED
  BY <1>2 DEF Leads

LEMMA LeadsThen ==
    ASSUME NEW S, NEW t \in Seq(S), NEW u \in Seq(S), NEW p, NEW q, NEW r, NEW F,
           Leads(t, p, q, F), Leads(u, q, r, F)
    PROVE  Leads(t \o u, p, r, F)
<1>1. PICK m \in Nat, l \in Nat : m = Len(t) /\ l = Len(u)
  OBVIOUS
<1>2. PICK s : s[1] = p /\ s[m + 1] = q /\ \A i \in 1..m : <<t[i], s[i], s[i + 1]>> \in F
  BY <1>1 DEF Leads
<1>3. PICK v : v[1] = q /\ v[l + 1] = r /\ \A i \in 1..l : <<u[i], v[i], v[i + 1]>> \in F
  BY <1>1 DEF Leads
<1>4. PICK z : z = [i \in 1..(m + l + 1) |-> IF i <= m THEN s[i] ELSE v[i - m]]
  OBVIOUS
<1>5. /\ \A i \in 1..m : z[i] = s[i]
      /\ \A i \in 1..(l + 1) : z[m + i] = v[i]
  <2>1. \A i \in 1..m : i \in 1..(m + l + 1) /\ i <= m
    OBVIOUS
  <2>2. \A i \in 1..(l + 1) : m + i \in 1..(m + l + 1) /\ ~(m + i <= m) /\ (m + i) - m = i
    OBVIOUS
  <2> QED
    BY <1>4, <2>1, <2>2
<1>6. z[1] = p
  <2>1. CASE m = 0
    <3>1. 1 \in 1..(l + 1) /\ m + 1 = 1
      BY <2>1
    <3> QED
      BY <1>2, <1>3, <1>5, <3>1
  <2>2. CASE m # 0
    <3>1. 1 \in 1..m
      BY <2>2
    <3> QED
      BY <1>2, <1>5, <3>1
  <2> QED
    BY <2>1, <2>2
<1>7. z[m + l + 1] = r
  <2>1. l + 1 \in 1..(l + 1) /\ m + (l + 1) = m + l + 1
    OBVIOUS
  <2> QED
    BY <1>3, <1>5, <2>1
<1>8. z[m + 1] = q
  <2>1. 1 \in 1..(l + 1)
    OBVIOUS
  <2> QED
    BY <1>3, <1>5, <2>1
<1>9. PICK y : y = t \o u /\ Len(y) = m + l /\ (\A j \in 1..m : y[j] = t[j]) /\ \A j \in 1..l : y[m + j] = u[j]
  <2>1. PICK y : y = t \o u
    OBVIOUS
  <2>2. Len(y) = Len(t) + Len(u) /\ (\A j \in 1..Len(t) : y[j] = t[j]) /\ \A j \in 1..Len(u) : y[Len(t) + j] = u[j]
    BY ONLY <2>1, t \in Seq(S), u \in Seq(S), ConcatFacts
  <2> QED
    BY <1>1, <2>1, <2>2
<1>10. \A i \in 1..m : <<y[i], z[i], z[i + 1]>> \in F
  <2> TAKE i \in 1..m
  <2>1. CASE i = m
    BY <1>2, <1>5, <1>8, <1>9, <2>1
  <2>2. CASE i # m
    <3>1. i + 1 \in 1..m
      BY <2>2
    <3> QED
      BY <1>2, <1>5, <1>9, <3>1
  <2> QED
    BY <2>1, <2>2
<1>11. \A i \in 1..l : <<y[m + i], z[m + i], z[m + i + 1]>> \in F
  <2> TAKE i \in 1..l
  <2>1. i \in 1..(l + 1) /\ i + 1 \in 1..(l + 1) /\ m + (i + 1) = m + i + 1
    OBVIOUS
  <2>2. z[m + i] = v[i] /\ z[m + i + 1] = v[i + 1] /\ y[m + i] = u[i]
    BY <1>5, <1>9, <2>1
  <2> QED
    BY <1>3, <2>2
<1>12. \A i \in 1..Len(y) : <<y[i], z[i], z[i + 1]>> \in F
  <2> TAKE i \in 1..Len(y)
  <2>1. i \in 1..m \/ \E j \in 1..l : i = m + j
    <3>1. CASE i <= m
      BY <1>9, <3>1
    <3>2. CASE i > m
      <4>1. PICK j \in Nat : i = m + j
        BY <1>9, <3>2
      <4> QED
        BY <1>9, <3>2, <4>1
    <3> QED
      BY <1>9, <3>1, <3>2
  <2> QED
    BY <1>10, <1>11, <2>1
<1> QED
  BY <1>6, <1>7, <1>9, <1>12 DEF Leads

\* The first step of t, and the others.
LEMMA LeadsNext ==
    ASSUME NEW S, NEW t \in Seq(S), t # <<>>, NEW p, NEW r, NEW F, Leads(t, p, r, F)
    PROVE  \E q : <<Head(t), p, q>> \in F /\ Leads(Tail(t), q, r, F)
<1>1. /\ Head(t) = t[1] /\ Len(t) \in Nat \ {0} /\ Len(Tail(t)) = Len(t) - 1
      /\ \A i \in 1..(Len(t) - 1) : Tail(t)[i] = t[i + 1]
  BY HeadAndTail
<1>2. PICK s : s[1] = p /\ s[Len(t) + 1] = r /\ \A i \in 1..Len(t) : <<t[i], s[i], s[i + 1]>> \in F
  BY DEF Leads
<1>3. PICK m \in Nat : Len(t) = m + 1 /\ Len(Tail(t)) = m
  <2>1. PICK l \in Nat \ {0} : l = Len(t)
    BY <1>1
  <2>2. PICK m \in Nat : l = m + 1
    <3>1. l - 1 \in Nat /\ l = (l - 1) + 1
      OBVIOUS
    <3> QED
      BY <3>1
  <2>3. (m + 1) - 1 = m
    OBVIOUS
  <2> QED
    BY <1>1, <2>1, <2>2, <2>3
<1>4. PICK v : v = [i \in 1..(m + 1) |-> s[i + 1]]
  OBVIOUS
<1>5. v[1] = s[2] /\ v[m + 1] = s[m + 1 + 1] /\ \A i \in 1..m : v[i] = s[i + 1] /\ v[i + 1] = s[i + 1 + 1] /\ i + 1 \in 1..(m + 1)
  <2>1. 1 \in 1..(m + 1) /\ m + 1 \in 1..(m + 1) /\ 1 + 1 = 2 /\ \A i \in 1..m : i \in 1..(m + 1) /\ i + 1 \in 1..(m + 1)
    OBVIOUS
  <2> QED
    BY <1>4, <2>1
<1>6. <<Head(t), p, s[2]>> \in F
  <2>1. 1 \in 1..Len(t) /\ 1 + 1 = 2
    BY <1>3
  <2> QED
    BY <1>1, <1>2, <2>1
<1>7. \A i \in 1..m : <<Tail(t)[i], v[i], v[i + 1]>> \in F
  <2> TAKE i \in 1..m
  <2>1. i \in 1..(Len(t) - 1) /\ i + 1 \in 1..Len(t)
    BY <1>3
  <2> QED
    BY <1>1, <1>2, <1>5, <2>1
<1>8. Leads(Tail(t), s[2], r, F)
  BY <1>2, <1>3, <1>5, <1>7 DEF Leads
<1> QED
  BY <1>6, <1>8

\* Steps all of which leave what is known as it is.
LEMMA LeadsOn ==
    ASSUME NEW S, NEW t \in Seq(S), NEW p, NEW F, \A i \in 1..Len(t) : <<t[i], p, p>> \in F
    PROVE  Leads(t, p, p, F)
<1>1. PICK m \in Nat : m = Len(t)
  OBVIOUS
<1>2. PICK s : s = [i \in 1..(m + 1) |-> p]
  OBVIOUS
<1>3. s[1] = p /\ s[m + 1] = p /\ \A i \in 1..m : s[i] = p /\ s[i + 1] = p
  <2>1. 1 \in 1..(m + 1) /\ m + 1 \in 1..(m + 1) /\ \A i \in 1..m : i \in 1..(m + 1) /\ i + 1 \in 1..(m + 1)
    OBVIOUS
  <2> QED
    BY <1>2, <2>1
<1> QED
  BY <1>1, <1>3 DEF Leads

-----------------------------------------------------------------------------
(* More disk for the CCVM                                                    *)

ResizeWorld ==
    [type : {"hci", "vm", "standalone"}, up : BOOLEAN, on : BOOLEAN, size : Nat, fs : Nat, snaps : BOOLEAN,
     xml : [Host -> {"made"} \cup Value], harmed : BOOLEAN]

MustStep(cmd) == [cmd |-> cmd, on |-> "return", skip |-> 0]
ResizePCSOps == {"disable", "enable", "wait Stopped", "wait agent"}
ResizeVirshOps == {"wait shut off", "start", "wait running", "wait agent"}
DiskSteps(n, type) ==
    IF type = "hci"
    THEN {MustStep(<<"rbd resize", n>>)} \cup {[cmd |-> <<"rbd", a>>, on |-> "call", skip |-> 0] : a \in Added}
    ELSE {MustStep(<<"qemu-img resize", a>>) : a \in Added}
InfoSteps == {MustStep(<<o>>) : o \in {"refuse", "rbd info", "rbd snap purge", "grow"}}
PCSSteps == {MustStep(<<"pcs", o>>) : o \in ResizePCSOps}
VirshSteps == {MustStep(<<"virsh", o>>) : o \in ResizeVirshOps}
ShutdownStep == [cmd |-> <<"virsh", "shutdown">>, on |-> "ignore", skip |-> 0]
EditSteps ==
    UNION {{[cmd |-> <<"write xml", h, v>>, on |-> "keep", skip |-> 0] : v \in Value} : h \in Host}
VerdictStep == [cmd |-> <<"verdict">>, on |-> "verdict", skip |-> 0]
ResizeSteps(n, type) ==
    InfoSteps \cup PCSSteps \cup VirshSteps \cup {ShutdownStep} \cup EditSteps \cup {VerdictStep} \cup DiskSteps(n, type)

\* What is known of the CCVM before a step; clean: no command has failed yet.
Phases == {"asked", "read", "any", "up", "off", "down", "stopped", "starting"}
Phase(p, x, clean) ==
    CASE p \in {"asked", "read"} -> clean => x.up
      [] p = "any" -> TRUE
      [] p = "up" -> x.up
      [] p = "off" -> ~x.on
      [] p = "down" -> ~x.on /\ ~x.up
      [] p = "stopped" -> ~x.up
      [] p = "starting" -> x.on
ResizeFits(cmd, p, q) ==
    /\ p # "read"
    /\ CASE cmd[1] = "pcs" -> \/ cmd[2] = "wait agent" /\ p \in {"asked", "starting"} /\ q = "up"
                              \/ cmd[2] = "disable" /\ q = "off"
                              \/ cmd[2] = "wait Stopped" /\ p = "off" /\ q = "down"
                              \/ cmd[2] = "enable" /\ q = "starting"
         [] cmd[1] = "virsh" -> \/ cmd[2] = "shutdown" /\ p = "asked" /\ q = "any"
                                \/ cmd[2] = "wait shut off" /\ q = "stopped"
                                \/ cmd[2] = "start" /\ p = "stopped" /\ q = "up"
                                \/ cmd[2] \in {"wait running", "wait agent"} /\ p = "up" /\ q = "up"
         [] cmd[1] \in {"rbd snap purge", "rbd resize"} -> p = "down" /\ q = "down"
         [] cmd[1] = "qemu-img resize" -> p \in {"down", "stopped"} /\ q = p
         [] cmd[1] = "grow" -> p = "up" /\ q = "asked"
         [] cmd[1] = "refuse" -> p = "asked"
         [] cmd[1] \in {"rbd info", "write xml", "verdict"} -> p = "asked" /\ q = "asked"
         [] cmd[1] = "rbd" -> p = "asked" /\ q = "read"
ResizeKnown(n, type) == {f \in ResizeSteps(n, type) \X Phases \X Phases : ResizeFits(f[1].cmd, f[2], f[3])}

ResizeIs(x, n, type) ==
    \/ x.cmd[1] \in {"refuse", "rbd info", "rbd snap purge", "grow"} /\ x.on = "return"
    \/ x.cmd[1] = "pcs" /\ x.cmd[2] \in ResizePCSOps /\ x.on = "return"
    \/ x.cmd[1] = "virsh" /\ x.cmd[2] \in ResizeVirshOps /\ x.on = "return"
    \/ x.cmd[1] = "virsh" /\ x.cmd[2] = "shutdown" /\ x.on = "ignore"
    \/ x.cmd[1] = "write xml" /\ x.cmd[2] \in Host /\ x.cmd[3] \in Value /\ x.on = "keep"
    \/ x.cmd[1] = "verdict" /\ x.on = "verdict"
    \/ type = "hci" /\ x.cmd[1] = "rbd resize" /\ x.cmd[2] = n /\ x.on = "return"
    \/ type = "hci" /\ x.cmd[1] = "rbd" /\ x.cmd[2] \in Added /\ x.on = "call"
    \/ type # "hci" /\ x.cmd[1] = "qemu-img resize" /\ x.cmd[2] \in Added /\ x.on = "return"

LEMMA ResizeStepIs ==
    ASSUME NEW n, NEW type, NEW x \in ResizeSteps(n, type)
    PROVE  ResizeIs(x, n, type) /\ x.skip = 0
<1>1. ASSUME NEW o \in {"refuse", "rbd info", "rbd snap purge", "grow"}, x = MustStep(<<o>>)
      PROVE  x.cmd[1] \in {"refuse", "rbd info", "rbd snap purge", "grow"} /\ x.on = "return" /\ x.skip = 0
  <2>1. x.cmd = <<o>> /\ x.on = "return" /\ x.skip = 0
    BY <1>1 DEF MustStep
  <2>2. <<o>>[1] = o
    OBVIOUS
  <2> QED
    BY <2>1, <2>2
<1>2. ASSUME NEW o \in ResizePCSOps, x = MustStep(<<"pcs", o>>)
      PROVE  x.cmd[1] = "pcs" /\ x.cmd[2] \in ResizePCSOps /\ x.on = "return" /\ x.skip = 0
  BY <1>2 DEF MustStep
<1>3. ASSUME NEW o \in ResizeVirshOps, x = MustStep(<<"virsh", o>>)
      PROVE  x.cmd[1] = "virsh" /\ x.cmd[2] \in ResizeVirshOps /\ x.on = "return" /\ x.skip = 0
  BY <1>3 DEF MustStep
<1>4. ASSUME x = [cmd |-> <<"virsh", "shutdown">>, on |-> "ignore", skip |-> 0]
      PROVE  x.cmd[1] = "virsh" /\ x.cmd[2] = "shutdown" /\ x.on = "ignore" /\ x.skip = 0
  BY <1>4
<1>5. ASSUME NEW h \in Host, NEW v \in Value, x = [cmd |-> <<"write xml", h, v>>, on |-> "keep", skip |-> 0]
      PROVE  x.cmd[1] = "write xml" /\ x.cmd[2] \in Host /\ x.cmd[3] \in Value /\ x.on = "keep" /\ x.skip = 0
  BY <1>5
<1>6. ASSUME x = [cmd |-> <<"verdict">>, on |-> "verdict", skip |-> 0]
      PROVE  x.cmd[1] = "verdict" /\ x.on = "verdict" /\ x.skip = 0
  BY <1>6
<1>7. ASSUME x = MustStep(<<"rbd resize", n>>)
      PROVE  x.cmd[1] = "rbd resize" /\ x.cmd[2] = n /\ x.on = "return" /\ x.skip = 0
  BY <1>7 DEF MustStep
<1>8. ASSUME NEW a \in Added, x = [cmd |-> <<"rbd", a>>, on |-> "call", skip |-> 0]
      PROVE  x.cmd[1] = "rbd" /\ x.cmd[2] \in Added /\ x.on = "call" /\ x.skip = 0
  BY <1>8
<1>9. ASSUME NEW a \in Added, x = MustStep(<<"qemu-img resize", a>>)
      PROVE  x.cmd[1] = "qemu-img resize" /\ x.cmd[2] \in Added /\ x.on = "return" /\ x.skip = 0
  BY <1>9 DEF MustStep
<1>10. \/ \E o \in {"refuse", "rbd info", "rbd snap purge", "grow"} : x = MustStep(<<o>>)
       \/ \E o \in ResizePCSOps : x = MustStep(<<"pcs", o>>)
       \/ \E o \in ResizeVirshOps : x = MustStep(<<"virsh", o>>)
       \/ x = [cmd |-> <<"virsh", "shutdown">>, on |-> "ignore", skip |-> 0]
       \/ \E h \in Host, v \in Value : x = [cmd |-> <<"write xml", h, v>>, on |-> "keep", skip |-> 0]
       \/ x = [cmd |-> <<"verdict">>, on |-> "verdict", skip |-> 0]
       \/ type = "hci" /\ x = MustStep(<<"rbd resize", n>>)
       \/ type = "hci" /\ \E a \in Added : x = [cmd |-> <<"rbd", a>>, on |-> "call", skip |-> 0]
       \/ type # "hci" /\ \E a \in Added : x = MustStep(<<"qemu-img resize", a>>)
  <2>1. x \in InfoSteps \/ x \in PCSSteps \/ x \in VirshSteps \/ x = ShutdownStep \/ x \in EditSteps
        \/ x = VerdictStep \/ x \in DiskSteps(n, type)
    BY DEF ResizeSteps
  <2>2. x \in DiskSteps(n, type) =>
          \/ type = "hci" /\ x = MustStep(<<"rbd resize", n>>)
          \/ type = "hci" /\ \E a \in Added : x = [cmd |-> <<"rbd", a>>, on |-> "call", skip |-> 0]
          \/ type # "hci" /\ \E a \in Added : x = MustStep(<<"qemu-img resize", a>>)
    BY DEF DiskSteps
  <2>3. x \in InfoSteps => \E o \in {"refuse", "rbd info", "rbd snap purge", "grow"} : x = MustStep(<<o>>)
    BY DEF InfoSteps
  <2>4. x \in PCSSteps => \E o \in ResizePCSOps : x = MustStep(<<"pcs", o>>)
    BY DEF PCSSteps
  <2>5. x \in VirshSteps => \E o \in ResizeVirshOps : x = MustStep(<<"virsh", o>>)
    BY DEF VirshSteps
  <2>6. x \in EditSteps => \E h \in Host, v \in Value : x = [cmd |-> <<"write xml", h, v>>, on |-> "keep", skip |-> 0]
    BY DEF EditSteps
  <2> QED
    BY <2>1, <2>2, <2>3, <2>4, <2>5, <2>6, Zenon DEF ShutdownStep, VerdictStep
<1> QED
  BY <1>1, <1>2, <1>3, <1>4, <1>5, <1>6, <1>7, <1>8, <1>9, <1>10, Zenon DEF ResizeIs

LEMMA PhaseIs ==
    ASSUME NEW x, NEW clean
    PROVE  /\ Phase("asked", x, clean) <=> (clean => x.up)
           /\ Phase("read", x, clean) <=> (clean => x.up)
           /\ Phase("any", x, clean)
           /\ Phase("up", x, clean) <=> x.up
           /\ Phase("off", x, clean) <=> ~x.on
           /\ Phase("down", x, clean) <=> ~x.on /\ ~x.up
           /\ Phase("stopped", x, clean) <=> ~x.up
           /\ Phase("starting", x, clean) <=> x.on
  BY DEF Phase

\* What fits around a command.
LEMMA FitsIs ==
    ASSUME NEW cmd, NEW p, NEW q, ResizeFits(cmd, p, q)
    PROVE  /\ cmd[1] = "pcs" /\ cmd[2] = "wait agent" => p \in {"asked", "starting"} /\ q = "up"
           /\ cmd[1] = "pcs" /\ cmd[2] = "disable" => q = "off"
           /\ cmd[1] = "pcs" /\ cmd[2] = "wait Stopped" => p = "off" /\ q = "down"
           /\ cmd[1] = "pcs" /\ cmd[2] = "enable" => q = "starting"
           /\ cmd[1] = "virsh" /\ cmd[2] = "shutdown" => q = "any"
           /\ cmd[1] = "virsh" /\ cmd[2] = "wait shut off" => q = "stopped"
           /\ cmd[1] = "virsh" /\ cmd[2] = "start" => p = "stopped" /\ q = "up"
           /\ cmd[1] = "virsh" /\ cmd[2] \in {"wait running", "wait agent"} => p = "up" /\ q = "up"
           /\ cmd[1] \in {"rbd snap purge", "rbd resize"} => p = "down" /\ q = "down"
           /\ cmd[1] = "qemu-img resize" => p \in {"down", "stopped"} /\ q = p
           /\ cmd[1] = "grow" => p = "up" /\ q = "asked"
           /\ cmd[1] = "refuse" => p = "asked"
           /\ cmd[1] \in {"rbd info", "write xml", "verdict"} => p = "asked" /\ q = "asked"
           /\ cmd[1] = "rbd" => p = "asked" /\ q = "read"
           /\ p # "read"
<1>1. CASE cmd[1] = "pcs"
  BY <1>1 DEF ResizeFits
<1>2. CASE cmd[1] = "virsh"
  BY <1>2 DEF ResizeFits
<1>3. CASE cmd[1] \notin {"pcs", "virsh"}
  BY <1>3 DEF ResizeFits
<1>4. p # "read"
  BY DEF ResizeFits
<1> QED
  BY <1>1, <1>2, <1>3, <1>4

\* The changes that a command makes.
SameDisk(y, z) ==
    y \in ResizeWorld /\ y.type = z.type /\ y.size = z.size /\ y.fs = z.fs /\ y.harmed = z.harmed

LEMMA SameDiskSelf ==
    ASSUME NEW z \in ResizeWorld
    PROVE  SameDisk(z, z)
  BY DEF SameDisk

LEMMA ChangesUp ==
    ASSUME NEW z \in ResizeWorld, NEW b \in BOOLEAN, NEW y, y = [z EXCEPT !.up = b]
    PROVE  SameDisk(y, z) /\ y.up = b /\ y.on = z.on
  BY DEF SameDisk, ResizeWorld

LEMMA ChangesOn ==
    ASSUME NEW z \in ResizeWorld, NEW b \in BOOLEAN, NEW d \in BOOLEAN, NEW y, y = [z EXCEPT !.on = d, !.up = b]
    PROVE  SameDisk(y, z) /\ y.up = b /\ y.on = d
  BY DEF SameDisk, ResizeWorld

LEMMA ChangesSnaps ==
    ASSUME NEW z \in ResizeWorld, NEW b \in BOOLEAN, NEW y, y = [z EXCEPT !.snaps = b]
    PROVE  SameDisk(y, z) /\ y.up = z.up /\ y.on = z.on
  BY DEF SameDisk, ResizeWorld

LEMMA ChangesXml ==
    ASSUME NEW z \in ResizeWorld, NEW f \in [Host -> {"made"} \cup Value], NEW y, y = [z EXCEPT !.xml = f]
    PROVE  SameDisk(y, z) /\ y.up = z.up /\ y.on = z.on
  BY DEF SameDisk, ResizeWorld

\* A command that passes.
ResizePassed(x, y, z, n, p, q, clean) ==
    /\ y \in ResizeWorld /\ y.type = z.type
    /\ z.fs <= z.size => y.fs <= y.size
    /\ z.type = "hci" => y.size = z.size \/ (y.size = n /\ z.size <= n)
    /\ x.cmd[1] # "refuse"
    /\ ResizeFits(x.cmd, p, q) /\ Phase(p, z, clean) => Phase(q, y, clean) /\ (~z.harmed => ~y.harmed)
LEMMA ResizeEffect ==
    ASSUME Added \subseteq Nat, NEW n \in Nat, NEW z \in ResizeWorld, NEW x \in ResizeSteps(n, z.type),
           x.on \notin {"verdict", "call"}, NEW y \in Z!Effect(x.cmd, z),
           NEW p, NEW q, NEW clean \in BOOLEAN
    PROVE  ResizePassed(x, y, z, n, p, q, clean)
<1> DEFINE Reached == ResizeFits(x.cmd, p, q) /\ Phase(p, z, clean) => Phase(q, y, clean) /\ (~z.harmed => ~y.harmed)
<1>1. ResizeIs(x, n, z.type)
  BY ResizeStepIs
<1>2. ASSUME x.cmd[1] \in {"refuse", "rbd info", "rbd snap purge"}
      PROVE  SameDisk(y, z) /\ Reached /\ x.cmd[1] # "refuse"
  <2>1. CASE x.cmd[1] = "refuse"
    BY <2>1 DEF Z!Effect
  <2>2. CASE x.cmd[1] = "rbd info"
    <3>1. y = z
      BY <2>2 DEF Z!Effect
    <3>2. ResizeFits(x.cmd, p, q) => p = "asked" /\ q = "asked"
      BY <2>2, FitsIs
    <3>3. x.cmd[1] # "refuse"
      BY <2>2
    <3> QED
      BY <3>1, <3>2, <3>3, SameDiskSelf
  <2>3. CASE x.cmd[1] = "rbd snap purge"
    <3>1. y = [z EXCEPT !.snaps = FALSE]
      BY <2>3 DEF Z!Effect
    <3>2. SameDisk(y, z) /\ y.up = z.up /\ y.on = z.on
      BY <3>1, ChangesSnaps
    <3>3. ResizeFits(x.cmd, p, q) => p = "down" /\ q = "down"
      BY <2>3, FitsIs
    <3> QED
      BY <2>3, <3>2, <3>3, PhaseIs DEF SameDisk
  <2> QED
    BY <1>2, <2>1, <2>2, <2>3
<1>3. ASSUME x.cmd[1] = "pcs", x.cmd[2] \in ResizePCSOps
      PROVE  SameDisk(y, z) /\ Reached
  <2>1. y \in Z!PCS(x.cmd[2], z)
    BY <1>3 DEF Z!Effect
  <2>2. CASE x.cmd[2] = "disable"
    <3>1. PICK b \in {z.up, FALSE} : y = [z EXCEPT !.on = FALSE, !.up = b]
      BY <2>1, <2>2 DEF Z!PCS
    <3>2. b \in BOOLEAN
      BY DEF ResizeWorld
    <3>3. SameDisk(y, z) /\ ~y.on
      BY <3>1, <3>2, ChangesOn
    <3>4. ResizeFits(x.cmd, p, q) => q = "off"
      BY <1>3, <2>2, FitsIs
    <3> QED
      BY <3>3, <3>4, PhaseIs DEF SameDisk
  <2>3. CASE x.cmd[2] = "enable"
    <3>1. PICK b \in {z.up, TRUE} : y = [z EXCEPT !.on = TRUE, !.up = b]
      BY <2>1, <2>3 DEF Z!PCS
    <3>2. b \in BOOLEAN
      BY DEF ResizeWorld
    <3>3. SameDisk(y, z) /\ y.on
      BY <3>1, <3>2, ChangesOn
    <3>4. ResizeFits(x.cmd, p, q) => q = "starting"
      BY <1>3, <2>3, FitsIs
    <3> QED
      BY <3>3, <3>4, PhaseIs DEF SameDisk
  <2>4. CASE x.cmd[2] = "wait Stopped"
    <3>1. y = [z EXCEPT !.up = FALSE]
      BY <2>1, <2>4 DEF Z!PCS, Z!Only
    <3>3. SameDisk(y, z) /\ ~y.up /\ y.on = z.on
      BY <3>1, ChangesUp
    <3>4. ResizeFits(x.cmd, p, q) => p = "off" /\ q = "down"
      BY <1>3, <2>4, FitsIs
    <3> QED
      BY <3>3, <3>4, PhaseIs DEF SameDisk
  <2>5. CASE x.cmd[2] = "wait agent"
    <3>1. y = [z EXCEPT !.up = TRUE]
      BY <2>1, <2>5 DEF Z!PCS, Z!Only
    <3>3. SameDisk(y, z) /\ y.up
      BY <3>1, ChangesUp
    <3>4. ResizeFits(x.cmd, p, q) => q = "up"
      BY <1>3, <2>5, FitsIs
    <3> QED
      BY <3>3, <3>4, PhaseIs DEF SameDisk
  <2> QED
    BY <1>3, <2>2, <2>3, <2>4, <2>5 DEF ResizePCSOps
<1>4. ASSUME x.cmd[1] = "virsh", x.cmd[2] \in ResizeVirshOps \cup {"shutdown"}
      PROVE  SameDisk(y, z) /\ Reached
  <2>1. y \in Z!Virsh(x.cmd[2], z)
    BY <1>4 DEF Z!Effect
  <2>2. CASE x.cmd[2] = "shutdown"
    <3>1. y = z \/ y = [z EXCEPT !.up = FALSE]
      BY <2>1, <2>2 DEF Z!Virsh
    <3>2. SameDisk(y, z)
      BY <3>1, ChangesUp, SameDiskSelf
    <3>3. ResizeFits(x.cmd, p, q) => q = "any"
      BY <1>4, <2>2, FitsIs
    <3> QED
      BY <3>2, <3>3, PhaseIs DEF SameDisk
  <2>3. CASE x.cmd[2] = "wait shut off"
    <3>1. y = z /\ ~z.up
      BY <2>1, <2>3 DEF Z!Virsh, Z!Only
    <3>3. ResizeFits(x.cmd, p, q) => q = "stopped"
      BY <1>4, <2>3, FitsIs
    <3> QED
      BY <3>1, <3>3, PhaseIs, SameDiskSelf
  <2>4. CASE x.cmd[2] = "start"
    <3>1. y = [z EXCEPT !.up = TRUE]
      BY <2>1, <2>4 DEF Z!Virsh, Z!Only
    <3>2. SameDisk(y, z) /\ y.up
      BY <3>1, ChangesUp
    <3>3. ResizeFits(x.cmd, p, q) => q = "up"
      BY <1>4, <2>4, FitsIs
    <3> QED
      BY <3>2, <3>3, PhaseIs DEF SameDisk
  <2>5. CASE x.cmd[2] \in {"wait running", "wait agent"}
    <3>1. y = z /\ z.up
      BY <2>1, <2>5 DEF Z!Virsh, Z!Only
    <3>3. ResizeFits(x.cmd, p, q) => q = "up"
      BY <1>4, <2>5, FitsIs
    <3> QED
      BY <3>1, <3>3, PhaseIs, SameDiskSelf
  <2> QED
    BY <1>4, <2>2, <2>3, <2>4, <2>5 DEF ResizeVirshOps
<1>5. ASSUME x.cmd[1] = "write xml", x.cmd[2] \in Host, x.cmd[3] \in Value
      PROVE  SameDisk(y, z) /\ Reached
  <2>1. y = [z EXCEPT !.xml[x.cmd[2]] = x.cmd[3]]
    BY <1>5 DEF Z!Effect
  <2>2. [z.xml EXCEPT ![x.cmd[2]] = x.cmd[3]] \in [Host -> {"made"} \cup Value]
    BY <1>5 DEF ResizeWorld
  <2>3. PICK f \in [Host -> {"made"} \cup Value] : y = [z EXCEPT !.xml = f]
    BY <2>1, <2>2
  <2>4. SameDisk(y, z) /\ y.up = z.up
    BY <2>3, ChangesXml
  <2>5. ResizeFits(x.cmd, p, q) => p = "asked" /\ q = "asked"
    BY <1>5, FitsIs
  <2> QED
    BY <2>4, <2>5, PhaseIs DEF SameDisk
<1>6. ASSUME x.cmd[1] = "rbd resize", x.cmd[2] = n
      PROVE  y \in ResizeWorld /\ y.type = z.type /\ y.size = n /\ z.size <= n /\ y.fs = z.fs /\ Reached
  <2>1. y = [z EXCEPT !.size = n, !.harmed = @ \/ z.up] /\ n >= z.size
    BY <1>6 DEF Z!Effect, Z!Only
  <2>2. (z.harmed \/ z.up) \in BOOLEAN
    BY DEF ResizeWorld
  <2>3. y \in ResizeWorld /\ y.type = z.type /\ y.size = n /\ y.fs = z.fs /\ y.up = z.up /\ y.on = z.on
        /\ y.harmed = (z.harmed \/ z.up)
    BY <2>1, <2>2 DEF ResizeWorld
  <2>4. ResizeFits(x.cmd, p, q) => p = "down" /\ q = "down"
    BY <1>6, FitsIs
  <2>5. Reached
    BY <2>3, <2>4, PhaseIs
  <2>6. z.size \in Nat
    BY DEF ResizeWorld
  <2> QED
    BY <2>1, <2>3, <2>5, <2>6
<1>7. ASSUME x.cmd[1] = "qemu-img resize", x.cmd[2] \in Added
      PROVE  y \in ResizeWorld /\ y.type = z.type /\ y.size = z.size + x.cmd[2] /\ y.fs = z.fs /\ Reached
  <2>1. y = [z EXCEPT !.size = @ + x.cmd[2]]
    BY <1>7 DEF Z!Effect, Z!Only
  <2>2. z.size + x.cmd[2] \in Nat
    <3>1. x.cmd[2] \in Nat
      BY <1>7
    <3>2. z.size \in Nat
      BY DEF ResizeWorld
    <3> QED
      BY <3>1, <3>2
  <2>3. PICK m \in Nat : m = z.size + x.cmd[2] /\ y = [z EXCEPT !.size = m]
    BY <2>1, <2>2
  <2>4. y \in ResizeWorld /\ y.type = z.type /\ y.size = m /\ y.fs = z.fs /\ y.up = z.up /\ y.on = z.on
        /\ y.harmed = z.harmed
    BY <2>3 DEF ResizeWorld
  <2>5. ResizeFits(x.cmd, p, q) => p \in {"down", "stopped"} /\ q = p
    BY <1>7, FitsIs
  <2> QED
    BY <2>3, <2>4, <2>5, PhaseIs
<1>8. ASSUME x.cmd[1] = "grow"
      PROVE  y \in ResizeWorld /\ y.type = z.type /\ y.size = z.size /\ y.fs = z.size /\ Reached
  <2>1. y = [z EXCEPT !.fs = z.size]
    BY <1>8 DEF Z!Effect, Z!Only
  <2>2. y \in ResizeWorld /\ y.type = z.type /\ y.size = z.size /\ y.fs = z.size /\ y.up = z.up /\ y.on = z.on
        /\ y.harmed = z.harmed
    BY <2>1 DEF ResizeWorld
  <2>3. ResizeFits(x.cmd, p, q) => p = "up" /\ q = "asked"
    BY <1>8, FitsIs
  <2> QED
    BY <2>2, <2>3, PhaseIs
<1>9. z.size \in Nat /\ z.fs \in Nat
  BY DEF ResizeWorld
<1> HIDE DEF Reached
<1>10. CASE SameDisk(y, z) /\ Reached /\ x.cmd[1] # "refuse"
  <2>1. y \in ResizeWorld /\ y.type = z.type /\ y.size = z.size /\ y.fs = z.fs
    BY <1>10 DEF SameDisk
  <2>2. z.fs <= z.size => y.fs <= y.size
    BY <2>1
  <2> QED
    BY <1>10, <2>1, <2>2 DEF Reached, ResizePassed
<1>11. CASE x.cmd[1] = "rbd resize" /\ x.cmd[2] = n
  <2>1. y \in ResizeWorld /\ y.type = z.type /\ y.size = n /\ z.size <= n /\ y.fs = z.fs /\ Reached
    BY <1>6, <1>11 DEF Reached
  <2>2. z.fs <= z.size => y.fs <= y.size
    BY <1>9, <2>1
  <2>3. x.cmd[1] # "refuse"
    BY <1>11
  <2> QED
    BY <2>1, <2>2, <2>3 DEF Reached, ResizePassed
<1>12. CASE z.type # "hci" /\ x.cmd[1] = "qemu-img resize" /\ x.cmd[2] \in Added
  <2>1. y \in ResizeWorld /\ y.type = z.type /\ y.size = z.size + x.cmd[2] /\ y.fs = z.fs /\ Reached
    BY <1>7, <1>12 DEF Reached
  <2>2. z.fs <= z.size => y.fs <= y.size
    <3>1. x.cmd[2] \in Nat
      BY <1>12
    <3>2. PICK a \in Nat, b \in Nat, d \in Nat : a = z.fs /\ b = z.size /\ d = x.cmd[2]
      BY <1>9, <3>1
    <3>3. a <= b => a <= b + d
      OBVIOUS
    <3> QED
      BY <2>1, <3>2, <3>3
  <2>3. x.cmd[1] # "refuse"
    BY <1>12
  <2> QED
    BY <1>12, <2>1, <2>2, <2>3 DEF Reached, ResizePassed
<1>13. CASE x.cmd[1] = "grow"
  BY <1>8, <1>9, <1>13 DEF Reached, ResizePassed
<1>14. \/ x.cmd[1] = "grow"
       \/ z.type # "hci" /\ x.cmd[1] = "qemu-img resize" /\ x.cmd[2] \in Added
       \/ x.cmd[1] = "rbd resize" /\ x.cmd[2] = n
       \/ SameDisk(y, z) /\ Reached /\ x.cmd[1] # "refuse"
  BY <1>1, <1>2, <1>3, <1>4, <1>5 DEF ResizeIs
<1> QED
  BY <1>10, <1>11, <1>12, <1>13, <1>14

\* A command that cannot pass.
LEMMA ResizeCannot ==
    ASSUME NEW n \in Nat, NEW z \in ResizeWorld, NEW x \in ResizeSteps(n, z.type), z.type = "hci" => z.size <= n,
           x.on \notin {"verdict", "call"}, Z!Effect(x.cmd, z) = {},
           NEW p \in Phases, NEW q \in Phases, NEW clean \in BOOLEAN, ResizeFits(x.cmd, p, q), Phase(p, z, clean)
    PROVE  IF x.on = "return" THEN clean => z.up ELSE Phase(q, z, clean)
<1>1. ResizeIs(x, n, z.type)
  BY ResizeStepIs
<1>2. CASE x.cmd[1] \in {"refuse", "rbd info", "rbd snap purge", "grow"}
  BY <1>1, <1>2 DEF ResizeIs, Z!Effect, Z!Only, ResizeFits, Phase
<1>3. CASE x.cmd[1] = "pcs" /\ x.cmd[2] \in ResizePCSOps /\ x.on = "return"
  <2>1. Z!PCS(x.cmd[2], z) = {}
    BY <1>3 DEF Z!Effect
  <2>2. CASE x.cmd[2] = "disable"
    BY <1>3, <2>1, <2>2 DEF Z!PCS
  <2>3. CASE x.cmd[2] = "enable"
    BY <1>3, <2>1, <2>3 DEF Z!PCS
  <2>4. CASE x.cmd[2] = "wait Stopped"
    BY <1>3, <2>1, <2>4 DEF Z!PCS, Z!Only, ResizeFits, Phase
  <2>5. CASE x.cmd[2] = "wait agent"
    BY <1>3, <2>1, <2>5 DEF Z!PCS, Z!Only, ResizeFits, Phase
  <2> QED
    BY <1>3, <2>2, <2>3, <2>4, <2>5 DEF ResizePCSOps
<1>4. CASE x.cmd[1] = "virsh" /\ x.cmd[2] \in ResizeVirshOps /\ x.on = "return"
  <2>1. Z!Virsh(x.cmd[2], z) = {}
    BY <1>4 DEF Z!Effect
  <2>3. CASE x.cmd[2] = "wait shut off"
    BY <1>4, <2>1, <2>3 DEF Z!Virsh, Z!Only
  <2>4. CASE x.cmd[2] = "start"
    BY <1>4, <2>1, <2>4 DEF Z!Virsh, Z!Only, ResizeFits, Phase
  <2>5. CASE x.cmd[2] \in {"wait running", "wait agent"}
    BY <1>4, <2>1, <2>5 DEF Z!Virsh, Z!Only, ResizeFits, Phase
  <2> QED
    BY <1>4, <2>3, <2>4, <2>5 DEF ResizeVirshOps
<1>5. CASE x.cmd[1] = "virsh" /\ x.cmd[2] = "shutdown" /\ x.on = "ignore"
  BY <1>5 DEF ResizeFits, Phase
<1>6. CASE x.cmd[1] = "write xml"
  BY <1>6 DEF Z!Effect
<1>7. CASE z.type = "hci" /\ x.cmd[1] = "rbd resize" /\ x.cmd[2] = n
  BY <1>7 DEF Z!Effect, Z!Only, ResizeWorld
<1>8. CASE x.cmd[1] = "qemu-img resize"
  BY <1>8 DEF Z!Effect, Z!Only, ResizeFits, Phase
<1> QED
  BY <1>1, <1>2, <1>3, <1>4, <1>5, <1>6, <1>7, <1>8 DEF ResizeIs

\* A command that fails although it may have done its work, where that is not returned.
LEMMA ResizeMayFail ==
    ASSUME NEW n, NEW type, NEW x \in ResizeSteps(n, type), x.on \notin {"return", "verdict", "call"},
           NEW y, NEW p \in Phases, NEW q \in Phases, ResizeFits(x.cmd, p, q)
    PROVE  Phase(q, y, FALSE)
<1>1. ResizeIs(x, n, type)
  BY ResizeStepIs
<1>2. CASE x.cmd[1] = "virsh" /\ x.cmd[2] = "shutdown"
  BY <1>2 DEF ResizeFits, Phase
<1>3. CASE x.cmd[1] = "write xml"
  BY <1>3 DEF ResizeFits, Phase
<1> QED
  BY <1>1, <1>2, <1>3 DEF ResizeIs

-----------------------------------------------------------------------------
(* The steps for each element of a set                                       *)

\* Induction over a set of numbers.
LEMMA NatSet ==
    ASSUME NEW S, 0 \in S, \A n \in Nat : n \in S => n + 1 \in S
    PROVE  \A n \in Nat : n \in S
<1> DEFINE T == {n \in Nat : n \notin S}
<1> SUFFICES ASSUME T # {}
             PROVE  FALSE
  OBVIOUS
<1>1. PICK x \in T : \A y \in T : ~(<<y, x>> \in OpToRel(<, Nat))
  <2>1. T \subseteq Nat
    OBVIOUS
  <2> HIDE DEF T
  <2> QED
    BY <2>1, WFMin, NatLessThanWellFounded
<1>2. x - 1 \in Nat /\ x - 1 < x
  OBVIOUS
<1>3. x - 1 \in S
  BY <1>1, <1>2 DEF OpToRel
<1> QED
  BY <1>2, <1>3

LEMMA FlattenDefined ==
    ASSUME NEW E, NEW s \in Seq(Seq(E)), s # <<>>,
           NEW f, f = CHOOSE g : g = [i \in 1..Len(s) |-> IF i = 1 THEN s[i] ELSE g[i - 1] \o s[i]]
    PROVE  f = [i \in 1..Len(s) |-> IF i = 1 THEN s[i] ELSE f[i - 1] \o s[i]]
<1>1. Len(s) \in Nat \ {0} /\ s \in [1..Len(s) -> Seq(E)]
  OBVIOUS
<1> DEFINE Good(n, g) == g \in [1..n -> Seq(E)]
                         /\ \A i \in 1..n : g[i] = IF i = 1 THEN s[i] ELSE g[i - 1] \o s[i]
           S == {n \in Nat : n <= Len(s) => \E g : Good(n, g)}
<1>2. 0 \in S
  <2>1. Good(0, <<>>)
    OBVIOUS
  <2> QED
    BY <2>1
<1>3. ASSUME NEW n \in Nat, NEW g, Good(n, g), n + 1 <= Len(s)
      PROVE  \E h : Good(n + 1, h)
  <2>1. s[1] \in Seq(E) /\ s[n + 1] \in Seq(E)
    BY <1>1, <1>3
  <2>2. n # 0 => n \in 1..n
    OBVIOUS
  <2>3. n # 0 => g[n] \in Seq(E)
    BY <1>3, <2>2
  <2>4. PICK v \in Seq(E) : v = IF n = 0 THEN s[1] ELSE g[n] \o s[n + 1]
    <3>1. CASE n = 0
      BY <2>1, <3>1
    <3>2. CASE n # 0
      <4>1. g[n] \o s[n + 1] \in Seq(E)
        BY <2>1, <2>3, <3>2
      <4> QED
        BY <3>2, <4>1
    <3> QED
      BY <3>1, <3>2
  <2>5. PICK h : h = [i \in 1..(n + 1) |-> IF i = n + 1 THEN v ELSE g[i]]
    OBVIOUS
  <2>6. h[n + 1] = v /\ \A i \in 1..n : h[i] = g[i]
    BY <2>5
  <2>7. ASSUME NEW i \in 1..(n + 1)
        PROVE  h[i] \in Seq(E) /\ h[i] = IF i = 1 THEN s[i] ELSE h[i - 1] \o s[i]
    <3>1. CASE i = n + 1
      <4>1. CASE n = 0
        BY <2>4, <2>6, <3>1, <4>1
      <4>2. CASE n # 0
        <5>1. i - 1 = n /\ n \in 1..n /\ i # 1
          BY <3>1, <4>2
        <5> QED
          BY <2>4, <2>6, <3>1, <4>2, <5>1
      <4> QED
        BY <4>1, <4>2
    <3>2. CASE i # n + 1
      <4>1. i \in 1..n /\ (i # 1 => i - 1 \in 1..n)
        BY <3>2
      <4> QED
        BY <1>3, <2>6, <4>1
    <3> QED
      BY <3>1, <3>2
  <2>8. h \in [1..(n + 1) -> Seq(E)]
    BY <2>5, <2>7
  <2> QED
    BY <2>7, <2>8
<1>4. \A n \in Nat : n \in S
  <2>1. ASSUME NEW n \in Nat, n \in S
        PROVE  n + 1 \in S
    <3>1. n <= Len(s) => \E g : Good(n, g)
      BY <2>1
    <3> HIDE DEF Good
    <3>2. n + 1 <= Len(s) => n <= Len(s)
      BY <1>1
    <3> QED
      BY <1>3, <3>1, <3>2
  <2> HIDE DEF S
  <2> QED
    BY <1>2, <2>1, NatSet
<1>5. PICK g : Good(Len(s), g)
  <2>1. Len(s) \in S
    BY <1>1, <1>4
  <2> HIDE DEF Good
  <2> QED
    BY <1>1, <2>1
<1>6. g = [i \in 1..Len(s) |-> IF i = 1 THEN s[i] ELSE g[i - 1] \o s[i]]
  BY <1>1, <1>5
<1> QED
  BY <1>6

\* What is in the flat sequence was in one of the sequences.
LEMMA FlattenIn ==
    ASSUME NEW E, NEW s \in Seq(Seq(E))
    PROVE  FlattenSeq(s) \in Seq(E)
<1>1. CASE s = <<>>
  BY <1>1 DEF FlattenSeq
<1>2. CASE s # <<>>
  <2>1. PICK f : f = CHOOSE g : g = [i \in 1..Len(s) |-> IF i = 1 THEN s[i] ELSE g[i - 1] \o s[i]]
    OBVIOUS
  <2>2. f = [i \in 1..Len(s) |-> IF i = 1 THEN s[i] ELSE f[i - 1] \o s[i]]
    BY <1>2, <2>1, FlattenDefined
  <2>3. FlattenSeq(s) = f[Len(s)]
    BY <1>2, <2>1 DEF FlattenSeq
  <2> DEFINE S == {n \in Nat : n \in 1..Len(s) => f[n] \in Seq(E)}
  <2>4. 0 \in S
    OBVIOUS
  <2>5. ASSUME NEW n \in Nat, n \in S
        PROVE  n + 1 \in S
    <3> SUFFICES ASSUME n + 1 \in 1..Len(s)
                 PROVE  f[n + 1] \in Seq(E)
      OBVIOUS
    <3>1. s[n + 1] \in Seq(E)
      OBVIOUS
    <3>2. \A i \in 1..Len(s) : f[i] = IF i = 1 THEN s[i] ELSE f[i - 1] \o s[i]
      BY <2>2
    <3>3. f[n + 1] = IF n = 0 THEN s[1] ELSE f[n] \o s[n + 1]
      <4>1. (n + 1) - 1 = n
        OBVIOUS
      <4> QED
        BY <3>2, <4>1
    <3>4. n # 0 => f[n] \in Seq(E)
      BY <2>5
    <3> QED
      BY <3>1, <3>3, <3>4
  <2>6. \A n \in Nat : n \in S
    <3> HIDE DEF S
    <3> QED
      BY <2>4, <2>5, NatSet
  <2>7. Len(s) \in Nat /\ Len(s) \in 1..Len(s)
    BY <1>2
  <2> QED
    BY <2>3, <2>6, <2>7
<1> QED
  BY <1>1, <1>2

LEMMA SetToSeqIn ==
    ASSUME NEW S, IsFiniteSet(S)
    PROVE  SetToSeq(S) \in Seq(S)
<1>1. Cardinality(S) \in Nat
  BY FS_CardinalityType
<1>2. PICK f \in Bijection(1..Cardinality(S), S) : TRUE
  BY FS_CardinalityType DEF ExistsBijection
<1>3. f \in [1..Cardinality(S) -> S] /\ IsInjective(f)
  BY <1>2 DEF Bijection, Injection, IsInjective
<1>4. SetToSeq(S) \in [1..Cardinality(S) -> S]
  BY <1>3 DEF SetToSeq
<1> QED
  BY <1>1, <1>4

\* The steps for each element of a set are those of one element after the other.
LEMMA EachIn ==
    ASSUME NEW E, NEW S, IsFiniteSet(S), NEW F, F \in [S -> Seq(E)],
           NEW t, t = FlattenSeq([i \in 1..Len(SetToSeq(S)) |-> F[SetToSeq(S)[i]]])
    PROVE  t \in Seq(E)
<1>1. SetToSeq(S) \in Seq(S)
  BY SetToSeqIn
<1>2. PICK s \in Seq(S) : s = SetToSeq(S)
  BY <1>1
<1>3. PICK u : u = [i \in 1..Len(s) |-> F[s[i]]]
  OBVIOUS
<1>4. u \in Seq(Seq(E))
  <2>1. \A i \in 1..Len(s) : s[i] \in S
    OBVIOUS
  <2>2. \A i \in 1..Len(s) : F[s[i]] \in Seq(E)
    BY <2>1
  <2> QED
    BY <1>3, <2>2
<1>5. t = FlattenSeq(u)
  BY <1>2, <1>3
<1> QED
  BY <1>4, <1>5, FlattenIn

LEMMA ZEach ==
    ASSUME NEW E, NEW v, IsFiniteSet(Host), \A h \in Host : Z!ApplyEdit(h, v) \in Seq(E)
    PROVE  Z!Fanout(v) \in Seq(E)
<1>1. PICK F : F = [h \in Host |-> Z!ApplyEdit(h, v)]
  OBVIOUS
<1>2. F \in [Host -> Seq(E)]
  BY <1>1
<1>3. SetToSeq(Host) \in Seq(Host)
  BY SetToSeqIn
<1>4. Z!SetToSeq(Host) = SetToSeq(Host)
  <2>1. Z!Cardinality(Host) = Cardinality(Host)
    BY DEF Z!Cardinality, Cardinality
  <2>2. PICK n : n = Cardinality(Host) /\ n = Z!Cardinality(Host)
    BY <2>1
  <2> QED
    BY <2>2, Zenon DEF Z!SetToSeq, SetToSeq, Z!IsInjective, IsInjective
<1>5. PICK s \in Seq(Host) : s = SetToSeq(Host)
  BY <1>3
<1>6. PICK u : u = [i \in 1..Len(s) |-> Z!ApplyEdit(s[i], v)]
  OBVIOUS
<1>7. u = [i \in 1..Len(s) |-> F[s[i]]]
  <2>1. \A i \in 1..Len(s) : s[i] \in Host
    OBVIOUS
  <2> QED
    BY <1>1, <1>6, <2>1
<1>8. Z!Fanout(v) = Z!FlattenSeq(u)
  BY <1>4, <1>5, <1>6, Zenon DEF Z!Fanout, Z!Each, Z!EditTargets
<1>9. Z!FlattenSeq(u) = FlattenSeq(u)
  BY DEF Z!FlattenSeq, FlattenSeq
<1> QED
  BY <1>2, <1>5, <1>7, <1>8, <1>9, EachIn

ResizeTypes == {"hci", "vm", "standalone"}
ResizeAll == UNION {UNION {ResizeSteps(n, type) : n \in Nat} : type \in ResizeTypes}
NoKinds == [stops |-> {}, starts |-> {}, harms |-> {}, skips |-> {}]

LEMMA ResizeAllFacts ==
    /\ \A x \in ResizeAll : x.skip \in Nat /\ x.on \in Ons
    /\ \A n \in Nat, type \in ResizeTypes : ResizeSteps(n, type) \subseteq ResizeAll
<1>1. ASSUME NEW n, NEW type, NEW x \in ResizeSteps(n, type)
      PROVE  x.skip \in Nat /\ x.on \in Ons
  <2>1. ResizeIs(x, n, type) /\ x.skip = 0
    BY ResizeStepIs
  <2>2. x.on \in {"return", "ignore", "keep", "verdict", "call"}
    BY <2>1 DEF ResizeIs
  <2> QED
    BY <2>1, <2>2 DEF Ons
<1>2. ASSUME NEW x \in ResizeAll
      PROVE  \E n, type : x \in ResizeSteps(n, type)
  BY <1>2 DEF ResizeAll
<1>3. \A n \in Nat, type \in ResizeTypes : ResizeSteps(n, type) \subseteq ResizeAll
  BY DEF ResizeAll
<1> QED
  BY <1>1, <1>2, <1>3

LEMMA ResizeWhole ==
    ASSUME NEW n \in Nat, NEW type \in ResizeTypes, NEW t \in Seq(ResizeSteps(n, type))
    PROVE  t \in Seq(ResizeAll) /\ Whole(t, NoKinds)
<1>1. PICK S : S = ResizeSteps(n, type)
  OBVIOUS
<1>2. t \in Seq(S) /\ S \subseteq ResizeAll /\ \A x \in S : x.skip = 0
  BY <1>1, ResizeAllFacts, ResizeStepIs
<1>3. t \in Seq(ResizeAll)
  BY <1>2
<1>4. \A i \in 1..Len(t) : t[i] \in S
  BY <1>2
<1>5. \A i \in 1..Len(t) : t[i] \notin NoKinds.stops /\ i + t[i].skip <= Len(t) /\ t[i].skip \in Nat
  BY <1>2, <1>4 DEF NoKinds
<1> QED
  BY <1>3, <1>5, WholeOthers

\* t leads from p to q.
Resizes(t, p, q, n, type) == t \in Seq(ResizeSteps(n, type)) /\ Leads(t, p, q, ResizeKnown(n, type)) /\ t # <<>>

Leading(t) == Head(t)

LEMMA ResizesThen ==
    ASSUME NEW n, NEW type, NEW s, NEW t, NEW p, NEW q, NEW r, Resizes(s, p, q, n, type), Resizes(t, q, r, n, type)
    PROVE  Resizes(s \o t, p, r, n, type) /\ Leading(s \o t) = Leading(s)
<1>1. PICK S : S = ResizeSteps(n, type)
  OBVIOUS
<1>2. s \in Seq(S) /\ t \in Seq(S) /\ s # <<>> /\ t # <<>>
  BY <1>1 DEF Resizes
<1>3. s \o t \in Seq(S) /\ s \o t # <<>> /\ Head(s \o t) = Head(s)
  BY <1>2
<1>4. Leads(s \o t, p, r, ResizeKnown(n, type))
  BY <1>2, LeadsThen DEF Resizes
<1>5. Leading(s \o t) = Leading(s)
  BY <1>3 DEF Leading
<1> QED
  BY <1>1, <1>3, <1>4, <1>5 DEF Resizes

LEMMA ResizesOne ==
    ASSUME NEW n, NEW type, NEW x \in ResizeSteps(n, type), NEW p \in Phases, NEW q \in Phases, ResizeFits(x.cmd, p, q)
    PROVE  Resizes(<<x>>, p, q, n, type) /\ Head(<<x>>) = x
<1>1. PICK f : f = <<x, p, q>>
  OBVIOUS
<1>2. f \in ResizeSteps(n, type) \X Phases \X Phases /\ f[1] = x /\ f[2] = p /\ f[3] = q
  BY <1>1
<1>3. f \in ResizeKnown(n, type)
  BY <1>2 DEF ResizeKnown
<1>4. <<x>> \in Seq(ResizeSteps(n, type)) /\ <<x>> # <<>> /\ Head(<<x>>) = x
  OBVIOUS
<1> QED
  BY <1>1, <1>3, <1>4, LeadsOne DEF Resizes

LEMMA ResizeMust ==
    ASSUME NEW n, NEW type, NEW cmd, MustStep(cmd) \in ResizeSteps(n, type), NEW p \in Phases, NEW q \in Phases,
           ResizeFits(cmd, p, q)
    PROVE  Resizes(Z!Must(cmd), p, q, n, type) /\ Head(Z!Must(cmd)) = MustStep(cmd)
<1>1. Z!Must(cmd) = <<MustStep(cmd)>>
  BY DEF Z!Must, Z!Step, MustStep
<1>2. MustStep(cmd).cmd = cmd
  BY DEF MustStep
<1>3. PICK x : x = MustStep(cmd)
  OBVIOUS
<1>4. Resizes(<<x>>, p, q, n, type) /\ Head(<<x>>) = x
  BY <1>2, <1>3, ResizesOne
<1> QED
  BY <1>1, <1>3, <1>4

\* The steps of a resize.
LEMMA ResizeCommands ==
    ASSUME NEW n, NEW type \in ResizeTypes
    PROVE  /\ Resizes(Z!DisablePCS, "up", "off", n, type)
           /\ Resizes(Z!WaitPCSRole, "off", "down", n, type)
           /\ Resizes(Z!EnablePCS, "down", "starting", n, type)
           /\ Resizes(Z!WaitGuestAgentOnStartedTarget, "asked", "up", n, type)
           /\ Resizes(Z!WaitGuestAgentOnStartedTarget, "starting", "up", n, type)
           /\ Resizes(Z!GrowOnTarget, "up", "asked", n, type)
           /\ Resizes(Z!Must(<<"rbd snap purge">>), "down", "down", n, type)
           /\ Resizes(Z!Refuse, "asked", "asked", n, type) /\ Head(Z!Refuse) = MustStep(<<"refuse">>)
           /\ Resizes(Z!Must(<<"rbd info">>), "asked", "asked", n, type)
<1>1. \A o \in ResizePCSOps : MustStep(<<"pcs", o>>) \in ResizeSteps(n, type) /\ <<"pcs", o>>[1] = "pcs" /\ <<"pcs", o>>[2] = o
  BY DEF ResizeSteps, PCSSteps
<1>2. \A o \in {"refuse", "rbd info", "rbd snap purge", "grow"} : MustStep(<<o>>) \in ResizeSteps(n, type) /\ <<o>>[1] = o
  BY DEF ResizeSteps, InfoSteps
<1>3. Resizes(Z!DisablePCS, "up", "off", n, type)
  <2>1. ResizeFits(<<"pcs", "disable">>, "up", "off")
    BY DEF ResizeFits
  <2> QED
    BY <1>1, <2>1, ResizeMust DEF Z!DisablePCS, Phases, ResizePCSOps
<1>4. Resizes(Z!WaitPCSRole, "off", "down", n, type)
  <2>1. ResizeFits(<<"pcs", "wait Stopped">>, "off", "down")
    BY DEF ResizeFits
  <2> QED
    BY <1>1, <2>1, ResizeMust DEF Z!WaitPCSRole, Phases, ResizePCSOps
<1>5. Resizes(Z!EnablePCS, "down", "starting", n, type)
  <2>1. ResizeFits(<<"pcs", "enable">>, "down", "starting")
    BY DEF ResizeFits
  <2> QED
    BY <1>1, <2>1, ResizeMust DEF Z!EnablePCS, Phases, ResizePCSOps
<1>6. Resizes(Z!WaitGuestAgentOnStartedTarget, "asked", "up", n, type)
      /\ Resizes(Z!WaitGuestAgentOnStartedTarget, "starting", "up", n, type)
  <2>1. ResizeFits(<<"pcs", "wait agent">>, "asked", "up") /\ ResizeFits(<<"pcs", "wait agent">>, "starting", "up")
    BY DEF ResizeFits
  <2> QED
    BY <1>1, <2>1, ResizeMust DEF Z!WaitGuestAgentOnStartedTarget, Phases, ResizePCSOps
<1>7. Resizes(Z!GrowOnTarget, "up", "asked", n, type)
  <2>1. ResizeFits(<<"grow">>, "up", "asked")
    BY DEF ResizeFits
  <2> QED
    BY <1>2, <2>1, ResizeMust DEF Z!GrowOnTarget, Z!GrowGuestFilesystem, Phases
<1>8. Resizes(Z!Must(<<"rbd snap purge">>), "down", "down", n, type)
  <2>1. ResizeFits(<<"rbd snap purge">>, "down", "down")
    BY DEF ResizeFits
  <2> QED
    BY <1>2, <2>1, ResizeMust DEF Phases
<1>9. Resizes(Z!Refuse, "asked", "asked", n, type) /\ Head(Z!Refuse) = MustStep(<<"refuse">>)
  <2>1. ResizeFits(<<"refuse">>, "asked", "asked")
    BY DEF ResizeFits
  <2> QED
    BY <1>2, <2>1, ResizeMust DEF Z!Refuse, Phases
<1>10. Resizes(Z!Must(<<"rbd info">>), "asked", "asked", n, type)
  <2>1. ResizeFits(<<"rbd info">>, "asked", "asked")
    BY DEF ResizeFits
  <2> QED
    BY <1>2, <2>1, ResizeMust DEF Phases
<1> QED
  BY <1>3, <1>4, <1>5, <1>6, <1>7, <1>8, <1>9, <1>10

RefuseStep == MustStep(<<"refuse">>)

\* What is done after the size has been read.
LEMMA ResizeBody ==
    ASSUME NEW new \in Nat
    PROVE  /\ Resizes(Z!ResizeRBD(new), "asked", "asked", new, "hci")
           /\ new <= SizeLimit \/ Leading(Z!ResizeRBD(new)) = RefuseStep
<1>1. "hci" \in ResizeTypes
  BY DEF ResizeTypes
<1>2. Resizes(Z!Must(<<"rbd resize", new>>), "down", "down", new, "hci")
  <2>1. MustStep(<<"rbd resize", new>>) \in ResizeSteps(new, "hci") /\ <<"rbd resize", new>>[1] = "rbd resize"
    BY DEF ResizeSteps, DiskSteps
  <2>2. ResizeFits(<<"rbd resize", new>>, "down", "down")
    BY DEF ResizeFits
  <2> QED
    BY <2>1, <2>2, ResizeMust DEF Phases
<1>3. \E a : /\ Resizes(a, "asked", "up", new, "hci") /\ (new <= SizeLimit \/ Leading(a) = RefuseStep)
             /\ a = Z!If(new > SizeLimit, Z!Refuse) \o Z!WaitGuestAgentOnStartedTarget
  <2>1. CASE new > SizeLimit
    <3>1. Z!If(new > SizeLimit, Z!Refuse) = Z!Refuse
      BY <2>1 DEF Z!If
    <3>2. Resizes(Z!Refuse, "asked", "asked", new, "hci") /\ Leading(Z!Refuse) = RefuseStep
      BY <1>1, ResizeCommands DEF RefuseStep, Leading
    <3>3. Resizes(Z!WaitGuestAgentOnStartedTarget, "asked", "up", new, "hci")
      BY <1>1, ResizeCommands
    <3>4. PICK o, u : /\ o = Z!Refuse /\ Resizes(o, "asked", "asked", new, "hci") /\ Leading(o) = RefuseStep
                      /\ u = Z!WaitGuestAgentOnStartedTarget /\ Resizes(u, "asked", "up", new, "hci")
      BY <3>2, <3>3
    <3>5. Resizes(o \o u, "asked", "up", new, "hci") /\ Leading(o \o u) = RefuseStep
      BY ONLY <3>4, ResizesThen
    <3>6. /\ Resizes(o \o u, "asked", "up", new, "hci") /\ (new <= SizeLimit \/ Leading(o \o u) = RefuseStep)
          /\ o \o u = Z!If(new > SizeLimit, Z!Refuse) \o Z!WaitGuestAgentOnStartedTarget
      BY <3>1, <3>4, <3>5, Zenon
    <3> QED
      BY <3>6, Zenon
  <2>2. CASE ~(new > SizeLimit)
    <3>1. Z!If(new > SizeLimit, Z!Refuse) = <<>>
      BY <2>2 DEF Z!If
    <3>2. Resizes(Z!WaitGuestAgentOnStartedTarget, "asked", "up", new, "hci")
      BY <1>1, ResizeCommands
    <3>3. <<>> \o Z!WaitGuestAgentOnStartedTarget = Z!WaitGuestAgentOnStartedTarget
      BY <3>2 DEF Resizes
    <3>4. new <= SizeLimit
      BY <2>2, MachinesAssumption
    <3> QED
      BY <3>1, <3>2, <3>3, <3>4
  <2> QED
    BY <2>1, <2>2
<1>4. PICK a : /\ Resizes(a, "asked", "up", new, "hci") /\ (new <= SizeLimit \/ Leading(a) = RefuseStep)
               /\ a = Z!If(new > SizeLimit, Z!Refuse) \o Z!WaitGuestAgentOnStartedTarget
  BY <1>3
<1>5. PICK b : b = a \o Z!DisablePCS /\ Resizes(b, "asked", "off", new, "hci") /\ Leading(b) = Leading(a)
  <2>1. PICK o : o = Z!DisablePCS
    OBVIOUS
  <2>2. Resizes(o, "up", "off", new, "hci")
    BY <1>1, ResizeCommands, <2>1
  <2>3. Resizes(a, "asked", "up", new, "hci")
    BY <1>4
  <2>4. Resizes(a \o o, "asked", "off", new, "hci") /\ Leading(a \o o) = Leading(a)
    BY ONLY <2>2, <2>3, ResizesThen
  <2> QED
    BY <1>4, <2>1, <2>4, Zenon
<1>6. PICK c : c = b \o Z!WaitPCSRole /\ Resizes(c, "asked", "down", new, "hci") /\ Leading(c) = Leading(a)
  <2>1. PICK o : o = Z!WaitPCSRole
    OBVIOUS
  <2>2. Resizes(o, "off", "down", new, "hci")
    BY <1>1, ResizeCommands, <2>1
  <2>3. Resizes(b, "asked", "off", new, "hci")
    BY <1>5
  <2>4. Resizes(b \o o, "asked", "down", new, "hci") /\ Leading(b \o o) = Leading(b)
    BY ONLY <2>2, <2>3, ResizesThen
  <2> QED
    BY <1>5, <2>1, <2>4, Zenon
<1>7. PICK d : d = c \o Z!Must(<<"rbd snap purge">>) /\ Resizes(d, "asked", "down", new, "hci") /\ Leading(d) = Leading(a)
  <2>1. PICK o : o = Z!Must(<<"rbd snap purge">>)
    OBVIOUS
  <2>2. Resizes(o, "down", "down", new, "hci")
    BY <1>1, ResizeCommands, <2>1
  <2>3. Resizes(c, "asked", "down", new, "hci")
    BY <1>6
  <2>4. Resizes(c \o o, "asked", "down", new, "hci") /\ Leading(c \o o) = Leading(c)
    BY ONLY <2>2, <2>3, ResizesThen
  <2> QED
    BY <1>6, <2>1, <2>4, Zenon
<1>8. PICK e : e = d \o Z!Must(<<"rbd resize", new>>) /\ Resizes(e, "asked", "down", new, "hci") /\ Leading(e) = Leading(a)
  <2>1. PICK o : o = Z!Must(<<"rbd resize", new>>)
    OBVIOUS
  <2>2. Resizes(o, "down", "down", new, "hci")
    BY <1>2, <2>1
  <2>3. Resizes(d, "asked", "down", new, "hci")
    BY <1>7
  <2>4. Resizes(d \o o, "asked", "down", new, "hci") /\ Leading(d \o o) = Leading(d)
    BY ONLY <2>2, <2>3, ResizesThen
  <2> QED
    BY <1>7, <2>1, <2>4, Zenon
<1>9. PICK f : f = e \o Z!EnablePCS /\ Resizes(f, "asked", "starting", new, "hci") /\ Leading(f) = Leading(a)
  <2>1. PICK o : o = Z!EnablePCS
    OBVIOUS
  <2>2. Resizes(o, "down", "starting", new, "hci")
    BY <1>1, ResizeCommands, <2>1
  <2>3. Resizes(e, "asked", "down", new, "hci")
    BY <1>8
  <2>4. Resizes(e \o o, "asked", "starting", new, "hci") /\ Leading(e \o o) = Leading(e)
    BY ONLY <2>2, <2>3, ResizesThen
  <2> QED
    BY <1>8, <2>1, <2>4, Zenon
<1>10. PICK g : g = f \o Z!WaitGuestAgentOnStartedTarget /\ Resizes(g, "asked", "up", new, "hci") /\ Leading(g) = Leading(a)
  <2>1. PICK o : o = Z!WaitGuestAgentOnStartedTarget
    OBVIOUS
  <2>2. Resizes(o, "starting", "up", new, "hci")
    BY <1>1, ResizeCommands, <2>1
  <2>3. Resizes(f, "asked", "starting", new, "hci")
    BY <1>9
  <2>4. Resizes(f \o o, "asked", "up", new, "hci") /\ Leading(f \o o) = Leading(f)
    BY ONLY <2>2, <2>3, ResizesThen
  <2> QED
    BY <1>9, <2>1, <2>4, Zenon
<1>11. PICK h : h = g \o Z!GrowOnTarget /\ Resizes(h, "asked", "asked", new, "hci") /\ Leading(h) = Leading(a)
  <2>1. PICK o : o = Z!GrowOnTarget
    OBVIOUS
  <2>2. Resizes(o, "up", "asked", new, "hci")
    BY <1>1, ResizeCommands, <2>1
  <2>3. Resizes(g, "asked", "up", new, "hci")
    BY <1>10
  <2>4. Resizes(g \o o, "asked", "asked", new, "hci") /\ Leading(g \o o) = Leading(g)
    BY ONLY <2>2, <2>3, ResizesThen
  <2> QED
    BY <1>10, <2>1, <2>4, Zenon
<1>12. Z!ResizeRBD(new) = h
  BY <1>4, <1>5, <1>6, <1>7, <1>8, <1>9, <1>10, <1>11, Zenon DEF Z!ResizeRBD
<1> QED
  BY <1>4, <1>11, <1>12

LEMMA ResizeVM ==
    ASSUME NEW n, NEW add \in Added
    PROVE  Resizes(Z!ResizeVM(add), "asked", "asked", n, "vm")
<1>1. "vm" \in ResizeTypes
  BY DEF ResizeTypes
<1>2. Resizes(Z!Must(<<"qemu-img resize", add>>), "down", "down", n, "vm")
  <2>1. MustStep(<<"qemu-img resize", add>>) \in ResizeSteps(n, "vm")
    BY DEF ResizeSteps, DiskSteps
  <2>2. ResizeFits(<<"qemu-img resize", add>>, "down", "down")
    BY DEF ResizeFits
  <2> QED
    BY <2>1, <2>2, ResizeMust DEF Phases
<1>3. Z!WaitCCVMAPIOnStartedResource = Z!WaitGuestAgentOnStartedTarget /\ Z!GrowOnCCVM = Z!GrowOnTarget
  BY DEF Z!WaitCCVMAPIOnStartedResource, Z!WaitGuestAgentOnStartedTarget, Z!GrowOnCCVM, Z!GrowOnTarget
<1>4. Resizes(Z!WaitCCVMAPIOnStartedResource, "asked", "up", n, "vm") /\ Resizes(Z!WaitCCVMAPIOnStartedResource, "starting", "up", n, "vm")
      /\ Resizes(Z!DisablePCS, "up", "off", n, "vm") /\ Resizes(Z!WaitPCSRole, "off", "down", n, "vm")
      /\ Resizes(Z!EnablePCS, "down", "starting", n, "vm") /\ Resizes(Z!GrowOnCCVM, "up", "asked", n, "vm")
  BY <1>1, <1>3, ResizeCommands
<1>5. PICK a : a = Z!WaitCCVMAPIOnStartedResource /\ Resizes(a, "asked", "up", n, "vm")
  BY <1>4
<1>6. PICK b : b = a \o Z!DisablePCS /\ Resizes(b, "asked", "off", n, "vm")
  <2>1. PICK o : o = Z!DisablePCS
    OBVIOUS
  <2>2. Resizes(o, "up", "off", n, "vm")
    BY <1>4, <2>1
  <2>3. Resizes(a, "asked", "up", n, "vm")
    BY <1>5
  <2>4. Resizes(a \o o, "asked", "off", n, "vm") /\ Leading(a \o o) = Leading(a)
    BY ONLY <2>2, <2>3, ResizesThen
  <2> QED
    BY <1>5, <2>1, <2>4, Zenon
<1>7. PICK c : c = b \o Z!WaitPCSRole /\ Resizes(c, "asked", "down", n, "vm")
  <2>1. PICK o : o = Z!WaitPCSRole
    OBVIOUS
  <2>2. Resizes(o, "off", "down", n, "vm")
    BY <1>4, <2>1
  <2>3. Resizes(b, "asked", "off", n, "vm")
    BY <1>6
  <2>4. Resizes(b \o o, "asked", "down", n, "vm") /\ Leading(b \o o) = Leading(b)
    BY ONLY <2>2, <2>3, ResizesThen
  <2> QED
    BY <1>6, <2>1, <2>4, Zenon
<1>8. PICK d : d = c \o Z!Must(<<"qemu-img resize", add>>) /\ Resizes(d, "asked", "down", n, "vm")
  <2>1. PICK o : o = Z!Must(<<"qemu-img resize", add>>)
    OBVIOUS
  <2>2. Resizes(o, "down", "down", n, "vm")
    BY <1>2, <2>1
  <2>3. Resizes(c, "asked", "down", n, "vm")
    BY <1>7
  <2>4. Resizes(c \o o, "asked", "down", n, "vm") /\ Leading(c \o o) = Leading(c)
    BY ONLY <2>2, <2>3, ResizesThen
  <2> QED
    BY <1>7, <2>1, <2>4, Zenon
<1>9. PICK e : e = d \o Z!EnablePCS /\ Resizes(e, "asked", "starting", n, "vm")
  <2>1. PICK o : o = Z!EnablePCS
    OBVIOUS
  <2>2. Resizes(o, "down", "starting", n, "vm")
    BY <1>4, <2>1
  <2>3. Resizes(d, "asked", "down", n, "vm")
    BY <1>8
  <2>4. Resizes(d \o o, "asked", "starting", n, "vm") /\ Leading(d \o o) = Leading(d)
    BY ONLY <2>2, <2>3, ResizesThen
  <2> QED
    BY <1>8, <2>1, <2>4, Zenon
<1>10. PICK f : f = e \o Z!WaitCCVMAPIOnStartedResource /\ Resizes(f, "asked", "up", n, "vm")
  <2>1. PICK o : o = Z!WaitCCVMAPIOnStartedResource
    OBVIOUS
  <2>2. Resizes(o, "starting", "up", n, "vm")
    BY <1>4, <2>1
  <2>3. Resizes(e, "asked", "starting", n, "vm")
    BY <1>9
  <2>4. Resizes(e \o o, "asked", "up", n, "vm") /\ Leading(e \o o) = Leading(e)
    BY ONLY <2>2, <2>3, ResizesThen
  <2> QED
    BY <1>9, <2>1, <2>4, Zenon
<1>11. PICK g : g = f \o Z!GrowOnCCVM /\ Resizes(g, "asked", "asked", n, "vm")
  <2>1. PICK o : o = Z!GrowOnCCVM
    OBVIOUS
  <2>2. Resizes(o, "up", "asked", n, "vm")
    BY <1>4, <2>1
  <2>3. Resizes(f, "asked", "up", n, "vm")
    BY <1>10
  <2>4. Resizes(f \o o, "asked", "asked", n, "vm") /\ Leading(f \o o) = Leading(f)
    BY ONLY <2>2, <2>3, ResizesThen
  <2> QED
    BY <1>10, <2>1, <2>4, Zenon
<1>12. Z!ResizeVM(add) = g
  BY <1>5, <1>6, <1>7, <1>8, <1>9, <1>10, <1>11, Zenon DEF Z!ResizeVM
<1> QED
  BY <1>11, <1>12

LEMMA ResizeStandalone ==
    ASSUME NEW n, NEW add \in Added
    PROVE  Resizes(Z!ResizeStandalone(add), "asked", "asked", n, "standalone")
<1>1. "standalone" \in ResizeTypes
  BY DEF ResizeTypes
<1>2. Resizes(Z!Must(<<"qemu-img resize", add>>), "stopped", "stopped", n, "standalone")
  <2>1. MustStep(<<"qemu-img resize", add>>) \in ResizeSteps(n, "standalone")
    BY DEF ResizeSteps, DiskSteps
  <2>2. ResizeFits(<<"qemu-img resize", add>>, "stopped", "stopped")
    BY DEF ResizeFits
  <2> QED
    BY <2>1, <2>2, ResizeMust DEF Phases
<1>3. \A o \in ResizeVirshOps : MustStep(<<"virsh", o>>) \in ResizeSteps(n, "standalone")
  BY DEF ResizeSteps, VirshSteps
<1>4. Resizes(Z!Try(<<"virsh", "shutdown">>), "asked", "any", n, "standalone")
  <2>1. Z!Try(<<"virsh", "shutdown">>) = <<ShutdownStep>>
    BY DEF Z!Try, Z!Step, ShutdownStep
  <2>2. ShutdownStep \in ResizeSteps(n, "standalone")
    BY DEF ResizeSteps
  <2>3. ShutdownStep.cmd = <<"virsh", "shutdown">> /\ ResizeFits(<<"virsh", "shutdown">>, "asked", "any")
    BY DEF ResizeFits, ShutdownStep
  <2> QED
    BY <2>1, <2>2, <2>3, ResizesOne DEF Phases
<1>5. Resizes(Z!Must(<<"virsh", "wait shut off">>), "any", "stopped", n, "standalone")
  <2>1. ResizeFits(<<"virsh", "wait shut off">>, "any", "stopped")
    BY DEF ResizeFits
  <2> QED
    BY <1>3, <2>1, ResizeMust DEF Phases, ResizeVirshOps
<1>6. Resizes(Z!Must(<<"virsh", "start">>), "stopped", "up", n, "standalone")
  <2>1. ResizeFits(<<"virsh", "start">>, "stopped", "up")
    BY DEF ResizeFits
  <2> QED
    BY <1>3, <2>1, ResizeMust DEF Phases, ResizeVirshOps
<1>7. Resizes(Z!Must(<<"virsh", "wait running">>), "up", "up", n, "standalone")
  <2>1. ResizeFits(<<"virsh", "wait running">>, "up", "up")
    BY DEF ResizeFits
  <2> QED
    BY <1>3, <2>1, ResizeMust DEF Phases, ResizeVirshOps
<1>8. Resizes(Z!WaitGuestAgentLocal, "up", "up", n, "standalone")
  <2>1. ResizeFits(<<"virsh", "wait agent">>, "up", "up")
    BY DEF ResizeFits
  <2> QED
    BY <1>3, <2>1, ResizeMust DEF Phases, ResizeVirshOps, Z!WaitGuestAgentLocal
<1>9. Resizes(Z!GrowGuestFilesystem, "up", "asked", n, "standalone")
  BY <1>1, ResizeCommands DEF Z!GrowOnTarget
<1>10. PICK a : a = Z!Try(<<"virsh", "shutdown">>) /\ Resizes(a, "asked", "any", n, "standalone")
  BY <1>4
<1>11. PICK b : b = a \o Z!Must(<<"virsh", "wait shut off">>) /\ Resizes(b, "asked", "stopped", n, "standalone")
  <2>1. PICK o : o = Z!Must(<<"virsh", "wait shut off">>)
    OBVIOUS
  <2>2. Resizes(o, "any", "stopped", n, "standalone")
    BY <1>5, <2>1
  <2>3. Resizes(a, "asked", "any", n, "standalone")
    BY <1>10
  <2>4. Resizes(a \o o, "asked", "stopped", n, "standalone") /\ Leading(a \o o) = Leading(a)
    BY ONLY <2>2, <2>3, ResizesThen
  <2> QED
    BY <1>10, <2>1, <2>4, Zenon
<1>12. PICK c : c = b \o Z!Must(<<"qemu-img resize", add>>) /\ Resizes(c, "asked", "stopped", n, "standalone")
  <2>1. PICK o : o = Z!Must(<<"qemu-img resize", add>>)
    OBVIOUS
  <2>2. Resizes(o, "stopped", "stopped", n, "standalone")
    BY <1>2, <2>1
  <2>3. Resizes(b, "asked", "stopped", n, "standalone")
    BY <1>11
  <2>4. Resizes(b \o o, "asked", "stopped", n, "standalone") /\ Leading(b \o o) = Leading(b)
    BY ONLY <2>2, <2>3, ResizesThen
  <2> QED
    BY <1>11, <2>1, <2>4, Zenon
<1>13. PICK d : d = c \o Z!Must(<<"virsh", "start">>) /\ Resizes(d, "asked", "up", n, "standalone")
  <2>1. PICK o : o = Z!Must(<<"virsh", "start">>)
    OBVIOUS
  <2>2. Resizes(o, "stopped", "up", n, "standalone")
    BY <1>6, <2>1
  <2>3. Resizes(c, "asked", "stopped", n, "standalone")
    BY <1>12
  <2>4. Resizes(c \o o, "asked", "up", n, "standalone") /\ Leading(c \o o) = Leading(c)
    BY ONLY <2>2, <2>3, ResizesThen
  <2> QED
    BY <1>12, <2>1, <2>4, Zenon
<1>14. PICK e : e = d \o Z!Must(<<"virsh", "wait running">>) /\ Resizes(e, "asked", "up", n, "standalone")
  <2>1. PICK o : o = Z!Must(<<"virsh", "wait running">>)
    OBVIOUS
  <2>2. Resizes(o, "up", "up", n, "standalone")
    BY <1>7, <2>1
  <2>3. Resizes(d, "asked", "up", n, "standalone")
    BY <1>13
  <2>4. Resizes(d \o o, "asked", "up", n, "standalone") /\ Leading(d \o o) = Leading(d)
    BY ONLY <2>2, <2>3, ResizesThen
  <2> QED
    BY <1>13, <2>1, <2>4, Zenon
<1>15. PICK f : f = e \o Z!WaitGuestAgentLocal /\ Resizes(f, "asked", "up", n, "standalone")
  <2>1. PICK o : o = Z!WaitGuestAgentLocal
    OBVIOUS
  <2>2. Resizes(o, "up", "up", n, "standalone")
    BY <1>8, <2>1
  <2>3. Resizes(e, "asked", "up", n, "standalone")
    BY <1>14
  <2>4. Resizes(e \o o, "asked", "up", n, "standalone") /\ Leading(e \o o) = Leading(e)
    BY ONLY <2>2, <2>3, ResizesThen
  <2> QED
    BY <1>14, <2>1, <2>4, Zenon
<1>16. PICK g : g = f \o Z!GrowGuestFilesystem /\ Resizes(g, "asked", "asked", n, "standalone")
  <2>1. PICK o : o = Z!GrowGuestFilesystem
    OBVIOUS
  <2>2. Resizes(o, "up", "asked", n, "standalone")
    BY <1>9, <2>1
  <2>3. Resizes(f, "asked", "up", n, "standalone")
    BY <1>15
  <2>4. Resizes(f \o o, "asked", "asked", n, "standalone") /\ Leading(f \o o) = Leading(f)
    BY ONLY <2>2, <2>3, ResizesThen
  <2> QED
    BY <1>15, <2>1, <2>4, Zenon
<1>17. Z!ResizeStandalone(add) = g
  BY <1>10, <1>11, <1>12, <1>13, <1>14, <1>15, <1>16, Zenon DEF Z!ResizeStandalone
<1> QED
  BY <1>16, <1>17

LEMMA ResizeRead ==
    ASSUME NEW n, NEW add \in Added
    PROVE  Resizes(Z!NewRBDSize(add), "asked", "read", n, "hci")
<1> DEFINE x == [cmd |-> <<"rbd", add>>, on |-> "call", skip |-> 0]
<1>1. Z!Call(<<"rbd", add>>) = <<x>>
  BY DEF Z!Call, Z!Step
<1>2. x \in ResizeSteps(n, "hci")
  BY DEF ResizeSteps, DiskSteps
<1>3. x.cmd = <<"rbd", add>> /\ ResizeFits(<<"rbd", add>>, "asked", "read")
  BY DEF ResizeFits
<1> HIDE DEF x
<1>4. Resizes(Z!Call(<<"rbd", add>>), "asked", "read", n, "hci")
  BY <1>1, <1>2, <1>3, ResizesOne DEF Phases
<1>5. Resizes(Z!Must(<<"rbd info">>), "asked", "asked", n, "hci")
  BY ResizeCommands DEF ResizeTypes
<1> QED
  BY <1>4, <1>5, ResizesThen DEF Z!NewRBDSize

\* An edit only writes the XML.
LEMMA ResizeEdit ==
    ASSUME NEW n, NEW type, NEW v \in Value, NEW z, NEW a, a.value = v
    PROVE  Resizes(Z!EditCCVM(a, z), "asked", "asked", n, type)
<1>1. PICK E : E = EditSteps
  OBVIOUS
<1>2. \A h \in Host : Z!ApplyEdit(h, v) \in Seq(E)
  <2>1. ASSUME NEW h \in Host
        PROVE  Z!ApplyEdit(h, v) \in Seq(E)
    <3>1. Z!ApplyEdit(h, v) = <<[cmd |-> <<"write xml", h, v>>, on |-> "keep", skip |-> 0]>>
      BY DEF Z!ApplyEdit, Z!Note, Z!Step
    <3>2. PICK x : x = [cmd |-> <<"write xml", h, v>>, on |-> "keep", skip |-> 0]
      OBVIOUS
    <3>3. PICK U : U = {[cmd |-> <<"write xml", h, y>>, on |-> "keep", skip |-> 0] : y \in Value} /\ x \in U
      BY <3>2
    <3>4. x \in E
      BY <1>1, <3>3 DEF EditSteps
    <3>5. <<x>> \in Seq(E)
      BY <3>4
    <3> QED
      BY <3>1, <3>2, <3>5
  <2> QED
    BY <2>1
<1>3. Z!Fanout(v) \in Seq(E)
  BY <1>2, ZEach, MachinesAssumption
<1>4. Z!ApplyEdit(Z!SingleEditTarget, v) \in Seq(E)
  BY <1>2, MachinesAssumption DEF Z!SingleEditTarget
<1>5. PICK t \in Seq(E) : Z!EditCCVM(a, z) = t \o Z!Verdict
  BY <1>3, <1>4 DEF Z!EditCCVM
<1>6. \A x \in E : x \in ResizeSteps(n, type) /\ <<x, "asked", "asked">> \in ResizeKnown(n, type)
  <2>1. ASSUME NEW x \in E
        PROVE  x \in ResizeSteps(n, type) /\ <<x, "asked", "asked">> \in ResizeKnown(n, type)
    <3>1. x \in ResizeSteps(n, type)
      BY <1>1 DEF ResizeSteps
    <3>2. x.cmd[1] = "write xml"
      <4>1. PICK h, y : x = [cmd |-> <<"write xml", h, y>>, on |-> "keep", skip |-> 0]
        BY <1>1 DEF EditSteps
      <4> QED
        BY <4>1
    <3>3. ResizeFits(x.cmd, "asked", "asked")
      BY <3>2 DEF ResizeFits
    <3>4. PICK f : f = <<x, "asked", "asked">>
      OBVIOUS
    <3>5. f \in ResizeSteps(n, type) \X Phases \X Phases /\ f[1] = x /\ f[2] = "asked" /\ f[3] = "asked"
      BY <3>1, <3>4 DEF Phases
    <3>6. f \in ResizeKnown(n, type)
      BY <3>3, <3>5 DEF ResizeKnown
    <3> QED
      BY <3>1, <3>4, <3>6
  <2> QED
    BY <2>1
<1>7. Leads(t, "asked", "asked", ResizeKnown(n, type))
  <2>1. \A i \in 1..Len(t) : t[i] \in E
    OBVIOUS
  <2>2. \A i \in 1..Len(t) : <<t[i], "asked", "asked">> \in ResizeKnown(n, type)
    BY <1>6, <2>1
  <2> QED
    BY <2>2, LeadsOn
<1>8. PICK S : S = ResizeSteps(n, type)
  OBVIOUS
<1>9. t \in Seq(S)
  <2>1. E \subseteq S
    BY <1>6, <1>8
  <2> QED
    BY ONLY t \in Seq(E), <2>1
<1>10. Resizes(Z!Verdict, "asked", "asked", n, type)
  <2>1. Z!Verdict = <<VerdictStep>>
    BY DEF Z!Verdict, Z!Step, VerdictStep
  <2>2. VerdictStep \in ResizeSteps(n, type)
    BY DEF ResizeSteps
  <2>3. VerdictStep.cmd = <<"verdict">> /\ ResizeFits(<<"verdict">>, "asked", "asked")
    BY DEF ResizeFits, VerdictStep
  <2> QED
    BY <2>1, <2>2, <2>3, ResizesOne DEF Phases
<1>11. Z!Verdict \in Seq(S) /\ Z!Verdict # <<>> /\ Leads(Z!Verdict, "asked", "asked", ResizeKnown(n, type))
  BY <1>8, <1>10 DEF Resizes
<1>12. PICK u \in Seq(S) : u = t \o Z!Verdict /\ u # <<>>
  <2>1. PICK y : y = Z!Verdict
    OBVIOUS
  <2>2. y \in Seq(S) /\ y # <<>>
    BY <1>11, <2>1
  <2>3. t \o y \in Seq(S) /\ t \o y # <<>>
    BY ONLY <1>9, <2>2, ConcatSome
  <2> QED
    BY <2>1, <2>3
<1>13. Leads(u, "asked", "asked", ResizeKnown(n, type))
  BY <1>7, <1>9, <1>11, <1>12, LeadsThen
<1> QED
  BY <1>5, <1>8, <1>12, <1>13 DEF Resizes

\* What a request begins with.
LEMMA ResizeStart ==
    ASSUME NEW n, NEW z \in ResizeWorld, NEW a \in Z!Asks(z)
    PROVE  \E q \in {"asked", "read"} : Resizes(Z!Start(a, z), "asked", q, n, z.type)
<1>1. CASE a \in Z!EditAsks
  <2>1. a.act = "edit" /\ a.value \in Value
    BY <1>1 DEF Z!EditAsks
  <2> QED
    BY <2>1, ResizeEdit DEF Z!Start
<1>2. CASE a \in Z!ResizeAsks
  <2>1. a.act = "resize" /\ a.add \in Added /\ Z!Start(a, z) = Z!RunCCVMSecondaryResize(a, z)
    BY <1>2 DEF Z!ResizeAsks, Z!Start
  <2>2. CASE z.type = "hci"
    BY <2>1, <2>2, ResizeRead DEF Z!RunCCVMSecondaryResize
  <2>3. CASE z.type = "vm"
    BY <2>1, <2>3, ResizeVM DEF Z!RunCCVMSecondaryResize
  <2>4. CASE z.type = "standalone"
    BY <2>1, <2>4, ResizeStandalone DEF Z!RunCCVMSecondaryResize
  <2> QED
    BY <2>2, <2>3, <2>4 DEF ResizeWorld
<1> QED
  BY <1>1, <1>2 DEF Z!Asks

\* t is left to do in the world z.
ResizeLeft(t, z, alone, clean, n, p, q) ==
    /\ t \in Seq(ResizeSteps(n, z.type)) /\ Leads(t, p, q, ResizeKnown(n, z.type))
    /\ n \in Nat /\ q \in {"asked", "read"}
    /\ z.type = "hci" => n <= SizeLimit \/ Leading(t) = RefuseStep
    /\ alone => (z.type = "hci" => z.size <= n) /\ Phase(p, z, clean)
ResizeSafe(z) == z \in ResizeWorld /\ z.fs <= z.size /\ (z.type = "hci" => z.size <= SizeLimit)

Rest(t) == Tail(t)
\* y may come after z, and t is left then.
Onward(t, y, z, alone, clean, n, q) ==
    /\ ResizeSafe(y) /\ y.type = z.type /\ (alone /\ ~z.harmed => ~y.harmed)
    /\ \E r : ResizeLeft(t, y, alone, clean, n, r, q)

LEMMA AfterNone ==
    ASSUME NEW S, NEW s \in Seq(S)
    PROVE  After(s, 0) = s
<1>1. PICK u \in Seq(S) : u = After(s, 0)
  BY AfterFacts
<1>2. Len(u) = Len(s) /\ \A i \in 1..Len(u) : u[i] = s[i]
  <2>1. 0 <= Len(s) /\ Len(s) - 0 = Len(s) /\ \A i \in 1..Len(u) : i + 0 = i
    OBVIOUS
  <2>2. Len(u) = Len(s) - 0 /\ \A i \in 1..Len(u) : u[i] = s[i + 0]
    BY <1>1, <2>1, AfterFacts
  <2> QED
    BY <2>1, <2>2
<1>3. u = s
  BY <1>2, SeqEqual
<1> QED
  BY <1>1, <1>3

\* What comes first, and what then.
LEMMA LeftHead ==
    ASSUME NEW t, t # <<>>, NEW z, NEW alone, NEW clean, NEW n, NEW p, NEW q, ResizeLeft(t, z, alone, clean, n, p, q)
    PROVE  /\ Leading(t) \in ResizeSteps(n, z.type)
           /\ Tail(t) \in Seq(ResizeSteps(n, z.type))
           /\ \E r \in Phases : /\ p \in Phases /\ ResizeFits(Leading(t).cmd, p, r)
                                /\ Leads(Tail(t), r, q, ResizeKnown(n, z.type))
<1>1. PICK S : S = ResizeSteps(n, z.type)
  OBVIOUS
<1>2. t \in Seq(S) /\ Leads(t, p, q, ResizeKnown(n, z.type))
  BY <1>1 DEF ResizeLeft
<1>3. PICK x : x = Head(t)
  OBVIOUS
<1>4. x \in S /\ Tail(t) \in Seq(S)
  BY ONLY <1>2, t # <<>>, <1>3, HeadAndTail
<1>5. PICK r : <<Head(t), p, r>> \in ResizeKnown(n, z.type) /\ Leads(Tail(t), r, q, ResizeKnown(n, z.type))
  BY <1>2, LeadsNext
<1>6. PICK f : f = <<x, p, r>>
  OBVIOUS
<1>7. f[1] = x /\ f[2] = p /\ f[3] = r /\ f \in ResizeKnown(n, z.type)
  BY <1>3, <1>5, <1>6
<1>8. p \in Phases /\ r \in Phases /\ ResizeFits(x.cmd, p, r)
  BY <1>7 DEF ResizeKnown
<1> QED
  BY <1>1, <1>3, <1>4, <1>5, <1>8 DEF Leading

\* At the end.
LEMMA LeftNone ==
    ASSUME NEW z, NEW clean, NEW n, NEW p, NEW q, ResizeLeft(<<>>, z, TRUE, clean, n, p, q)
    PROVE  clean => z.up
<1>1. PICK s : s[1] = p /\ s[Len(<<>>) + 1] = q
  BY DEF ResizeLeft, Leads
<1>2. Len(<<>>) + 1 = 1
  OBVIOUS
<1>3. p = q
  BY <1>1, <1>2
<1>4. p = "asked" \/ p = "read"
  BY <1>3 DEF ResizeLeft
<1>5. Phase(p, z, clean)
  BY DEF ResizeLeft
<1> QED
  BY <1>4, <1>5, PhaseIs

\* A command passes.
LEMMA LeftPasses ==
    ASSUME NEW t, t # <<>>, NEW z, ResizeSafe(z), NEW alone, NEW clean \in BOOLEAN, NEW n, NEW p, NEW q,
           ResizeLeft(t, z, alone, clean, n, p, q),
           Leading(t).on \notin {"verdict", "call"}, NEW y \in Z!Effect(Leading(t).cmd, z)
    PROVE  Onward(Rest(t), y, z, alone, clean, n, q)
<1>1. PICK x : x = Leading(t)
  OBVIOUS
<1>2. x \in ResizeSteps(n, z.type) /\ Tail(t) \in Seq(ResizeSteps(n, z.type))
  BY <1>1, LeftHead
<1>3. PICK r \in Phases : p \in Phases /\ ResizeFits(x.cmd, p, r) /\ Leads(Tail(t), r, q, ResizeKnown(n, z.type))
  BY <1>1, LeftHead
<1>4. n \in Nat /\ z \in ResizeWorld /\ Added \subseteq Nat /\ y \in Z!Effect(x.cmd, z) /\ x.on \notin {"verdict", "call"}
  BY <1>1, MachinesAssumption DEF ResizeLeft, ResizeSafe
<1>5. /\ y \in ResizeWorld /\ y.type = z.type
      /\ z.fs <= z.size => y.fs <= y.size
      /\ z.type = "hci" => y.size = z.size \/ (y.size = n /\ z.size <= n)
      /\ x.cmd[1] # "refuse"
      /\ ResizeFits(x.cmd, p, r) /\ Phase(p, z, clean) => Phase(r, y, clean) /\ (~z.harmed => ~y.harmed)
  <2>1. x \in ResizeSteps(n, z.type)
    BY <1>2
  <2>2. ResizePassed(x, y, z, n, p, r, clean)
    BY <1>4, <2>1, ResizeEffect
  <2> QED
    BY <2>2 DEF ResizePassed
<1>6. z.type = "hci" => n <= SizeLimit
  <2>1. RefuseStep.cmd[1] = "refuse"
    BY DEF RefuseStep, MustStep
  <2> QED
    BY <1>1, <1>5, <2>1 DEF ResizeLeft
<1>7. z.size \in Nat /\ y.size \in Nat /\ SizeLimit \in Nat
  BY <1>4, <1>5, MachinesAssumption DEF ResizeWorld
<1>8. ResizeSafe(y)
  BY <1>5, <1>6 DEF ResizeSafe
<1>9. alone => (y.type = "hci" => y.size <= n) /\ Phase(r, y, clean) /\ (~z.harmed => ~y.harmed)
  <2>1. alone => Phase(p, z, clean) /\ (z.type = "hci" => z.size <= n)
    BY DEF ResizeLeft
  <2> QED
    BY <1>3, <1>4, <1>5, <1>7, <2>1
<1>10. ResizeLeft(Tail(t), y, alone, clean, n, r, q)
  BY <1>2, <1>3, <1>5, <1>6, <1>9 DEF ResizeLeft
<1> QED
  BY <1>5, <1>8, <1>9, <1>10 DEF Onward, Rest

\* A command fails.
LEMMA LeftFails ==
    ASSUME NEW t, t # <<>>, NEW z, ResizeSafe(z), NEW alone, NEW clean \in BOOLEAN, NEW still \in BOOLEAN,
           NEW n, NEW p, NEW q, ResizeLeft(t, z, alone, clean, n, p, q),
           Leading(t).on \notin {"verdict", "call"}, NEW y \in {z} \cup Z!Effect(Leading(t).cmd, z),
           still => clean /\ Z!Effect(Leading(t).cmd, z) = {}
    PROVE  /\ ResizeSafe(y) /\ y.type = z.type /\ (alone /\ ~z.harmed => ~y.harmed)
           /\ IF Leading(t).on = "return" THEN alone /\ still => y.up
              ELSE \E r : ResizeLeft(Tail(t), y, alone, still, n, r, q)
<1>1. PICK x : x = Leading(t)
  OBVIOUS
<1>2. x \in ResizeSteps(n, z.type) /\ Tail(t) \in Seq(ResizeSteps(n, z.type))
  BY <1>1, LeftHead
<1>3. PICK r \in Phases : p \in Phases /\ ResizeFits(x.cmd, p, r) /\ Leads(Tail(t), r, q, ResizeKnown(n, z.type))
  BY <1>1, LeftHead
<1>4. /\ ResizeSafe(y) /\ y.type = z.type /\ (alone /\ ~z.harmed => ~y.harmed)
      /\ alone => (y.type = "hci" => y.size <= n)
  <2>1. CASE y = z
    BY <2>1 DEF ResizeLeft
  <2>2. CASE y \in Z!Effect(x.cmd, z)
    <3>1. Onward(Rest(t), y, z, alone, clean, n, q)
      <4>1. y \in Z!Effect(Leading(t).cmd, z)
        BY <1>1, <2>2
      <4> QED
        BY <4>1, LeftPasses
    <3> QED
      BY <3>1 DEF ResizeLeft, Onward
  <2> QED
    BY <1>1, <2>1, <2>2
<1>5. n \in Nat /\ z \in ResizeWorld /\ x.on \notin {"verdict", "call"} /\ (alone => Phase(p, z, clean) /\ (z.type = "hci" => z.size <= n))
  BY <1>1 DEF ResizeLeft, ResizeSafe
<1>6. ASSUME alone, still
      PROVE  IF x.on = "return" THEN y.up ELSE Phase(r, y, still)
  <2>1. Z!Effect(x.cmd, z) = {} /\ y = z /\ clean = TRUE /\ still = TRUE
    BY <1>1, <1>6
  <2>2. IF x.on = "return" THEN clean => z.up ELSE Phase(r, z, clean)
    BY ONLY <1>2, <1>3, <1>5, <1>6, <2>1, clean \in BOOLEAN, ResizeCannot
  <2> QED
    BY <2>1, <2>2
<1>7. ASSUME ~still, x.on # "return"
      PROVE  Phase(r, y, still)
  <2>1. Phase(r, y, FALSE)
    BY <1>2, <1>3, <1>5, <1>7, ResizeMayFail
  <2>2. still = FALSE
    BY <1>7
  <2> QED
    BY <2>1, <2>2
<1>8. x.on # "return" => ResizeLeft(Tail(t), y, alone, still, n, r, q)
  <2>1. RefuseStep.on = "return"
    BY DEF RefuseStep, MustStep
  <2> QED
    BY <1>1, <1>2, <1>3, <1>4, <1>6, <1>7, <2>1 DEF ResizeLeft
<1> QED
  BY <1>1, <1>4, <1>6, <1>8

ResizeGoes(t, z, alone, clean) == \E n, p, q : ResizeLeft(t, z, alone, clean, n, p, q)
ResizeInv ==
    /\ overlap \in BOOLEAN /\ ResizeSafe(w) /\ ReqTyped(ResizeAll, NoKinds)
    /\ \A c \in Requester : Works(c) => ResizeGoes(req[c].run.todo, w, ~overlap, lost = {})
    /\ ~overlap => /\ Alone /\ ~w.harmed
                   /\ (\A c \in Requester : ~Works(c)) /\ lost = {} => w.up

\* What an overlapping request has left is not about the world.
LEMMA LeftOver ==
    ASSUME NEW t, NEW y, NEW z, y.type = z.type, NEW b, NEW d, ResizeGoes(t, z, FALSE, b)
    PROVE  ResizeGoes(t, y, FALSE, d)
  BY DEF ResizeGoes, ResizeLeft

\* The todo of a request that goes on is whole.
LEMMA LeftWhole ==
    ASSUME NEW z, z.type \in ResizeTypes, NEW t, NEW b, NEW d, ResizeGoes(t, z, b, d)
    PROVE  t \in Seq(ResizeAll) /\ Whole(t, NoKinds)
<1>1. PICK n, p, q : ResizeLeft(t, z, b, d, n, p, q)
  BY DEF ResizeGoes
<1>2. n \in Nat /\ t \in Seq(ResizeSteps(n, z.type))
  BY <1>1 DEF ResizeLeft
<1> QED
  BY <1>2, ResizeWhole

LEMMA ResizeStepOf ==
    ASSUME ResizeInv, NEW c \in Requester, Works(c), NEW t, NEW b \in BOOLEAN,
           GoesOn(c, At(t, b)), ResizeSafe(w'), w'.type = w.type, overlap' = overlap,
           ~overlap /\ ~w.harmed => ~w'.harmed,
           t # <<>> => ResizeGoes(t, w', ~overlap, lost' = {}),
           t = <<>> /\ ~overlap /\ lost' = {} => w'.up
    PROVE  ResizeInv'
<1>1. PICK y : y = w' /\ ResizeSafe(y) /\ y.type = w.type /\ (~overlap /\ ~w.harmed => ~y.harmed)
  OBVIOUS
<1>2. w.type \in ResizeTypes
  BY DEF ResizeInv, ResizeSafe, ResizeWorld, ResizeTypes
<1>3. t # <<>> => t \in Seq(ResizeAll) /\ Whole(t, NoKinds)
  BY <1>1, <1>2, LeftWhole
<1>4. ReqTyped(ResizeAll, NoKinds)
  BY DEF ResizeInv
<1>5. PICK r : r = At(t, b)
  OBVIOUS
<1>6. r.todo = t
  BY <1>5, AtParts
<1>7. r.todo # <<>> => r \in Handlers(ResizeAll) /\ Whole(r.todo, NoKinds)
  BY <1>3, <1>5, <1>6 DEF Handlers, At
<1>8. /\ ReqTyped(ResizeAll, NoKinds)' /\ (\A d \in Requester : d # c => req'[d] = req[d])
      /\ req'[c].state = "runs" => req'[c].run = r
  BY <1>4, <1>5, <1>7, GoingOn
<1>9. req'[c].state = "runs" <=> t # <<>>
  <2>1. req'[c] = IF t = <<>> THEN NoReq ELSE [req[c] EXCEPT !.run = r]
    BY <1>4, <1>5, <1>6 DEF GoesOn, ReqTyped
  <2>2. [req[c] EXCEPT !.run = r].state = "runs"
    BY <1>4 DEF ReqTyped, Works
  <2>3. NoReq.state # "runs"
    BY DEF NoReq
  <2> QED
    BY <2>1, <2>2, <2>3
<1>10. ~overlap' => Alone' /\ \A d \in Requester : req'[d].state = "runs" => d = c
  BY <1>8, AloneStep DEF ResizeInv
<1>11. ASSUME NEW d \in Requester, req'[d].state = "runs"
       PROVE  ResizeGoes(req'[d].run.todo, y, ~overlap', lost' = {})
  <2>1. CASE d = c
    BY <1>1, <1>6, <1>8, <1>9, <1>11, <2>1
  <2>2. CASE d # c
    <3>1. overlap = TRUE /\ overlap' = TRUE
      BY <1>10, <1>11, <2>2 DEF ResizeInv
    <3>2. Works(d) /\ req'[d] = req[d]
      BY <1>8, <1>11, <2>2 DEF Works
    <3>3. ResizeGoes(req[d].run.todo, w, ~overlap, lost = {})
      BY <3>2 DEF ResizeInv
    <3>4. (~overlap) = FALSE /\ (~overlap') = FALSE
      BY <3>1
    <3>5. ResizeGoes(req[d].run.todo, w, FALSE, lost = {})
      BY <3>3, <3>4
    <3>6. ResizeGoes(req[d].run.todo, y, FALSE, lost' = {})
      BY <1>1, <3>5, LeftOver
    <3> QED
      BY <3>2, <3>4, <3>6
  <2> QED
    BY <2>1, <2>2
<1>12. ~overlap' => ~y.harmed /\ ((\A d \in Requester : req'[d].state # "runs") /\ lost' = {} => y.up)
  BY <1>1, <1>9 DEF ResizeInv
<1> QED
  BY <1>1, <1>8, <1>10, <1>11, <1>12 DEF ResizeInv, Works

\* Where a handler of the resize goes from its first step.
LEMMA ResizeHandler ==
    ASSUME ResizeInv, NEW c \in Requester, Works(c), NEW t, t = req[c].run.todo
    PROVE  /\ ResizeGoes(t, w, ~overlap, lost = {}) /\ t # <<>>
           /\ Sc!Now(req[c].run) = Leading(t).cmd
           /\ Sc!Inner(req[c].run) <=> Leading(t).on \in {"verdict", "call"}
           /\ \E b \in BOOLEAN : req[c].run = At(t, b) /\ Sc!Passes(req[c].run) = At(Rest(t), b)
           /\ Leading(t).on = "return" => Sc!Fails(req[c].run) = At(<<>>, TRUE)
           /\ Leading(t).on # "return" => \E b \in BOOLEAN : Sc!Fails(req[c].run) = At(Rest(t), b)
           /\ Leading(t).on \in Ons
<1>1. PICK r \in Handlers(ResizeAll) : r = req[c].run /\ r.todo # <<>> /\ r.todo = t /\ Whole(t, NoKinds)
  BY DEF ResizeInv, ReqTyped
<1>2. ResizeGoes(t, w, ~overlap, lost = {})
  BY DEF ResizeInv
<1>3. PICK n, p, q : ResizeLeft(t, w, ~overlap, lost = {}, n, p, q)
  BY <1>2 DEF ResizeGoes
<1>4. Leading(t) \in ResizeSteps(n, w.type)
  BY <1>1, <1>3, LeftHead
<1>5. Leading(t).skip = 0
  BY <1>4, ResizeStepIs
<1>6. \A x \in ResizeAll : x.skip \in Nat /\ x.on \in Ons
  BY ResizeAllFacts
<1>7. t \in Seq(ResizeAll) /\ t # <<>>
  BY <1>1 DEF Handlers
<1>8. Head(t) = Leading(t) /\ Tail(t) = Rest(t)
  BY DEF Leading, Rest
<1>9. Head(t) \in ResizeAll /\ Tail(t) \in Seq(ResizeAll) /\ Len(t) \in Nat \ {0}
  BY ONLY <1>7, HeadAndTail
<1>10. Head(r.todo).skip + 1 <= Len(r.todo)
  <2>1. 0 + 1 <= Len(t)
    BY <1>9
  <2> QED
    BY <1>1, <1>5, <1>8, <2>1
<1>11. /\ Sc!Now(r) = Head(r.todo).cmd /\ (Sc!Inner(r) <=> Head(r.todo).on \in {"verdict", "call"})
       /\ Sc!Passes(r) = At(Tail(r.todo), r.bad)
       /\ Head(r.todo).on = "return" => Sc!Fails(r) = At(<<>>, TRUE)
       /\ Head(r.todo).on # "return" =>
             \E b \in BOOLEAN : Sc!Fails(r) = At(After(Tail(r.todo), Head(r.todo).skip), b)
  BY <1>1, <1>6, <1>10, HandlerGoes
<1>12. After(Tail(t), 0) = Tail(t)
  BY <1>9, AfterNone
<1>13. r.bad \in BOOLEAN /\ r = At(t, r.bad)
  BY <1>1 DEF Handlers, At
<1>14. Leading(t).on \in Ons
  BY <1>6, <1>8, <1>9
<1> QED
  BY <1>1, <1>2, <1>5, <1>8, <1>11, <1>12, <1>13, <1>14, Zenon

\* A command of the handler of c.
LEMMA ResizeCommand ==
    ASSUME ResizeInv, NEW c \in Requester, Works(c), Z!Command(c) \/ Z!CommandFails(c)
    PROVE  ResizeInv'
<1>1. PICK t : t = req[c].run.todo
  OBVIOUS
<1>2. /\ ResizeGoes(t, w, ~overlap, lost = {}) /\ t # <<>>
      /\ Sc!Now(req[c].run) = Leading(t).cmd
      /\ Sc!Inner(req[c].run) <=> Leading(t).on \in {"verdict", "call"}
      /\ \E b \in BOOLEAN : req[c].run = At(t, b) /\ Sc!Passes(req[c].run) = At(Rest(t), b)
      /\ Leading(t).on = "return" => Sc!Fails(req[c].run) = At(<<>>, TRUE)
      /\ Leading(t).on # "return" => \E b \in BOOLEAN : Sc!Fails(req[c].run) = At(Rest(t), b)
  BY <1>1, ResizeHandler
<1>3. PICK n, p, q : ResizeLeft(t, w, ~overlap, lost = {}, n, p, q)
  BY <1>2 DEF ResizeGoes
<1>4. /\ ~Sc!Inner(req[c].run) /\ Z!Now(req[c].run) = Leading(t).cmd
      /\ Z!Passes(req[c].run) = Sc!Passes(req[c].run) /\ Z!Fails(req[c].run) = Sc!Fails(req[c].run)
  BY <1>2, SameScripts DEF Z!Command, Z!CommandFails
<1>5. Leading(t).on \notin {"verdict", "call"}
  BY <1>2, <1>4
<1>6. \A r : Z!Becomes(c, r) => GoesOn(c, r)
  BY SameRunners
<1>7. ResizeSafe(w)
  BY DEF ResizeInv
<1>8. PICK o \in BOOLEAN : o = ~overlap
  OBVIOUS
<1>9. PICK e \in BOOLEAN : e = (lost = {})
  OBVIOUS
<1>10. ResizeLeft(t, w, o, e, n, p, q)
  BY <1>3, <1>8, <1>9
<1>11. ASSUME w' \in Z!Effect(Leading(t).cmd, w), Z!Becomes(c, Sc!Passes(req[c].run)), UNCHANGED <<overlap, lost>>
       PROVE  ResizeInv'
  <2>1. PICK y : y = w' /\ y \in Z!Effect(Leading(t).cmd, w)
    BY <1>11
  <2>2. Onward(Rest(t), y, w, o, e, n, q)
    BY <1>2, <1>5, <1>7, <1>10, <2>1, LeftPasses
  <2>8. PICK b \in BOOLEAN : Sc!Passes(req[c].run) = At(Rest(t), b)
    BY <1>2
  <2>9. GoesOn(c, At(Rest(t), b))
    BY <1>6, <1>11, <2>8
  <2>3. PICK u : u = Rest(t) /\ GoesOn(c, At(u, b))
    BY <2>9, Zenon
  <2>4. PICK s : ResizeLeft(u, y, o, e, n, s, q)
    BY <2>2, <2>3 DEF Onward
  <2>5. ResizeSafe(y) /\ y.type = w.type /\ (~overlap /\ ~w.harmed => ~y.harmed)
    BY <1>8, <2>2 DEF Onward
  <2>6. u # <<>> => ResizeGoes(u, y, ~overlap, lost' = {})
    <3>1. lost' = lost
      BY <1>11
    <3> QED
      BY <1>8, <1>9, <2>4, <3>1 DEF ResizeGoes
  <2>7. u = <<>> /\ ~overlap /\ lost' = {} => y.up
    <3>1. ASSUME u = <<>>, ~overlap, lost' = {}
          PROVE  y.up
      <4>1. o = TRUE /\ e = TRUE
        BY <1>8, <1>9, <1>11, <3>1
      <4>2. ResizeLeft(<<>>, y, TRUE, TRUE, n, s, q)
        BY <2>4, <3>1, <4>1
      <4> QED
        BY <4>2, LeftNone
    <3> QED
      BY <3>1
  <2> QED
    BY <1>11, <2>1, <2>3, <2>5, <2>6, <2>7, ResizeStepOf
<1>12. ASSUME w' \in {w} \cup Z!Effect(Leading(t).cmd, w), Z!Becomes(c, Sc!Fails(req[c].run)), overlap' = overlap,
              lost' = {} => lost = {} /\ Z!Effect(Leading(t).cmd, w) = {}
       PROVE  ResizeInv'
  <2>1. PICK y : y = w' /\ y \in {w} \cup Z!Effect(Leading(t).cmd, w)
    BY <1>12
  <2>2. PICK d \in BOOLEAN : d = (lost' = {})
    OBVIOUS
  <2>3. d => e /\ Z!Effect(Leading(t).cmd, w) = {}
    BY <1>9, <1>12, <2>2
  <2>4. /\ ResizeSafe(y) /\ y.type = w.type /\ (o /\ ~w.harmed => ~y.harmed)
        /\ IF Leading(t).on = "return" THEN o /\ d => y.up
           ELSE \E r : ResizeLeft(Tail(t), y, o, d, n, r, q)
    BY <1>2, <1>5, <1>7, <1>10, <2>1, <2>3, LeftFails
  <2>5. CASE Leading(t).on = "return"
    <3>1. PICK u : u = <<>>
      OBVIOUS
    <3>2. GoesOn(c, At(u, TRUE))
      BY <1>2, <1>6, <1>12, <2>5, <3>1
    <3> QED
      BY <1>8, <1>12, <2>1, <2>2, <2>4, <2>5, <3>1, <3>2, ResizeStepOf
  <2>6. CASE Leading(t).on # "return"
    <3>5. PICK b \in BOOLEAN : Sc!Fails(req[c].run) = At(Rest(t), b)
      BY <1>2, <2>6
    <3>6. GoesOn(c, At(Rest(t), b))
      BY <1>6, <1>12, <3>5
    <3>1. PICK u : u = Rest(t) /\ GoesOn(c, At(u, b))
      BY <3>6, Zenon
    <3>2. PICK s : ResizeLeft(u, y, o, d, n, s, q)
      BY <2>4, <2>6, <3>1 DEF Rest
    <3>3. u # <<>> => ResizeGoes(u, y, ~overlap, lost' = {})
      BY <1>8, <2>2, <3>2 DEF ResizeGoes
    <3>4. u = <<>> /\ ~overlap /\ lost' = {} => y.up
      <4>1. ASSUME u = <<>>, ~overlap, lost' = {}
            PROVE  y.up
        <5>1. o = TRUE /\ d = TRUE
          BY <1>8, <2>2, <4>1
        <5>2. ResizeLeft(<<>>, y, TRUE, TRUE, n, s, q)
          BY <3>2, <4>1, <5>1
        <5> QED
          BY <5>2, LeftNone
      <4> QED
        BY <4>1
    <3> QED
      BY <1>8, <1>12, <2>1, <2>4, <3>1, <3>3, <3>4, ResizeStepOf
  <2> QED
    BY <2>5, <2>6
<1>13. CASE Z!CommandFails(c)
  <2>1. /\ w' \in {w} \cup Z!Effect(Leading(t).cmd, w) /\ Z!Becomes(c, Sc!Fails(req[c].run)) /\ overlap' = overlap
        /\ lost' # {}
    BY <1>4, <1>13 DEF Z!CommandFails, Z!Matters
  <2> QED
    BY <1>12, <2>1
<1>14. CASE Z!Command(c)
  <2>1. CASE w' \in Z!Effect(Z!Now(req[c].run), w) /\ Z!Becomes(c, Z!Passes(req[c].run))
    BY <1>4, <1>11, <1>14, <2>1 DEF Z!Command
  <2>2. CASE Z!Effect(Z!Now(req[c].run), w) = {} /\ Z!Becomes(c, Z!Fails(req[c].run)) /\ UNCHANGED w
    BY <1>4, <1>12, <1>14, <2>2 DEF Z!Command
  <2> QED
    BY <1>14, <2>1, <2>2 DEF Z!Command
<1> QED
  BY <1>13, <1>14

\* A step of the handler of c that runs no command.
LEMMA ResizeContinue ==
    ASSUME ResizeInv, NEW c \in Requester, Works(c), Z!Continue(c)
    PROVE  ResizeInv'
<1>1. PICK t : t = req[c].run.todo
  OBVIOUS
<1>2. /\ ResizeGoes(t, w, ~overlap, lost = {}) /\ t # <<>>
      /\ Sc!Now(req[c].run) = Leading(t).cmd
      /\ Sc!Inner(req[c].run) <=> Leading(t).on \in {"verdict", "call"}
  BY <1>1, ResizeHandler
<1>3. PICK f \in BOOLEAN : req[c].run = At(t, f)
  BY <1>1, ResizeHandler
<1>4. PICK n, p, q : ResizeLeft(t, w, ~overlap, lost = {}, n, p, q)
  BY <1>2 DEF ResizeGoes
<1>5. PICK x : x = Leading(t) /\ x \in ResizeSteps(n, w.type)
  BY <1>2, <1>4, LeftHead
<1>6. PICK s \in Phases : ResizeFits(x.cmd, p, s) /\ Leads(Tail(t), s, q, ResizeKnown(n, w.type))
  BY <1>2, <1>4, <1>5, LeftHead
<1>7. PICK o \in BOOLEAN : o = ~overlap
  OBVIOUS
<1>8. PICK e \in BOOLEAN : e = (lost = {})
  OBVIOUS
<1>9. ResizeLeft(t, w, o, e, n, p, q)
  BY <1>4, <1>7, <1>8
<1>10. /\ Z!Becomes(c, Z!Inside(req[c].run, LAMBDA cmd : Z!Body(cmd, w))) /\ UNCHANGED <<w, overlap, lost>>
       /\ Z!Now(req[c].run) = x.cmd /\ Z!On(req[c].run) = x.on /\ x.on \in {"verdict", "call"}
  <2>1. Z!Now(req[c].run) = Sc!Now(req[c].run) /\ Z!Inner(req[c].run) = Sc!Inner(req[c].run)
    BY SameScripts
  <2>2. Z!On(req[c].run) = x.on
    BY <1>3, <1>5 DEF Z!On, At, Leading
  <2> QED
    BY <1>2, <1>5, <2>1, <2>2 DEF Z!Continue
<1>11. ResizeSafe(w) /\ w.type \in ResizeTypes
  BY DEF ResizeInv, ResizeSafe, ResizeWorld, ResizeTypes
<1>12. \A u, b : Z!Settle(At(u, b)) = At(u, b)
  BY DEF Z!Settle, At
<1>13. ResizeIs(x, n, w.type)
  BY <1>5, ResizeStepIs
<1>14. CASE x.on = "verdict" /\ f
  <2>1. Z!Inside(req[c].run, LAMBDA cmd : Z!Body(cmd, w)) = Z!Return(At(t, f))
    BY <1>3, <1>10, <1>14, AtParts DEF Z!Inside
  <2>2. Z!Return(At(t, f)) = At(<<>>, TRUE)
    BY <1>12, AtReturn, Zenon DEF Z!Return
  <2>3. GoesOn(c, At(<<>>, TRUE))
    <3>1. \A r : Z!Becomes(c, r) => GoesOn(c, r)
      BY SameRunners
    <3> QED
      BY <1>10, <2>1, <2>2, <3>1
  <2>4. PICK u : u = <<>> /\ GoesOn(c, At(u, TRUE))
    BY <2>3
  <2>5. p = "asked"
    <3>1. x.cmd[1] = "verdict"
      BY <1>13, <1>14 DEF ResizeIs
    <3> QED
      BY <1>6, <3>1, FitsIs
  <2>6. ~overlap /\ lost' = {} => w.up
    <3>1. ~overlap => Phase("asked", w, e)
      BY <1>7, <1>9, <2>5 DEF ResizeLeft
    <3> QED
      BY <1>8, <1>10, <3>1, PhaseIs
  <2> QED
    BY <1>10, <1>11, <2>4, <2>6, ResizeStepOf
<1>15. CASE x.on = "verdict" /\ ~f
  <2>1. Z!Inside(req[c].run, LAMBDA cmd : Z!Body(cmd, w)) = Z!Go(At(t, f))
    BY <1>3, <1>10, <1>15, AtParts DEF Z!Inside
  <2>2. Z!Go(At(t, f)) = At(Rest(t), f)
    <3>1. At(t, f).todo = t /\ \A y : [At(t, f) EXCEPT !.todo = y] = At(y, f)
      BY AtParts, AtTodo, Zenon
    <3>2. [At(t, f) EXCEPT !.todo = Tail(At(t, f).todo)] = At(Tail(t), f)
      BY <3>1, Zenon
    <3> QED
      BY <1>12, <3>2, Zenon DEF Z!Go, Rest
  <2>3. GoesOn(c, At(Rest(t), f))
    <3>1. \A r : Z!Becomes(c, r) => GoesOn(c, r)
      BY SameRunners
    <3> QED
      BY <1>10, <2>1, <2>2, <3>1
  <2>4. PICK u : u = Rest(t) /\ GoesOn(c, At(u, f))
    BY <2>3, Zenon
  <2>5. p = "asked" /\ s = "asked"
    <3>1. x.cmd[1] = "verdict"
      BY <1>13, <1>15 DEF ResizeIs
    <3> QED
      BY <1>6, <3>1, FitsIs
  <2>6. ResizeLeft(u, w, o, e, n, "asked", q)
    <3>1. u \in Seq(ResizeSteps(n, w.type)) /\ Leads(u, "asked", q, ResizeKnown(n, w.type))
      BY <1>2, <1>4, <1>6, <2>4, <2>5, LeftHead DEF Rest
    <3>2. x # RefuseStep
      BY <1>15 DEF RefuseStep, MustStep
    <3> QED
      BY <1>5, <1>9, <2>5, <3>1, <3>2 DEF ResizeLeft
  <2>7. u # <<>> => ResizeGoes(u, w, ~overlap, lost' = {})
    BY <1>7, <1>8, <1>10, <2>6 DEF ResizeGoes
  <2>8. u = <<>> /\ ~overlap /\ lost' = {} => w.up
    <3>1. ASSUME u = <<>>, ~overlap, lost' = {}
          PROVE  w.up
      <4>1. o = TRUE /\ e = TRUE
        BY <1>7, <1>8, <1>10, <3>1
      <4>2. ResizeLeft(<<>>, w, TRUE, TRUE, n, "asked", q)
        BY <2>6, <3>1, <4>1
      <4> QED
        BY <4>2, LeftNone
    <3> QED
      BY <3>1
  <2> QED
    BY <1>10, <1>11, <2>4, <2>7, <2>8, ResizeStepOf
<1>16. CASE x.on = "call"
  <2>1. w.type = "hci" /\ x.cmd[1] = "rbd" /\ x.cmd[2] \in Added
    BY <1>13, <1>16 DEF ResizeIs
  <2>2. p = "asked" /\ s = "read"
    BY <1>6, <2>1, FitsIs
  <2>3. Tail(t) = <<>>
    <3>1. PICK S : S = ResizeSteps(n, w.type)
      OBVIOUS
    <3>2. PICK u \in Seq(S) : u = Tail(t)
      BY <1>2, <1>4, <3>1, LeftHead
    <3>3. ASSUME u # <<>>
          PROVE  FALSE
      <4>1. PICK r : <<Head(u), s, r>> \in ResizeKnown(n, w.type)
        BY <1>6, <3>2, <3>3, LeadsNext
      <4>2. PICK g : g = <<Head(u), s, r>>
        OBVIOUS
      <4>3. g \in ResizeKnown(n, w.type) /\ g[2] = s /\ g[3] = r
        BY <4>1, <4>2
      <4>4. ResizeFits(g[1].cmd, s, r)
        BY <4>3 DEF ResizeKnown
      <4> QED
        BY <2>2, <4>4, FitsIs
    <3> QED
      BY <3>2, <3>3
  <2>4. PICK m \in Nat : m = w.size + x.cmd[2] /\ w.size <= m
    <3>1. w.size \in Nat /\ x.cmd[2] \in Nat
      BY <1>11, <2>1, MachinesAssumption DEF ResizeSafe, ResizeWorld
    <3> QED
      BY <3>1
  <2>5. PICK b : b = Z!ResizeRBD(m) /\ Resizes(b, "asked", "asked", m, "hci") /\ (m <= SizeLimit \/ Leading(b) = RefuseStep)
    BY ResizeBody
  <2>6. Z!Body(x.cmd, w) = b
    BY <2>4, <2>5 DEF Z!Body
  <2>7. Z!Inside(req[c].run, LAMBDA cmd : Z!Body(cmd, w)) = Z!Settle([At(t, f) EXCEPT !.todo = b \o Tail(@)])
    BY <1>3, <1>10, <1>16, <2>6 DEF Z!Inside
  <2>8. b \o <<>> = b
    BY <2>5 DEF Resizes
  <2>9. Z!Settle([At(t, f) EXCEPT !.todo = b \o Tail(@)]) = At(b, f)
    <3>1. At(t, f).todo = t /\ \A y : [At(t, f) EXCEPT !.todo = y] = At(y, f)
      BY AtParts, AtTodo, Zenon
    <3>2. [At(t, f) EXCEPT !.todo = b \o Tail(At(t, f).todo)] = At(b, f)
      BY <2>3, <2>8, <3>1, Zenon
    <3> QED
      BY <1>12, <3>2, Zenon
  <2>10. GoesOn(c, At(b, f))
    <3>1. \A r : Z!Becomes(c, r) => GoesOn(c, r)
      BY SameRunners
    <3> QED
      BY <1>10, <2>7, <2>9, <3>1
  <2>11. b # <<>> /\ ResizeLeft(b, w, o, e, m, "asked", "asked")
    <3>1. o => Phase("asked", w, e)
      BY <1>9, <2>2 DEF ResizeLeft
    <3> QED
      BY <2>1, <2>4, <2>5, <3>1 DEF ResizeLeft, Resizes
  <2>12. ResizeGoes(b, w, ~overlap, lost' = {})
    BY <1>7, <1>8, <1>10, <2>11 DEF ResizeGoes
  <2> QED
    BY <1>10, <1>11, <2>10, <2>11, <2>12, ResizeStepOf
<1> QED
  BY <1>10, <1>14, <1>15, <1>16

LEMMA ResizeRequest ==
    ASSUME ResizeInv, NEW c \in Requester, Z!Request(c)
    PROVE  ResizeInv'
<1>1. PICK a \in Z!Asks(w) : req' = [req EXCEPT ![c] = [ask |-> a, state |-> "runs", run |-> Z!Handler(Z!Start(a, w))]]
  BY DEF Z!Request
<1>2. w \in ResizeWorld /\ w.type \in ResizeTypes /\ w.size \in Nat
  BY DEF ResizeInv, ResizeSafe, ResizeWorld, ResizeTypes
<1>3. PICK q \in {"asked", "read"} : Resizes(Z!Start(a, w), "asked", q, w.size, w.type)
  BY <1>2, ResizeStart
<1>4. PICK t : t = Z!Start(a, w)
  OBVIOUS
<1>5. Z!Handler(Z!Start(a, w)) = At(t, FALSE)
  BY <1>4 DEF Z!Handler, At
<1>6. t # <<>> /\ t \in Seq(ResizeSteps(w.size, w.type)) /\ Leads(t, "asked", q, ResizeKnown(w.size, w.type))
  BY <1>3, <1>4 DEF Resizes
<1>7. t \in Seq(ResizeAll) /\ Whole(t, NoKinds)
  BY <1>2, <1>6, ResizeWhole
<1>8. ReqTyped(ResizeAll, NoKinds)
  BY DEF ResizeInv
<1>9. /\ ReqTyped(ResizeAll, NoKinds)' /\ (\A d \in Requester : d # c => req'[d] = req[d])
      /\ req'[c].run.todo = t
  <2>1. Arrives(c, a, t)
    BY <1>1, <1>5, Zenon DEF Arrives
  <2> QED
    BY <1>6, <1>7, <1>8, <2>1, Arriving
<1>10. req'[c].state = "runs"
  BY <1>1, <1>8 DEF ReqTyped
<1>11. w' = w /\ lost' = lost /\ overlap' = (overlap \/ Z!Running # {}) /\ overlap' \in BOOLEAN
  BY DEF Z!Request
<1>12. ~overlap' => ~overlap /\ (\A d \in Requester : ~Works(d))
  BY <1>11, SameRunners
<1>13. ~overlap' => Alone' /\ \A d \in Requester : req'[d].state = "runs" => d = c
  BY <1>9, <1>12, AloneArrives
<1>14. ResizeGoes(t, w, ~overlap', lost' = {})
  <2>1. ~overlap' => Phase("asked", w, lost' = {})
    <3>1. ~overlap' => (lost' = {} => w.up)
      BY <1>11, <1>12 DEF ResizeInv
    <3> QED
      BY <3>1, PhaseIs
  <2>2. w.type = "hci" => w.size <= SizeLimit /\ w.size <= w.size
    BY <1>2 DEF ResizeInv, ResizeSafe
  <2>3. ResizeLeft(t, w, ~overlap', lost' = {}, w.size, "asked", q)
    BY <1>2, <1>6, <2>1, <2>2 DEF ResizeLeft
  <2> QED
    BY <2>3 DEF ResizeGoes
<1>15. ASSUME NEW d \in Requester, req'[d].state = "runs"
       PROVE  ResizeGoes(req'[d].run.todo, w, ~overlap', lost' = {})
  <2>1. CASE d = c
    BY <1>9, <1>14, <2>1
  <2>2. CASE d # c
    <3>1. (~overlap') = FALSE
      BY <1>11, <1>13, <1>15, <2>2
    <3>2. Works(d) /\ req'[d] = req[d]
      BY <1>9, <1>15, <2>2 DEF Works
    <3>3. ResizeGoes(req[d].run.todo, w, ~overlap, lost = {})
      BY <3>2 DEF ResizeInv
    <3>4. ResizeGoes(req[d].run.todo, w, FALSE, lost' = {})
      BY <3>3 DEF ResizeGoes, ResizeLeft
    <3> QED
      BY <3>1, <3>2, <3>4
  <2> QED
    BY <2>1, <2>2
<1>16. ~overlap' => ~w.harmed
  BY <1>12 DEF ResizeInv
<1> QED
  BY <1>9, <1>10, <1>11, <1>13, <1>15, <1>16 DEF ResizeInv, Works

LEMMA ResizeStops ==
    ASSUME ResizeInv, NEW c \in Requester, Works(c), Z!ServerStops(c)
    PROVE  ResizeInv'
<1>1. Stops(c) /\ w' = w /\ overlap' = overlap /\ lost' # {}
  BY SameRunners
<1>2. PICK r : r = NoReq.run
  OBVIOUS
<1>3. ReqTyped(ResizeAll, NoKinds)
  BY DEF ResizeInv
<1>4. /\ DOMAIN req' = Requester /\ req'[c] = NoReq /\ \A d \in Requester : d # c => req'[d] = req[d]
  BY <1>1, <1>3 DEF Stops, ReqTyped
<1>5. DOMAIN NoReq = {"ask", "state", "run"} /\ NoReq.state = "done"
  BY DEF NoReq
<1>6. ReqTyped(ResizeAll, NoKinds)'
  BY <1>3, <1>4, <1>5 DEF ReqTyped, Works
<1>7. ~overlap' => Alone' /\ \A d \in Requester : req'[d].state # "runs"
  <2>1. ~overlap' => Alone' /\ \A d \in Requester : req'[d].state = "runs" => d = c
    BY <1>1, <1>4, AloneStep DEF ResizeInv
  <2> QED
    BY <1>4, <1>5, <2>1
<1>8. ASSUME NEW d \in Requester, req'[d].state = "runs"
      PROVE  ResizeGoes(req'[d].run.todo, w, ~overlap', lost' = {})
  <2>1. (~overlap') = FALSE /\ (~overlap) = FALSE /\ d # c
    BY <1>1, <1>4, <1>5, <1>7, <1>8 DEF ResizeInv
  <2>2. Works(d) /\ req'[d] = req[d]
    BY <1>4, <1>8, <2>1 DEF Works
  <2>3. ResizeGoes(req[d].run.todo, w, FALSE, lost = {})
    BY <2>1, <2>2 DEF ResizeInv
  <2>4. ResizeGoes(req[d].run.todo, w, FALSE, lost' = {})
    BY <2>3, LeftOver
  <2> QED
    BY <2>1, <2>2, <2>4
<1> QED
  BY <1>1, <1>6, <1>7, <1>8 DEF ResizeInv, Works

LEMMA ResizeNext ==
    ASSUME ResizeInv, Z!Next
    PROVE  ResizeInv'
<1>1. CASE \E c \in Requester : Z!Request(c)
  BY <1>1, ResizeRequest
<1>2. ASSUME NEW c \in Z!Running, Z!Continue(c) \/ Z!Command(c) \/ Z!CommandFails(c) \/ Z!ServerStops(c)
      PROVE  ResizeInv'
  <2>1. c \in Requester /\ Works(c)
    BY DEF Z!Running, Works
  <2> QED
    BY <1>2, <2>1, ResizeContinue, ResizeCommand, ResizeStops
<1>3. CASE Z!Drift
  BY <1>3 DEF Z!Drift, Z!Drifts
<1> QED
  BY <1>1, <1>2, <1>3 DEF Z!Next

LEMMA ResizeInit ==
    ASSUME Z!Init
    PROVE  ResizeInv
<1>1. PICK type \in {"hci", "vm", "standalone"} : w = Z!Deployed(type)
  BY DEF Z!Init, Z!Begins
<1>2. [h \in Host |-> "made"] \in [Host -> {"made"} \cup Value]
  OBVIOUS
<1>3. ResizeSafe(w) /\ ~w.harmed /\ w.up
  <2>1. w \in ResizeWorld /\ w.fs = 1 /\ w.size = 1 /\ ~w.harmed /\ w.up
    BY <1>1, <1>2 DEF Z!Deployed, ResizeWorld
  <2>2. 1 <= SizeLimit
    BY MachinesAssumption
  <2> QED
    BY <2>1, <2>2 DEF ResizeSafe
<1>4. DOMAIN req = Requester /\ \A c \in Requester : DOMAIN req[c] = {"ask", "state", "run"} /\ ~Works(c)
  BY DEF Z!Init, Z!Idle, Works
<1> QED
  BY <1>3, <1>4 DEF ResizeInv, Alone, ReqTyped, Z!Init

LEMMA ResizeStays ==
    ASSUME ResizeInv, UNCHANGED running
    PROVE  ResizeInv'
<1>1. w' = w /\ req' = req /\ overlap' = overlap /\ lost' = lost
  BY DEF running
<1> QED
  BY <1>1 DEF ResizeInv, Alone, ReqTyped, Works

LEMMA ResizeImplies ==
    ASSUME ResizeInv
    PROVE  Z!TypeOK /\ Z!SizeBounded /\ Z!StoppedForResize
<1>1. Z!Running = {} => \A c \in Requester : ~Works(c)
  BY SameRunners
<1> QED
  BY <1>1 DEF ResizeInv, ResizeSafe, ResizeWorld, Z!TypeOK, Z!SizeBounded, Z!StoppedForResize

-----------------------------------------------------------------------------
(* The machines together                                                      *)

\* Requests are for one of the machines; lifecycle requests of the CCVM are left to TLC.
MachinesInv ==
    /\ subject \in {"snapshots", "ccvm", "scvm", "resize"}
    /\ subject = "snapshots" => Inv
    /\ subject = "scvm" => SCVMInv
    /\ subject = "resize" => ResizeInv

LEMMA MachinesInit ==
    ASSUME MCInit
    PROVE  MachinesInv
<1>1. Inv
  BY InitInv DEF MCInit
<1>2. subject = "scvm" => SCVMInv
  BY SCVMInit DEF MCInit
<1>3. subject = "resize" => ResizeInv
  BY ResizeInit DEF MCInit
<1> QED
  BY <1>1, <1>2, <1>3 DEF MCInit, MachinesInv

LEMMA MachinesStep ==
    ASSUME MachinesInv, [MCNext]_<<subject, vars, running>>
    PROVE  MachinesInv'
<1>1. subject' = subject
  BY DEF MCNext
<1>2. subject = "snapshots" => [Next]_vars
  BY DEF MCNext
<1>3. subject = "scvm" => V!Next \/ UNCHANGED running
  BY DEF MCNext
<1>4. subject = "resize" => Z!Next \/ UNCHANGED running
  BY DEF MCNext
<1>5. subject = "snapshots" => Inv'
  BY <1>2, StepKeepsInv DEF MachinesInv
<1>6. subject = "scvm" => SCVMInv'
  BY <1>3, SCVMNext, SCVMStays DEF MachinesInv
<1>7. subject = "resize" => ResizeInv'
  BY <1>4, ResizeNext, ResizeStays DEF MachinesInv
<1> QED
  BY <1>1, <1>5, <1>6, <1>7 DEF MachinesInv

LEMMA SnapTypes ==
    ASSUME Inv
    PROVE  TypeOK
<1>1. \A x \in Exec : Record(exec[x])
  BY DEF Inv, Control, Types
<1> QED
  BY <1>1 DEF Inv, Control, Types, Around, TypeOK, Ops, Record, Pc, AtWork, Inside

\* Every machine and every request on it keeps its type, in the snapshots of the CCVM, the
\* lifecycle of the storage VM and the resizing of the CCVM (ccvm_snap.go, scvm_lifecycle.go,
\* ccvm_secondary_resize.go).
THEOREM MachinesTyped == MCSpec => [](subject # "ccvm" => TypesOK)
<1>1. MCInit => MachinesInv
  BY MachinesInit
<1>2. MachinesInv /\ [MCNext]_<<subject, vars, running>> => MachinesInv'
  BY MachinesStep
<1>3. MachinesInv => (subject # "ccvm" => TypesOK)
  BY SnapTypes, SCVMImplies, ResizeImplies DEF MachinesInv, TypesOK
<1> QED
  BY <1>1, <1>2, <1>3, PTL DEF MCSpec

\* The disk of the storage VM is neither replaced nor removed under it by start, stop, setup,
\* delete or reset while one request is at work and the failure of virsh destroy is not ignored;
\* the disk of the CCVM is resized only while the CCVM is stopped, never past the limit: whatever
\* fails, wherever the server stops, on any hosts (scvm_lifecycle.go, ccvm_secondary_resize.go).
THEOREM DisksSafe == MCSpec => [](subject # "ccvm" => DisksAreHeld)
<1>1. MCInit => MachinesInv
  BY MachinesInit
<1>2. MachinesInv /\ [MCNext]_<<subject, vars, running>> => MachinesInv'
  BY MachinesStep
<1>3. MachinesInv => (subject # "ccvm" => DisksAreHeld)
  BY SCVMImplies, ResizeImplies DEF MachinesInv, DisksAreHeld
<1> QED
  BY <1>1, <1>2, <1>3, PTL DEF MCSpec

=============================================================================
