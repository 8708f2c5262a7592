--------------------------- MODULE HydroHistoryProofs ---------------------------
(***************************************************************************)
(* Theorems about HydroHistory: the history of a station never has two     *)
(* lines with one key. The invariant behind it is about the call at the    *)
(* head of the queue: what it is to append was missing when it read the    *)
(* file, and is still missing when it appends, because no other call has   *)
(* written in between.                                                     *)
(***************************************************************************)
EXTENDS HydroHistory, FiniteSetTheorems, SequenceTheorems, TLAPS

Lines == Records \cup {Broken}
KeysIn(s) == {s[i] : i \in DOMAIN s} \ {Broken}
OnceEach(s) == \A i, j \in DOMAIN s : s[i] = s[j] /\ s[i] # Broken => i = j

(* No key is written by a call that another line has, and only the head of *)
(* the queue has read the file.                                            *)
HeadAppendsNews ==
    \A p \in Persists : write[p].read =>
        /\ queue # <<>> /\ Head(queue) = p
        /\ IsInjective(write[p].fresh)
        /\ \A i \in DOMAIN write[p].fresh : write[p].fresh[i] \notin Readable

QueuedIsOpen == \A i \in DOMAIN queue : write[queue[i]].payload # <<>>

HydroInv == HydroTypeOK /\ OneLinePerKey /\ HeadAppendsNews /\ QueuedIsOpen

-----------------------------------------------------------------------------
(* A set of n numbers can be listed in ascending order.                    *)
LEMMA AscendingExists ==
    ASSUME NEW S, S \subseteq Nat, IsFiniteSet(S)
    PROVE  \E f \in [1..Cardinality(S) -> S] :
               \A m, n \in DOMAIN f : m < n => f[m] < f[n]
<1> DEFINE upTo(i) == {j \in S : j <= i}
           rank == [i \in S |-> Cardinality(upTo(i))]
           N == Cardinality(S)
<1>1. \A i \in S : IsFiniteSet(upTo(i)) /\ rank[i] \in 1..N /\ N \in Nat
  <2> TAKE i \in S
  <2>1. upTo(i) \in SUBSET S /\ i \in upTo(i)
    OBVIOUS
  <2>2. IsFiniteSet(upTo(i)) /\ Cardinality(upTo(i)) <= N
    BY <2>1, FS_Subset
  <2>3. Cardinality(upTo(i)) \in Nat /\ N \in Nat
    BY <2>2, FS_CardinalityType
  <2>4. Cardinality(upTo(i)) # 0
    BY <2>1, <2>2, FS_EmptySet
  <2> QED
    BY <2>2, <2>3, <2>4
<1>2. ASSUME NEW i \in S, NEW j \in S, i < j
      PROVE  rank[i] < rank[j]
  <2>1. upTo(i) \in SUBSET upTo(j) /\ j \in upTo(j) /\ j \notin upTo(i)
    <3>1. i \in Nat /\ j \in Nat /\ \A k \in S : k \in Nat
      OBVIOUS
    <3>2. \A k \in S : k <= i => k <= j
      BY <1>2, <3>1
    <3>3. upTo(i) \in SUBSET upTo(j)
      BY <3>2
    <3>4. j \in upTo(j)
      BY <3>1
    <3>5. j \notin upTo(i)
      BY <1>2, <3>1
    <3> QED
      BY <3>3, <3>4, <3>5
  <2>2. /\ Cardinality(upTo(i)) <= Cardinality(upTo(j))
        /\ Cardinality(upTo(i)) # Cardinality(upTo(j))
    <3> HIDE DEF upTo
    <3> QED
      BY <1>1, <2>1, FS_Subset
  <2> QED
    BY <1>1, <2>2
<1>3. rank \in Injection(S, 1..N)
  <2>1. rank \in [S -> 1..N]
    BY <1>1
  <2>2. ASSUME NEW i \in S, NEW j \in S, rank[i] = rank[j]
        PROVE  i = j
    <3>1. i \in Nat /\ j \in Nat /\ rank[i] \in Nat
      BY <1>1
    <3> HIDE DEF rank
    <3>2. ~(i < j) /\ ~(j < i)
      BY <1>1, <1>2, <2>2, <3>1
    <3> QED
      BY <3>1, <3>2
  <2> QED
    BY <2>1, <2>2 DEF Injection, IsInjective
<1>4. N \in Nat
  BY FS_CardinalityType
<1>5. IsFiniteSet(1..N) /\ Cardinality(1..N) = N
  BY <1>4, FS_Interval
<1>6. rank \in Surjection(S, 1..N)
  BY <1>3, <1>5, FS_Injection
<1>7. \A n \in 1..N : \E i \in S : rank[i] = n
  BY <1>6 DEF Surjection
<1> DEFINE f == [n \in 1..N |-> CHOOSE i \in S : rank[i] = n]
<1>8. \A n \in 1..N : f[n] \in S /\ rank[f[n]] = n
  <2> HIDE DEF rank
  <2> QED
    BY <1>7
<1>9. ASSUME NEW m \in 1..N, NEW n \in 1..N, m < n
      PROVE  f[m] < f[n]
  <2>1. f[m] \in S /\ f[n] \in S /\ rank[f[m]] = m /\ rank[f[n]] = n
    BY <1>8
  <2>2. f[m] \in Nat /\ f[n] \in Nat
    BY <2>1
  <2> HIDE DEF f, rank
  <2>3. f[m] # f[n]
    BY <1>9, <2>1
  <2>4. ASSUME f[n] < f[m]
        PROVE  FALSE
    <3>1. rank[f[n]] < rank[f[m]]
      BY <1>2, <2>1, <2>4
    <3>2. m \in Nat /\ n \in Nat
      BY <1>4
    <3> QED
      BY <1>9, <2>1, <3>1, <3>2
  <2> QED
    BY <2>2, <2>3, <2>4
<1>10. f \in [1..N -> S]
  BY <1>8
<1> QED
  <2> HIDE DEF f
  <2> QED
    BY <1>9, <1>10

(* What a read finds missing: keys of the payload, each once, none of them *)
(* readable in the file.                                                   *)
LEMMA MissingIsNew ==
    ASSUME NEW payload \in Seq(Records), IsInjective(payload)
    PROVE  /\ Missing(payload) \in Seq(Records)
           /\ IsInjective(Missing(payload))
           /\ \A i \in DOMAIN Missing(payload) : Missing(payload)[i] \notin Readable
<1> DEFINE lacked == {i \in DOMAIN payload : payload[i] \notin Readable}
           N == Cardinality(lacked)
           Ascending(f) == \A m, n \in DOMAIN f : m < n => f[m] < f[n]
           order == CHOOSE f \in [1..N -> lacked] : Ascending(f)
<1>1. Len(payload) \in Nat /\ DOMAIN payload = 1..Len(payload)
  OBVIOUS
<1>2. IsFiniteSet(lacked) /\ lacked \subseteq Nat
  <2>1. IsFiniteSet(1..Len(payload))
    BY <1>1, FS_Interval
  <2> QED
    BY <1>1, <2>1, FS_Subset
<1>3. N \in Nat
  BY <1>2, FS_CardinalityType
<1>4. \E f \in [1..N -> lacked] : Ascending(f)
  <2> HIDE DEF lacked
  <2> QED
    BY <1>2, AscendingExists
<1>5. order \in [1..N -> lacked] /\ Ascending(order)
  <2> HIDE DEF lacked, Ascending, N
  <2> QED
    BY <1>4
<1>6. Missing(payload) = [n \in 1..N |-> payload[order[n]]]
  BY <1>5 DEF Missing
<1>7. \A n \in 1..N : order[n] \in DOMAIN payload /\ payload[order[n]] \notin Readable
  <2> HIDE DEF order
  <2> QED
    BY <1>5
<1>8. ASSUME NEW m \in 1..N, NEW n \in 1..N, payload[order[m]] = payload[order[n]]
      PROVE  m = n
  <2> HIDE DEF order
  <2>1. order[m] = order[n]
    BY <1>7, <1>8 DEF IsInjective
  <2>2. order[m] \in Nat /\ order[n] \in Nat
    BY <1>1, <1>7
  <2>3. ~(m < n) /\ ~(n < m)
    BY <1>5, <2>1, <2>2
  <2> QED
    BY <1>3, <2>3
<1> HIDE DEF order, N, lacked
<1>9. \A n \in 1..N : payload[order[n]] \in Records
  BY <1>7
<1>10. Missing(payload) \in Seq(Records)
  BY <1>3, <1>6, <1>9
<1>11. IsInjective(Missing(payload))
  BY <1>6, <1>8 DEF IsInjective
<1> QED
  BY <1>6, <1>7, <1>10, <1>11

-----------------------------------------------------------------------------
(* Texts put behind each other.                                            *)
LEMMA ConcatOnce ==
    ASSUME NEW s \in Seq(Lines), NEW t \in Seq(Lines),
           OnceEach(s), OnceEach(t), KeysIn(s) \cap KeysIn(t) = {}
    PROVE  /\ s \o t \in Seq(Lines) /\ OnceEach(s \o t)
           /\ KeysIn(s \o t) = KeysIn(s) \cup KeysIn(t)
<1> DEFINE u == s \o t
<1>1. /\ u \in Seq(Lines) /\ Len(u) = Len(s) + Len(t)
      /\ \A i \in 1..Len(s) : u[i] = s[i]
      /\ \A i \in 1..Len(t) : u[Len(s) + i] = t[i]
  BY ConcatProperties
<1>2. /\ DOMAIN s = 1..Len(s) /\ DOMAIN t = 1..Len(t) /\ DOMAIN u = 1..(Len(s) + Len(t))
      /\ Len(s) \in Nat /\ Len(t) \in Nat
  BY <1>1
<1> HIDE DEF u
<1>3. \A i \in DOMAIN u : \/ i \in DOMAIN s /\ u[i] = s[i]
                          \/ i - Len(s) \in DOMAIN t /\ u[i] = t[i - Len(s)] /\ i > Len(s)
  <2> TAKE i \in DOMAIN u
  <2>1. CASE i <= Len(s)
    BY <1>1, <1>2, <2>1
  <2>2. CASE i > Len(s)
    <3>1. i - Len(s) \in 1..Len(t) /\ Len(s) + (i - Len(s)) = i
      BY <1>2, <2>2
    <3> QED
      BY <1>1, <1>2, <2>2, <3>1
  <2> QED
    BY <1>2, <2>1, <2>2
<1>4. OnceEach(u)
  <2> SUFFICES ASSUME NEW i \in DOMAIN u, NEW j \in DOMAIN u, u[i] = u[j], u[i] # Broken
               PROVE  i = j
    BY DEF OnceEach
  <2>1. CASE i \in DOMAIN s /\ u[i] = s[i] /\ j \in DOMAIN s /\ u[j] = s[j]
    BY <2>1 DEF OnceEach
  <2>2. CASE /\ i - Len(s) \in DOMAIN t /\ u[i] = t[i - Len(s)]
             /\ j - Len(s) \in DOMAIN t /\ u[j] = t[j - Len(s)]
    <3>1. i - Len(s) = j - Len(s)
      BY <2>2 DEF OnceEach
    <3> QED
      BY <1>2, <3>1
  <2>3. CASE /\ i \in DOMAIN s /\ u[i] = s[i]
             /\ j - Len(s) \in DOMAIN t /\ u[j] = t[j - Len(s)]
    <3>1. u[i] \in KeysIn(s) /\ u[i] \in KeysIn(t)
      BY <2>3 DEF KeysIn
    <3> QED
      BY <3>1
  <2>4. CASE /\ j \in DOMAIN s /\ u[j] = s[j]
             /\ i - Len(s) \in DOMAIN t /\ u[i] = t[i - Len(s)]
    <3>1. u[i] \in KeysIn(s) /\ u[i] \in KeysIn(t)
      BY <2>4 DEF KeysIn
    <3> QED
      BY <3>1
  <2> QED
    BY <1>3, <2>1, <2>2, <2>3, <2>4
<1>5. KeysIn(u) \subseteq KeysIn(s) \cup KeysIn(t)
  BY <1>3 DEF KeysIn
<1>6. KeysIn(s) \subseteq KeysIn(u)
  <2>1. \A i \in DOMAIN s : i \in DOMAIN u /\ u[i] = s[i]
    BY <1>1, <1>2
  <2> QED
    BY <2>1 DEF KeysIn
<1>7. KeysIn(t) \subseteq KeysIn(u)
  <2>1. \A i \in DOMAIN t : Len(s) + i \in DOMAIN u /\ u[Len(s) + i] = t[i]
    BY <1>1, <1>2
  <2> QED
    BY <2>1 DEF KeysIn
<1> QED
  BY <1>1, <1>4, <1>5, <1>6, <1>7 DEF u

(* A part of a text, and a line that is broken.                            *)
LEMMA PartOnce ==
    ASSUME NEW s \in Seq(Lines), OnceEach(s), NEW m \in Nat, NEW n \in Nat,
           1 <= m, n <= Len(s)
    PROVE  /\ SubSeq(s, m, n) \in Seq(Lines) /\ OnceEach(SubSeq(s, m, n))
           /\ KeysIn(SubSeq(s, m, n)) \subseteq KeysIn(s)
<1> DEFINE u == SubSeq(s, m, n)
<1>1. /\ Len(s) \in Nat /\ DOMAIN s = 1..Len(s)
      /\ u \in Seq(Lines) /\ Len(u) = (IF m <= n THEN n - m + 1 ELSE 0)
      /\ \A i \in 1..(n - m + 1) : u[i] = s[m + i - 1]
  BY SubSeqProperties
<1>2. \A i \in DOMAIN u : m + i - 1 \in DOMAIN s /\ u[i] = s[m + i - 1] /\ i \in Nat
  <2>1. DOMAIN u = 1..Len(u)
    BY <1>1
  <2> HIDE DEF u
  <2> QED
    BY <1>1, <2>1
<1> HIDE DEF u
<1>3. OnceEach(u)
  <2> SUFFICES ASSUME NEW i \in DOMAIN u, NEW j \in DOMAIN u, u[i] = u[j], u[i] # Broken
               PROVE  i = j
    BY DEF OnceEach
  <2>1. m + i - 1 = m + j - 1
    BY <1>2 DEF OnceEach
  <2> QED
    BY <1>2, <2>1
<1>4. KeysIn(u) \subseteq KeysIn(s)
  BY <1>2 DEF KeysIn
<1> QED
  BY <1>1, <1>3, <1>4 DEF u

LEMMA OneLine ==
    ASSUME NEW x \in Lines
    PROVE  /\ <<x>> \in Seq(Lines) /\ OnceEach(<<x>>)
           /\ KeysIn(<<x>>) = {x} \ {Broken}
BY DEF OnceEach, KeysIn

(* A text put behind another that has none of its keys, glued to its last  *)
(* line or not: keys may be lost, but none is there twice.                 *)
LEMMA BehindOnce ==
    ASSUME NEW s \in Seq(Lines), NEW t \in Seq(Lines), NEW isOpen \in BOOLEAN,
           isOpen => s # <<>>, OnceEach(s), OnceEach(t), KeysIn(s) \cap KeysIn(t) = {}
    PROVE  /\ Behind(s, isOpen, t) \in Seq(Lines)
           /\ OnceEach(Behind(s, isOpen, t))
           /\ KeysIn(Behind(s, isOpen, t)) \subseteq KeysIn(s) \cup KeysIn(t)
           /\ s # <<>> \/ t # <<>> => Behind(s, isOpen, t) # <<>>
<1>1. CASE isOpen /\ t # <<>>
  <2> DEFINE front == Front(s)
             middle == front \o <<Broken>>
  <2>1. /\ Len(s) \in Nat /\ Len(s) > 0 /\ Len(t) \in Nat /\ Len(t) > 0
    BY <1>1, EmptySeq
  <2>2. /\ front \in Seq(Lines) /\ OnceEach(front) /\ KeysIn(front) \subseteq KeysIn(s)
    <3>1. front = SubSeq(s, 1, Len(s) - 1)
      BY DEF Front
    <3>2. Len(s) - 1 \in Nat /\ Len(s) - 1 <= Len(s)
      BY <2>1
    <3> QED
      BY <3>1, <3>2, PartOnce
  <2>3. /\ Tail(t) \in Seq(Lines) /\ OnceEach(Tail(t)) /\ KeysIn(Tail(t)) \subseteq KeysIn(t)
    <3>1. Tail(t) = SubSeq(t, 2, Len(t))
      BY <1>1, HeadTailProperties
    <3>2. \A m \in Nat : 1 <= m =>
             /\ SubSeq(t, m, Len(t)) \in Seq(Lines) /\ OnceEach(SubSeq(t, m, Len(t)))
             /\ KeysIn(SubSeq(t, m, Len(t))) \subseteq KeysIn(t)
      BY <2>1, PartOnce
    <3>3. 2 \in Nat /\ 1 <= 2
      OBVIOUS
    <3>4. /\ SubSeq(t, 2, Len(t)) \in Seq(Lines) /\ OnceEach(SubSeq(t, 2, Len(t)))
          /\ KeysIn(SubSeq(t, 2, Len(t))) \subseteq KeysIn(t)
      BY <3>2, <3>3, Zenon
    <3> QED
      BY <3>1, <3>4, Zenon
  <2>4. /\ <<Broken>> \in Seq(Lines) /\ OnceEach(<<Broken>>) /\ KeysIn(<<Broken>>) = {}
    BY OneLine DEF Lines
  <2> HIDE DEF front
  <2>5. /\ middle \in Seq(Lines) /\ OnceEach(middle) /\ KeysIn(middle) \subseteq KeysIn(s)
    <3>1. KeysIn(front) \cap KeysIn(<<Broken>>) = {}
      BY <2>4
    <3>2. /\ middle \in Seq(Lines) /\ OnceEach(middle)
          /\ KeysIn(middle) = KeysIn(front) \cup KeysIn(<<Broken>>)
      BY <2>2, <2>4, <3>1, ConcatOnce
    <3> QED
      BY <2>2, <2>4, <3>2
  <2>6. Len(middle) >= 1
    BY <2>2, <2>4, ConcatProperties
  <2> HIDE DEF middle
  <2> DEFINE u == middle \o Tail(t)
  <2>7. /\ u \in Seq(Lines) /\ OnceEach(u) /\ KeysIn(u) \subseteq KeysIn(s) \cup KeysIn(t)
    BY <2>3, <2>5, ConcatOnce
  <2>8. Len(u) = Len(middle) + Len(Tail(t)) /\ Len(middle) \in Nat /\ Len(Tail(t)) \in Nat
    BY <2>3, <2>5, ConcatProperties
  <2>9. Behind(s, isOpen, t) = u
    BY <1>1 DEF Behind, middle, front
  <2>10. u # <<>>
    BY <2>6, <2>8
  <2> QED
    BY <2>7, <2>9, <2>10
<1>2. CASE ~(isOpen /\ t # <<>>)
  <2>1. Behind(s, isOpen, t) = s \o t
    BY <1>2 DEF Behind
  <2>2. s # <<>> \/ t # <<>> => s \o t # <<>>
    <3>1. /\ Len(s \o t) = Len(s) + Len(t) /\ Len(s) \in Nat /\ Len(t) \in Nat
      BY ConcatProperties
    <3>2. /\ s # <<>> => Len(s) # 0
          /\ t # <<>> => Len(t) # 0
      BY EmptySeq
    <3> QED
      BY <3>1, <3>2
  <2>3. /\ s \o t \in Seq(Lines) /\ OnceEach(s \o t) /\ KeysIn(s \o t) = KeysIn(s) \cup KeysIn(t)
    BY ConcatOnce
  <2> QED
    BY <2>1, <2>2, <2>3
<1> QED
  BY <1>1, <1>2

-----------------------------------------------------------------------------
StationCall == [payload: Payloads \cup {<<>>}, read: BOOLEAN, fresh: Seq(Records)]

LEMMA HydroTypes ==
    ASSUME HydroTypeOK
    PROVE  /\ lines \in Seq(Lines) /\ open \in BOOLEAN /\ (open => lines # <<>>)
           /\ queue \in Seq(Persists) /\ IsInjective(queue)
           /\ write \in [Persists -> StationCall]
           /\ cuts \in 0..MaxCuts
BY DEF HydroTypeOK, StationCall, Lines

(* What the head is to append has no key twice and none of the file's.     *)
LEMMA FreshIsNew ==
    ASSUME HydroInv, NEW p \in Persists, write[p].read
    PROVE  /\ write[p].fresh \in Seq(Lines) /\ OnceEach(write[p].fresh)
           /\ KeysIn(lines) \cap KeysIn(write[p].fresh) = {}
           /\ lines \in Seq(Lines) /\ OnceEach(lines) /\ open \in BOOLEAN
           /\ open => lines # <<>>
<1>1. /\ lines \in Seq(Lines) /\ open \in BOOLEAN /\ (open => lines # <<>>)
      /\ write[p].fresh \in Seq(Records)
  BY HydroTypes DEF HydroInv, StationCall
<1>2. write[p].fresh \in Seq(Lines)
  BY <1>1 DEF Lines
<1>3. /\ IsInjective(write[p].fresh)
      /\ \A i \in DOMAIN write[p].fresh : write[p].fresh[i] \notin Readable
  BY DEF HydroInv, HeadAppendsNews
<1>4. OnceEach(write[p].fresh)
  BY <1>3 DEF IsInjective, OnceEach
<1>5. OnceEach(lines)
  BY DEF HydroInv, OneLinePerKey, OnceEach
<1>6. KeysIn(lines) = Readable
  BY DEF KeysIn, Readable
<1>7. KeysIn(lines) \cap KeysIn(write[p].fresh) = {}
  BY <1>3, <1>6 DEF KeysIn
<1> QED
  BY <1>1, <1>2, <1>4, <1>5, <1>7

(* The file after a whole append, and after one that is cut.               *)
FileIsGood == lines \in Seq(Lines) /\ open \in BOOLEAN /\ (open => lines # <<>>) /\ OnceEach(lines)

LEMMA AppendKeeps ==
    ASSUME HydroInv, NEW p \in Persists, write[p].read, appendFile(write[p].fresh)
    PROVE  FileIsGood'
<1> DEFINE rs == write[p].fresh
<1>1. /\ rs \in Seq(Lines) /\ OnceEach(rs) /\ KeysIn(lines) \cap KeysIn(rs) = {}
      /\ lines \in Seq(Lines) /\ OnceEach(lines) /\ open \in BOOLEAN
      /\ open => lines # <<>>
  BY FreshIsNew
<1>2. lines' = Behind(lines, open, rs) /\ open' = (open /\ rs = <<>>)
  BY DEF appendFile
<1> HIDE DEF rs
<1>3. /\ Behind(lines, open, rs) \in Seq(Lines) /\ OnceEach(Behind(lines, open, rs))
      /\ lines # <<>> => Behind(lines, open, rs) # <<>>
  BY <1>1, BehindOnce
<1>4. open' \in BOOLEAN
  BY <1>2
<1>5. OnceEach(lines)'
  BY <1>2, <1>3 DEF OnceEach
<1> QED
  BY <1>1, <1>2, <1>3, <1>4, <1>5 DEF FileIsGood

LEMMA CutKeeps ==
    ASSUME HydroInv, NEW p \in Persists, write[p].read, appendFileCut(write[p].fresh)
    PROVE  FileIsGood'
<1> DEFINE rs == write[p].fresh
<1>1. /\ rs \in Seq(Lines) /\ OnceEach(rs) /\ KeysIn(lines) \cap KeysIn(rs) = {}
      /\ lines \in Seq(Lines) /\ OnceEach(lines) /\ open \in BOOLEAN
      /\ open => lines # <<>>
  BY FreshIsNew
<1> HIDE DEF rs
<1>2. PICK n \in 0..(Len(rs) - 1) :
          LET whole == Behind(lines, open, SubSeq(rs, 1, n))
              still == open /\ n = 0
          IN  \/ lines' = whole /\ open' = still
              \/ \E rest \in {Broken, rs[n + 1]} :
                    lines' = Behind(whole, still, <<rest>>) /\ open' = TRUE
  BY DEF appendFileCut, rs
<1>3. Len(rs) \in Nat /\ DOMAIN rs = 1..Len(rs)
  BY <1>1
<1>4. n \in Nat /\ n <= Len(rs) /\ n + 1 \in DOMAIN rs
  BY <1>3
<1> DEFINE part == SubSeq(rs, 1, n)
           whole == Behind(lines, open, part)
           still == open /\ n = 0
<1>5. part \in Seq(Lines) /\ OnceEach(part) /\ KeysIn(part) \subseteq KeysIn(rs)
  <2>1. \A m \in Nat : 1 <= m =>
           /\ SubSeq(rs, m, n) \in Seq(Lines) /\ OnceEach(SubSeq(rs, m, n))
           /\ KeysIn(SubSeq(rs, m, n)) \subseteq KeysIn(rs)
    BY <1>1, <1>4, PartOnce
  <2>2. 1 \in Nat /\ 1 <= 1
    OBVIOUS
  <2> QED
    BY <2>1, <2>2, Zenon
<1>6. rs[n + 1] # Broken => rs[n + 1] \notin KeysIn(part)
  <2> SUFFICES ASSUME rs[n + 1] # Broken, rs[n + 1] \in KeysIn(part)
               PROVE  FALSE
    OBVIOUS
  <2>1. PICK i \in DOMAIN part : part[i] = rs[n + 1]
    BY DEF KeysIn
  <2>2. i \in 1..n /\ part[i] = rs[i]
    BY <1>1, <1>3, <1>4, SubSeqProperties
  <2>3. i \in DOMAIN rs /\ i # n + 1
    BY <1>3, <1>4, <2>2
  <2> QED
    BY <1>1, <1>4, <2>1, <2>2, <2>3 DEF OnceEach
<1>7. part # <<>> => n # 0
  BY <1>1, SubSeqProperties
<1> HIDE DEF part
<1>8. /\ whole \in Seq(Lines) /\ OnceEach(whole) /\ still \in BOOLEAN
      /\ KeysIn(whole) \subseteq KeysIn(lines) \cup KeysIn(part)
      /\ still => whole # <<>>
  <2>1. KeysIn(lines) \cap KeysIn(part) = {}
    BY <1>1, <1>5
  <2>2. /\ Behind(lines, open, part) \in Seq(Lines) /\ OnceEach(Behind(lines, open, part))
        /\ KeysIn(Behind(lines, open, part)) \subseteq KeysIn(lines) \cup KeysIn(part)
        /\ lines # <<>> => Behind(lines, open, part) # <<>>
    BY <1>1, <1>5, <2>1, BehindOnce
  <2> QED
    BY <1>1, <2>2
<1>9. \/ lines' = whole /\ open' = still
      \/ \E rest \in {Broken, rs[n + 1]} :
            lines' = Behind(whole, still, <<rest>>) /\ open' = TRUE
  BY <1>2 DEF whole, still, part
<1> HIDE DEF whole, still
<1>10. CASE lines' = whole /\ open' = still
  <2>1. OnceEach(lines)'
    BY <1>8, <1>10 DEF OnceEach
  <2> QED
    BY <1>8, <1>10, <2>1 DEF FileIsGood
<1>11. ASSUME NEW rest \in {Broken, rs[n + 1]},
              lines' = Behind(whole, still, <<rest>>), open' = TRUE
       PROVE  FileIsGood'
  <2>1. rest \in Lines
    BY <1>1, <1>3, <1>4, ElementOfSeq DEF Lines
  <2>2. /\ <<rest>> \in Seq(Lines) /\ OnceEach(<<rest>>) /\ KeysIn(<<rest>>) = {rest} \ {Broken}
    BY <2>1, OneLine
  <2>3. rest # Broken => rest \in KeysIn(rs)
    BY <1>4, <1>11 DEF KeysIn
  <2>4. KeysIn(whole) \cap KeysIn(<<rest>>) = {}
    BY <1>1, <1>6, <1>8, <2>2, <2>3
  <2>5. /\ Behind(whole, still, <<rest>>) \in Seq(Lines)
        /\ OnceEach(Behind(whole, still, <<rest>>))
        /\ <<rest>> # <<>> => Behind(whole, still, <<rest>>) # <<>>
    BY <1>8, <2>2, <2>4, BehindOnce
  <2>6. <<rest>> # <<>>
    OBVIOUS
  <2>7. OnceEach(lines)'
    BY <1>11, <2>5 DEF OnceEach
  <2> QED
    BY <1>11, <2>5, <2>6, <2>7 DEF FileIsGood
<1> QED
  BY <1>9, <1>10, <1>11

(* A call at the head settles: no other has read the file.                 *)
LEMMA SettlesKeeps ==
    ASSUME HydroInv, NEW p \in Persists, write[p].read, Settles(p), FileIsGood',
           cuts' \in 0..MaxCuts
    PROVE  HydroInv'
<1>1. /\ queue \in Seq(Persists) /\ IsInjective(queue) /\ write \in [Persists -> StationCall]
  BY HydroTypes DEF HydroInv
<1>2. /\ queue' = Tail(queue) /\ write' = [write EXCEPT ![p] = NotOpen]
  BY DEF Settles
<1>3. queue # <<>> /\ Head(queue) = p
  BY DEF HydroInv, HeadAppendsNews
<1>4. NotOpen \in StationCall /\ ~NotOpen.read /\ NotOpen.payload = <<>>
  BY DEF NotOpen, StationCall
<1>5. write' \in [Persists -> StationCall]
  BY <1>1, <1>2, <1>4
<1>6. \A q \in Persists : ~write'[q].read
  <2> TAKE q \in Persists
  <2>1. CASE q = p
    BY <1>1, <1>2, <1>4, <2>1
  <2>2. CASE q # p
    <3>1. ~write[q].read
      BY <1>3, <2>2 DEF HydroInv, HeadAppendsNews
    <3> QED
      BY <1>1, <1>2, <2>2, <3>1
  <2> QED
    BY <2>1, <2>2
<1>7. /\ Tail(queue) \in Seq(Persists) /\ Len(queue) \in Nat /\ DOMAIN queue = 1..Len(queue)
      /\ \A i \in DOMAIN Tail(queue) : /\ i + 1 \in DOMAIN queue /\ i \in Nat \ {0}
                                       /\ Tail(queue)[i] = queue[i + 1]
  BY <1>1, <1>3
<1>8. IsInjective(queue')
  <2> SUFFICES ASSUME NEW i \in DOMAIN Tail(queue), NEW j \in DOMAIN Tail(queue),
                      Tail(queue)[i] = Tail(queue)[j]
               PROVE  i = j
    BY <1>2 DEF IsInjective
  <2>1. i + 1 = j + 1
    BY <1>1, <1>7 DEF IsInjective
  <2> QED
    BY <1>7, <2>1
<1>9. QueuedIsOpen'
  <2> SUFFICES ASSUME NEW i \in DOMAIN Tail(queue)
               PROVE  write'[Tail(queue)[i]].payload # <<>>
    BY <1>2 DEF QueuedIsOpen
  <2>1. queue[1] = p /\ 1 \in DOMAIN queue
    BY <1>1, <1>3
  <2>2. i + 1 # 1 /\ i + 1 \in DOMAIN queue
    BY <1>7
  <2>3. queue[i + 1] # p
    BY <1>1, <2>1, <2>2 DEF IsInjective
  <2>4. write[queue[i + 1]].payload # <<>> /\ queue[i + 1] \in Persists
    BY <1>1, <2>2, ElementOfSeq DEF HydroInv, QueuedIsOpen
  <2> QED
    BY <1>1, <1>2, <1>7, <2>3, <2>4
<1>10. HydroTypeOK'
  BY <1>2, <1>5, <1>7, <1>8 DEF HydroTypeOK, FileIsGood, StationCall, Lines
<1>11. OneLinePerKey'
  BY DEF FileIsGood, OneLinePerKey, OnceEach
<1>12. HeadAppendsNews'
  BY <1>6 DEF HeadAppendsNews
<1> QED
  BY <1>9, <1>10, <1>11, <1>12 DEF HydroInv

-----------------------------------------------------------------------------
LEMMA HydroInitInv == HydroInit => HydroInv
<1> SUFFICES ASSUME HydroInit
             PROVE  HydroInv
  OBVIOUS
<1>1. HydroTypeOK
  <2>1. NotOpen \in StationCall
    BY DEF NotOpen, StationCall
  <2>2. MaxCuts \in Nat
    BY HydroAssumption
  <2>3. write \in [Persists -> StationCall]
    BY <2>1 DEF HydroInit
  <2>4. IsInjective(queue) /\ queue \in Seq(Persists)
    BY DEF HydroInit, IsInjective
  <2>5. lines \in Seq(Records \cup {Broken}) /\ open = FALSE /\ cuts \in 0..MaxCuts
    BY <2>2 DEF HydroInit
  <2> QED
    BY <2>3, <2>4, <2>5 DEF HydroTypeOK, StationCall
<1>2. OneLinePerKey /\ QueuedIsOpen
  BY DEF HydroInit, OneLinePerKey, QueuedIsOpen
<1>3. HeadAppendsNews
  BY DEF HydroInit, HeadAppendsNews, NotOpen
<1> QED
  BY <1>1, <1>2, <1>3 DEF HydroInv

LEMMA PersistKeeps ==
    ASSUME HydroInv, NEW p \in Persists, NEW payload \in Payloads,
           persistStationRecords(p, payload)
    PROVE  HydroInv'
<1>1. /\ queue \in Seq(Persists) /\ IsInjective(queue) /\ write \in [Persists -> StationCall]
      /\ payload \in Seq(Records) /\ payload # <<>>
  BY HydroTypes, HydroAssumption DEF HydroInv
<1>2. /\ write[p] = NotOpen /\ queue' = Append(queue, p)
      /\ write' = [write EXCEPT ![p].payload = payload]
      /\ lines' = lines /\ open' = open /\ cuts' = cuts
  BY DEF persistStationRecords
<1>3. /\ write' \in [Persists -> StationCall] /\ write'[p].payload = payload /\ ~write'[p].read
      /\ \A q \in Persists \ {p} : write'[q] = write[q]
  <2>1. [write[p] EXCEPT !.payload = payload] \in StationCall
    BY <1>1 DEF StationCall
  <2>2. [write[p] EXCEPT !.payload = payload].payload = payload
    BY <1>1 DEF StationCall
  <2>3. ~[write[p] EXCEPT !.payload = payload].read
    BY <1>2 DEF NotOpen
  <2>4. write' = [write EXCEPT ![p] = [write[p] EXCEPT !.payload = payload]]
    BY <1>2
  <2> QED
    BY <1>1, <2>1, <2>2, <2>3, <2>4
<1>4. \A i \in DOMAIN queue : queue[i] # p /\ queue[i] \in Persists
  <2> TAKE i \in DOMAIN queue
  <2>1. write[queue[i]].payload # <<>> /\ queue[i] \in Persists
    BY <1>1, ElementOfSeq DEF HydroInv, QueuedIsOpen
  <2> QED
    BY <1>2, <2>1 DEF NotOpen
<1>5. /\ queue' \in Seq(Persists) /\ DOMAIN queue' = 1..(Len(queue) + 1)
      /\ DOMAIN queue = 1..Len(queue) /\ Len(queue) \in Nat
      /\ queue'[Len(queue) + 1] = p /\ \A i \in DOMAIN queue : queue'[i] = queue[i]
  BY <1>1, <1>2
<1>6. IsInjective(queue')
  <2> SUFFICES ASSUME NEW i \in DOMAIN queue', NEW j \in DOMAIN queue', queue'[i] = queue'[j]
               PROVE  i = j
    BY DEF IsInjective
  <2>1. /\ i \in DOMAIN queue \/ i = Len(queue) + 1
        /\ j \in DOMAIN queue \/ j = Len(queue) + 1
    BY <1>5
  <2> QED
    BY <1>1, <1>4, <1>5, <2>1 DEF IsInjective
<1>7. QueuedIsOpen'
  <2> SUFFICES ASSUME NEW i \in DOMAIN queue'
               PROVE  write'[queue'[i]].payload # <<>>
    BY DEF QueuedIsOpen
  <2>1. CASE i = Len(queue) + 1
    BY <1>1, <1>3, <1>5, <2>1
  <2>2. CASE i \in DOMAIN queue
    BY <1>3, <1>4, <1>5, <2>2 DEF HydroInv, QueuedIsOpen
  <2> QED
    BY <1>5, <2>1, <2>2
<1>8. HydroTypeOK'
  BY <1>2, <1>3, <1>5, <1>6 DEF HydroTypeOK, HydroInv, StationCall
<1>9. OneLinePerKey' /\ Readable' = Readable
  BY <1>2 DEF HydroInv, OneLinePerKey, Readable
<1>10. HeadAppendsNews'
  <2> SUFFICES ASSUME NEW q \in Persists, write'[q].read
               PROVE  /\ queue' # <<>> /\ Head(queue') = q
                      /\ IsInjective(write'[q].fresh)
                      /\ \A i \in DOMAIN write'[q].fresh : write'[q].fresh[i] \notin Readable
    BY <1>9 DEF HeadAppendsNews
  <2>1. write'[q] = write[q] /\ write[q].read
    BY <1>3
  <2>2. /\ queue # <<>> /\ Head(queue) = q
        /\ IsInjective(write[q].fresh)
        /\ \A i \in DOMAIN write[q].fresh : write[q].fresh[i] \notin Readable
    BY <2>1 DEF HydroInv, HeadAppendsNews
  <2>3. queue' # <<>> /\ Head(queue') = Head(queue)
    BY <1>1, <1>2, <2>2, AppendProperties
  <2> QED
    BY <2>1, <2>2, <2>3
<1> QED
  BY <1>7, <1>8, <1>9, <1>10 DEF HydroInv

LEMMA StationReadKeeps ==
    ASSUME HydroInv, NEW p \in Persists, readExisting(p)
    PROVE  HydroInv'
<1> DEFINE missing == Missing(write[p].payload)
<1>1. /\ queue \in Seq(Persists) /\ write \in [Persists -> StationCall] /\ write[p] \in StationCall
  BY HydroTypes DEF HydroInv
<1>2. /\ queue # <<>> /\ Head(queue) = p
      /\ write' = [write EXCEPT ![p].read = TRUE, ![p].fresh = missing]
      /\ lines' = lines /\ open' = open /\ cuts' = cuts /\ queue' = queue
  BY DEF readExisting
<1>3. write[p].payload \in Seq(Records) /\ IsInjective(write[p].payload)
  <2>1. 1 \in DOMAIN queue /\ queue[1] = p
    BY <1>1, <1>2
  <2>2. write[p].payload # <<>>
    BY <2>1 DEF HydroInv, QueuedIsOpen
  <2> QED
    BY <1>1, <2>2, HydroAssumption DEF StationCall
<1>4. /\ missing \in Seq(Records) /\ IsInjective(missing)
      /\ \A i \in DOMAIN missing : missing[i] \notin Readable
  BY <1>3, MissingIsNew
<1> HIDE DEF missing
<1>5. /\ write' \in [Persists -> StationCall] /\ write'[p].fresh = missing
      /\ \A q \in Persists : write'[q].payload = write[q].payload
      /\ \A q \in Persists \ {p} : write'[q] = write[q]
  BY <1>1, <1>2, <1>4 DEF StationCall
<1>6. HydroTypeOK'
  BY <1>2, <1>5 DEF HydroTypeOK, HydroInv, StationCall
<1>7. OneLinePerKey' /\ Readable' = Readable
  BY <1>2 DEF HydroInv, OneLinePerKey, Readable
<1>8. QueuedIsOpen'
  <2>1. \A i \in DOMAIN queue : queue[i] \in Persists
    BY <1>1, ElementOfSeq
  <2> QED
    BY <1>2, <1>5, <2>1 DEF HydroInv, QueuedIsOpen
<1>9. HeadAppendsNews'
  <2> SUFFICES ASSUME NEW q \in Persists, write'[q].read
               PROVE  /\ queue # <<>> /\ Head(queue) = q
                      /\ IsInjective(write'[q].fresh)
                      /\ \A i \in DOMAIN write'[q].fresh : write'[q].fresh[i] \notin Readable
    BY <1>2, <1>7 DEF HeadAppendsNews
  <2>1. CASE q = p
    BY <1>2, <1>4, <1>5, <2>1
  <2>2. CASE q # p
    BY <1>5, <2>2 DEF HydroInv, HeadAppendsNews
  <2> QED
    BY <2>1, <2>2
<1> QED
  BY <1>6, <1>7, <1>8, <1>9 DEF HydroInv

LEMMA StationCrashKeeps ==
    ASSUME HydroInv, HydroCrashes
    PROVE  HydroInv'
<1>1. cuts' \in 0..MaxCuts
  <2>1. MaxCuts \in Nat /\ cuts \in 0..MaxCuts
    BY HydroAssumption, HydroTypes DEF HydroInv
  <2> QED
    BY <2>1 DEF HydroCrashes, Cut
<1>2. FileIsGood'
  <2>1. CASE UNCHANGED <<lines, open>>
    <3>1. OnceEach(lines)
      BY DEF HydroInv, OneLinePerKey, OnceEach
    <3>2. OnceEach(lines)'
      BY <2>1, <3>1 DEF OnceEach
    <3> QED
      BY <2>1, <3>2, HydroTypes DEF HydroInv, FileIsGood
  <2>2. CASE \E p \in Persists : write[p].read /\ appendFileCut(write[p].fresh)
    BY <2>2, CutKeeps
  <2> QED
    BY <2>1, <2>2 DEF HydroCrashes
<1>3. queue' = <<>> /\ write' = [p \in Persists |-> NotOpen]
  BY DEF HydroCrashes
<1>4. NotOpen \in StationCall
  BY DEF NotOpen, StationCall
<1>5. HydroTypeOK'
  BY <1>1, <1>2, <1>3, <1>4 DEF HydroTypeOK, FileIsGood, IsInjective, StationCall, Lines
<1>6. OneLinePerKey'
  BY <1>2 DEF FileIsGood, OneLinePerKey, OnceEach
<1>7. HeadAppendsNews' /\ QueuedIsOpen'
  BY <1>3 DEF HeadAppendsNews, QueuedIsOpen, NotOpen
<1> QED
  BY <1>5, <1>6, <1>7 DEF HydroInv

LEMMA HydroStepInv == HydroInv /\ [HydroNext]_hydroVars => HydroInv'
<1> SUFFICES ASSUME HydroInv, [HydroNext]_hydroVars
             PROVE  HydroInv'
  OBVIOUS
<1>1. ASSUME NEW p \in Persists, NEW payload \in Payloads, persistStationRecords(p, payload)
      PROVE  HydroInv'
  BY <1>1, PersistKeeps
<1>2. ASSUME NEW p \in Persists, readExisting(p)
      PROVE  HydroInv'
  BY <1>2, StationReadKeeps
<1>3. ASSUME NEW p \in Persists, appendRecords(p)
      PROVE  HydroInv'
  <2>1. FileIsGood'
    BY <1>3, AppendKeeps DEF appendRecords
  <2>2. cuts' \in 0..MaxCuts
    BY <1>3, HydroTypes DEF appendRecords, HydroInv
  <2> QED
    BY <1>3, <2>1, <2>2, SettlesKeeps DEF appendRecords
<1>4. ASSUME NEW p \in Persists, appendFails(p)
      PROVE  HydroInv'
  <2>1. FileIsGood'
    BY <1>4, CutKeeps DEF appendFails
  <2>2. cuts' \in 0..MaxCuts
    <3>1. MaxCuts \in Nat /\ cuts \in 0..MaxCuts
      BY HydroAssumption, HydroTypes DEF HydroInv
    <3> QED
      BY <1>4, <3>1 DEF appendFails, Cut
  <2> QED
    BY <1>4, <2>1, <2>2, SettlesKeeps DEF appendFails
<1>5. CASE HydroCrashes
  BY <1>5, StationCrashKeeps
<1>6. CASE UNCHANGED hydroVars
  BY <1>6 DEF hydroVars, HydroInv, HydroTypeOK, OneLinePerKey, HeadAppendsNews,
              QueuedIsOpen, Readable
<1> QED
  BY <1>1, <1>2, <1>3, <1>4, <1>5, <1>6 DEF HydroNext, writeStationRecords

(* The lines, the queue and the calls keep their types.                    *)
THEOREM HydroTyped == HydroSpec => []HydroTypeOK
<1>1. HydroInv => HydroTypeOK
  BY DEF HydroInv
<1> QED
  BY <1>1, HydroInitInv, HydroStepInv, PTL DEF HydroSpec

(* For any payloads, calls and cut appends: the file never has two lines   *)
(* that parse and have one key (writeStationRecords, readAllStationRecords *)
(* and the queue of persistStationRecords).                                *)
THEOREM HistoryHasNoDoubles == HydroSpec => []OneLinePerKey
<1>1. HydroInv => OneLinePerKey
  BY DEF HydroInv
<1> QED
  BY <1>1, HydroInitInv, HydroStepInv, PTL DEF HydroSpec
================================================================================
