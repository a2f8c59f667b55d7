-------------------------- MODULE AlgorithmProofs --------------------------
(***************************************************************************)
(* Proofs about the search in the route list (ChnRoute), the changes to the *)
(* routing table (RouteTable) and the parser of DNS messages (DnsMessage).  *)
(***************************************************************************)
EXTENDS MCAlgorithms, FiniteSetTheorems, WellFoundedInduction, TLAPS

-----------------------------------------------------------------------------
(***************************************************************************)
(* Least elements, which stand for induction                                *)
(***************************************************************************)

Below == {ss \in Nat \X Nat : ss[1] < ss[2]}

LEMMA Least ==
    ASSUME NEW S \in SUBSET Nat, S # {}
    PROVE  \E n \in S : \A k \in S : ~(<<k, n>> \in Below)
<1>1. IsWellFoundedOn(Below, Nat)
  BY NatLessThanWellFounded DEF OpToRel, Below
<1> QED BY <1>1, WFMin

-----------------------------------------------------------------------------
(***************************************************************************)
(* Sets that are counted                                                    *)
(***************************************************************************)

\* Each rank by the keys f is the rank of an element.
Ranked(S, f) ==
    \A k \in 1..Cardinality(S) : \E x \in S : Cardinality({y \in S : f[y] < f[x]}) = k - 1

\* In a finite set with distinct keys, each rank is the rank of an element.
LEMMA EachRank ==
    ASSUME NEW S, IsFiniteSet(S), NEW f \in [S -> Int], \A x, y \in S : f[x] = f[y] => x = y
    PROVE  Ranked(S, f)
<1> DEFINE B(x) == {y \in S : f[y] < f[x]}
           g == [x \in S |-> Cardinality(B(x))]
           N == Cardinality(S)
<1>1. N \in Nat
  BY FS_CardinalityType
<1>2. ASSUME NEW x \in S PROVE IsFiniteSet(B(x)) /\ Cardinality(B(x)) \in 0..(N - 1)
  <2>1. B(x) \in SUBSET S
    OBVIOUS
  <2>2. IsFiniteSet(B(x)) /\ Cardinality(B(x)) <= N /\ (N = Cardinality(B(x)) => S = B(x))
    BY <2>1, FS_Subset
  <2>3. x \notin B(x)
    OBVIOUS
  <2>4. Cardinality(B(x)) \in Nat
    BY <2>2, FS_CardinalityType
  <2> QED BY <1>1, <2>2, <2>3, <2>4
<1>3. ASSUME NEW x \in S, NEW y \in S, f[x] < f[y] PROVE Cardinality(B(x)) # Cardinality(B(y))
  <2>1. B(x) \in SUBSET B(y)
    BY <1>3
  <2>2. x \in B(y) /\ x \notin B(x)
    BY <1>3
  <2>3. IsFiniteSet(B(y))
    BY <1>2
  <2> HIDE DEF B
  <2>4. Cardinality(B(y)) = Cardinality(B(x)) => B(y) = B(x)
    BY <2>1, <2>3, FS_Subset
  <2> QED BY <2>2, <2>4
<1>4. g \in [S -> 0..(N - 1)]
  BY <1>2
<1>5. ASSUME NEW x \in S, NEW y \in S, g[x] = g[y] PROVE x = y
  <2>1. Cardinality(B(x)) = Cardinality(B(y))
    BY <1>5
  <2>2. ~(f[x] < f[y]) /\ ~(f[y] < f[x])
    BY <1>3, <2>1
  <2>3. f[x] \in Int /\ f[y] \in Int
    OBVIOUS
  <2>4. f[x] = f[y]
    BY <2>2, <2>3
  <2> QED BY <2>4
<1> HIDE DEF g
<1>6. g \in Injection(S, 0..(N - 1))
  BY <1>4, <1>5 DEF Injection, IsInjective
<1>7. IsFiniteSet(0..(N - 1)) /\ Cardinality(0..(N - 1)) = N
  <2>1. N - 1 \in Int /\ 0 \in Int
    BY <1>1
  <2>2. Cardinality(0..(N - 1)) = IF 0 > N - 1 THEN 0 ELSE N - 1 - 0 + 1
    BY <2>1, FS_Interval
  <2> QED BY <1>1, <2>1, <2>2, FS_Interval
<1>8. g \in Surjection(S, 0..(N - 1))
  BY <1>6, <1>7, FS_Injection
<1>9. ASSUME NEW k \in 1..N PROVE \E x \in S : Cardinality(B(x)) = k - 1
  <2>1. k - 1 \in 0..(N - 1)
    BY <1>1
  <2>2. PICK x \in S : g[x] = k - 1
    BY <1>8, <2>1 DEF Surjection
  <2> QED BY <2>2 DEF g
<1> QED BY <1>9 DEF Ranked

-----------------------------------------------------------------------------
(***************************************************************************)
(* ChnRoute                                                                 *)
(***************************************************************************)

\* The nets of a list one behind the other, with no address in two of them.
InLine(q) ==
    /\ q \in Seq(Net)
    /\ \A j, k \in 1..Len(q) : j < k => q[j].net + q[j].size <= q[k].net

\* Between the bounds is every net that could cover the address but the last.
SearchInv ==
    /\ InLine(nets) /\ ip \in Addr /\ result \in BOOLEAN
    /\ pc \in {"loop", "test", "done"}
    /\ nets = <<>> => pc = "done" /\ ~result
    /\ nets # <<>> =>
        /\ l \in 0..(Len(nets) - 1) /\ r \in 0..(Len(nets) - 1) /\ l <= r
        /\ l = 0 \/ nets[l + 1].net <= ip
        /\ r = Len(nets) - 1 \/ ip < nets[r + 1].net
    /\ pc = "loop" /\ l = r => l = 0
    /\ pc = "test" => r = l + 1 /\ nets[l + 1].net <= ip
    /\ SearchRight

\* A net covers the addresses from its first to its last.
LEMMA CoversProp ==
    ASSUME NEW n \in Net, NEW a \in Addr
    PROVE  /\ n.net \in Nat /\ n.size \in Nat /\ n.size > 0 /\ a \in Nat /\ n.net \in Addr
           /\ Covers(n, a) <=> n.net <= a /\ a < n.net + n.size
<1>1. PICK k \in 0..Bits : n.size = 2^k
  BY DEF Net
<1>2. n.size \in Nat /\ n.size > 0
  BY <1>1, PowerAssumption
<1>3. n.net \in Addr /\ n.net % n.size = 0
  BY DEF Net
<1>4. 2^Bits \in Nat
  BY BitsAssumption, PowerAssumption
<1>5. n.net \in Nat /\ a \in Nat
  BY <1>3, <1>4 DEF Addr
<1>6. \A b, c, s \in Nat : s > 0 /\ b % s = 0 =>
        ((c \div s = b \div s) <=> (b <= c /\ c < b + s))
  OBVIOUS
<1>7. (a \div n.size = n.net \div n.size) <=> (n.net <= a /\ a < n.net + n.size)
  BY <1>2, <1>3, <1>5, <1>6
<1> QED BY <1>2, <1>3, <1>5, <1>7 DEF Covers

\* parse_chnroute brings disjoint nets in line.
LEMMA ParsedInLine ==
    ASSUME NEW S \in SUBSET Net, Disjoint(S)
    PROVE  InLine(Parsed(S))
<1> DEFINE f == [n \in S |-> n.net]
           N == Cardinality(S)
           q == Parsed(S)
<1>1. f \in [S -> Int]
  BY CoversProp DEF Net
<1>2. ASSUME NEW m \in S, NEW n \in S, m # n PROVE ~(m.net <= n.net /\ n.net < m.net + m.size)
  <2>1. ~Covers(m, n.net) /\ n.net \in Addr
    BY <1>2 DEF Disjoint, Net
  <2> QED BY <2>1, CoversProp
<1>3. \A m, n \in S : f[m] = f[n] => m = n
  <2> SUFFICES ASSUME NEW m \in S, NEW n \in S, m.net = n.net PROVE m = n
    OBVIOUS
  <2>1. m.net \in Nat /\ m.size \in Nat /\ m.size > 0
    BY CoversProp DEF Net
  <2>2. m.net <= n.net /\ n.net < m.net + m.size
    BY <2>1
  <2> QED BY <1>2, <2>2
<1>4. IsFiniteSet(S)
  <2>1. f \in Injection(S, Addr)
    <3>1. f \in [S -> Addr]
      BY DEF Net
    <3> HIDE DEF f
    <3> QED BY <1>3, <3>1 DEF Injection, IsInjective
  <2>2. IsFiniteSet(Addr)
    <3>1. 2^Bits - 1 \in Int
      BY BitsAssumption, PowerAssumption
    <3> QED BY <3>1, FS_Interval DEF Addr
  <2> HIDE DEF f
  <2> QED BY <2>1, <2>2, FS_Injection
<1>5. N \in Nat
  BY <1>4, FS_CardinalityType
<1> DEFINE B(n) == {m \in S : m.net < n.net}
<1>6. \A n \in S : {m \in S : f[m] < f[n]} = B(n)
  OBVIOUS
<1>7. \A k \in 1..N : \E n \in S : Cardinality(B(n)) = k - 1
  <2> TAKE k \in 1..N
  <2> HIDE DEF f, B
  <2>1. \E n \in S : Cardinality({m \in S : f[m] < f[n]}) = k - 1
    BY <1>1, <1>3, <1>4, EachRank DEF Ranked
  <2> QED BY <1>6, <2>1
<1>8. q = [k \in 1..N |-> CHOOSE n \in S : Cardinality(B(n)) = k - 1]
  BY DEF Parsed
<1> HIDE DEF f, q
<1>9. \A k \in 1..N : q[k] \in S /\ Cardinality(B(q[k])) = k - 1
  <2> HIDE DEF B, N
  <2> QED BY <1>7, <1>8
<1>10. q \in Seq(Net) /\ Len(q) = N
  <2>1. q \in [1..N -> Net]
    BY <1>8, <1>9
  <2> QED BY <1>5, <2>1
<1>11. ASSUME NEW j \in 1..N, NEW k \in 1..N, j < k PROVE q[j].net + q[j].size <= q[k].net
  <2>1. q[j] \in S /\ q[k] \in S
    BY <1>9
  <2>2. /\ q[j].net \in Nat /\ q[k].net \in Nat
        /\ q[j].size \in Nat /\ q[j].size > 0
    BY <2>1, CoversProp DEF Net
  <2>3. ~(q[k].net <= q[j].net)
    <3> SUFFICES ASSUME q[k].net <= q[j].net PROVE FALSE
      OBVIOUS
    <3>1. \A m \in S : m.net \in Nat
      BY CoversProp DEF Net
    <3>2. B(q[k]) \in SUBSET B(q[j])
      BY <2>2, <3>1
    <3>3. B(q[j]) \in SUBSET S
      OBVIOUS
    <3> HIDE DEF B
    <3>4. IsFiniteSet(B(q[j]))
      BY <1>4, <3>3, FS_Subset
    <3>5. Cardinality(B(q[k])) <= Cardinality(B(q[j]))
      BY <3>2, <3>4, FS_Subset
    <3>6. Cardinality(B(q[j])) = j - 1 /\ Cardinality(B(q[k])) = k - 1
      BY <1>9
    <3> QED BY <1>5, <1>11, <3>5, <3>6
  <2>4. q[j] # q[k]
    BY <2>2, <2>3
  <2>5. ~(q[j].net <= q[k].net /\ q[k].net < q[j].net + q[j].size)
    BY <1>2, <2>1, <2>4
  <2> QED BY <2>2, <2>3, <2>5
<1> QED BY <1>10, <1>11 DEF InLine, q

\* Only one net of a list covers an address, and what lies before it begins
\* below the address.
LEMMA InLineProp ==
    ASSUME NEW q, InLine(q), NEW a \in Addr, NEW k \in 1..Len(q)
    PROVE  /\ Len(q) \in Nat /\ DOMAIN q = 1..Len(q)
           /\ q[k] \in Net /\ q[k].net \in Nat /\ a \in Nat
           /\ \A j \in 1..Len(q) : k <= j => q[k].net <= q[j].net
           /\ Covers(q[k], a) =>
                /\ q[k].net <= a
                /\ \A j \in 1..Len(q) : k < j => ~(q[j].net <= a)
<1>1. q \in Seq(Net) /\ Len(q) \in Nat /\ DOMAIN q = 1..Len(q)
  BY DEF InLine
<1>2. \A j \in 1..Len(q) : /\ q[j] \in Net /\ q[j].net \in Nat /\ q[j].size \in Nat
  <2> TAKE j \in 1..Len(q)
  <2>1. q[j] \in Net
    BY <1>1
  <2> QED BY <2>1, CoversProp
<1>3. a \in Nat /\ (Covers(q[k], a) <=> q[k].net <= a /\ a < q[k].net + q[k].size)
  BY <1>2, CoversProp
<1>4. ASSUME NEW j \in 1..Len(q), k < j PROVE q[k].net + q[k].size <= q[j].net
  BY <1>4 DEF InLine
<1>5. ASSUME NEW j \in 1..Len(q), k <= j PROVE q[k].net <= q[j].net
  <2>1. CASE k = j
    BY <1>2, <2>1
  <2>2. CASE k < j
    <3>1. q[k].net \in Nat /\ q[k].size \in Nat /\ q[j].net \in Nat
      BY <1>2
    <3> QED BY <1>4, <2>2, <3>1
  <2> QED BY <1>1, <1>5, <2>1, <2>2
<1>6. ASSUME Covers(q[k], a), NEW j \in 1..Len(q), k < j PROVE ~(q[j].net <= a)
  <2>1. q[k].net \in Nat /\ q[k].size \in Nat /\ q[j].net \in Nat
    BY <1>2
  <2>2. q[k].net + q[k].size <= q[j].net
    BY <1>4, <1>6
  <2> QED BY <1>3, <1>6, <2>1, <2>2
<1> QED BY <1>1, <1>2, <1>3, <1>5, <1>6
LEMMA SearchInit == Init => SearchInv
<1> SUFFICES ASSUME Init PROVE SearchInv
  OBVIOUS
<1>0. /\ ip \in Addr /\ l = 0 /\ r = Len(nets) - 1 /\ result = FALSE
      /\ pc = IF nets = <<>> THEN "done" ELSE "loop"
  BY DEF Init
<1>1. InLine(nets)
  <2>1. PICK S \in SUBSET Net : Disjoint(S) /\ nets = Parsed(S)
    BY DEF Init
  <2> QED BY <2>1, ParsedInLine
<1>2. nets \in Seq(Net) /\ Len(nets) \in Nat /\ (nets # <<>> => Len(nets) > 0)
  BY <1>1 DEF InLine
<1>3. SearchRight
  <2> SUFFICES ASSUME pc = "done" PROVE ~InList /\ ~result
    BY DEF SearchRight
  <2>1. nets = <<>>
    BY <1>0
  <2> QED BY <1>0, <2>1 DEF InList
<1>4. nets # <<>> =>
        /\ l \in 0..(Len(nets) - 1) /\ r \in 0..(Len(nets) - 1) /\ l <= r
        /\ l = 0 /\ r = Len(nets) - 1
  BY <1>0, <1>2
<1>5. /\ nets = <<>> => pc = "done" /\ ~result
      /\ pc = "loop" /\ l = r => l = 0
      /\ pc \in {"loop", "done"} /\ result \in BOOLEAN
  BY <1>0
<1> QED BY <1>0, <1>1, <1>3, <1>4, <1>5 DEF SearchInv

LEMMA SearchStep == SearchInv /\ [Next]_vars => SearchInv'
<1> SUFFICES ASSUME SearchInv, [Next]_vars PROVE SearchInv'
  OBVIOUS
<1>0. /\ InLine(nets) /\ ip \in Addr /\ result \in BOOLEAN /\ nets \in Seq(Net) /\ Len(nets) \in Nat
      /\ DOMAIN nets = 1..Len(nets)
  BY DEF SearchInv, InLine
<1>1. ASSUME nets # <<>>
      PROVE  /\ l \in 0..(Len(nets) - 1) /\ r \in 0..(Len(nets) - 1) /\ l <= r
             /\ l = 0 \/ nets[l + 1].net <= ip
             /\ r = Len(nets) - 1 \/ ip < nets[r + 1].net
  BY <1>1 DEF SearchInv
<1>a. nets # <<>> => l \in 0..(Len(nets) - 1) /\ r \in 0..(Len(nets) - 1) /\ l <= r
  BY <1>1
<1>2. CASE Halve
  <2> DEFINE m == (l + r) \div 2
             below == ip < nets[m + 1].net
  <2>1. /\ pc = "loop" /\ l # r /\ UNCHANGED <<nets, ip, result>>
        /\ r' = IF below THEN m ELSE r
        /\ l' = IF below THEN l ELSE m
        /\ pc' = IF (IF below THEN r = m ELSE l = m) THEN "test" ELSE pc
    BY <1>2 DEF Halve
  <2>2. nets # <<>>
    BY <2>1 DEF SearchInv
  <2>3. m \in 0..(Len(nets) - 1) /\ l <= m /\ m < r
    <3>1. l # r /\ l \in 0..(Len(nets) - 1) /\ r \in 0..(Len(nets) - 1) /\ l <= r
      BY <1>a, <2>1, <2>2
    <3> QED BY <1>0, <3>1
  <2>4. m + 1 \in 1..Len(nets) /\ nets[m + 1].net \in Nat /\ ip \in Nat
    <3>1. m + 1 \in 1..Len(nets)
      BY <1>0, <2>3
    <3> QED BY <1>0, <3>1, InLineProp
  <2> HIDE DEF m
  <2>5. /\ l' \in 0..(Len(nets) - 1) /\ r' \in 0..(Len(nets) - 1) /\ l' <= r'
    BY <1>1, <2>1, <2>2, <2>3
  <2>6. /\ l' = 0 \/ nets[l' + 1].net <= ip
        /\ r' = Len(nets) - 1 \/ ip < nets[r' + 1].net
    <3>1. CASE below
      BY <1>1, <2>1, <2>2, <3>1
    <3>2. CASE ~below
      BY <1>1, <2>1, <2>2, <2>4, <3>2
    <3> QED BY <3>1, <3>2
  <2>7. l' = r' => l' = 0
    <3> SUFFICES ASSUME l' = r' PROVE l' = 0
      OBVIOUS
    <3>1. below /\ l' = l /\ r' = m /\ l = m
      BY <2>1, <2>3, <1>a, <2>2
    <3>2. ~(nets[l + 1].net <= ip)
      BY <2>4, <3>1
    <3> QED BY <1>1, <2>2, <3>1, <3>2
  <2>8. pc' = "test" => r' = l' + 1 /\ nets[l' + 1].net <= ip
    <3> SUFFICES ASSUME pc' = "test" PROVE r' = l' + 1 /\ nets[l' + 1].net <= ip
      OBVIOUS
    <3>1. ~below /\ l = m /\ r' = r /\ l' = m
      BY <1>1, <2>1, <2>2, <2>3
    <3>2. r = l + 1
      BY <1>1, <2>1, <2>2, <3>1 DEF m
    <3> QED BY <2>4, <3>1, <3>2
  <2>9. pc' \in {"loop", "test"} /\ SearchRight'
    BY <2>1 DEF SearchRight
  <2> QED BY <1>0, <2>1, <2>2, <2>5, <2>6, <2>7, <2>8, <2>9 DEF SearchInv
<1>3. CASE Test
  <2>1. /\ pc = "test" \/ (pc = "loop" /\ l = r)
        /\ UNCHANGED <<nets, ip, l, r>> /\ pc' = "done"
        /\ result' = Covers(nets[l + 1], ip)
    BY <1>3 DEF Test
  <2>2. nets # <<>> /\ Len(nets) > 0
    BY <1>0, <2>1 DEF SearchInv
  <2>3. l + 1 \in 1..Len(nets) /\ l + 1 \in DOMAIN nets /\ r \in Nat /\ l \in Nat
    BY <1>0, <1>1, <2>2
  <2>4. ASSUME NEW k \in 1..Len(nets), Covers(nets[k], ip), k # l + 1
        PROVE  Len(nets) > 1 /\ k = Len(nets)
    <3>1. /\ nets[k].net <= ip /\ \A j \in 1..Len(nets) : k < j => ~(nets[j].net <= ip)
          /\ \A j \in 1..Len(nets) : nets[j].net \in Nat
          /\ ip \in Nat
      BY <1>0, <2>4, InLineProp
    <3>2. l + 1 < k
      <4>1. CASE pc = "test"
        <5>1. nets[l + 1].net <= ip
          BY <4>1 DEF SearchInv
        <5> QED BY <2>3, <2>4, <3>1, <5>1
      <4>2. CASE pc = "loop" /\ l = r
        <5>1. l = 0
          BY <4>2 DEF SearchInv
        <5> QED BY <2>4, <5>1
      <4> QED BY <2>1, <4>1, <4>2
    <3>3. r + 1 <= k /\ r + 1 \in 1..Len(nets)
      <4>1. r = l \/ r = l + 1
        BY <2>1 DEF SearchInv
      <4> QED BY <1>0, <1>a, <2>2, <2>3, <3>2, <4>1
    <3>4. ~(ip < nets[r + 1].net)
      <4>1. nets[r + 1].net <= nets[k].net
        BY <1>0, <3>3, InLineProp
      <4> QED BY <3>1, <3>3, <4>1
    <3>5. r = Len(nets) - 1
      BY <1>1, <2>2, <3>4
    <3>6. Len(nets) \in Nat /\ k \in 1..Len(nets)
      BY <1>0
    <3> QED BY <2>3, <3>2, <3>3, <3>5, <3>6
  <2>5. result' => InList'
    BY <2>1, <2>3 DEF InList
  <2>6. ASSUME InList' PROVE result' \/ (Len(nets) > 1 /\ Covers(nets[Len(nets)], ip))
    <3>1. PICK k \in DOMAIN nets : Covers(nets[k], ip)
      BY <2>1, <2>6 DEF InList
    <3>2. CASE k = l + 1
      BY <2>1, <3>1, <3>2
    <3>3. CASE k # l + 1
      BY <1>0, <2>4, <3>1, <3>3
    <3> QED BY <3>2, <3>3
  <2>7. SearchRight'
    BY <2>1, <2>5, <2>6 DEF SearchRight
  <2>8. result' \in BOOLEAN
    BY <2>1 DEF Covers
  <2>9. pc' = "done" /\ UNCHANGED <<nets, ip, l, r>>
    BY <2>1
  <2> QED BY <1>0, <1>1, <2>2, <2>7, <2>8, <2>9 DEF SearchInv
<1>4. CASE UNCHANGED vars
  BY <1>4 DEF vars, SearchInv, SearchRight, InList
<1> QED BY <1>2, <1>3, <1>4 DEF Next

\* test_ip_in_list answers yes only for an address in one of the nets, and
\* misses none, however many nets the file has and wherever they lie, but the
\* addresses of the last of several.
THEOREM SearchIsRight == Spec => []SearchRight
<1>1. SearchInv => SearchRight
  BY DEF SearchInv
<1> QED BY <1>1, SearchInit, SearchStep, PTL DEF Spec
-----------------------------------------------------------------------------
(***************************************************************************)
(* RouteTable                                                               *)
(*                                                                         *)
(* Where a packet goes depends on the set of routes only, as long as all    *)
(* routes of the greatest length that match it lead the same way.           *)
(***************************************************************************)

Route == [dst : T!Addr, len : 0..W, via : {"gateway", "lan", "tunnel"}]

Routes(t) == {t[k] : k \in DOMAIN t}

\* A table as SIOCADDRT keeps it: no route twice.
Tables == {t \in Seq(Route) : \A j, k \in DOMAIN t : t[j] = t[k] => j = k}

\* A route the kernel takes.
Aligned(x) == T!Masked(x.dst, x.len) = x.dst

LEMMA GreatestNat ==
    ASSUME NEW S, S \subseteq Nat, S # {}, NEW n \in Nat, \A x \in S : x <= n
    PROVE  T!Max(S) \in S /\ \A y \in S : y <= T!Max(S)
<1> DEFINE D == {n - x : x \in S}
<1>2. D \subseteq Nat /\ D # {}
  <2>1. \A x \in S : x \in Nat /\ x <= n /\ n - x \in Nat
    OBVIOUS
  <2> QED BY <2>1
<1>3. PICK d \in D : \A y \in D : ~(<<y, d>> \in Below)
  <2> HIDE DEF D
  <2> QED BY <1>2, Least
<1>4. \A y \in D : ~(y < d)
  BY <1>2, <1>3 DEF Below
<1>5. PICK x \in S : d = n - x
  OBVIOUS
<1>6. ASSUME NEW y \in S PROVE x >= y
  <2>1. n - y \in D /\ x \in Nat /\ y \in Nat
    OBVIOUS
  <2>2. ~(n - y < n - x)
    BY <1>4, <1>5, <2>1
  <2> QED BY <2>1, <2>2
<1>7. \E z \in S : \A y \in S : z >= y
  BY <1>6
<1> HIDE DEF D
<1>8. T!Max(S) \in S /\ \A y \in S : T!Max(S) >= y
  BY <1>7 DEF T!Max
<1> QED BY <1>8

LEMMA SmallestNat ==
    ASSUME NEW S, S \subseteq Nat, S # {}
    PROVE  T!Min(S) \in S /\ \A y \in S : T!Min(S) <= y
<1>2. PICK x \in S : \A y \in S : ~(<<y, x>> \in Below)
  BY Least
<1>3. \A y \in S : x <= y
  <2> TAKE y \in S
  <2>1. x \in Nat /\ y \in Nat /\ ~(y < x)
    BY <1>2 DEF Below
  <2> QED BY <2>1
<1> QED BY <1>3 DEF T!Min

\* The kernel takes a longest route that matches.
LEMMA ViaProp ==
    ASSUME NEW t \in Seq(Route), NEW a \in T!Addr, NEW x \in Routes(t), T!Matches(a, x)
    PROVE  \E b \in Routes(t) :
              /\ T!Matches(a, b) /\ T!Via(t, a) = b.via
              /\ \A y \in Routes(t) : T!Matches(a, y) => y.len <= b.len
<1> DEFINE found == {k \in DOMAIN t : T!Matches(a, t[k])}
           lens == {t[k].len : k \in found}
           best == {k \in found : t[k].len = T!Max(lens)}
<1>0. W \in Nat
  BY LengthAssumption
<1>1. \A k \in DOMAIN t : t[k] \in Route
  OBVIOUS
<1>2. lens \subseteq Nat /\ \A n \in lens : n <= W
  BY <1>0, <1>1 DEF Route
<1>3. lens # {}
  BY DEF Routes
<1>4. T!Max(lens) \in lens /\ \A n \in lens : n <= T!Max(lens)
  <2> HIDE DEF lens
  <2> QED BY <1>0, <1>2, <1>3, GreatestNat
<1>5. best # {} /\ best \subseteq Nat
  <2>1. PICK k \in found : t[k].len = T!Max(lens)
    <3>1. T!Max(lens) \in lens
      BY <1>4
    <3> QED BY <3>1, Zenon
  <2>2. \A j \in DOMAIN t : j \in Nat
    OBVIOUS
  <2>3. k \in best
    BY <2>1, Zenon
  <2> QED BY <2>2, <2>3
<1>6. T!Min(best) \in best
  <2> HIDE DEF best
  <2> QED BY <1>5, SmallestNat
<1>7. T!Via(t, a) = t[T!Min(best)].via
  BY DEF T!Via
<1> DEFINE k == T!Min(best)
<1>8. k \in DOMAIN t /\ T!Matches(a, t[k]) /\ t[k].len = T!Max(lens)
  BY <1>6
<1> HIDE DEF k
<1>9. \A y \in Routes(t) : T!Matches(a, y) => y.len <= t[k].len
  BY <1>4, <1>8 DEF Routes
<1> QED BY <1>7, <1>8, <1>9 DEF Routes, k
LEMMA AddedProp ==
    ASSUME NEW t \in Tables, NEW x \in Route
    PROVE  /\ T!Added(t, x) \in Tables
           /\ Routes(T!Added(t, x)) = IF Aligned(x) THEN Routes(t) \union {x} ELSE Routes(t)
<1>1. t \in Seq(Route) /\ DOMAIN t = 1..Len(t) /\ Len(t) \in Nat
  BY DEF Tables
<1>2. T!Contains(t, x) <=> x \in Routes(t)
  BY <1>1 DEF T!Contains, Routes
<1>3. CASE ~Aligned(x) \/ x \in Routes(t)
  <2>1. T!Added(t, x) = t
    BY <1>2, <1>3 DEF T!Added, Aligned
  <2> QED BY <1>3, <2>1
<1>4. CASE Aligned(x) /\ x \notin Routes(t)
  <2> DEFINE u == <<x>> \o t
  <2>1. T!Added(t, x) = u
    BY <1>2, <1>4 DEF T!Added, Aligned
  <2>2. /\ u \in Seq(Route) /\ DOMAIN u = 1..(Len(t) + 1)
        /\ u[1] = x /\ \A k \in 1..Len(t) : u[k + 1] = t[k]
    BY <1>1
  <2> HIDE DEF u
  <2>3. \A k \in DOMAIN u : k = 1 \/ (k - 1 \in DOMAIN t /\ u[k] = t[k - 1])
    <3> TAKE k \in DOMAIN u
    <3>1. k # 1 => k - 1 \in 1..Len(t) /\ k - 1 + 1 = k
      BY <1>1, <2>2
    <3> QED BY <1>1, <2>2, <3>1
  <2>4. Routes(u) = Routes(t) \union {x}
    <3>1. ASSUME NEW y \in Routes(u) PROVE y \in Routes(t) \union {x}
      BY <2>2, <2>3 DEF Routes
    <3>2. ASSUME NEW y \in Routes(t) PROVE y \in Routes(u)
      <4>1. PICK k \in 1..Len(t) : y = t[k]
        BY <1>1 DEF Routes
      <4>2. k + 1 \in DOMAIN u /\ u[k + 1] = y
        BY <1>1, <2>2, <4>1
      <4> QED BY <4>2 DEF Routes
    <3>3. x \in Routes(u)
      <4>1. 1 \in DOMAIN u
        BY <1>1, <2>2
      <4> QED BY <2>2, <4>1 DEF Routes
    <3> QED BY <3>1, <3>2, <3>3
  <2>5. ASSUME NEW j \in DOMAIN u, NEW k \in DOMAIN u, u[j] = u[k] PROVE j = k
    <3>1. \A i_1 \in DOMAIN t : t[i_1] # x
      BY <1>4 DEF Routes
    <3>2. CASE j = 1 \/ k = 1
      BY <2>2, <2>3, <2>5, <3>1, <3>2
    <3>3. CASE j # 1 /\ k # 1
      <4>1. j - 1 = k - 1
        BY <2>3, <2>5, <3>3 DEF Tables
      <4> QED BY <1>1, <2>2, <4>1
    <3> QED BY <3>2, <3>3
  <2> QED BY <1>4, <2>1, <2>2, <2>4, <2>5 DEF Tables
<1> QED BY <1>3, <1>4

LEMMA DeletedProp ==
    ASSUME NEW t \in Tables, NEW x
    PROVE  T!Deleted(t, x) \in Tables /\ Routes(T!Deleted(t, x)) = Routes(t) \ {x}
<1>1. t \in Seq(Route) /\ DOMAIN t = 1..Len(t) /\ Len(t) \in Nat
  BY DEF Tables
<1>2. CASE x \notin Routes(t)
  <2>1. T!Deleted(t, x) = t
    BY <1>1, <1>2 DEF T!Deleted, T!RemoveFirst, Routes
  <2> QED BY <1>2, <2>1
<1>3. CASE x \in Routes(t)
  <2> DEFINE I == {j \in 1..Len(t) : t[j] = x}
             n == T!Min(I)
             u == SubSeq(t, 1, n - 1) \o SubSeq(t, n + 1, Len(t))
  <2>1. I # {} /\ I \subseteq Nat
    BY <1>1, <1>3 DEF Routes
  <2>2. n \in I
    <3> HIDE DEF I
    <3> QED BY <2>1, SmallestNat
  <2>3. T!Deleted(t, x) = u
    BY <2>1 DEF T!Deleted, T!RemoveFirst, T!RemoveAt, T!SelectInSeq
  <2>4. n \in 1..Len(t) /\ t[n] = x
    BY <2>2
  <2> HIDE DEF I, n
  <2>5. /\ u \in Seq(Route) /\ Len(u) = Len(t) - 1 /\ DOMAIN u = 1..(Len(t) - 1)
        /\ \A k \in 1..(Len(t) - 1) : u[k] = IF k < n THEN t[k] ELSE t[k + 1]
    <3> DEFINE a == SubSeq(t, 1, n - 1)
               b == SubSeq(t, n + 1, Len(t))
    <3>1. a \in Seq(Route) /\ Len(a) = n - 1 /\ \A k \in 1..(n - 1) : a[k] = t[k]
      BY <1>1, <2>4
    <3> DEFINE p == n + 1
    <3>a. p \in 1..(Len(t) + 1) /\ Len(t) - p + 1 = Len(t) - n /\ p = n + 1
      BY <1>1, <2>4
    <3> HIDE DEF p
    <3>b. /\ SubSeq(t, p, Len(t)) \in Seq(Route) /\ Len(SubSeq(t, p, Len(t))) = Len(t) - p + 1
          /\ \A k \in 1..(Len(t) - p + 1) : SubSeq(t, p, Len(t))[k] = t[p + k - 1]
      BY <1>1, <3>a
    <3>c. b = SubSeq(t, p, Len(t))
      BY <3>a
    <3>2. b \in Seq(Route) /\ Len(b) = Len(t) - n /\ \A k \in 1..(Len(t) - n) : b[k] = t[k + n]
      <4> HIDE DEF b
      <4>1. \A k \in 1..(Len(t) - n) : p + k - 1 = k + n
        BY <1>1, <2>4, <3>a
      <4> QED BY <3>a, <3>b, <3>c, <4>1
    <3> HIDE DEF a, b
    <3>3. /\ a \o b \in Seq(Route) /\ Len(a \o b) = Len(a) + Len(b) /\ DOMAIN (a \o b) = 1..(Len(a) + Len(b))
          /\ \A k \in 1..(Len(a) + Len(b)) : (a \o b)[k] = IF k <= Len(a) THEN a[k] ELSE b[k - Len(a)]
      BY <3>1, <3>2
    <3>4. n \in Nat /\ n >= 1 /\ n <= Len(t)
      BY <1>1, <2>4
    <3>5. Len(a) + Len(b) = Len(t) - 1
      BY <1>1, <3>1, <3>2, <3>4
    <3>6. ASSUME NEW k \in 1..(Len(t) - 1) PROVE (a \o b)[k] = IF k < n THEN t[k] ELSE t[k + 1]
      <4>1. CASE k < n
        BY <1>1, <3>1, <3>3, <3>4, <3>5, <4>1
      <4>2. CASE ~(k < n)
        <5>1. (a \o b)[k] = b[k - Len(a)]
          BY <1>1, <3>1, <3>3, <3>4, <3>5, <4>2
        <5>2. k - Len(a) \in 1..(Len(t) - n) /\ k - Len(a) + n = k + 1
          BY <1>1, <3>1, <3>4, <4>2
        <5>3. b[k - Len(a)] = t[k + 1]
          BY <3>2, <5>2
        <5> QED BY <4>2, <5>1, <5>3
      <4> QED BY <4>1, <4>2
    <3> QED BY <3>3, <3>5, <3>6 DEF a, b
  <2> HIDE DEF u
  <2>6. \A k \in DOMAIN u : \E j \in DOMAIN t : j # n /\ u[k] = t[j] /\ j = IF k < n THEN k ELSE k + 1
    <3> TAKE k \in DOMAIN u
    <3>1. k \in 1..Len(t) /\ k + 1 \in 1..Len(t)
      BY <1>1, <2>5
    <3>2. CASE k < n
      BY <1>1, <2>4, <2>5, <3>1, <3>2
    <3>3. CASE ~(k < n)
      BY <1>1, <2>4, <2>5, <3>1, <3>3
    <3> QED BY <3>2, <3>3
  <2>7. \A j \in DOMAIN t : j # n => \E k \in DOMAIN u : u[k] = t[j]
    <3> SUFFICES ASSUME NEW j \in DOMAIN t, j # n PROVE \E k \in DOMAIN u : u[k] = t[j]
      OBVIOUS
    <3>1. CASE j < n
      <4>1. j \in DOMAIN u
        BY <1>1, <2>4, <2>5, <3>1
      <4> QED BY <2>5, <3>1, <4>1
    <3>2. CASE j > n
      <4>1. j - 1 \in DOMAIN u /\ ~(j - 1 < n) /\ j - 1 + 1 = j
        BY <1>1, <2>4, <2>5, <3>2
      <4>2. u[j - 1] = t[j]
        BY <2>5, <4>1
      <4> QED BY <4>1, <4>2
    <3> QED BY <1>1, <2>4, <3>1, <3>2
  <2>8. \A j \in DOMAIN t : t[j] = x => j = n
    BY <1>1, <2>4 DEF Tables
  <2>9. Routes(u) = Routes(t) \ {x}
    BY <2>6, <2>7, <2>8, <2>4 DEF Routes
  <2>10. ASSUME NEW j \in DOMAIN u, NEW k \in DOMAIN u, u[j] = u[k] PROVE j = k
    <3>1. PICK p \in DOMAIN t : u[j] = t[p] /\ p = IF j < n THEN j ELSE j + 1
      BY <2>6
    <3>2. PICK q \in DOMAIN t : u[k] = t[q] /\ q = IF k < n THEN k ELSE k + 1
      BY <2>6
    <3>3. p = q
      BY <2>10, <3>1, <3>2 DEF Tables
    <3> QED BY <2>4, <2>5, <3>1, <3>2, <3>3
  <2> QED BY <2>3, <2>5, <2>9, <2>10 DEF Tables
<1> QED BY <1>2, <1>3

LEMMA OneCardinality == \A S : T!Cardinality(S) = Cardinality(S)
  BY Zenon DEF T!Cardinality, Cardinality

LEMMA WithoutProp ==
    ASSUME NEW t \in Tables, NEW v
    PROVE  /\ T!Without(t, v) \in Tables
           /\ Routes(T!Without(t, v)) = {x \in Routes(t) : x.via # v}
<1> DEFINE kept == {k \in DOMAIN t : t[k].via # v}
           N == T!Cardinality(kept)
           B(k) == {m_1 \in kept : m_1 < k}
           at_(j) == CHOOSE k \in kept : T!Cardinality(B(k)) = j - 1
           u == [j \in 1..N |-> t[at_(j)]]
<1>1. t \in Seq(Route) /\ DOMAIN t = 1..Len(t) /\ Len(t) \in Nat
  BY DEF Tables
<1>2. T!Without(t, v) = u
  BY DEF T!Without
<1>3. kept \subseteq 1..Len(t) /\ IsFiniteSet(kept) /\ N \in Nat
  <2>1. IsFiniteSet(1..Len(t))
    BY <1>1, FS_Interval
  <2>2. kept \in SUBSET (1..Len(t))
    BY <1>1
  <2> HIDE DEF kept
  <2>3. IsFiniteSet(kept)
    BY <2>1, <2>2, FS_Subset
  <2> QED BY <2>2, <2>3, FS_CardinalityType, OneCardinality
<1>a. N = Cardinality(kept)
  BY OneCardinality
<1>4. ASSUME NEW j \in 1..N PROVE \E k \in kept : T!Cardinality(B(k)) = j - 1
  <2> DEFINE f == [k \in kept |-> k]
  <2>1. f \in [kept -> Int] /\ \A x, y \in kept : f[x] = f[y] => x = y
    BY <1>3
  <2>2. \A k \in kept : {m_1 \in kept : f[m_1] < f[k]} = B(k)
    OBVIOUS
  <2>3. IsFiniteSet(kept) /\ j \in 1..Cardinality(kept)
    BY <1>3, <1>a
  <2> HIDE DEF kept, f, B, N
  <2>4. Ranked(kept, f)
    BY <2>1, <2>3, EachRank
  <2>5. \E k \in kept : Cardinality({m_1 \in kept : f[m_1] < f[k]}) = j - 1
    BY <2>3, <2>4 DEF Ranked
  <2> QED BY <2>2, <2>5, OneCardinality
<1>5. \A j \in 1..N : at_(j) \in kept /\ Cardinality(B(at_(j))) = j - 1
  <2> HIDE DEF kept, B, N
  <2>1. \A j \in 1..N : at_(j) \in kept /\ T!Cardinality(B(at_(j))) = j - 1
    BY <1>4
  <2> QED BY <2>1, OneCardinality
<1>6. ASSUME NEW k \in kept PROVE \E j \in 1..N : at_(j) = k
  <2>1. B(k) \in SUBSET kept /\ k \notin B(k)
    BY <1>3
  <2>2. IsFiniteSet(B(k)) /\ Cardinality(B(k)) <= N /\ Cardinality(B(k)) # N /\ Cardinality(B(k)) \in Nat
    <3> HIDE DEF B, kept, N
    <3>1. IsFiniteSet(B(k)) /\ Cardinality(B(k)) <= N /\ (N = Cardinality(B(k)) => kept = B(k))
      BY <1>3, <1>a, <2>1, FS_Subset
    <3>2. Cardinality(B(k)) \in Nat
      BY <3>1, FS_CardinalityType
    <3> QED BY <2>1, <3>1, <3>2
  <2> DEFINE j == Cardinality(B(k)) + 1
  <2>3. j \in 1..N /\ j - 1 = Cardinality(B(k))
    BY <1>3, <2>2
  <2> HIDE DEF j
  <2>4. at_(j) \in kept /\ Cardinality(B(at_(j))) = Cardinality(B(k))
    BY <1>5, <2>3
  <2> HIDE DEF at_
  <2>5. at_(j) = k
    <3>1. ASSUME NEW p \in kept, NEW q \in kept, p < q PROVE Cardinality(B(p)) # Cardinality(B(q))
      <4>1. B(p) \in SUBSET B(q)
        BY <1>3, <3>1
      <4>2. p \in B(q) /\ p \notin B(p) /\ B(q) \in SUBSET kept
        BY <1>3, <3>1
      <4> HIDE DEF B, kept
      <4>3. IsFiniteSet(B(q))
        BY <1>3, <4>2, FS_Subset
      <4>4. Cardinality(B(q)) = Cardinality(B(p)) => B(q) = B(p)
        BY <4>1, <4>3, FS_Subset
      <4> QED BY <4>2, <4>4
    <3>2. ~(at_(j) < k) /\ ~(k < at_(j))
      BY <2>4, <3>1
    <3>3. at_(j) \in Nat /\ k \in Nat
      BY <1>3, <2>4
    <3> QED BY <3>2, <3>3
  <2> QED BY <2>3, <2>5
<1> HIDE DEF B, at_
<1>7. DOMAIN u = 1..N /\ \A j \in 1..N : u[j] = t[at_(j)] /\ at_(j) \in DOMAIN t /\ t[at_(j)].via # v
  BY <1>5
<1>8. u \in Seq(Route)
  <2>1. \A k \in DOMAIN t : t[k] \in Route
    BY <1>1
  <2> HIDE DEF N, kept
  <2>2. u \in [1..N -> Route]
    BY <1>7, <2>1
  <2> HIDE DEF u
  <2> QED BY <1>3, <2>2
<1>9. \A k \in DOMAIN t : t[k].via # v => \E j \in 1..N : u[j] = t[k]
  BY <1>6, <1>7
<1> HIDE DEF u, N
<1>10. Routes(u) = {x \in Routes(t) : x.via # v}
  BY <1>7, <1>9 DEF Routes
<1>11. ASSUME NEW j \in DOMAIN u, NEW k \in DOMAIN u, u[j] = u[k] PROVE j = k
  <2>1. at_(j) = at_(k)
    BY <1>7, <1>11 DEF Tables
  <2>2. j - 1 = k - 1
    BY <1>5, <1>7, <2>1
  <2> QED BY <1>3, <1>7, <2>2
<1> QED BY <1>2, <1>8, <1>10, <1>11 DEF Tables
-----------------------------------------------------------------------------
(***************************************************************************)
(* The table that each step has made, as a set of routes                    *)
(***************************************************************************)
Default == T!Row(0, 0, "gateway")

LineRow(l_1) == T!Row(l_1[1], l_1[2], "gateway")

\* The rows of the first k lines, and those of them the kernel has taken.
LineRows(k) == {x \in Route : \E j \in 1..k : file[j] # T!Blank /\ x = LineRow(file[j])}
Accepted(k) == {x \in LineRows(k) : Aligned(x)}

HalfRows == {T!Row(0, 1, "tunnel"), T!Row(2^(W - 1), 1, "tunnel")}

\* What the user has: the default route and longer ones that leave the gateway aside.
OwnRoutes ==
    /\ own \in Tables /\ Default \in Routes(own)
    /\ \A x \in Routes(own) : x = Default \/ (x.via = "lan" /\ x.len >= 2)
    /\ T!DefaultRoute(own).via = "gateway"

TableType ==
    /\ file \in Seq(T!Line) /\ server \in T!Addr /\ table \in Tables
    /\ row \in Route /\ row.via = "gateway" /\ i \in 1..(Len(file) + 1)
    /\ fds \in Nat /\ limit \in Nat /\ refused \in Nat
    /\ at \in {"open", "server", "add", "low", "high", "run", "delete", "done"}

\* The kernel refuses nothing, and the descriptors suffice: for the server, for
\* set_chnroute and set_default_as_tunnel, for delete_chnroute as well.
Some == refused = 0 /\ limit >= 2
Enough == refused = 0 /\ limit >= Len(file) + 3
Plenty == refused = 0 /\ limit >= 2 * Len(file) + 5

\* Which line is next.
AtLine ==
    /\ at \in {"add", "delete"} => i <= Len(file)
    /\ at \in {"low", "high", "run", "done"} => i = Len(file) + 1
    /\ at = "server" /\ Enough => i = 1

\* The descriptors that are left, one less for each call and for an open file.
Fed ==
    /\ at = "open" => fds >= limit
    /\ at = "server" => fds >= IF i <= Len(file) THEN limit - 1 ELSE limit
    /\ at = "add" => fds >= limit - i - 1
    /\ at = "low" => fds >= limit - Len(file) - 1
    /\ at = "high" => fds >= limit - Len(file) - 2
    /\ at = "run" => fds >= limit - Len(file) - 3
    /\ at = "delete" => fds >= limit - Len(file) - i - 4

\* The routes that are there, those of the client if the descriptors suffice.
Present ==
    /\ Routes(own) \subseteq Routes(table)
    /\ Some /\ at \in {"add", "low", "high", "run"} => T!ServerRow \in Routes(table)
    /\ Enough /\ at = "add" => Accepted(i - 1) \subseteq Routes(table)
    /\ Enough /\ at \in {"low", "high", "run"} => Accepted(Len(file)) \subseteq Routes(table)
    /\ Enough /\ at \in {"high", "run"} => T!Row(0, 1, "tunnel") \in Routes(table)
    /\ Enough /\ at = "run" => T!Row(2^(W - 1), 1, "tunnel") \in Routes(table)

\* The routes that may be there.  A line without a slash repeats the row of a
\* line before it, or the server's.
Allowed ==
    /\ Routes(table) \subseteq Routes(own) \union {T!ServerRow} \union Accepted(Len(file)) \union HalfRows
    /\ at \notin {"high", "run"} => \A x \in Routes(table) : x.via # "tunnel"
    /\ at = "add" => row \in {T!ServerRow} \union LineRows(Len(file))
    /\ at = "delete" => row.len >= 1
    /\ Plenty /\ at \in {"delete", "done"} => \A x \in Routes(table) : x \notin LineRows(i - 1)

TableInv == OwnRoutes /\ TableType /\ AtLine /\ Fed /\ Present /\ Allowed


LEMMA MaskedProp ==
    ASSUME NEW a \in T!Addr, NEW n \in 0..W
    PROVE  /\ a \in Nat /\ T!Masked(a, n) \in T!Addr
           /\ T!Masked(T!Masked(a, n), n) = T!Masked(a, n)
           /\ n = 0 => T!Masked(a, n) = 0
           /\ n = W => T!Masked(a, n) = a
<1> DEFINE p == 2^(W - n)
           N == 2^W
<1>1. W \in Nat /\ n \in Nat /\ n <= W /\ W - n \in 0..W /\ W - 0 = W /\ W \in 0..W
  BY LengthAssumption
<1>2. p \in Nat /\ p > 0 /\ N \in Nat /\ N > 0
  BY <1>1, HalfAssumption
<1>3. (n = 0 => p = N) /\ (n = W => p = 1)
  <2>1. n = 0 => p = N
    BY <1>1
  <2>2. n = W => p = 1
    <3>1. n = W => W - n = 0
      BY <1>1
    <3> QED BY <3>1
  <2> QED BY <2>1, <2>2
<1>4. a \in Nat /\ a < N
  BY <1>2 DEF T!Addr
<1> HIDE DEF p, N
<1>5. \A b, c \in Nat : c > 0 => b \div c \in Nat /\ (b \div c) * c \in Nat /\ (b \div c) * c <= b /\ ((b \div c) * c) \div c = b \div c
  OBVIOUS
<1>6. \A b, c \in Nat : c > 0 /\ b < c => (b \div c) * c = 0
  OBVIOUS
<1>7. \A b \in Nat : (b \div 1) * 1 = b
  OBVIOUS
<1>8. \A b : T!Masked(b, n) = (b \div p) * p
  BY DEF T!Masked, p
<1>9. T!Masked(a, n) \in Nat /\ T!Masked(a, n) <= a
  BY <1>2, <1>4, <1>5, <1>8
<1>10. T!Masked(a, n) \in T!Addr
  BY <1>2, <1>4, <1>9 DEF T!Addr, N
<1>11. T!Masked(T!Masked(a, n), n) = T!Masked(a, n)
  BY <1>2, <1>4, <1>5, <1>8
<1> QED BY <1>2, <1>3, <1>4, <1>6, <1>7, <1>8, <1>10, <1>11

\* The halves begin where their addresses begin, and cover the space.
LEMMA HalvesProp ==
    /\ 1 \in 0..W /\ 2^(W - 1) \in T!Addr /\ 0 \in T!Addr
    /\ T!Masked(0, 1) = 0 /\ T!Masked(2^(W - 1), 1) = 2^(W - 1)
    /\ \A a \in T!Addr : T!Masked(a, 1) \in {0, 2^(W - 1)}
<1> DEFINE h == 2^(W - 1)
           N == 2^W
<1>1. W \in Nat /\ W >= 2 /\ W - 1 \in 0..W /\ W \in 0..W
  BY LengthAssumption
<1>2. h \in Nat /\ h > 0 /\ N = 2 * h
  BY <1>1, HalfAssumption
<1>3. \A b : T!Masked(b, 1) = (b \div h) * h
  BY DEF T!Masked
<1>4. T!Addr = 0..(N - 1)
  BY DEF T!Addr
<1> HIDE DEF h, N
<1>5. 0 \div h = 0 /\ h \div h = 1
  BY <1>2
<1>6. T!Masked(0, 1) = 0 /\ T!Masked(h, 1) = h
  BY <1>2, <1>3, <1>5
<1>7. ASSUME NEW a \in T!Addr PROVE T!Masked(a, 1) \in {0, h}
  <2>1. a \in Nat /\ a < 2 * h
    BY <1>2, <1>4
  <2>2. a \div h \in {0, 1}
    BY <1>2, <2>1
  <2> QED BY <1>2, <1>3, <2>2
<1>8. h \in T!Addr /\ 0 \in T!Addr
  BY <1>2, <1>4
<1> QED BY <1>1, <1>6, <1>7, <1>8 DEF h

LEMMA RoutesType ==
    ASSUME NEW t \in Seq(Route), NEW x \in Routes(t)
    PROVE  x \in Route /\ x.len \in Nat
<1>1. x \in Route
  BY DEF Routes
<1> QED BY <1>1, LengthAssumption DEF Route

LEMMA DefaultIsRoute == Default \in Route /\ Default.via = "gateway" /\ Default.len = 0
<1>1. W \in Nat /\ 0 \in 0..W /\ 0 \in T!Addr
  BY LengthAssumption, HalvesProp
<1> QED BY <1>1 DEF Default, Route, T!Row

\* Every table of the user's own that is an initial state has this form.
LEMMA OwnRoutesInit ==
    ASSUME T!Init
    PROVE  OwnRoutes
<1>1. CASE own = <<Default>>
  <2>1. own \in Seq(Route) /\ Len(own) = 1 /\ DOMAIN own = {1} /\ own[1] = Default
    BY <1>1, DefaultIsRoute
  <2>2. own \in Tables
    BY <2>1 DEF Tables
  <2>3. T!DefaultRoute(own) = Default
    <3> DEFINE S == {k \in DOMAIN own : own[k].dst = 0}
    <3>1. S = {1}
      BY <2>1 DEF Default, T!Row
    <3>2. T!Max(S) = 1
      <4> HIDE DEF S
      <4>1. T!Max(S) \in S
        BY <3>1, GreatestNat
      <4> QED BY <3>1, <4>1
    <3> QED BY <2>1, <3>2 DEF T!DefaultRoute
  <2> QED BY <2>1, <2>2, <2>3, DefaultIsRoute DEF OwnRoutes, Routes
<1>2. ASSUME NEW a \in T!Addr, NEW n \in Own, own = <<T!Row(T!Masked(a, n), n, "lan"), Default>>
      PROVE  OwnRoutes
  <2> DEFINE x == T!Row(T!Masked(a, n), n, "lan")
  <2>1. n \in 0..W /\ n \in Nat /\ n >= 2
    BY LengthAssumption
  <2>2. T!Masked(a, n) \in T!Addr
    BY <2>1, MaskedProp
  <2>3. x \in Route /\ x.via = "lan" /\ x.len >= 2
    BY <2>1, <2>2 DEF T!Row, Route
  <2>4. own = <<x, Default>>
    BY <1>2
  <2> HIDE DEF x
  <2>5. own \in Seq(Route) /\ Len(own) = 2 /\ DOMAIN own = {1, 2} /\ own[1] = x /\ own[2] = Default
    BY <2>3, <2>4, DefaultIsRoute
  <2>6. x # Default
    BY <2>3, DefaultIsRoute
  <2>7. own \in Tables
    BY <2>5, <2>6 DEF Tables
  <2>8. T!DefaultRoute(own) = Default
    <3> DEFINE S == {k \in DOMAIN own : own[k].dst = 0}
    <3>1. S \subseteq {1, 2} /\ 2 \in S
      BY <2>5 DEF Default, T!Row
    <3>2. T!Max(S) = 2
      <4> HIDE DEF S
      <4>1. T!Max(S) \in S /\ \A y \in S : y <= T!Max(S)
        <5>1. S \subseteq Nat /\ S # {} /\ \A y \in S : y <= 2
          BY <3>1
        <5> QED BY <5>1, GreatestNat
      <4>2. T!Max(S) \in {1, 2} /\ 2 <= T!Max(S)
        BY <3>1, <4>1
      <4> QED BY <4>2
    <3> QED BY <2>5, <3>2 DEF T!DefaultRoute
  <2> QED BY <2>3, <2>5, <2>7, <2>8, DefaultIsRoute DEF OwnRoutes, Routes
<1>3. \/ own = <<Default>>
      \/ \E a \in T!Addr, n \in Own : own = <<T!Row(T!Masked(a, n), n, "lan"), Default>>
  BY DEF T!Init, Default
<1> QED BY <1>1, <1>2, <1>3

\* The row to the server is its own net, and leads through the gateway.
LEMMA ServerRowProp ==
    ASSUME OwnRoutes, server \in T!Addr
    PROVE  /\ T!ServerRow \in Route /\ T!ServerRow.via = "gateway" /\ T!ServerRow.len = W
           /\ Aligned(T!ServerRow)
           /\ \A a \in T!Addr : T!Matches(a, T!ServerRow) <=> a = server
<1>1. W \in 0..W
  BY LengthAssumption
<1>2. T!ServerRow = T!Row(server, W, "gateway")
  BY DEF T!ServerRow, OwnRoutes
<1>3. \A a \in T!Addr : T!Masked(a, W) = a
  BY <1>1, MaskedProp
<1> QED BY <1>1, <1>2, <1>3 DEF T!Row, Route, Aligned, T!Matches

\* A row of the file is a longer route than the halves.
LEMMA LineRowProp ==
    ASSUME NEW x \in T!Line, x # T!Blank
    PROVE  LineRow(x) \in Route /\ LineRow(x).via = "gateway" /\ LineRow(x).len >= 2
<1>1. MinLen \in Nat /\ W \in Nat /\ MinLen >= 2
  BY LengthAssumption
<1>2. x[1] \in T!Addr /\ x[2] \in MinLen..W
  BY DEF T!Line, T!Net
<1>3. x[2] \in 0..W /\ x[2] >= 2
  BY <1>1, <1>2
<1> QED BY <1>2, <1>3 DEF LineRow, T!Row, Route

LEMMA LineRowsProp ==
    ASSUME TableType, NEW k \in 0..Len(file), NEW x \in LineRows(k)
    PROVE  x \in Route /\ x.via = "gateway" /\ x.len >= 2
<1>1. PICK j \in 1..k : file[j] # T!Blank /\ x = LineRow(file[j])
  BY DEF LineRows
<1>2. file[j] \in T!Line
  <2>1. j \in 1..Len(file) /\ file \in Seq(T!Line)
    BY DEF TableType
  <2> QED BY <2>1
<1> QED BY <1>1, <1>2, LineRowProp

\* What the next line adds to the rows of the lines before it.
LEMMA NextLine ==
    ASSUME TableType, i <= Len(file)
    PROVE  /\ file[i] \in T!Line
           /\ T!Parsed(file[i]) = IF file[i] = T!Blank THEN row ELSE LineRow(file[i])
           /\ T!Parsed(file[i]) \in Route /\ T!Parsed(file[i]).via = "gateway"
           /\ LineRows(i) = LineRows(i - 1) \union (IF file[i] = T!Blank THEN {} ELSE {T!Parsed(file[i])})
           /\ LineRows(i - 1) \subseteq LineRows(i)
           /\ LineRows(i) \subseteq LineRows(Len(file))
<1>1. file \in Seq(T!Line) /\ i \in 1..Len(file) /\ i \in Nat /\ Len(file) \in Nat /\ row \in Route /\ row.via = "gateway"
  BY DEF TableType
<1>2. file[i] \in T!Line
  BY <1>1
<1>3. T!Parsed(file[i]) = IF file[i] = T!Blank THEN row ELSE LineRow(file[i])
  BY <1>1 DEF T!Parsed, LineRow
<1>4. T!Parsed(file[i]) \in Route /\ T!Parsed(file[i]).via = "gateway"
  BY <1>1, <1>2, <1>3, LineRowProp
<1>5. file[i] # T!Blank => LineRow(file[i]) \in Route
  BY <1>2, LineRowProp
<1>6. 1..i = (1..(i - 1)) \union {i} /\ \A j \in 1..i : j \in 1..Len(file)
  BY <1>1
<1>7. LineRows(i) = LineRows(i - 1) \union (IF file[i] = T!Blank THEN {} ELSE {LineRow(file[i])})
  BY <1>5, <1>6 DEF LineRows
<1>8. LineRows(i - 1) \subseteq LineRows(i) /\ LineRows(i) \subseteq LineRows(Len(file))
  BY <1>6 DEF LineRows
<1> QED BY <1>2, <1>3, <1>4, <1>7, <1>8

LEMMA TableInit == T!Init => TableInv
<1> SUFFICES ASSUME T!Init PROVE TableInv
  OBVIOUS
<1>1. OwnRoutes
  BY OwnRoutesInit
<1>2. file \in Seq(T!Line) /\ Len(file) \in Nat
  BY DEF T!Init
<1>3. /\ server \in T!Addr /\ table = own /\ row = Default /\ i = 1 /\ at = "open"
      /\ fds = limit /\ limit \in Nat /\ refused = 0
  BY CountAssumption DEF T!Init, Default
<1>4. TableType
  BY <1>1, <1>2, <1>3, DefaultIsRoute DEF TableType, OwnRoutes
<1>5. AtLine /\ Fed
  BY <1>2, <1>3 DEF AtLine, Fed
<1>6. Present
  BY <1>3 DEF Present
<1>7. Allowed
  <2>1. \A x \in Routes(own) : x.via # "tunnel"
    BY <1>1, DefaultIsRoute DEF OwnRoutes
  <2> QED BY <1>3, <2>1 DEF Allowed
<1> QED BY <1>1, <1>4, <1>5, <1>6, <1>7 DEF TableInv

\* What no step changes.
LEMMA TableFrame ==
    ASSUME OwnRoutes, [T!Next]_tableVars
    PROVE  /\ file' = file /\ server' = server /\ own' = own /\ limit' = limit
           /\ OwnRoutes' /\ Routes(own)' = Routes(own) /\ Routes(table)' = Routes(table')
           /\ T!ServerRow' = T!ServerRow /\ HalfRows' = HalfRows
           /\ Accepted(Len(file))' = Accepted(Len(file)) /\ LineRows(Len(file))' = LineRows(Len(file))
<1>1. file' = file /\ server' = server /\ own' = own /\ limit' = limit
  BY DEF T!Next, T!OpenFile, T!AddServer, T!AddLine, T!AddLow, T!AddHigh, T!AddHalf, T!StopTunnel,
         T!DeleteLine, tableVars
<1>2. OwnRoutes' /\ Routes(own)' = Routes(own) /\ Routes(table)' = Routes(table')
  BY <1>1 DEF OwnRoutes, Routes
<1>3. T!ServerRow' = T!ServerRow /\ HalfRows' = HalfRows
  BY <1>1 DEF T!ServerRow, HalfRows
<1>4. Accepted(Len(file))' = Accepted(Len(file)) /\ LineRows(Len(file))' = LineRows(Len(file))
  BY <1>1 DEF Accepted, LineRows
<1> QED BY <1>1, <1>2, <1>3, <1>4

\* A step makes one call, which succeeds or leaves the table, closes the tunnel,
\* or leaves the table alone.
LEMMA TypeStep ==
    ASSUME OwnRoutes, TableType, AtLine, [T!Next]_tableVars
    PROVE  TableType'
<1>1. /\ file \in Seq(T!Line) /\ Len(file) \in Nat /\ server \in T!Addr /\ table \in Tables
      /\ row \in Route /\ row.via = "gateway" /\ i \in 1..(Len(file) + 1) /\ i \in Nat
      /\ fds \in Nat /\ limit \in Nat /\ refused \in Nat
  BY DEF TableType
<1>2. file' = file /\ server' = server /\ limit' = limit
  BY TableFrame
<1>3. T!ServerRow \in Route /\ T!ServerRow.via = "gateway"
  BY <1>1, ServerRowProp
<1>4. T!Left(fds, 1) \in Nat /\ T!Left(fds + 1, 2) \in Nat
  BY <1>1 DEF T!Left
<1>5. ASSUME NEW t \in Tables, T!Call(t) PROVE table' \in Tables /\ refused' \in Nat
  BY <1>1, <1>5 DEF T!Call, T!Refuse
<1>6. ASSUME NEW n \in Nat, T!Open(n)
      PROVE  i' \in 1..(Len(file) + 1) /\ fds' \in Nat /\ refused' \in Nat
  BY <1>1, <1>6 DEF T!Open, T!Refuse
<1>7. CASE T!OpenFile
  <2>1. T!Open(fds) /\ at' = "server" /\ table' = table /\ row' = row
    BY <1>7 DEF T!OpenFile
  <2> QED BY <1>1, <1>2, <1>6, <2>1 DEF TableType
<1>8. CASE T!AddServer
  <2>1. /\ T!Call(T!Added(table, T!ServerRow)) /\ fds' = T!Left(fds, 1) /\ at' \in {"add", "low"}
        /\ row' = T!ServerRow /\ i' = i
    BY <1>8 DEF T!AddServer
  <2>2. T!Added(table, T!ServerRow) \in Tables
    BY <1>1, <1>3, AddedProp
  <2> QED BY <1>1, <1>2, <1>3, <1>4, <1>5, <2>1, <2>2 DEF TableType
<1>9. CASE T!AddLine
  <2> DEFINE x == T!Parsed(file[i])
  <2>1. /\ at = "add" /\ T!Call(T!Added(table, x)) /\ row' = x /\ i' = i + 1 /\ at' \in {"add", "low"}
        /\ fds' \in {T!Left(fds, 1), T!Left(fds, 1) + 1}
    BY <1>9 DEF T!AddLine
  <2>2. i <= Len(file)
    BY <2>1 DEF AtLine
  <2>3. x \in Route /\ x.via = "gateway"
    BY <2>2, NextLine
  <2> HIDE DEF x
  <2>4. T!Added(table, x) \in Tables
    BY <1>1, <2>3, AddedProp
  <2>5. table' \in Tables /\ refused' \in Nat
    BY <1>5, <2>1, <2>4
  <2>6. fds' \in Nat /\ i' \in 1..(Len(file) + 1)
    BY <1>1, <1>4, <2>1, <2>2
  <2> QED BY <1>1, <1>2, <2>1, <2>3, <2>5, <2>6 DEF TableType
<1>10. ASSUME NEW d \in T!Addr, NEW p, T!AddHalf(d, p), p \in {"high", "run"} PROVE TableType'
  <2> DEFINE x == T!Row(d, 1, "tunnel")
  <2>1. T!Call(T!Added(table, x)) /\ fds' = T!Left(fds, 1) /\ at' = p /\ row' = row /\ i' = i
    BY <1>10 DEF T!AddHalf
  <2>2. x \in Route
    BY HalvesProp DEF T!Row, Route
  <2> HIDE DEF x
  <2>3. T!Added(table, x) \in Tables
    BY <1>1, <2>2, AddedProp
  <2> QED BY <1>1, <1>2, <1>4, <1>5, <1>10, <2>1, <2>3 DEF TableType
<1>11. CASE T!StopTunnel
  <2> DEFINE n == IF file = <<>> THEN fds + 1 ELSE T!Left(fds + 1, 2)
             x == T!Row(2^(W - 1), 1, row.via)
  <2>1. T!Open(n) /\ table' = T!Without(table, "tunnel") /\ row' = x /\ at' \in {"delete", "done"}
    BY <1>11 DEF T!StopTunnel
  <2>2. n \in Nat
    BY <1>1, <1>4
  <2>3. x \in Route /\ x.via = "gateway"
    BY <1>1, HalvesProp DEF T!Row, Route
  <2> HIDE DEF n, x
  <2>4. table' \in Tables
    BY <1>1, <2>1, WithoutProp
  <2>5. i' \in 1..(Len(file) + 1) /\ fds' \in Nat /\ refused' \in Nat
    BY <1>6, <2>1, <2>2
  <2> QED BY <1>1, <1>2, <2>1, <2>3, <2>4, <2>5 DEF TableType
<1>12. CASE T!DeleteLine
  <2> DEFINE x == T!Parsed(file[i])
  <2>1. /\ at = "delete" /\ T!Call(T!Deleted(table, x)) /\ row' = x /\ i' = i + 1
        /\ at' \in {"delete", "done"} /\ fds' = T!Left(fds, 1)
    BY <1>12 DEF T!DeleteLine
  <2>2. i <= Len(file)
    BY <2>1 DEF AtLine
  <2>3. x \in Route /\ x.via = "gateway"
    BY <2>2, NextLine
  <2> HIDE DEF x
  <2>4. T!Deleted(table, x) \in Tables
    BY <1>1, DeletedProp
  <2>5. table' \in Tables /\ refused' \in Nat
    BY <1>5, <2>1, <2>4
  <2>6. fds' \in Nat /\ i' \in 1..(Len(file) + 1)
    BY <1>1, <1>4, <2>1, <2>2
  <2> QED BY <1>1, <1>2, <2>1, <2>3, <2>5, <2>6 DEF TableType
<1>13. CASE UNCHANGED tableVars
  BY <1>13 DEF TableType, tableVars
<1>14. 0 \in T!Addr /\ 2^(W - 1) \in T!Addr
  BY HalvesProp
<1>15. CASE T!AddLow \/ T!AddHigh
  BY <1>10, <1>14, <1>15 DEF T!AddLow, T!AddHigh
<1> QED BY <1>7, <1>8, <1>9, <1>11, <1>12, <1>13, <1>15 DEF T!Next

LEMMA AtLineStep ==
    ASSUME OwnRoutes, TableType, AtLine, Fed, [T!Next]_tableVars
    PROVE  AtLine' /\ Fed'
<1>1. /\ file \in Seq(T!Line) /\ Len(file) \in Nat /\ i \in 1..(Len(file) + 1) /\ i \in Nat
      /\ fds \in Nat /\ limit \in Nat /\ refused \in Nat
      /\ (file = <<>> => Len(file) = 0) /\ (file # <<>> => Len(file) >= 1)
  BY DEF TableType
<1>2. file' = file /\ limit' = limit /\ Len(file') = Len(file)
  BY TableFrame
<1>3. \A n \in Nat : T!Left(n, 1) >= n - 1 /\ T!Left(n, 2) >= n - 2
                     /\ T!Left(n, 1) \in Nat /\ T!Left(n, 2) \in Nat
  BY DEF T!Left
<1>4. CASE T!OpenFile
  <2>1. at = "open" /\ at' = "server" /\ T!Open(fds)
    BY <1>4 DEF T!OpenFile
  <2>2. fds >= limit
    BY <2>1 DEF Fed
  <2>3. /\ fds' >= IF i' <= Len(file) THEN limit - 1 ELSE limit
        /\ refused' = 0 /\ limit >= Len(file) + 3 => i' = 1
    BY <1>1, <2>1, <2>2 DEF T!Open, T!Refuse
  <2> QED BY <1>2, <2>1, <2>3 DEF AtLine, Fed, Enough
<1>5. CASE T!AddServer
  <2>1. /\ at = "server" /\ fds' = T!Left(fds, 1) /\ i' = i
        /\ at' = IF i <= Len(file) THEN "add" ELSE "low"
    BY <1>5 DEF T!AddServer
  <2>2. refused' = 0 => refused = 0
    BY <1>1, <1>5 DEF T!AddServer, T!Call, T!Refuse
  <2>3. /\ fds >= IF i <= Len(file) THEN limit - 1 ELSE limit
        /\ fds' >= fds - 1 /\ fds' \in Nat
    BY <1>1, <1>3, <2>1 DEF Fed
  <2>4. CASE i <= Len(file)
    BY <1>1, <1>2, <2>1, <2>3, <2>4 DEF AtLine, Fed
  <2>5. CASE ~(i <= Len(file))
    BY <1>1, <1>2, <2>1, <2>3, <2>5 DEF AtLine, Fed
  <2> QED BY <2>4, <2>5
<1>6. CASE T!AddLine
  <2>1. /\ at = "add" /\ fds' = (IF i = Len(file) THEN T!Left(fds, 1) + 1 ELSE T!Left(fds, 1))
        /\ i' = i + 1 /\ at' = IF i = Len(file) THEN "low" ELSE at
    BY <1>6 DEF T!AddLine
  <2>2. i <= Len(file) /\ fds >= limit - i - 1
    BY <2>1 DEF AtLine, Fed
  <2>3. T!Left(fds, 1) >= fds - 1 /\ T!Left(fds, 1) \in Nat
    BY <1>1, <1>3
  <2>4. CASE i = Len(file)
    BY <1>1, <1>2, <2>1, <2>2, <2>3, <2>4 DEF AtLine, Fed
  <2>5. CASE i # Len(file)
    BY <1>1, <1>2, <2>1, <2>2, <2>3, <2>5 DEF AtLine, Fed
  <2> QED BY <2>4, <2>5
<1>7. CASE T!AddLow
  <2>1. at = "low" /\ at' = "high" /\ fds' = T!Left(fds, 1) /\ i' = i
    BY <1>7 DEF T!AddLow, T!AddHalf
  <2>2. i = Len(file) + 1 /\ fds >= limit - Len(file) - 1
    BY <2>1 DEF AtLine, Fed
  <2>3. fds' >= fds - 1 /\ fds' \in Nat
    BY <1>1, <1>3, <2>1
  <2> QED BY <1>1, <1>2, <2>1, <2>2, <2>3 DEF AtLine, Fed
<1>8. CASE T!AddHigh
  <2>1. at = "high" /\ at' = "run" /\ fds' = T!Left(fds, 1) /\ i' = i
    BY <1>8 DEF T!AddHigh, T!AddHalf
  <2>2. i = Len(file) + 1 /\ fds >= limit - Len(file) - 2
    BY <2>1 DEF AtLine, Fed
  <2>3. fds' >= fds - 1 /\ fds' \in Nat
    BY <1>1, <1>3, <2>1
  <2> QED BY <1>1, <1>2, <2>1, <2>2, <2>3 DEF AtLine, Fed
<1>9. CASE T!StopTunnel
  <2> DEFINE n == IF file = <<>> THEN fds + 1 ELSE T!Left(fds + 1, 2)
  <2>1. at = "run" /\ T!Open(n) /\ at' = IF i' <= Len(file) THEN "delete" ELSE "done"
    BY <1>9 DEF T!StopTunnel
  <2>2. fds >= limit - Len(file) - 3
    BY <2>1 DEF Fed
  <2>3. n \in Nat /\ n >= fds - 1
    <3>1. fds + 1 \in Nat
      BY <1>1
    <3>2. T!Left(fds + 1, 2) \in Nat /\ T!Left(fds + 1, 2) >= fds + 1 - 2
      BY <1>1 DEF T!Left
    <3>3. CASE file = <<>>
      <4>1. n = fds + 1
        BY <3>3
      <4> HIDE DEF n
      <4> QED BY <1>1, <4>1
    <3>4. CASE file # <<>>
      <4>1. n = T!Left(fds + 1, 2)
        BY <3>4
      <4> HIDE DEF n
      <4> QED BY <1>1, <3>2, <4>1
    <3> QED BY <3>3, <3>4
  <2> HIDE DEF n
  <2>4. \/ i' = 1 /\ Len(file) >= 1 /\ fds' = n - 1
        \/ i' = Len(file) + 1
    BY <1>1, <2>1, <2>3 DEF T!Open
  <2>5. CASE i' = 1 /\ Len(file) >= 1 /\ fds' = n - 1
    <3>1. at' = "delete"
      BY <1>1, <2>1, <2>5
    <3>2. fds' >= limit - Len(file) - i' - 4
      BY <1>1, <2>2, <2>3, <2>5
    <3> QED BY <1>1, <1>2, <2>5, <3>1, <3>2 DEF AtLine, Fed
  <2>6. CASE i' = Len(file) + 1
    <3>1. at' = "done"
      BY <1>1, <2>1, <2>6
    <3> QED BY <1>1, <1>2, <2>6, <3>1 DEF AtLine, Fed
  <2> QED BY <2>4, <2>5, <2>6
<1>10. CASE T!DeleteLine
  <2>1. /\ at = "delete" /\ fds' = T!Left(fds, 1) /\ i' = i + 1
        /\ at' = IF i = Len(file) THEN "done" ELSE at
    BY <1>10 DEF T!DeleteLine
  <2>2. i <= Len(file) /\ fds >= limit - Len(file) - i - 4
    BY <2>1 DEF AtLine, Fed
  <2>3. fds' >= fds - 1 /\ fds' \in Nat
    BY <1>1, <1>3, <2>1
  <2>4. CASE i = Len(file)
    BY <1>1, <1>2, <2>1, <2>2, <2>3, <2>4 DEF AtLine, Fed
  <2>5. CASE i # Len(file)
    BY <1>1, <1>2, <2>1, <2>2, <2>3, <2>5 DEF AtLine, Fed
  <2> QED BY <2>4, <2>5
<1>11. CASE UNCHANGED tableVars
  BY <1>11 DEF AtLine, Fed, Enough, tableVars
<1> QED BY <1>4, <1>5, <1>6, <1>7, <1>8, <1>9, <1>10, <1>11 DEF T!Next

\* A call that finds a descriptor and is not refused does what it is for, and in
\* any case nothing else.
LEMMA AddingProp ==
    ASSUME TableType, NEW x \in Route, T!Call(T!Added(table, x))
    PROVE  /\ Routes(table) \subseteq Routes(table')
           /\ Routes(table') \subseteq Routes(table) \union {x}
           /\ Aligned(x) \/ Routes(table') = Routes(table)
           /\ refused' = 0 => refused = 0
           /\ refused' = 0 /\ fds > 0 /\ Aligned(x) => x \in Routes(table')
<1> DEFINE t == T!Added(table, x)
<1>1. table \in Tables /\ refused \in Nat /\ fds \in Nat
  BY DEF TableType
<1>2. Routes(t) = IF Aligned(x) THEN Routes(table) \union {x} ELSE Routes(table)
  BY <1>1, AddedProp
<1> HIDE DEF t
<1>3. T!Call(t)
  BY DEF t
<1>4. /\ table' = t \/ table' = table
      /\ refused' = 0 => refused = 0
      /\ refused' = 0 /\ fds > 0 => table' = t
  BY <1>1, <1>3 DEF T!Call, T!Refuse
<1> QED BY <1>2, <1>4

LEMMA DeletingProp ==
    ASSUME TableType, NEW x, T!Call(T!Deleted(table, x))
    PROVE  /\ Routes(table') \subseteq Routes(table)
           /\ Routes(table) \subseteq Routes(table') \union {x}
           /\ refused' = 0 => refused = 0
           /\ refused' = 0 /\ fds > 0 => x \notin Routes(table')
<1> DEFINE t == T!Deleted(table, x)
<1>1. table \in Tables /\ refused \in Nat /\ fds \in Nat
  BY DEF TableType
<1>2. Routes(t) = Routes(table) \ {x}
  BY <1>1, DeletedProp
<1> HIDE DEF t
<1>3. T!Call(t)
  BY DEF t
<1>4. /\ table' = t \/ table' = table
      /\ refused' = 0 => refused = 0
      /\ refused' = 0 /\ fds > 0 => table' = t
  BY <1>1, <1>3 DEF T!Call, T!Refuse
<1> QED BY <1>2, <1>4

LEMMA PresentStep ==
    ASSUME TableInv, [T!Next]_tableVars
    PROVE  Present'
<1>0. OwnRoutes /\ TableType /\ AtLine /\ Fed /\ Present
  BY DEF TableInv
<1>1. /\ Len(file) \in Nat /\ server \in T!Addr /\ table \in Tables /\ i \in Nat /\ i >= 1
      /\ fds \in Nat /\ limit \in Nat /\ refused \in Nat
  BY <1>0 DEF TableType
<1>2. /\ file' = file /\ limit' = limit
      /\ Routes(own)' = Routes(own) /\ Routes(table)' = Routes(table') /\ T!ServerRow' = T!ServerRow
      /\ Accepted(Len(file))' = Accepted(Len(file))
  BY <1>0, TableFrame
<1>3. T!ServerRow \in Route /\ Aligned(T!ServerRow)
  BY <1>0, <1>1, ServerRowProp
<1>4. \A x \in Routes(own) : x.via # "tunnel" /\ (x.len = 0 \/ x.via = "lan")
  BY <1>0, DefaultIsRoute DEF OwnRoutes
<1>a. Enough => Some
  BY <1>1 DEF Enough, Some
<1>b. (Some' => refused' = 0 /\ limit >= 2) /\ (Enough' => refused' = 0 /\ limit >= Len(file) + 3)
  BY <1>2 DEF Some, Enough
<1>c. (refused = 0 /\ limit >= 2 => Some) /\ (refused = 0 /\ limit >= Len(file) + 3 => Enough)
  BY DEF Some, Enough
<1>5. CASE T!OpenFile
  BY <1>0, <1>2, <1>5 DEF Present, T!OpenFile
<1>6. CASE T!AddServer
  <2>1. /\ at = "server" /\ T!Call(T!Added(table, T!ServerRow)) /\ i' = i
        /\ at' = IF i <= Len(file) THEN "add" ELSE "low"
    BY <1>6 DEF T!AddServer
  <2>2. /\ Routes(table) \subseteq Routes(table')
        /\ refused' = 0 => refused = 0
        /\ refused' = 0 /\ fds > 0 => T!ServerRow \in Routes(table')
    BY <1>0, <1>3, <2>1, AddingProp
  <2>3. Some' => T!ServerRow \in Routes(table')
    <3>1. fds >= limit - 1
      BY <1>0, <1>1, <2>1 DEF Fed
    <3>2. limit >= 2 => fds > 0
      BY <1>1, <3>1
    <3> QED BY <1>b, <2>2, <3>2
  <2>4. Enough' => i = 1
    BY <1>0, <1>b, <1>c, <2>1, <2>2 DEF AtLine
  <2>5. Enough' /\ at' = "add" => Accepted(i - 1)' = {}
    <3> SUFFICES ASSUME Enough' PROVE Accepted(i - 1)' = {}
      OBVIOUS
    <3>1. i' - 1 = 0
      BY <2>1, <2>4
    <3> QED BY <3>1 DEF Accepted, LineRows
  <2>6. Enough' /\ at' = "low" => Accepted(Len(file)) = {}
    <3> SUFFICES ASSUME Enough', at' = "low" PROVE Accepted(Len(file)) = {}
      OBVIOUS
    <3>1. Len(file) = 0
      BY <1>1, <2>1, <2>4
    <3> QED BY <3>1 DEF Accepted, LineRows
  <2>7. at' \in {"add", "low"}
    BY <2>1
  <2>8. Routes(own) \subseteq Routes(table')
    BY <1>0, <2>2 DEF Present
  <2> QED BY <1>2, <2>3, <2>5, <2>6, <2>7, <2>8 DEF Present
<1>7. CASE T!AddLine
  <2> DEFINE x == T!Parsed(file[i])
  <2>1. /\ at = "add" /\ T!Call(T!Added(table, x)) /\ i' = i + 1
        /\ at' = IF i = Len(file) THEN "low" ELSE at
    BY <1>7 DEF T!AddLine
  <2>2. i <= Len(file)
    BY <1>0, <2>1 DEF AtLine
  <2>3. /\ x \in Route
        /\ LineRows(i) = LineRows(i - 1) \union (IF file[i] = T!Blank THEN {} ELSE {x})
    BY <1>0, <2>2, NextLine
  <2> HIDE DEF x
  <2>4. /\ Routes(table) \subseteq Routes(table')
        /\ refused' = 0 => refused = 0
        /\ refused' = 0 /\ fds > 0 /\ Aligned(x) => x \in Routes(table')
    BY <1>0, <2>1, <2>3, AddingProp
  <2>5. Enough' => Accepted(i) \subseteq Routes(table')
    <3>1. fds >= limit - i - 1
      BY <1>0, <2>1 DEF Fed
    <3>2. limit >= Len(file) + 3 => fds > 0
      BY <1>1, <2>2, <3>1
    <3>3. Enough' => Accepted(i - 1) \subseteq Routes(table)
      BY <1>0, <1>b, <1>c, <2>1, <2>4 DEF Present
    <3>4. Accepted(i) \subseteq Accepted(i - 1) \union {x_1 \in {x} : Aligned(x_1)}
      BY <2>3 DEF Accepted
    <3> QED BY <1>b, <2>4, <3>2, <3>3, <3>4
  <2>6. Accepted(i - 1)' = Accepted(i)
    <3>1. i' - 1 = i
      BY <1>1, <2>1
    <3> QED BY <1>2, <3>1 DEF Accepted, LineRows
  <2>7. Some' => T!ServerRow \in Routes(table')
    BY <1>0, <1>b, <1>c, <2>1, <2>4 DEF Present
  <2>8. Routes(own) \subseteq Routes(table')
    BY <1>0, <2>4 DEF Present
  <2>9. at' = "add" \/ (at' = "low" /\ i = Len(file))
    BY <2>1
  <2> QED BY <1>2, <2>5, <2>6, <2>7, <2>8, <2>9 DEF Present
<1>8. CASE T!AddLow
  <2> DEFINE x == T!Row(0, 1, "tunnel")
  <2>1. at = "low" /\ at' = "high" /\ T!Call(T!Added(table, x))
    BY <1>8 DEF T!AddLow, T!AddHalf
  <2>2. x \in Route /\ Aligned(x) /\ x' = x
    BY HalvesProp DEF T!Row, Route, Aligned
  <2>d. x = T!Row(0, 1, "tunnel")
    OBVIOUS
  <2> HIDE DEF x
  <2>3. /\ Routes(table) \subseteq Routes(table')
        /\ refused' = 0 => refused = 0
        /\ refused' = 0 /\ fds > 0 => x \in Routes(table')
    BY <1>0, <2>1, <2>2, AddingProp
  <2>4. limit >= Len(file) + 3 => fds > 0
    <3>1. fds >= limit - Len(file) - 1
      BY <1>0, <2>1 DEF Fed
    <3> QED BY <1>1, <3>1
  <2>5. /\ Enough' => x \in Routes(table') /\ Accepted(Len(file)) \subseteq Routes(table')
        /\ Some' => T!ServerRow \in Routes(table')
        /\ Routes(own) \subseteq Routes(table')
    BY <1>0, <1>b, <1>c, <2>1, <2>3, <2>4 DEF Present
  <2> QED BY <1>2, <2>1, <2>5, <2>d DEF Present, T!Row
<1>9. CASE T!AddHigh
  <2> DEFINE x == T!Row(2^(W - 1), 1, "tunnel")
             z == T!Row(0, 1, "tunnel")
  <2>1. at = "high" /\ at' = "run" /\ T!Call(T!Added(table, x))
    BY <1>9 DEF T!AddHigh, T!AddHalf
  <2>2. x \in Route /\ Aligned(x)
    BY HalvesProp DEF T!Row, Route, Aligned
  <2>d. x = T!Row(2^(W - 1), 1, "tunnel") /\ z = T!Row(0, 1, "tunnel")
    OBVIOUS
  <2>e. T!Row(2^(W - 1), 1, "tunnel")' = x /\ T!Row(0, 1, "tunnel")' = z
    BY DEF T!Row
  <2> HIDE DEF x, z
  <2>3. /\ Routes(table) \subseteq Routes(table')
        /\ refused' = 0 => refused = 0
        /\ refused' = 0 /\ fds > 0 => x \in Routes(table')
    BY <1>0, <2>1, <2>2, AddingProp
  <2>4. limit >= Len(file) + 3 => fds > 0
    <3>1. fds >= limit - Len(file) - 2
      BY <1>0, <2>1 DEF Fed
    <3> QED BY <1>1, <3>1
  <2>5. /\ Enough' => x \in Routes(table') /\ z \in Routes(table') /\ Accepted(Len(file)) \subseteq Routes(table')
        /\ Some' => T!ServerRow \in Routes(table')
        /\ Routes(own) \subseteq Routes(table')
    BY <1>0, <1>b, <1>c, <2>1, <2>3, <2>4, <2>d DEF Present
  <2> QED BY <1>2, <2>1, <2>5, <2>e DEF Present
<1>10. CASE T!StopTunnel
  <2>1. table' = T!Without(table, "tunnel") /\ at' \in {"delete", "done"}
    BY <1>10 DEF T!StopTunnel
  <2>2. Routes(table') = {x \in Routes(table) : x.via # "tunnel"}
    BY <1>1, <2>1, WithoutProp
  <2>3. Routes(own) \subseteq Routes(table')
    BY <1>0, <1>4, <2>2 DEF Present
  <2> QED BY <1>2, <2>1, <2>3 DEF Present
<1>11. CASE T!DeleteLine
  <2> DEFINE x == T!Parsed(file[i])
  <2>1. at = "delete" /\ T!Call(T!Deleted(table, x)) /\ at' \in {"delete", "done"}
    BY <1>11 DEF T!DeleteLine
  <2>2. i <= Len(file)
    BY <1>0, <2>1 DEF AtLine
  <2>3. LineRows(i) \subseteq LineRows(Len(file)) /\ x.via = "gateway"
    BY <1>0, <2>2, NextLine
  <2>4. x = IF file[i] = T!Blank THEN row ELSE LineRow(file[i])
    BY <1>0, <2>2, NextLine
  <2> HIDE DEF x
  <2>5. Routes(table) \subseteq Routes(table') \union {x}
    BY <1>0, <2>1, DeletingProp
  <2>6. x \notin Routes(own)
    <3>1. row.len >= 1
      BY <2>1 DEF TableInv, Allowed
    <3>2. file[i] # T!Blank => LineRow(file[i]).len >= 2
      BY <1>0, <2>2, NextLine, LineRowProp
    <3>3. x.len # 0
      BY <2>4, <3>1, <3>2
    <3> QED BY <1>4, <2>3, <3>3
  <2> QED BY <1>0, <1>2, <2>1, <2>5, <2>6 DEF Present
<1>12. CASE UNCHANGED tableVars
  BY <1>0, <1>12 DEF Present, Some, Enough, Accepted, LineRows, tableVars, T!ServerRow
<1> QED BY <1>5, <1>6, <1>7, <1>8, <1>9, <1>10, <1>11, <1>12 DEF T!Next

LEMMA AllowedStep ==
    ASSUME TableInv, [T!Next]_tableVars
    PROVE  Allowed'
<1> DEFINE all == Routes(own) \union {T!ServerRow} \union Accepted(Len(file)) \union HalfRows
<1>0. OwnRoutes /\ TableType /\ AtLine /\ Fed /\ Allowed
  BY DEF TableInv
<1>1. /\ Len(file) \in Nat /\ server \in T!Addr /\ table \in Tables /\ i \in Nat /\ i >= 1
      /\ fds \in Nat /\ limit \in Nat /\ refused \in Nat
  BY <1>0 DEF TableType
<1>2. /\ file' = file /\ limit' = limit
      /\ Routes(own)' = Routes(own) /\ Routes(table)' = Routes(table') /\ T!ServerRow' = T!ServerRow
      /\ Accepted(Len(file))' = Accepted(Len(file)) /\ HalfRows' = HalfRows
      /\ LineRows(Len(file))' = LineRows(Len(file)) /\ all' = all
  BY <1>0, TableFrame
<1>3. T!ServerRow \in Route /\ T!ServerRow.via = "gateway"
  BY <1>0, <1>1, ServerRowProp
<1>b. /\ Plenty' => refused' = 0 /\ limit >= 2 * Len(file) + 5
      /\ refused = 0 /\ limit >= 2 * Len(file) + 5 => Plenty
  BY <1>2 DEF Plenty
<1>4. Routes(table) \subseteq all
  BY <1>0 DEF Allowed
<1> HIDE DEF all
<1>5. CASE T!OpenFile
  BY <1>0, <1>2, <1>5 DEF Allowed, T!OpenFile
<1>6. CASE T!AddServer
  <2>1. /\ at = "server" /\ T!Call(T!Added(table, T!ServerRow)) /\ row' = T!ServerRow
        /\ at' \in {"add", "low"}
    BY <1>6 DEF T!AddServer
  <2>2. Routes(table') \subseteq Routes(table) \union {T!ServerRow}
    BY <1>0, <1>3, <2>1, AddingProp
  <2>3. Routes(table') \subseteq all
    BY <1>4, <2>2 DEF all
  <2>4. \A x \in Routes(table') : x.via # "tunnel"
    BY <1>0, <1>3, <2>1, <2>2 DEF Allowed
  <2> QED BY <1>2, <2>1, <2>3, <2>4 DEF Allowed, all
<1>7. CASE T!AddLine
  <2> DEFINE x == T!Parsed(file[i])
  <2>1. /\ at = "add" /\ T!Call(T!Added(table, x)) /\ row' = x /\ at' \in {"add", "low"}
    BY <1>7 DEF T!AddLine
  <2>2. i <= Len(file)
    BY <1>0, <2>1 DEF AtLine
  <2>3. /\ x \in Route /\ x.via = "gateway" /\ (file[i] = T!Blank => x = row)
        /\ LineRows(i) = LineRows(i - 1) \union (IF file[i] = T!Blank THEN {} ELSE {x})
        /\ LineRows(i) \subseteq LineRows(Len(file))
    BY <1>0, <2>2, NextLine
  <2> HIDE DEF x
  <2>4. x \in {T!ServerRow} \union LineRows(Len(file))
    BY <1>0, <2>1, <2>3 DEF Allowed
  <2>5. /\ Routes(table') \subseteq Routes(table) \union {x}
        /\ Aligned(x) \/ Routes(table') = Routes(table)
    BY <1>0, <2>1, <2>3, AddingProp
  <2>6. Routes(table') \subseteq all
    BY <1>4, <2>4, <2>5 DEF all, Accepted
  <2>7. \A y \in Routes(table') : y.via # "tunnel"
    BY <1>0, <2>1, <2>3, <2>5 DEF Allowed
  <2> QED BY <1>2, <2>1, <2>4, <2>6, <2>7 DEF Allowed, all
<1>8. ASSUME NEW x \in HalfRows, T!Call(T!Added(table, x)), at' \in {"high", "run"} PROVE Allowed'
  <2>1. x \in Route
    BY HalvesProp DEF HalfRows, T!Row, Route
  <2>2. Routes(table') \subseteq Routes(table) \union {x}
    BY <1>0, <1>8, <2>1, AddingProp
  <2>3. Routes(table') \subseteq all
    BY <1>4, <2>2 DEF all
  <2> QED BY <1>2, <1>8, <2>3 DEF Allowed, all
<1>9. CASE T!AddLow \/ T!AddHigh
  <2>1. T!Row(0, 1, "tunnel") \in HalfRows /\ T!Row(2^(W - 1), 1, "tunnel") \in HalfRows
    BY DEF HalfRows
  <2>2. /\ at' \in {"high", "run"}
        /\ \/ T!Call(T!Added(table, T!Row(0, 1, "tunnel")))
           \/ T!Call(T!Added(table, T!Row(2^(W - 1), 1, "tunnel")))
    BY <1>9 DEF T!AddLow, T!AddHigh, T!AddHalf
  <2> QED BY <1>8, <2>1, <2>2
<1>10. CASE T!StopTunnel
  <2> DEFINE n == IF file = <<>> THEN fds + 1 ELSE T!Left(fds + 1, 2)
             x == T!Row(2^(W - 1), 1, row.via)
  <2>1. /\ at = "run" /\ T!Open(n) /\ table' = T!Without(table, "tunnel") /\ row' = x
        /\ at' = IF i' <= Len(file) THEN "delete" ELSE "done"
    BY <1>10 DEF T!StopTunnel
  <2>2. Routes(table') = {y \in Routes(table) : y.via # "tunnel"}
    BY <1>1, <2>1, WithoutProp
  <2>3. row'.len >= 1
    BY <2>1 DEF T!Row
  <2>4. Plenty' => i' = 1
    <3> SUFFICES ASSUME Plenty' PROVE i' = 1
      OBVIOUS
    <3>1. refused' = 0 /\ limit >= 2 * Len(file) + 5 /\ fds >= limit - Len(file) - 3
      BY <1>0, <1>b, <2>1 DEF Fed
    <3>2. fds >= 2 /\ T!Left(fds + 1, 2) >= 1
      BY <1>1, <3>1 DEF T!Left
    <3>3. n > 0
      <4>1. file = <<>> => n = fds + 1
        OBVIOUS
      <4>2. file # <<>> => n = T!Left(fds + 1, 2)
        OBVIOUS
      <4>3. T!Left(fds + 1, 2) \in Nat
        BY <1>1 DEF T!Left
      <4> HIDE DEF n
      <4> QED BY <1>1, <3>2, <4>1, <4>2, <4>3
    <3>4. file = <<>> => Len(file) = 0
      OBVIOUS
    <3> HIDE DEF n
    <3>5. file = <<>> \/ i' = 1
      BY <1>1, <2>1, <3>1, <3>3 DEF T!Open, T!Refuse
    <3>6. file = <<>> => i' = 1
      BY <2>1, <3>3, <3>4 DEF T!Open
    <3> QED BY <3>5, <3>6
  <2>5. Plenty' => LineRows(i - 1)' = {}
    <3> SUFFICES ASSUME Plenty' PROVE LineRows(i - 1)' = {}
      OBVIOUS
    <3>1. i' - 1 = 0
      BY <2>4
    <3> QED BY <3>1 DEF LineRows
  <2>6. at' \in {"delete", "done"}
    BY <2>1
  <2>7. Routes(table') \subseteq all /\ \A y \in Routes(table') : y.via # "tunnel"
    BY <1>4, <2>2
  <2> QED BY <1>2, <2>3, <2>5, <2>6, <2>7 DEF Allowed, all
<1>11. CASE T!DeleteLine
  <2> DEFINE x == T!Parsed(file[i])
  <2>1. /\ at = "delete" /\ T!Call(T!Deleted(table, x)) /\ row' = x /\ i' = i + 1
        /\ at' \in {"delete", "done"}
    BY <1>11 DEF T!DeleteLine
  <2>2. i <= Len(file)
    BY <1>0, <2>1 DEF AtLine
  <2>3. /\ LineRows(i) = LineRows(i - 1) \union (IF file[i] = T!Blank THEN {} ELSE {x})
        /\ x = IF file[i] = T!Blank THEN row ELSE LineRow(file[i])
    BY <1>0, <2>2, NextLine
  <2> HIDE DEF x
  <2>4. x.len >= 1
    <3>1. row.len >= 1
      BY <1>0, <2>1 DEF Allowed
    <3>2. file[i] # T!Blank => LineRow(file[i]) \in Route /\ LineRow(file[i]).len >= 2
      BY <1>0, <2>2, NextLine, LineRowProp
    <3>3. file[i] # T!Blank => LineRow(file[i]).len >= 1
      BY <3>2, LengthAssumption DEF Route
    <3> QED BY <2>3, <3>1, <3>3
  <2>5. /\ Routes(table') \subseteq Routes(table)
        /\ refused' = 0 => refused = 0
        /\ refused' = 0 /\ fds > 0 => x \notin Routes(table')
    BY <1>0, <2>1, DeletingProp
  <2>6. limit >= 2 * Len(file) + 5 => fds > 0
    <3>1. fds >= limit - Len(file) - i - 4
      BY <1>0, <2>1 DEF Fed
    <3> QED BY <1>1, <2>2, <3>1
  <2>7. Plenty' => \A y \in Routes(table') : y \notin LineRows(i)
    <3> SUFFICES ASSUME Plenty' PROVE \A y \in Routes(table') : y \notin LineRows(i)
      OBVIOUS
    <3>1. Plenty /\ x \notin Routes(table')
      BY <1>b, <2>5, <2>6
    <3>2. \A y \in Routes(table) : y \notin LineRows(i - 1)
      BY <1>0, <2>1, <3>1 DEF Allowed
    <3> QED BY <2>3, <2>5, <3>1, <3>2
  <2>8. LineRows(i - 1)' = LineRows(i)
    <3>1. i' - 1 = i
      BY <1>1, <2>1
    <3> QED BY <1>2, <3>1 DEF LineRows
  <2>9. Routes(table') \subseteq all /\ \A y \in Routes(table') : y.via # "tunnel"
    BY <1>0, <1>4, <2>1, <2>5 DEF Allowed
  <2> QED BY <1>2, <2>1, <2>4, <2>7, <2>8, <2>9 DEF Allowed, all
<1>12. CASE UNCHANGED tableVars
  <2>1. table' = table /\ row' = row /\ i' = i /\ at' = at /\ refused' = refused /\ file' = file
    BY <1>12 DEF tableVars
  <2>2. LineRows(i - 1)' = LineRows(i - 1) /\ (Plenty' <=> Plenty)
    BY <1>2, <2>1 DEF LineRows, Plenty
  <2> QED BY <1>0, <1>2, <2>1, <2>2 DEF Allowed
<1> QED BY <1>5, <1>6, <1>7, <1>9, <1>10, <1>11, <1>12 DEF T!Next

LEMMA TableStep == TableInv /\ [T!Next]_tableVars => TableInv'
<1> SUFFICES ASSUME TableInv, [T!Next]_tableVars PROVE TableInv'
  OBVIOUS
<1>1. OwnRoutes /\ TableType /\ AtLine /\ Fed
  BY DEF TableInv
<1>2. OwnRoutes'
  BY <1>1, TableFrame
<1>3. TableType' /\ AtLine' /\ Fed'
  BY <1>1, TypeStep, AtLineStep
<1>4. Present' /\ Allowed'
  BY PresentStep, AllowedStep
<1> QED BY <1>2, <1>3, <1>4 DEF TableInv

LEMMA TableAlways == T!Spec => []TableInv
<1>1. TableInv /\ [T!Next]_(T!vars) => TableInv'
  BY TableStep DEF T!vars, tableVars
<1> QED BY TableInit, <1>1, PTL DEF T!Spec

\* A packet meets the default route, and one half of the address space.
LEMMA AlwaysMatched ==
    ASSUME NEW a \in T!Addr
    PROVE  T!Matches(a, Default) /\ \E x \in HalfRows : T!Matches(a, x) /\ x.len = 1
<1>1. W \in Nat /\ 0 \in 0..W
  BY LengthAssumption
<1>2. T!Masked(a, 0) = 0
  BY <1>1, MaskedProp
<1>3. T!Masked(a, 1) \in {0, 2^(W - 1)}
  BY HalvesProp
<1> QED BY <1>2, <1>3 DEF T!Matches, Default, HalfRows, T!Row

\* Where the user's own table sends a packet: along the default route if no longer one matches.
LEMMA OwnVia ==
    ASSUME OwnRoutes, NEW a \in T!Addr
    PROVE  \/ T!Via(own, a) = "gateway" /\ \A x \in Routes(own) : T!Matches(a, x) => x = Default
           \/ T!Via(own, a) = "lan" /\ \E x \in Routes(own) : T!Matches(a, x) /\ x.len >= 2
<1>1. /\ own \in Seq(Route) /\ Default \in Routes(own)
      /\ \A x \in Routes(own) : x = Default \/ (x.via = "lan" /\ x.len >= 2)
  BY DEF OwnRoutes, Tables
<1>2. T!Matches(a, Default)
  BY AlwaysMatched
<1>3. PICK b \in Routes(own) :
         /\ T!Matches(a, b) /\ T!Via(own, a) = b.via
         /\ \A y \in Routes(own) : T!Matches(a, y) => y.len <= b.len
  BY <1>1, <1>2, ViaProp
<1>4. CASE b = Default
  <2>1. \A x \in Routes(own) : T!Matches(a, x) => x.len = 0
    BY <1>1, <1>3, <1>4, DefaultIsRoute, RoutesType
  <2> QED BY <1>1, <1>3, <1>4, <2>1, DefaultIsRoute
<1>5. CASE b # Default
  BY <1>1, <1>3, <1>5
<1> QED BY <1>4, <1>5

LEMMA FileRowsProp ==
    ASSUME TableType
    PROVE  T!FileRows = LineRows(Len(file))
<1>1. file \in Seq(T!Line) /\ DOMAIN file = 1..Len(file) /\ row.via = "gateway"
  BY DEF TableType
<1>2. T!ToSet(file) = {file[j] : j \in DOMAIN file}
  BY DEF T!ToSet
<1>3. \A x \in T!ToSet(file) : x \in T!Line /\ (x # T!Blank => LineRow(x) \in Route)
  BY <1>1, <1>2, LineRowProp
<1>4. T!FileRows = {LineRow(x) : x \in T!ToSet(file) \ {T!Blank}}
  BY <1>1 DEF T!FileRows, LineRow
<1>5. ASSUME NEW y \in T!FileRows PROVE y \in LineRows(Len(file))
  BY <1>1, <1>2, <1>3, <1>4 DEF LineRows
<1>6. ASSUME NEW y \in LineRows(Len(file)) PROVE y \in T!FileRows
  <2>1. PICK j \in 1..Len(file) : file[j] # T!Blank /\ y = LineRow(file[j])
    BY DEF LineRows
  <2>2. file[j] \in T!ToSet(file) \ {T!Blank}
    BY <1>1, <1>2, <2>1
  <2> QED BY <1>4, <2>1, <2>2
<1> QED BY <1>5, <1>6

\* A packet is listed if a row that the kernel has taken from the file matches.
LEMMA ListedProp ==
    ASSUME TableType, NEW a \in T!Addr
    PROVE  T!Listed(a) <=> \E x \in Accepted(Len(file)) : T!Matches(a, x)
<1>1. T!Listed(a) <=> \E x \in LineRows(Len(file)) : T!Matches(a, x)
  BY FileRowsProp DEF T!Listed
<1>2. ASSUME NEW x \in LineRows(Len(file)), T!Matches(a, x) PROVE Aligned(x)
  <2>1. x.len \in 0..W /\ T!Masked(a, x.len) = x.dst
    BY <1>2 DEF LineRows, Route, T!Matches
  <2> QED BY <2>1, MaskedProp DEF Aligned
<1> QED BY <1>1, <1>2 DEF Accepted

\* Where the packets for a go.
SplitAt(a) ==
    /\ T!Via(own, a) # "gateway" => T!Via(table, a) # "tunnel"
    /\ Some /\ a = server => T!Via(table, a) # "tunnel"
    /\ Enough /\ T!Via(own, a) = "gateway" =>
        T!Via(table, a) = (IF a = server \/ T!Listed(a) THEN "gateway" ELSE "tunnel")

LEMMA SplitAtEach ==
    ASSUME TableInv, at = "run", NEW a \in T!Addr
    PROVE  SplitAt(a)
<1>0. OwnRoutes /\ TableType /\ Present /\ Allowed
  BY DEF TableInv
<1>1. /\ Default \in Routes(own)
      /\ \A x \in Routes(own) : x = Default \/ (x.via = "lan" /\ x.len >= 2)
  BY <1>0 DEF OwnRoutes
<1>2. table \in Seq(Route) /\ server \in T!Addr /\ Len(file) \in Nat
  BY <1>0 DEF TableType, Tables
<1>3. /\ Routes(table) \subseteq Routes(own) \union {T!ServerRow} \union Accepted(Len(file)) \union HalfRows
      /\ Routes(own) \subseteq Routes(table)
      /\ Some => T!ServerRow \in Routes(table)
      /\ Enough => Accepted(Len(file)) \subseteq Routes(table) /\ HalfRows \subseteq Routes(table)
  BY <1>0 DEF Present, Allowed, HalfRows
<1>b. Enough => Some
  BY <1>2, <1>0 DEF Enough, Some, TableType
<1>4. /\ T!ServerRow.via = "gateway" /\ T!ServerRow.len >= 2
      /\ T!Matches(a, T!ServerRow) <=> a = server
  BY <1>0, <1>2, ServerRowProp, LengthAssumption
<1>5. \A x \in Accepted(Len(file)) : x.via = "gateway" /\ x.len >= 2
  BY <1>0, <1>2, LineRowsProp DEF Accepted
<1>6. \A x \in HalfRows : x.via = "tunnel" /\ x.len = 1
  BY DEF HalfRows, T!Row
<1>7. PICK c \in Routes(table) :
         /\ T!Matches(a, c) /\ T!Via(table, a) = c.via
         /\ \A y \in Routes(table) : T!Matches(a, y) => y.len <= c.len
  <2>1. T!Matches(a, Default) /\ Default \in Routes(table)
    BY <1>1, <1>3, AlwaysMatched
  <2> QED BY <1>2, <2>1, ViaProp
<1>8. Default.len = 0 /\ Default.via = "gateway"
  BY DefaultIsRoute
<1>a. c.len \in Int /\ \A x \in Routes(table) : x.len \in Int
  BY <1>2, RoutesType
<1>9. ASSUME NEW x \in Routes(table), T!Matches(a, x), x.len >= 2 PROVE c.len >= 2 /\ c.via # "tunnel"
  <2>1. c.len >= 2
    BY <1>7, <1>9, <1>a
  <2> QED BY <1>1, <1>3, <1>4, <1>5, <1>6, <1>8, <2>1
<1>10. T!Via(own, a) # "gateway" => T!Via(table, a) # "tunnel"
  <2> SUFFICES ASSUME T!Via(own, a) # "gateway" PROVE T!Via(table, a) # "tunnel"
    OBVIOUS
  <2>1. PICK x \in Routes(own) : T!Matches(a, x) /\ x.len >= 2
    BY <1>0, OwnVia
  <2> QED BY <1>3, <1>7, <1>9, <2>1
<1>11. Some /\ a = server => T!Via(table, a) # "tunnel"
  BY <1>3, <1>4, <1>7, <1>9
<1>12. ASSUME Enough, T!Via(own, a) = "gateway"
       PROVE  T!Via(table, a) = (IF a = server \/ T!Listed(a) THEN "gateway" ELSE "tunnel")
  <2>1. \A x \in Routes(own) : T!Matches(a, x) => x = Default
    BY <1>0, <1>12, OwnVia
  <2>2. c.len >= 1
    <3>1. PICK x \in HalfRows : T!Matches(a, x) /\ x.len = 1
      BY AlwaysMatched
    <3> QED BY <1>3, <1>7, <1>12, <3>1
  <2>3. c \in {T!ServerRow} \union Accepted(Len(file)) \union HalfRows
    BY <1>3, <1>7, <1>8, <2>1, <2>2
  <2>4. CASE a = server \/ T!Listed(a)
    <3>1. \E x \in {T!ServerRow} \union Accepted(Len(file)) : T!Matches(a, x) /\ x.len >= 2
      BY <1>0, <1>4, <1>5, <2>4, ListedProp
    <3>2. c.len >= 2
      BY <1>3, <1>9, <1>12, <1>b, <3>1
    <3>3. c.via = "gateway"
      BY <1>4, <1>5, <1>6, <2>3, <3>2
    <3> QED BY <1>7, <2>4, <3>3
  <2>5. CASE ~(a = server \/ T!Listed(a))
    <3>1. c \in HalfRows
      BY <1>0, <1>4, <1>7, <2>3, <2>5, ListedProp
    <3> QED BY <1>6, <1>7, <2>5, <3>1
  <2> QED BY <2>4, <2>5
<1> QED BY <1>10, <1>11, <1>12 DEF SplitAt

LEMMA SplitFollows == TableInv => SplitAsMeant
<1> SUFFICES ASSUME TableInv, at = "run" PROVE SplitAsMeant
  BY DEF SplitAsMeant, T!SplitAsMeant
<1>1. server \in T!Addr
  BY DEF TableInv, TableType
<1>2. \A a \in T!Addr : SplitAt(a)
  BY SplitAtEach
<1>3. \A a \in T!Addr : T!Via(own, a) # "gateway" => T!Via(table, a) # "tunnel"
  BY <1>2 DEF SplitAt
<1>4. refused = 0 /\ limit >= 2 => T!Via(table, server) # "tunnel"
  BY <1>1, <1>2 DEF SplitAt, Some
<1>5. refused = 0 /\ limit >= Len(file) + 3 =>
          \A a \in T!Addr : T!Via(own, a) = "gateway" =>
              T!Via(table, a) = IF a = server \/ T!Listed(a) THEN "gateway" ELSE "tunnel"
  BY <1>2 DEF SplitAt, Enough
<1> QED BY <1>3, <1>4, <1>5, Zenon DEF SplitAsMeant, T!SplitAsMeant

LEMMA RestoredFollows == TableInv => RestoredAfterStop
<1> SUFFICES ASSUME TableInv, at = "done" PROVE RestoredAfterStop
  BY DEF RestoredAfterStop, T!RestoredAfterStop
<1>0. OwnRoutes /\ TableType /\ AtLine /\ Present /\ Allowed
  BY DEF TableInv
<1>1. /\ own \in Seq(Route) /\ Default \in Routes(own)
      /\ \A x \in Routes(own) : x = Default \/ (x.via = "lan" /\ x.len >= 2)
  BY <1>0 DEF OwnRoutes, Tables
<1>2. table \in Seq(Route) /\ server \in T!Addr /\ Len(file) \in Nat
  BY <1>0 DEF TableType, Tables
<1>3. /\ Routes(own) \subseteq Routes(table)
      /\ Routes(table) \subseteq Routes(own) \union {T!ServerRow} \union LineRows(Len(file))
  <2>1. \A x \in HalfRows : x.via = "tunnel"
    BY DEF HalfRows, T!Row
  <2> QED BY <1>0, <2>1 DEF Present, Allowed, Accepted
<1>4. ASSUME Plenty PROVE Routes(table) \subseteq Routes(own) \union {T!ServerRow}
  <2>1. i - 1 = Len(file)
    BY <1>0, <1>2 DEF AtLine
  <2>2. \A x \in Routes(table) : x \notin LineRows(Len(file))
    BY <1>0, <1>4, <2>1 DEF Allowed
  <2> QED BY <1>3, <2>2
<1>5. ASSUME Plenty, NEW a \in T!Addr \ {server} PROVE T!Via(table, a) = T!Via(own, a)
  <2>1. T!Matches(a, Default) /\ Default \in Routes(table)
    BY <1>1, <1>3, AlwaysMatched
  <2>2. PICK b \in Routes(own) :
           /\ T!Matches(a, b) /\ T!Via(own, a) = b.via
           /\ \A y \in Routes(own) : T!Matches(a, y) => y.len <= b.len
    BY <1>1, <2>1, ViaProp
  <2>3. PICK c \in Routes(table) :
           /\ T!Matches(a, c) /\ T!Via(table, a) = c.via
           /\ \A y \in Routes(table) : T!Matches(a, y) => y.len <= c.len
    BY <1>2, <2>1, ViaProp
  <2>4. ~T!Matches(a, T!ServerRow)
    BY <1>0, <1>2, ServerRowProp
  <2>5. c \in Routes(own)
    BY <1>4, <1>5, <2>3, <2>4
  <2>6. b.len <= c.len /\ c.len <= b.len
    BY <1>3, <2>2, <2>3, <2>5
  <2>7. b.len \in Int /\ c.len \in Int
    BY <1>1, <2>5, RoutesType
  <2>8. b = Default <=> c = Default
    BY <1>1, <2>5, <2>6, <2>7, DefaultIsRoute
  <2>9. b.via = c.via
    BY <1>1, <2>5, <2>8
  <2> QED BY <2>2, <2>3, <2>9
<1>6. T!ToSet(table) = Routes(table) /\ T!ToSet(own) = Routes(own)
  BY DEF T!ToSet, Routes
<1>7. T!FileRows = LineRows(Len(file))
  BY <1>0, FileRowsProp
<1>8. refused = 0 /\ limit >= 2 * Len(file) + 5 => Plenty
  BY DEF Plenty
<1> QED BY <1>3, <1>4, <1>5, <1>6, <1>7, <1>8 DEF RestoredAfterStop, T!RestoredAfterStop

\* set_chnroute and set_default_as_tunnel: while the client runs, what a route of
\* the user's own takes stays outside the tunnel, whatever has failed; if the
\* kernel refuses nothing, the packets to the server do from two descriptors on,
\* and from one for each line and three more on exactly the packets to the server
\* and to a net of the file that went through the gateway before still do.
THEOREM SplitIsAsMeant == T!Spec => []SplitAsMeant
<1> QED BY TableAlways, SplitFollows, PTL

\* StopTunnel and delete_chnroute: when the client has stopped, the user's own
\* routes are there and none leads into the tunnel, whatever has failed; if the
\* kernel refuses nothing and there were two descriptors for each line and five
\* more, packets go where they went before it started, but for the server's.
THEOREM TableIsRestored == T!Spec => []RestoredAfterStop
<1> QED BY TableAlways, RestoredFollows, PTL
-----------------------------------------------------------------------------
(***************************************************************************)
(* DnsMessage                                                               *)
(***************************************************************************)

\* f begins with s, and F says what follows f[n].
Follows(f, s, F) == f[0] = s /\ \A n \in Nat : f[n + 1] = F[<<n, f[n]>>]

\* A sequence is given by its first element and by what follows each.
LEMMA Recursion ==
    ASSUME NEW D, NEW s \in D, NEW F \in [Nat \X D -> D]
    PROVE  \E f \in [Nat -> D] : Follows(f, s, F)
<1> DEFINE Up(c) == {g \in [0..c -> D] : g[0] = s /\ \A n \in 0..(c - 1) : g[n + 1] = F[<<n, g[n]>>]}
<1>2. ASSUME NEW c \in Nat PROVE Up(c) # {}
  <2> DEFINE Bad == {n \in Nat : Up(n) = {}}
  <2>1. SUFFICES ASSUME Bad # {} PROVE FALSE
    OBVIOUS
  <2>2. PICK n \in Bad : \A m_1 \in Bad : ~(<<m_1, n>> \in Below)
    <3>1. Bad \subseteq Nat
      OBVIOUS
    <3> HIDE DEF Bad
    <3> QED BY <2>1, <3>1, Least
  <2>3. CASE n = 0
    <3>1. [k \in 0..0 |-> s] \in Up(0)
      OBVIOUS
    <3> QED BY <2>2, <2>3, <3>1
  <2>4. CASE n # 0
    <3>1. n - 1 \in Nat /\ <<n - 1, n>> \in Below
      BY <2>2, <2>4 DEF Below
    <3>2. PICK g : g \in Up(n - 1)
      BY <2>2, <3>1
    <3> DEFINE h == [k \in 0..n |-> IF k = n THEN F[<<n - 1, g[n - 1]>>] ELSE g[k]]
    <3>3. g \in [0..(n - 1) -> D] /\ g[0] = s /\ \A k \in 0..(n - 2) : g[k + 1] = F[<<k, g[k]>>]
      <4>1. n - 1 - 1 = n - 2
        BY <3>1
      <4> QED BY <3>2, <4>1
    <3>4. h \in [0..n -> D] /\ h[0] = s
      BY <2>4, <3>1, <3>3
    <3>5. ASSUME NEW k \in 0..(n - 1) PROVE h[k + 1] = F[<<k, h[k]>>]
      <4>1. k \in 0..n /\ k + 1 \in 0..n /\ k # n
        BY <3>1
      <4>2. CASE k + 1 = n
        <5>1. k = n - 1
          BY <3>1, <4>2
        <5> QED BY <4>1, <4>2, <5>1
      <4>3. CASE k + 1 # n
        <5>1. k \in 0..(n - 2)
          BY <3>1, <4>3
        <5> QED BY <3>3, <4>1, <4>3, <5>1
      <4> QED BY <4>2, <4>3
    <3>6. h \in Up(n)
      <4> HIDE DEF h
      <4> QED BY <3>4, <3>5
    <3> QED BY <2>2, <3>6
  <2> QED BY <2>3, <2>4
<1>3. ASSUME NEW b \in Nat, NEW c \in Nat, NEW g \in Up(b), NEW h \in Up(c), NEW n \in Nat, n <= b, n <= c
      PROVE  g[n] = h[n]
  <2> DEFINE Bad == {k \in 0..n : g[k] # h[k]}
  <2>1. SUFFICES ASSUME Bad # {} PROVE FALSE
    OBVIOUS
  <2>2. PICK k \in Bad : \A m_1 \in Bad : ~(<<m_1, k>> \in Below)
    <3>1. Bad \subseteq Nat
      OBVIOUS
    <3> HIDE DEF Bad
    <3> QED BY <2>1, <3>1, Least
  <2>3. k \in 0..n /\ g[k] # h[k] /\ g[0] = h[0]
    BY <2>2
  <2>4. k - 1 \in 0..n /\ <<k - 1, k>> \in Below
    BY <2>3 DEF Below
  <2>5. g[k - 1] = h[k - 1]
    BY <2>2, <2>4
  <2>6. k - 1 \in 0..(b - 1) /\ k - 1 \in 0..(c - 1) /\ k - 1 + 1 = k
    BY <1>3, <2>3, <2>4
  <2>7. g[k - 1 + 1] = F[<<k - 1, g[k - 1]>>] /\ h[k - 1 + 1] = F[<<k - 1, h[k - 1]>>]
    BY <2>6
  <2> QED BY <2>3, <2>5, <2>6, <2>7
<1> DEFINE up(c) == CHOOSE g \in Up(c) : TRUE
           f == [n \in Nat |-> up(n)[n]]
<1>4. \A c \in Nat : up(c) \in Up(c)
  BY <1>2
<1> HIDE DEF up
<1>5. f \in [Nat -> D]
  BY <1>4
<1>6. f[0] = s
  BY <1>4
<1>7. ASSUME NEW n \in Nat PROVE f[n + 1] = F[<<n, f[n]>>]
  <2>1. n + 1 \in Nat /\ n \in 0..(n + 1 - 1) /\ n <= n + 1 /\ n <= n
    OBVIOUS
  <2>2. up(n + 1) \in Up(n + 1) /\ up(n) \in Up(n)
    BY <1>4, <2>1
  <2>3. up(n + 1)[n + 1] = F[<<n, up(n + 1)[n]>>]
    BY <2>1, <2>2
  <2>4. up(n + 1)[n] = up(n)[n]
    <3> HIDE DEF Up
    <3> QED BY <1>3, <2>1, <2>2
  <2> QED BY <2>1, <2>3, <2>4
<1> HIDE DEF f
<1> QED BY <1>5, <1>6, <1>7 DEF Follows

\* The message: octets after the header.
Octets == msg \in Seq(Nat) /\ \A p \in 4..(Len(msg) - 1) : M!Cell(p) \in 0..255

\* At p is a label, and the place behind it; otherwise the walk stops.
Goes(p) ==
    /\ p < M!Eom /\ M!Cell(p) # 0
    /\ M!Cell(p) < 64 \/ (M!Cell(p) < 128 /\ M!LabelLen(p) # M!Fail)

Jump(p) == p + 1 + (IF M!Cell(p) < 64 THEN M!Cell(p) ELSE M!LabelLen(p))

Stops(p) ==
    IF p >= M!Eom THEN p
    ELSE IF M!Cell(p) = 0 THEN p + 1
    ELSE IF M!Cell(p) < 192 THEN M!Fail ELSE p + 2

LEMMA JumpProp ==
    ASSUME Octets, NEW p \in Nat
    PROVE  /\ M!Eom \in Nat /\ Stops(p) \in Int
           /\ p < M!Eom => M!Cell(p) \in Nat
           /\ Goes(p) => p < M!Eom /\ Jump(p) \in Nat /\ Jump(p) > p
<1>1. M!Eom \in Nat /\ M!Eom = Len(msg) /\ msg \in Seq(Nat)
  BY DEF M!Eom, Octets
<1>2. \A k \in Nat : k < M!Eom => M!Cell(k) \in Nat
  BY <1>1 DEF M!Cell
<1>3. Stops(p) \in Int
  BY <1>2 DEF Stops, M!Fail
<1>4. ASSUME Goes(p) PROVE Jump(p) \in Nat /\ Jump(p) > p
  <2>1. p < M!Eom /\ M!Cell(p) \in Nat
    BY <1>2, <1>4 DEF Goes
  <2>2. CASE M!Cell(p) < 64
    BY <2>1, <2>2 DEF Jump
  <2>3. CASE ~(M!Cell(p) < 64)
    <3>1. M!Cell(p) = M!Bitstring
      BY <1>4, <2>3 DEF Goes, M!LabelLen
    <3>2. p + 1 < M!Eom => M!Cell(p + 1) \in Nat
      BY <1>2
    <3>3. M!LabelLen(p) \in Nat
      <4>1. CASE p + 1 >= M!Eom
        BY <3>1, <4>1 DEF M!LabelLen
      <4>2. CASE ~(p + 1 >= M!Eom)
        <5> DEFINE c == IF M!Cell(p + 1) = 0 THEN 256 ELSE M!Cell(p + 1)
        <5>1. c \in Nat
          BY <1>1, <3>2, <4>2
        <5>2. M!LabelLen(p) = ((c + 7) \div 8) + 1
          BY <3>1, <4>2 DEF M!LabelLen
        <5> HIDE DEF c
        <5> QED BY <5>1, <5>2
      <4> QED BY <4>1, <4>2
    <3> QED BY <2>3, <3>3 DEF Jump
  <2> QED BY <2>2, <2>3
<1> QED BY <1>1, <1>2, <1>3, <1>4 DEF Goes

\* The loop of name_skip is a function: every walk ends.
LEMMA WalkProp ==
    ASSUME Octets
    PROVE  \A p \in Nat : M!Walk[p] = IF Goes(p) THEN M!Walk[Jump(p)] ELSE Stops(p)
<1> DEFINE One(g, p) == IF Goes(p) THEN g[Jump(p)] ELSE Stops(p)
           Body(g, p) ==
               IF p >= M!Eom THEN p
               ELSE IF M!Cell(p) = 0 THEN p + 1
               ELSE IF M!Cell(p) < 64 THEN g[p + 1 + M!Cell(p)]
               ELSE IF M!Cell(p) < 128 THEN (IF M!LabelLen(p) = M!Fail THEN M!Fail ELSE g[p + 1 + M!LabelLen(p)])
               ELSE IF M!Cell(p) < 192 THEN M!Fail
               ELSE p + 2
           D == [Nat -> Int]
           E == M!Eom
<1>1. E \in Nat /\ \A p \in Nat : Stops(p) \in Int /\ (Goes(p) => p < E /\ Jump(p) \in Nat /\ Jump(p) > p)
  BY JumpProp
<1>2. M!Walk = CHOOSE w : w = [p \in Nat |-> Body(w, p)]
  BY DEF M!Walk
<1>3. \A g : \A p \in Nat : Body(g, p) = One(g, p)
  <2> SUFFICES ASSUME NEW g, NEW p \in Nat PROVE Body(g, p) = One(g, p)
    OBVIOUS
  <2>1. E \in Nat /\ (p < E => M!Cell(p) \in Nat)
    BY JumpProp
  <2> QED BY <2>1 DEF Goes, Jump, Stops
<1>4. PICK f \in [Nat -> D] :
         /\ f[0] = [p \in Nat |-> p]
         /\ \A n \in Nat : f[n + 1] = [p \in Nat |-> One(f[n], p)]
  <2> DEFINE F == [x \in Nat \X D |-> [p \in Nat |-> One(x[2], p)]]
             s == [p \in Nat |-> p]
  <2>1. ASSUME NEW n \in Nat, NEW g \in D PROVE F[<<n, g>>] = [p \in Nat |-> One(g, p)] /\ F[<<n, g>>] \in D
    BY <1>1
  <2>2. F \in [Nat \X D -> D] /\ s \in D
    BY <1>1
  <2> HIDE DEF F, s, D
  <2>3. PICK f \in [Nat -> D] : Follows(f, s, F)
    BY <2>2, Recursion
  <2>4. \A n \in Nat : f[n + 1] = [p \in Nat |-> One(f[n], p)]
    BY <2>1, <2>3 DEF Follows
  <2> QED BY <2>3, <2>4 DEF s, Follows
<1>a. ASSUME NEW n \in Nat, NEW p \in Nat PROVE f[n + 1][p] = One(f[n], p)
  <2>1. f[n + 1] = [q \in Nat |-> One(f[n], q)]
    BY <1>4
  <2> HIDE DEF One
  <2> QED BY <2>1
<1>b. \A p \in Nat : f[0][p] = p
  BY <1>4
<1> HIDE DEF One, E
<1>5. \A n, p \in Nat : p >= E - n => f[n + 1][p] = f[n][p]
  <2> DEFINE Bad == {n \in Nat : \E p \in Nat : p >= E - n /\ f[n + 1][p] # f[n][p]}
  <2>1. SUFFICES ASSUME Bad # {} PROVE FALSE
    OBVIOUS
  <2>2. PICK n \in Bad : \A m_1 \in Bad : ~(<<m_1, n>> \in Below)
    <3>1. Bad \subseteq Nat
      OBVIOUS
    <3> HIDE DEF Bad
    <3> QED BY <2>1, <3>1, Least
  <2>3. PICK p \in Nat : p >= E - n /\ f[n + 1][p] # f[n][p]
    BY <2>2
  <2>4. n \in Nat /\ f[n + 1][p] = One(f[n], p)
    BY <1>a, <2>2, <2>3
  <2>5. CASE n = 0
    <3>1. ~Goes(p) /\ p >= E
      BY <1>1, <2>3, <2>5
    <3>2. One(f[n], p) = p
      BY <3>1 DEF One, Stops, E
    <3>3. f[n][p] = p
      BY <1>b, <2>5
    <3> QED BY <2>3, <2>4, <3>2, <3>3
  <2>6. CASE n # 0
    <3>1. n - 1 \in Nat /\ n - 1 + 1 = n
      BY <2>4, <2>6
    <3>2. f[n][p] = One(f[n - 1], p)
      BY <1>a, <3>1, <2>3
    <3>3. <<n - 1, n>> \in Below
      BY <2>4, <3>1 DEF Below
    <3>4. n - 1 \notin Bad
      BY <2>2, <3>3
    <3>5. \A q \in Nat : q >= E - (n - 1) => f[n][q] = f[n - 1][q]
      BY <3>1, <3>4
    <3>6. Goes(p) => Jump(p) \in Nat /\ Jump(p) >= E - (n - 1)
      BY <1>1, <2>3, <2>4
    <3> QED BY <2>3, <2>4, <3>2, <3>5, <3>6 DEF One
  <2> QED BY <2>5, <2>6
<1>6. f[E] = [p \in Nat |-> One(f[E], p)] /\ f[E] \in D
  <2>1. f[E + 1] = [p \in Nat |-> One(f[E], p)] /\ f[E + 1] \in D /\ f[E] \in D
    BY <1>1, <1>4
  <2>2. \A p \in Nat : f[E + 1][p] = f[E][p]
    BY <1>1, <1>5
  <2>3. f[E + 1] = f[E]
    BY <2>1, <2>2
  <2> QED BY <2>1, <2>3
<1>7. f[E] = [p \in Nat |-> Body(f[E], p)]
  <2> HIDE DEF Body
  <2> QED BY <1>3, <1>6
<1>8. M!Walk = [p \in Nat |-> Body(M!Walk, p)]
  <2> HIDE DEF Body
  <2> QED BY <1>2, <1>7
<1>9. M!Walk = [p \in Nat |-> One(M!Walk, p)]
  <2> HIDE DEF Body
  <2> QED BY <1>3, <1>8
<1>10. \A p \in Nat : M!Walk[p] = One(M!Walk, p)
  BY <1>9
<1> QED BY <1>9, <1>10 DEF One

\* A walk leads on.
LEMMA WalkLeadsOn ==
    ASSUME Octets, NEW d \in Nat
    PROVE  /\ M!Walk[d] \in Int
           /\ M!Walk[d] = M!Fail \/ (M!Walk[d] >= d /\ (d < M!Eom => M!Walk[d] > d))
<1> DEFINE Good(p) ==
               /\ M!Walk[p] \in Int
               /\ M!Walk[p] = M!Fail \/ (M!Walk[p] >= p /\ (p < M!Eom => M!Walk[p] > p))
           E == M!Eom
           Bad == {n \in Nat : \E p \in Nat : p >= E - n /\ ~Good(p)}
<1>1. E \in Nat /\ \A p \in Nat : Stops(p) \in Int /\ (Goes(p) => p < E /\ Jump(p) \in Nat /\ Jump(p) > p)
  BY JumpProp
<1>2. \A p \in Nat : M!Walk[p] = IF Goes(p) THEN M!Walk[Jump(p)] ELSE Stops(p)
  BY WalkProp
<1>3. ASSUME NEW p \in Nat, ~Good(p), NEW n \in Nat, p >= E - n PROVE n > 0 /\ n - 1 \in Bad
  <2>1. Goes(p)
    <3>1. SUFFICES ASSUME ~Goes(p) PROVE Good(p)
      BY <1>3
    <3>2. M!Walk[p] = Stops(p) /\ Stops(p) \in Int
      BY <1>1, <1>2, <3>1
    <3>3. Stops(p) = M!Fail \/ (Stops(p) >= p /\ (p < E => Stops(p) > p))
      BY <1>1 DEF Stops
    <3> QED BY <3>2, <3>3
  <2>2. p < E /\ Jump(p) \in Nat /\ Jump(p) > p /\ M!Walk[p] = M!Walk[Jump(p)]
    BY <1>1, <1>2, <2>1
  <2>3. ~Good(Jump(p))
    <3> DEFINE j == Jump(p)
               w == M!Walk[j]
    <3>1. j \in Nat /\ j > p /\ M!Walk[p] = w
      BY <2>2
    <3> HIDE DEF j
    <3> QED BY <1>3, <3>1 DEF j
  <2>4. n > 0 /\ n - 1 \in Nat /\ Jump(p) >= E - (n - 1)
    BY <1>1, <1>3, <2>2
  <2> HIDE DEF Good
  <2> QED BY <2>2, <2>3, <2>4
<1>4. Bad = {}
  <2>1. SUFFICES ASSUME Bad # {} PROVE FALSE
    OBVIOUS
  <2> HIDE DEF Good
  <2>2. PICK n \in Bad : \A m_1 \in Bad : ~(<<m_1, n>> \in Below)
    <3>1. Bad \subseteq Nat
      OBVIOUS
    <3> HIDE DEF Bad
    <3> QED BY <2>1, <3>1, Least
  <2>3. n > 0 /\ n - 1 \in Bad
    BY <1>3, <2>2
  <2>4. <<n - 1, n>> \in Below
    BY <2>2, <2>3 DEF Below
  <2> QED BY <2>2, <2>3, <2>4
<1>5. E \in Nat /\ d >= E - E
  BY <1>1
<1>6. Good(d)
  <2> HIDE DEF Good
  <2> QED BY <1>4, <1>5
<1> QED BY <1>6

\* q is the cells from d to e.
IsCells(q, d, e) ==
    /\ q \in Seq(Nat) /\ Len(q) = e - d
    /\ \A j \in 1..Len(q) : q[j] = M!Cell(d + j - 1)

\* The cells behind cut k up to cut n.
Part(q, k, n) == SubSeq(q, k + 1, n)

LEMMA PartProp ==
    ASSUME NEW d \in Nat, NEW e \in Nat, NEW q, IsCells(q, d, e),
           NEW k \in Nat, NEW n \in Nat, k < n, n <= Len(q)
    PROVE  /\ Part(q, k, n) \in Seq(Nat) /\ Len(Part(q, k, n)) = n - k
           /\ Part(q, k, n)[1] = M!Cell(d + k)
           /\ n - k > 1 => Part(q, k, n)[2] = M!Cell(d + k + 1)
<1>1. q \in Seq(Nat) /\ Len(q) \in Nat
  BY DEF IsCells
<1> DEFINE a == k + 1
<1>2. a \in 1..Len(q) /\ n \in 1..Len(q) /\ a <= n /\ n - a + 1 = n - k
  BY <1>1
<1>3. SubSeq(q, a, n) \in Seq(Nat) /\ Len(SubSeq(q, a, n)) = n - a + 1
      /\ \A j \in 1..(n - a + 1) : SubSeq(q, a, n)[j] = q[a + j - 1]
  <2> HIDE DEF a
  <2> QED BY <1>1, <1>2
<1>4. SubSeq(q, a, n)[1] = q[a] /\ (n - k > 1 => SubSeq(q, a, n)[2] = q[a + 1])
  <2>1. a + 1 - 1 = a /\ a + 2 - 1 = a + 1 /\ 1 \in 1..(n - a + 1) /\ (n - k > 1 => 2 \in 1..(n - a + 1))
    BY <1>1, <1>2
  <2> HIDE DEF a
  <2> QED BY <1>3, <2>1
<1>5. q[a] = M!Cell(d + k)
  <2>1. d + a - 1 = d + k
    OBVIOUS
  <2>2. q[a] = M!Cell(d + a - 1)
    BY <1>2 DEF IsCells
  <2> QED BY <2>1, <2>2
<1>6. n - k > 1 => q[a + 1] = M!Cell(d + k + 1)
  <2>1. d + (a + 1) - 1 = d + k + 1 /\ (n - k > 1 => a + 1 \in 1..Len(q))
    BY <1>1
  <2>2. n - k > 1 => q[a + 1] = M!Cell(d + (a + 1) - 1)
    BY <2>1 DEF IsCells
  <2> QED BY <2>1, <2>2
<1> QED BY <1>2, <1>3, <1>4, <1>5, <1>6 DEF Part

\* A label is what the walk steps over.
LEMMA LabelProp ==
    ASSUME Octets, NEW d \in Nat, d >= 4, NEW e \in Nat, e < M!Eom, NEW q, IsCells(q, d, e),
           NEW k \in Nat, NEW n \in Nat, k < n, n <= Len(q)
    PROVE  M!IsLabel(Part(q, k, n)) <=> Goes(d + k) /\ Jump(d + k) = d + n
<1> DEFINE s == Part(q, k, n)
           p == d + k
           c == M!Cell(p)
           c2 == M!Cell(p + 1)
           b == IF c2 = 0 THEN 256 ELSE c2
<1>1. s \in Seq(Nat) /\ Len(s) = n - k /\ s[1] = c /\ (n - k > 1 => s[2] = c2)
  BY PartProp
<1>2. M!Eom = Len(msg) /\ Len(msg) \in Nat /\ p \in Nat /\ p < M!Eom /\ p + 1 < M!Eom /\ Len(q) = e - d
  BY DEF M!Eom, Octets, IsCells
<1>3. c \in 0..255 /\ c2 \in 0..255
  <2>1. p \in 4..(Len(msg) - 1) /\ p + 1 \in 4..(Len(msg) - 1)
    BY <1>2
  <2> QED BY <2>1 DEF Octets
<1>4. M!IsLabel(s) <=> \/ c \in 1..63 /\ n - k = 1 + c
                       \/ n - k > 1 /\ c = 65 /\ 8 * (n - k - 2) \in b..(b + 7)
  <2>1. s # <<>>
    BY <1>1
  <2> HIDE DEF s, c, c2
  <2> QED BY <1>1, <2>1 DEF M!IsLabel, M!Bitstring, M!BitCount
<1>5. M!LabelLen(p) = IF c # 65 THEN M!Fail ELSE ((b + 7) \div 8) + 1
  <2>1. ~(p + 1 >= M!Eom)
    BY <1>2
  <2> QED BY <2>1 DEF M!LabelLen, M!Bitstring
<1> DEFINE v == (b + 7) \div 8
<1>6. b \in Nat /\ v \in Nat /\ \A m_1 \in Int : 8 * m_1 \in b..(b + 7) <=> m_1 = v
  <2>1. b \in Nat
    <3> HIDE DEF c2
    <3> QED BY <1>3
  <2> HIDE DEF b
  <2>2. v \in Nat /\ 8 * v <= b + 7 /\ b + 7 < 8 * v + 8
    BY <2>1
  <2> HIDE DEF v
  <2>3. ASSUME NEW m_1 \in Int PROVE 8 * m_1 \in b..(b + 7) <=> m_1 = v
    BY <2>1, <2>2
  <2> QED BY <2>1, <2>2, <2>3
<1>7. Goes(p) <=> c # 0 /\ (c < 64 \/ c = 65)
  <2> HIDE DEF v, b, c2
  <2>1. M!LabelLen(p) # M!Fail <=> c = 65
    <3> HIDE DEF c
    <3> QED BY <1>5, <1>6 DEF M!Fail, v
  <2> QED BY <1>2, <1>3, <2>1 DEF Goes
<1>8. c < 64 => Jump(p) = p + 1 + c
  BY <1>3 DEF Jump
<1>9. c = 65 => Jump(p) = p + 2 + v
  <2>1. c = 65 => Jump(p) = p + 1 + M!LabelLen(p)
    BY DEF Jump
  <2>2. c = 65 => M!LabelLen(p) = v + 1
    BY <1>5
  <2> HIDE DEF c, v, b
  <2> QED BY <1>2, <1>6, <2>1, <2>2
<1>10. n - k - 2 \in Int /\ (8 * (n - k - 2) \in b..(b + 7) <=> n - k - 2 = v)
  <2>1. n - k - 2 \in Int
    OBVIOUS
  <2> HIDE DEF b, v
  <2> QED BY <1>6, <2>1
<1>11. M!IsLabel(s) <=> Goes(p) /\ Jump(p) = d + n
  <2>0. c \in Nat /\ p = d + k
    <3>1. p = d + k
      OBVIOUS
    <3> HIDE DEF c, p
    <3> QED BY <1>3, <3>1
  <2> HIDE DEF s, c, v, b, p
  <2>1. CASE c \in 1..63
    <3>1. c # 0 /\ c < 64 /\ c # 65
      BY <2>1
    <3>2. Goes(p) /\ Jump(p) = d + k + 1 + c
      BY <1>7, <1>8, <2>0, <3>1
    <3>3. M!IsLabel(s) <=> n - k = 1 + c
      BY <1>4, <2>1, <3>1
    <3> QED BY <2>0, <2>1, <3>2, <3>3
  <2>2. CASE c = 65
    <3>1. Goes(p) /\ Jump(p) = p + 2 + v
      BY <1>7, <1>9, <2>2
    <3>2. M!IsLabel(s) <=> n - k > 1 /\ n - k - 2 = v
      BY <1>4, <1>10, <2>0, <2>2
    <3>3. n - k > 1 /\ n - k - 2 = v <=> p + 2 + v = d + n
      BY <1>6, <2>0
    <3> QED BY <3>1, <3>2, <3>3
  <2>3. CASE c \notin 1..63 /\ c # 65
    <3>1. ~Goes(p)
      BY <1>3, <1>7, <2>3
    <3>2. ~M!IsLabel(s)
      BY <1>4, <2>3
    <3> QED BY <3>1, <3>2
  <2> QED BY <2>1, <2>2, <2>3
<1> QED BY <1>11

\* The end is where the walk stops.
LEMMA EndProp ==
    ASSUME Octets, NEW d \in Nat, d >= 4, NEW e \in Nat, e < M!Eom, NEW q, IsCells(q, d, e),
           NEW k \in Nat, k < Len(q)
    PROVE  M!IsEnd(Part(q, k, Len(q))) <=> ~Goes(d + k) /\ Stops(d + k) = e
<1> DEFINE n == Len(q)
           s == Part(q, k, n)
           p == d + k
           c == M!Cell(p)
<1>0. n \in Nat /\ n = e - d
  BY DEF IsCells
<1>1. s \in Seq(Nat) /\ Len(s) = n - k /\ s[1] = c
  <2>1. k < Len(q) /\ Len(q) <= Len(q) /\ Len(q) \in Nat
    BY <1>0
  <2> QED BY <2>1, PartProp
<1>2. M!Eom = Len(msg) /\ Len(msg) \in Nat /\ p \in Nat /\ p < M!Eom
  BY <1>0 DEF M!Eom, Octets
<1>3. c \in 0..255
  <2>1. p \in 4..(Len(msg) - 1)
    BY <1>2
  <2> QED BY <2>1 DEF Octets
<1>4. M!IsEnd(s) <=> (n - k = 1 /\ c = 0) \/ (n - k = 2 /\ c \in 192..255)
  <2> HIDE DEF s, c, n
  <2>1. s = <<0>> <=> Len(s) = 1 /\ s[1] = 0
    BY <1>1
  <2> QED BY <1>1, <2>1 DEF M!IsEnd
<1>5. Goes(p) => c # 0 /\ c < 128
  <2>1. Goes(p) => c # 0 /\ (c < 64 \/ c < 128)
    BY Zenon DEF Goes
  <2> HIDE DEF p, c
  <2> QED BY <1>3, <2>1
<1>6. Stops(p) = IF c = 0 THEN p + 1 ELSE IF c < 192 THEN -1 ELSE p + 2
  BY <1>2 DEF Stops, M!Fail
<1>7. (n - k = 1 <=> p + 1 = e) /\ (n - k = 2 <=> p + 2 = e)
  BY <1>0
<1>8. M!IsEnd(s) <=> ~Goes(p) /\ Stops(p) = e
  <2> HIDE DEF s, c, n, p
  <2>1. CASE c = 0
    BY <1>3, <1>4, <1>5, <1>6, <1>7, <2>1
  <2>2. CASE c # 0 /\ c < 192
    <3>1. ~M!IsEnd(s)
      BY <1>3, <1>4, <2>2
    <3>2. Stops(p) # e
      BY <1>6, <2>2
    <3> QED BY <3>1, <3>2
  <2>3. CASE ~(c < 192)
    <3>1. ~Goes(p) /\ c \in 192..255 /\ c # 0 /\ Stops(p) = p + 2
      BY <1>3, <1>5, <1>6, <2>3
    <3> QED BY <1>4, <1>7, <3>1
  <2> QED BY <2>1, <2>2, <2>3
<1> QED BY <1>8

\* The walk ends where the name does that starts at d, unless the message ends first.
LEMMA NameProp ==
    ASSUME Octets, NEW d \in Nat, d >= 4, NEW e \in Nat, d < e, e < M!Eom, NEW q, IsCells(q, d, e)
    PROVE  M!IsName(q) <=> M!Walk[d] = e
<1> DEFINE n == Len(q)
<1>1. n \in Nat /\ n = e - d /\ n >= 1 /\ M!Eom \in Nat
  BY DEF IsCells, M!Eom, Octets
<1>2. \A p \in Nat : M!Walk[p] = IF Goes(p) THEN M!Walk[Jump(p)] ELSE Stops(p)
  BY WalkProp
<1>3. M!IsName(q) <=>
        \E cuts \in SUBSET (1..(n - 1)) : \A k \in cuts \union {0} :
            M!IsEnd(Part(q, k, n)) \/ \E j \in cuts : k < j /\ M!IsLabel(Part(q, k, j))
  BY DEF M!IsName, Part
<1>4. ASSUME NEW k \in 0..(n - 1) PROVE M!IsEnd(Part(q, k, n)) <=> ~Goes(d + k) /\ Stops(d + k) = e
  <2>1. k \in Nat /\ k < Len(q)
    BY <1>1
  <2> QED BY <2>1, EndProp
<1>5. ASSUME NEW k \in 0..(n - 1), NEW j \in 1..(n - 1), k < j
      PROVE  M!IsLabel(Part(q, k, j)) <=> Goes(d + k) /\ Jump(d + k) = d + j
  <2>1. k \in Nat /\ j \in Nat /\ j <= Len(q)
    BY <1>1
  <2> QED BY <1>5, <2>1, LabelProp
<1>6. ASSUME M!Walk[d] = e PROVE M!IsName(q)
  <2> DEFINE cuts == {k \in 1..(n - 1) : M!Walk[d + k] = e}
  <2> HIDE DEF n
  <2>1. SUFFICES ASSUME NEW k \in cuts \union {0}, ~M!IsEnd(Part(q, k, n))
                 PROVE  \E j \in cuts : k < j /\ M!IsLabel(Part(q, k, j))
    <3> HIDE DEF cuts
    <3>1. cuts \in SUBSET (1..(n - 1))
      BY DEF cuts
    <3> QED BY <1>3, <2>1, <3>1
  <2>2. k \in 0..(n - 1) /\ d + k \in Nat /\ M!Walk[d + k] = e
    <3>1. CASE k = 0
      BY <1>1, <1>6, <3>1
    <3>2. CASE k # 0
      BY <1>1, <3>2
    <3> QED BY <3>1, <3>2
  <2>3. Goes(d + k)
    BY <1>2, <1>4, <2>1, <2>2
  <2> DEFINE j == Jump(d + k)
  <2>4. j \in Nat /\ j > d + k /\ M!Walk[j] = e
    BY <1>2, <2>2, <2>3, JumpProp
  <2> HIDE DEF j
  <2>5. j < e
    <3>1. e # M!Fail
      BY DEF M!Fail
    <3>2. M!Walk[j] >= j /\ (j < M!Eom => M!Walk[j] > j)
      BY <2>4, <3>1, WalkLeadsOn
    <3> QED BY <1>1, <2>4, <3>2
  <2>6. j - d \in cuts /\ k < j - d /\ d + (j - d) = j
    <3>1. j - d \in 1..(n - 1) /\ k < j - d /\ d + (j - d) = j
      BY <1>1, <2>2, <2>4, <2>5
    <3> QED BY <2>4, <3>1
  <2>7. M!IsLabel(Part(q, k, j - d))
    <3> DEFINE b == j - d
    <3>1. b \in 1..(n - 1) /\ k < b /\ Jump(d + k) = d + b
      BY <2>6 DEF j
    <3> HIDE DEF b
    <3>2. M!IsLabel(Part(q, k, b))
      BY <1>5, <2>2, <2>3, <3>1
    <3> QED BY <3>2 DEF b
  <2> HIDE DEF cuts
  <2> QED BY <2>6, <2>7
<1>7. ASSUME M!IsName(q) PROVE M!Walk[d] = e
  <2>1. PICK cuts \in SUBSET (1..(n - 1)) : \A k \in cuts \union {0} :
            M!IsEnd(Part(q, k, n)) \/ \E j \in cuts : k < j /\ M!IsLabel(Part(q, k, j))
    BY <1>3, <1>7
  <2> HIDE DEF n
  <2> DEFINE Bad == {n - k : k \in {i_1 \in cuts \union {0} : M!Walk[d + i_1] # e}}
  <2>2. SUFFICES ASSUME M!Walk[d] # e PROVE FALSE
    OBVIOUS
  <2>3. \A k \in cuts \union {0} : k \in 0..(n - 1) /\ d + k \in Nat /\ n - k \in Nat
    BY <1>1
  <2>4. PICK k \in cuts \union {0} :
           /\ M!Walk[d + k] # e
           /\ \A j \in cuts \union {0} : j > k => M!Walk[d + j] = e
    <3>1. Bad \subseteq Nat
      BY <2>3
    <3>2. Bad # {}
      <4>1. d + 0 = d
        OBVIOUS
      <4>2. n - 0 \in Bad
        BY <2>2, <4>1
      <4> QED BY <4>2
    <3>4. PICK x \in Bad : \A y \in Bad : ~(<<y, x>> \in Below)
      <4> HIDE DEF Bad
      <4> QED BY <3>1, <3>2, Least
    <3>5. PICK k \in cuts \union {0} : M!Walk[d + k] # e /\ x = n - k
      BY <3>4
    <3>6. ASSUME NEW j \in cuts \union {0}, j > k PROVE M!Walk[d + j] = e
      <4>1. n - j \in Nat /\ n - k \in Nat /\ n - j < n - k
        BY <1>1, <2>3, <3>6
      <4>2. <<n - j, x>> \in Below
        BY <3>5, <4>1 DEF Below
      <4>3. n - j \notin Bad
        BY <3>4, <4>2
      <4> QED BY <4>3
    <3> QED BY <3>5, <3>6
  <2>5. k \in 0..(n - 1) /\ d + k \in Nat
    BY <2>3
  <2>6. CASE M!IsEnd(Part(q, k, n))
    BY <1>2, <1>4, <2>4, <2>5, <2>6
  <2>7. CASE ~M!IsEnd(Part(q, k, n))
    <3>1. PICK j \in cuts : k < j /\ M!IsLabel(Part(q, k, j))
      BY <2>1, <2>7
    <3>2. Goes(d + k) /\ Jump(d + k) = d + j
      BY <1>5, <2>5, <3>1
    <3>3. M!Walk[d + j] = e
      BY <2>3, <2>4, <3>1
    <3> QED BY <1>2, <2>4, <2>5, <3>2, <3>3
  <2> QED BY <2>6, <2>7
<1> QED BY <1>6, <1>7

LEMMA CellsProp ==
    ASSUME Octets, NEW d \in Nat, NEW e \in Nat, d < e, e <= M!Eom
    PROVE  /\ IsCells(M!Cells(d, e), d, e)
           /\ \A n \in 1..(e - d) : IsCells(SubSeq(M!Cells(d, e), 1, n), d, d + n)
<1>1. msg \in Seq(Nat) /\ M!Eom = Len(msg) /\ Len(msg) \in Nat
  BY DEF Octets, M!Eom
<1> DEFINE a == d + 1
           q == SubSeq(msg, a, e)
<1>2. a \in 1..Len(msg) /\ e \in 1..Len(msg) /\ e - a + 1 = e - d
  BY <1>1
<1>3. q \in Seq(Nat) /\ Len(q) = e - d /\ \A j \in 1..(e - d) : q[j] = msg[a + j - 1]
  <2> HIDE DEF a
  <2> QED BY <1>1, <1>2
<1>4. \A j \in 1..(e - d) : q[j] = M!Cell(d + j - 1)
  <2>1. \A j \in 1..(e - d) : a + j - 1 = d + j - 1 + 1
    OBVIOUS
  <2> HIDE DEF q, a
  <2> QED BY <1>3, <2>1 DEF M!Cell
<1>5. M!Cells(d, e) = q
  BY DEF M!Cells
<1> HIDE DEF q
<1>6. ASSUME NEW n \in 1..(e - d) PROVE IsCells(SubSeq(q, 1, n), d, d + n)
  <2>1. SubSeq(q, 1, n) \in Seq(Nat) /\ Len(SubSeq(q, 1, n)) = n
        /\ \A j \in 1..n : SubSeq(q, 1, n)[j] = q[j]
    BY <1>3
  <2>2. \A j \in 1..n : j \in 1..(e - d)
    OBVIOUS
  <2>3. n = (d + n) - d
    OBVIOUS
  <2> QED BY <1>4, <2>1, <2>2, <2>3 DEF IsCells
<1>7. IsCells(q, d, e)
  BY <1>3, <1>4 DEF IsCells
<1> QED BY <1>5, <1>6, <1>7

\* The loop of skiprr goes on from a place in the message, and goes forward.
LEMMA SkipOneProp ==
    ASSUME Octets, NEW section \in M!Sections, NEW v \in Nat \union {M!Fail}
    PROVE  /\ M!SkipOne(section, v) \in Nat \union {M!Fail}
           /\ M!SkipOne(section, v) # M!Fail =>
                v \in Nat /\ v <= M!Eom /\ M!SkipOne(section, v) > v
<1>1. CASE v = M!Fail
  BY <1>1 DEF M!SkipOne
<1>2. CASE v # M!Fail
  <2> DEFINE w == M!Walk[v]
  <2>1. v \in Nat /\ M!Eom \in Nat /\ M!Fail = -1
    BY <1>2, JumpProp DEF M!Fail, Octets, M!Eom
  <2>2. w \in Int /\ (w = M!Fail \/ w >= v)
    BY <2>1, WalkLeadsOn
  <2>3. M!NameSkip(v) = IF w > M!Eom THEN M!Fail ELSE w
    BY DEF M!NameSkip
  <2> HIDE DEF w
  <2>4. CASE M!NameSkip(v) = M!Fail
    BY <2>4 DEF M!SkipOne
  <2>5. CASE M!NameSkip(v) # M!Fail
    <3>1. M!NameSkip(v) = w /\ w \in Nat /\ v <= w /\ w <= M!Eom
      BY <2>1, <2>2, <2>3, <2>5
    <3>2. M!SkipOne(section, v) = M!FixedFields(section, w)
      BY <1>2, <2>5, <3>1 DEF M!SkipOne
    <3>3. M!FixedFields(section, w) \in Nat \union {M!Fail}
          /\ (M!FixedFields(section, w) # M!Fail => M!FixedFields(section, w) > w)
      <4>1. CASE section = M!QD
        BY <2>1, <3>1, <4>1 DEF M!FixedFields
      <4>2. CASE section # M!QD /\ w + 4 > M!Eom
        BY <4>2 DEF M!FixedFields
      <4>3. CASE section # M!QD /\ ~(w + 4 > M!Eom)
        <5>1. M!Cell(w + 3) \in Nat
          <6>1. w + 3 \in Nat /\ w + 3 < M!Eom
            BY <2>1, <3>1, <4>3
          <6> QED BY <6>1, JumpProp
        <5>2. M!FixedFields(section, w) = w + 4 + M!Cell(w + 3)
          BY <4>3 DEF M!FixedFields
        <5> QED BY <3>1, <5>1, <5>2
      <4> QED BY <4>1, <4>2, <4>3
    <3> HIDE DEF M!FixedFields
    <3> QED BY <2>1, <3>1, <3>2, <3>3
  <2> QED BY <2>4, <2>5
<1> QED BY <1>1, <1>2

\* One record is what skiprr steps over.
LEMMA RecordProp ==
    ASSUME Octets, NEW section \in M!Sections,
           NEW d \in Nat, d >= 4, NEW e \in Nat, d < e, e <= M!Eom
    PROVE  M!IsRecord(section, M!Cells(d, e)) <=> M!SkipOne(section, d) = e
<1> DEFINE q == M!Cells(d, e)
           w == M!Walk[d]
           Fits(n) == IF section = M!QD THEN Len(q) = n + 2
                      ELSE Len(q) >= n + 4 /\ Len(q) = n + 4 + q[n + 4]
<1>0. M!Eom \in Nat /\ M!Fail = -1
  BY DEF M!Fail, Octets, M!Eom
<1>1. Len(q) = e - d /\ \A j \in 1..(e - d) : q[j] = M!Cell(d + j - 1)
  BY CellsProp DEF IsCells
<1>2. ASSUME NEW n \in 1..(e - d), d + n < e PROVE M!IsName(SubSeq(q, 1, n)) <=> w = d + n
  <2>1. IsCells(SubSeq(q, 1, n), d, d + n)
    BY CellsProp
  <2> DEFINE b == d + n
  <2>2. b \in Nat /\ d < b /\ b < M!Eom
    BY <1>0, <1>2
  <2>3. IsCells(SubSeq(q, 1, n), d, b)
    BY <2>1
  <2> HIDE DEF b, q
  <2>4. M!IsName(SubSeq(q, 1, n)) <=> M!Walk[d] = b
    BY <2>2, <2>3, NameProp
  <2> QED BY <2>4 DEF b
<1>3. M!IsRecord(section, q) <=> \E n \in 1..(e - d) : Fits(n) /\ M!IsName(SubSeq(q, 1, n))
  BY <1>1 DEF M!IsRecord
<1>4. \A j \in Nat : j < M!Eom => M!Cell(j) \in Nat
  BY JumpProp
<1>5. ASSUME NEW n \in 1..(e - d), d + n < e
      PROVE  Fits(n) <=> M!FixedFields(section, d + n) = e
  <2> DEFINE p == d + n
  <2>1. p \in Nat /\ p < e /\ n = p - d
    BY <1>5
  <2>2. CASE section = M!QD
    <3>1. M!FixedFields(section, p) = p + 2
      BY <2>2 DEF M!FixedFields
    <3> HIDE DEF p, q
    <3> QED BY <1>1, <2>1, <2>2, <3>1 DEF p
  <2>3. CASE section # M!QD /\ n + 4 <= e - d
    <3>1. n + 4 \in 1..(e - d) /\ d + (n + 4) - 1 = p + 3 /\ ~(p + 4 > M!Eom) /\ p + 3 < M!Eom /\ p + 3 \in Nat
      BY <1>0, <2>1, <2>3
    <3>2. q[n + 4] = M!Cell(p + 3)
      <4>1. q[n + 4] = M!Cell(d + (n + 4) - 1)
        <5> HIDE DEF q, p
        <5> QED BY <1>1, <3>1
      <4> QED BY <3>1, <4>1
    <3>3. M!Cell(p + 3) \in Nat
      BY <1>4, <3>1
    <3>4. M!FixedFields(section, p) = p + 4 + M!Cell(p + 3)
      BY <2>3, <3>1 DEF M!FixedFields
    <3> DEFINE c == M!Cell(p + 3)
    <3> HIDE DEF c, q
    <3>5. Fits(n) <=> e - d = n + 4 + c
      BY <1>1, <2>3, <3>2 DEF c
    <3>6. e - d = n + 4 + c <=> p + 4 + c = e
      BY <2>1, <3>3 DEF c
    <3> QED BY <3>4, <3>5, <3>6 DEF c
  <2>4. CASE section # M!QD /\ ~(n + 4 <= e - d)
    <3>1. ~Fits(n)
      <4> HIDE DEF q
      <4> QED BY <1>1, <2>4
    <3>2. M!FixedFields(section, p) # e
      <4>1. CASE p + 4 > M!Eom
        BY <1>0, <2>4, <4>1 DEF M!FixedFields
      <4>2. CASE ~(p + 4 > M!Eom)
        <5>1. M!FixedFields(section, p) = p + 4 + M!Cell(p + 3)
          BY <2>4, <4>2 DEF M!FixedFields
        <5>2. p + 3 \in Nat /\ p + 3 < M!Eom
          BY <1>0, <2>1, <4>2
        <5>3. M!Cell(p + 3) \in Nat
          BY <1>4, <5>2
        <5>4. p + 4 > e
          BY <2>1, <2>4
        <5> HIDE DEF p
        <5> QED BY <2>1, <5>1, <5>3, <5>4
      <4> QED BY <4>1, <4>2
    <3> QED BY <3>1, <3>2
  <2> QED BY <2>2, <2>3, <2>4
<1>6. M!SkipOne(section, d) = IF w > M!Eom \/ w = M!Fail THEN M!Fail ELSE M!FixedFields(section, w)
  <2>1. d # M!Fail
    BY <1>0
  <2> QED BY <2>1 DEF M!SkipOne, M!NameSkip
<1>7. w \in Int /\ (w = M!Fail \/ w > d)
  <2>1. d < M!Eom
    BY <1>0
  <2> QED BY <2>1, WalkLeadsOn
<1> HIDE DEF w, q
<1>8. ASSUME NEW n \in 1..(e - d), Fits(n), M!IsName(SubSeq(q, 1, n)) PROVE M!SkipOne(section, d) = e
  <2>1. d + n < e
    <3>1. q[n + 4] \in Nat \/ ~(n + 4 \in 1..(e - d))
      <4>1. ASSUME n + 4 \in 1..(e - d) PROVE q[n + 4] \in Nat
        <5> DEFINE j == n + 4
        <5>1. j \in 1..(e - d) /\ d + j - 1 \in Nat /\ d + j - 1 < M!Eom
          BY <1>0, <4>1
        <5> HIDE DEF j
        <5>2. q[j] \in Nat
          BY <1>1, <1>4, <5>1
        <5> QED BY <5>2 DEF j
      <4> QED BY <4>1
    <3> QED BY <1>1, <1>8, <3>1
  <2>2. w = d + n
    BY <1>2, <1>8, <2>1
  <2>3. M!FixedFields(section, w) = e
    BY <1>5, <1>8, <2>1, <2>2
  <2>4. ~(w > M!Eom) /\ w # M!Fail
    BY <1>0, <2>1, <2>2
  <2> QED BY <1>6, <2>3, <2>4
<1>9. ASSUME M!SkipOne(section, d) = e
      PROVE  \E n \in 1..(e - d) : Fits(n) /\ M!IsName(SubSeq(q, 1, n))
  <2> DEFINE n == w - d
  <2>1. w <= M!Eom /\ w # M!Fail /\ M!FixedFields(section, w) = e /\ w > d
    BY <1>0, <1>6, <1>7, <1>9
  <2>2. w < e
    <3>1. w \in Nat
      BY <1>7, <2>1
    <3>2. CASE section = M!QD
      BY <2>1, <3>1, <3>2 DEF M!FixedFields
    <3>3. CASE section # M!QD /\ ~(w + 4 > M!Eom)
      <4>1. w + 3 \in Nat /\ w + 3 < M!Eom
        BY <1>0, <3>1, <3>3
      <4>2. M!Cell(w + 3) \in Nat
        BY <1>4, <4>1
      <4>3. e = w + 4 + M!Cell(w + 3)
        BY <2>1, <3>3 DEF M!FixedFields
      <4> QED BY <3>1, <4>2, <4>3
    <3>4. CASE section # M!QD /\ w + 4 > M!Eom
      BY <1>0, <2>1, <3>4 DEF M!FixedFields
    <3> QED BY <3>2, <3>3, <3>4
  <2>3. n \in 1..(e - d) /\ d + n < e /\ d + n = w
    BY <1>7, <2>1, <2>2
  <2> HIDE DEF n
  <2>4. Fits(n)
    BY <1>5, <2>1, <2>3
  <2>5. M!IsName(SubSeq(q, 1, n))
    BY <1>2, <2>3
  <2> QED BY <2>3, <2>4, <2>5
<1> HIDE DEF Fits
<1>10. M!IsRecord(section, q) <=> M!SkipOne(section, d) = e
  BY <1>3, <1>8, <1>9
<1> QED BY <1>10 DEF q

\* The loop of skiprr, record for record.
LEMMA SkippedProp ==
    ASSUME Octets, NEW section \in M!Sections, NEW start \in Nat \union {M!Fail}
    PROVE  /\ M!Skipped(start, section)[0] = start
           /\ \A n \in Nat : M!Skipped(start, section)[n + 1] = M!SkipOne(section, M!Skipped(start, section)[n])
<1> DEFINE D == Nat \union {M!Fail}
           Body(g, n) == IF n = 0 THEN start ELSE M!SkipOne(section, g[n - 1])
           F == [x \in Nat \X D |-> M!SkipOne(section, x[2])]
           sk == M!Skipped(start, section)
<1>1. sk = CHOOSE g : g = [n \in Nat |-> Body(g, n)]
  BY DEF M!Skipped
<1>2. F \in [Nat \X D -> D] /\ \A n \in Nat, v \in D : F[<<n, v>>] = M!SkipOne(section, v)
  BY SkipOneProp
<1>3. PICK f \in [Nat -> D] : Follows(f, start, F)
  <2> HIDE DEF F, D
  <2>1. start \in D
    BY DEF D
  <2> QED BY <1>2, <2>1, Recursion
<1>4. f[0] = start /\ \A n \in Nat : f[n + 1] = M!SkipOne(section, f[n])
  <2> HIDE DEF F
  <2> QED BY <1>2, <1>3 DEF Follows
<1>5. f = [n \in Nat |-> Body(f, n)]
  <2>1. ASSUME NEW n \in Nat PROVE f[n] = Body(f, n)
    <3>1. CASE n = 0
      BY <1>4, <3>1
    <3>2. CASE n # 0
      <4>1. n - 1 \in Nat /\ n - 1 + 1 = n
        BY <3>2
      <4>2. f[n - 1 + 1] = M!SkipOne(section, f[n - 1])
        BY <1>4, <4>1
      <4> QED BY <3>2, <4>1, <4>2
    <3> QED BY <3>1, <3>2
  <2> HIDE DEF Body
  <2> QED BY <1>3, <2>1
<1>6. sk = [n \in Nat |-> Body(sk, n)]
  <2> HIDE DEF Body, sk
  <2> QED BY <1>1, <1>5
<1> HIDE DEF sk
<1>7. sk[0] = start
  BY <1>6
<1>8. ASSUME NEW n \in Nat PROVE sk[n + 1] = M!SkipOne(section, sk[n])
  <2>1. n + 1 \in Nat /\ n + 1 # 0 /\ n + 1 - 1 = n
    OBVIOUS
  <2>2. sk[n + 1] = Body(sk, n + 1)
    <3> HIDE DEF Body
    <3> QED BY <1>6, <2>1
  <2> QED BY <2>1, <2>2
<1> QED BY <1>7, <1>8 DEF sk

\* All places of a walk over records are places behind its start, or Fail.
LEMMA SkippedType ==
    ASSUME Octets, NEW section \in M!Sections, NEW start \in Nat \union {M!Fail}, NEW n \in Nat
    PROVE  /\ M!Skipped(start, section)[n] \in Nat \union {M!Fail}
           /\ M!Skipped(start, section)[n] # M!Fail => start # M!Fail /\ M!Skipped(start, section)[n] >= start
<1> DEFINE sk == M!Skipped(start, section)
           Good(k) == sk[k] \in Nat \union {M!Fail} /\ (sk[k] # M!Fail => start # M!Fail /\ sk[k] >= start)
           Bad == {k \in Nat : ~Good(k)}
<1>1. SUFFICES ASSUME Bad # {} PROVE FALSE
  OBVIOUS
<1>2. PICK k \in Bad : \A m_1 \in Bad : ~(<<m_1, k>> \in Below)
  <2>1. Bad \subseteq Nat
    OBVIOUS
  <2> HIDE DEF Bad
  <2> QED BY <1>1, <2>1, Least
<1>3. sk[0] = start /\ \A j \in Nat : sk[j + 1] = M!SkipOne(section, sk[j])
  BY SkippedProp
<1> HIDE DEF sk
<1>4. CASE k = 0
  BY <1>2, <1>3, <1>4
<1>5. CASE k # 0
  <2>1. k - 1 \in Nat /\ k - 1 + 1 = k /\ <<k - 1, k>> \in Below
    BY <1>2, <1>5 DEF Below
  <2>2. Good(k - 1)
    BY <1>2, <2>1
  <2>3. sk[k] = M!SkipOne(section, sk[k - 1])
    BY <1>3, <2>1
  <2>4. sk[k] \in Nat \union {M!Fail} /\ (sk[k] # M!Fail => sk[k - 1] \in Nat /\ sk[k] > sk[k - 1])
    BY <2>2, <2>3, SkipOneProp
  <2>5. M!Fail = -1
    BY DEF M!Fail
  <2>6. Good(k)
    BY <2>2, <2>4, <2>5
  <2> QED BY <1>2, <2>6
<1> QED BY <1>4, <1>5

\* A walk over records that has gone on has met places in the message before.
LEMMA SkippedBefore ==
    ASSUME Octets, NEW section \in M!Sections, NEW start \in Nat \union {M!Fail},
           NEW k \in Nat, NEW n \in Nat, k < n, M!Skipped(start, section)[n] # M!Fail
    PROVE  M!Skipped(start, section)[k] \in Nat /\ M!Skipped(start, section)[k] <= M!Eom
<1> DEFINE sk == M!Skipped(start, section)
           Good(j) == sk[j] \in Nat /\ sk[j] <= M!Eom
           Bad == {j \in Nat : j < n /\ ~Good(n - 1 - j)}
<1>0. \A j \in Nat : sk[j] \in Nat \union {M!Fail}
  BY SkippedType
<1>1. \A j \in Nat : sk[j + 1] = M!SkipOne(section, sk[j])
  BY SkippedProp
<1>2. M!Fail = -1
  BY DEF M!Fail
<1> HIDE DEF sk
<1>3. \A j \in Nat : sk[j + 1] # M!Fail => Good(j)
  BY <1>0, <1>1, SkipOneProp
<1>4. Bad = {}
  <2>1. SUFFICES ASSUME Bad # {} PROVE FALSE
    OBVIOUS
  <2>2. PICK j \in Bad : \A m_1 \in Bad : ~(<<m_1, j>> \in Below)
    <3>1. Bad \subseteq Nat
      OBVIOUS
    <3> HIDE DEF Bad
    <3> QED BY <2>1, <3>1, Least
  <2> DEFINE p == n - 1 - j
  <2>3. j \in Nat /\ j < n /\ p \in Nat /\ ~Good(p)
    BY <2>2
  <2>4. CASE j = 0
    <3>1. p + 1 = n
      BY <2>4
    <3>2. sk[p + 1] # M!Fail
      BY <3>1 DEF sk
    <3> HIDE DEF Good, p
    <3> QED BY <1>3, <2>3, <3>2
  <2>5. CASE j # 0
    <3>1. j - 1 \in Nat /\ j - 1 < n /\ n - 1 - (j - 1) = p + 1 /\ <<j - 1, j>> \in Below
      BY <2>3, <2>5 DEF Below
    <3>2. Good(p + 1)
      <4>1. j - 1 \notin Bad
        BY <2>2, <3>1
      <4>2. Good(n - 1 - (j - 1))
        <5> HIDE DEF Good
        <5> QED BY <3>1, <4>1
      <4> QED BY <3>1, <4>2
    <3>3. sk[p + 1] # M!Fail
      BY <1>2, <3>2
    <3> HIDE DEF Good, p
    <3> QED BY <1>3, <2>3, <3>3
  <2> QED BY <2>4, <2>5
<1>5. n - 1 - k \in Nat /\ n - 1 - k < n /\ n - 1 - (n - 1 - k) = k
  OBVIOUS
<1>6. Good(k)
  <2> DEFINE j == n - 1 - k
  <2>1. j \in Nat /\ j < n /\ n - 1 - j = k
    BY <1>5
  <2> HIDE DEF j
  <2>2. Good(n - 1 - j)
    <3> HIDE DEF Good
    <3> QED BY <1>4, <2>1
  <2> QED BY <2>1, <2>2
<1> QED BY <1>6 DEF sk

\* Going on from a place is going on from the start.
LEMMA SkippedOn ==
    ASSUME Octets, NEW section \in M!Sections, NEW start \in Nat \union {M!Fail}, NEW k \in Nat, NEW n \in Nat
    PROVE  M!Skipped(M!Skipped(start, section)[k], section)[n] = M!Skipped(start, section)[k + n]
<1> DEFINE sk == M!Skipped(start, section)
           v == sk[k]
           on == M!Skipped(v, section)
           Bad == {j \in Nat : on[j] # sk[k + j]}
<1>0. v \in Nat \union {M!Fail}
  BY SkippedType
<1>1. \A j \in Nat : sk[j + 1] = M!SkipOne(section, sk[j])
  BY SkippedProp
<1> HIDE DEF sk
<1>2. on[0] = v /\ \A j \in Nat : on[j + 1] = M!SkipOne(section, on[j])
  <2> HIDE DEF v
  <2> QED BY <1>0, SkippedProp
<1> HIDE DEF on
<1>3. Bad = {}
  <2>1. SUFFICES ASSUME Bad # {} PROVE FALSE
    OBVIOUS
  <2>2. PICK j \in Bad : \A m_1 \in Bad : ~(<<m_1, j>> \in Below)
    <3>1. Bad \subseteq Nat
      OBVIOUS
    <3> HIDE DEF Bad
    <3> QED BY <2>1, <3>1, Least
  <2>3. CASE j = 0
    <3>1. k + 0 = k
      OBVIOUS
    <3> QED BY <1>2, <2>2, <2>3, <3>1
  <2>4. CASE j # 0
    <3>1. j - 1 \in Nat /\ j - 1 + 1 = j /\ <<j - 1, j>> \in Below /\ k + (j - 1) \in Nat /\ k + (j - 1) + 1 = k + j
      BY <2>2, <2>4 DEF Below
    <3>2. on[j - 1] = sk[k + (j - 1)]
      BY <2>2, <3>1
    <3>3. on[j - 1 + 1] = M!SkipOne(section, on[j - 1])
      BY <1>2, <3>1
    <3>4. sk[k + (j - 1) + 1] = M!SkipOne(section, sk[k + (j - 1)])
      BY <1>1, <3>1
    <3>5. on[j] = sk[k + j]
      BY <3>1, <3>2, <3>3, <3>4
    <3> QED BY <2>2, <3>5
  <2> QED BY <2>3, <2>4
<1>4. on[n] = sk[k + n]
  BY <1>3
<1> QED BY <1>4 DEF on, v, sk

\* The ends of k records are those of k - 1, each with one record behind it.
LEMMA EndsStep ==
    ASSUME Octets
    PROVE  /\ M!Ends[0] = {4}
           /\ \A k \in Nat : M!Ends[k + 1] =
                UNION {{e \in (d + 1)..M!Eom :
                            M!IsRecord(IF k + 1 <= M!Count(M!QD) THEN M!QD ELSE M!AN, M!Cells(d, e))}
                        : d \in M!Ends[k]}
<1> DEFINE D == SUBSET Int
           Behind(k, S) ==
               UNION {{e \in (d + 1)..M!Eom : M!IsRecord(IF k <= M!Count(M!QD) THEN M!QD ELSE M!AN, M!Cells(d, e))}
                       : d \in S}
           Body(g, k) == IF k = 0 THEN {4} ELSE Behind(k, g[k - 1])
           F == [x \in Nat \X D |-> Behind(x[1] + 1, x[2])]
           s == {4}
<1>1. M!Ends = CHOOSE g : g = [k \in Nat |-> Body(g, k)]
  BY DEF M!Ends
<1>2. \A k, S : Behind(k, S) \in D
  <2> SUFFICES ASSUME NEW k, NEW S, NEW e \in Behind(k, S) PROVE e \in Int
    OBVIOUS
  <2> QED OBVIOUS
<1> HIDE DEF Behind
<1>3. F \in [Nat \X D -> D] /\ \A n \in Nat, S \in D : F[<<n, S>>] = Behind(n + 1, S)
  BY <1>2
<1>4. PICK f \in [Nat -> D] : Follows(f, s, F)
  <2>1. s \in D
    OBVIOUS
  <2> HIDE DEF F, D, s
  <2> QED BY <1>3, <2>1, Recursion
<1>5. f[0] = s /\ \A n \in Nat : f[n + 1] = Behind(n + 1, f[n])
  <2> HIDE DEF F, s
  <2> QED BY <1>3, <1>4 DEF Follows
<1>6. f = [k \in Nat |-> Body(f, k)]
  <2>1. ASSUME NEW k \in Nat PROVE f[k] = Body(f, k)
    <3>1. CASE k = 0
      BY <1>5, <3>1
    <3>2. CASE k # 0
      <4>1. k - 1 \in Nat /\ k - 1 + 1 = k
        BY <3>2
      <4>2. f[k - 1 + 1] = Behind(k - 1 + 1, f[k - 1])
        BY <1>5, <4>1
      <4> QED BY <3>2, <4>1, <4>2
    <3> QED BY <3>1, <3>2
  <2> HIDE DEF Body
  <2> QED BY <1>4, <2>1
<1>7. M!Ends = [k \in Nat |-> Body(M!Ends, k)]
  <2> HIDE DEF Body
  <2> QED BY <1>1, <1>6
<1>8. M!Ends[0] = {4}
  BY <1>7
<1>9. ASSUME NEW k \in Nat PROVE M!Ends[k + 1] = Behind(k + 1, M!Ends[k])
  <2>1. k + 1 \in Nat /\ k + 1 # 0 /\ k + 1 - 1 = k
    OBVIOUS
  <2>2. M!Ends[k + 1] = Body(M!Ends, k + 1)
    <3> HIDE DEF Body
    <3> QED BY <1>7, <2>1
  <2> QED BY <2>1, <2>2
<1> QED BY <1>8, <1>9 DEF Behind

\* Where the records of a section begin, and where record r of it does.
Begin(section) ==
    IF section = M!QD THEN 4 ELSE M!Skipped(4, M!QD)[M!Count(M!QD)]

Place(section, r_1) == M!Skipped(Begin(section), section)[r_1]

\* Where record k of the message begins.
Record(k) ==
    IF k <= M!Count(M!QD) THEN Place(M!QD, k) ELSE Place(M!AN, k - M!Count(M!QD))

LEMMA PlaceProp ==
    ASSUME Octets, M!Eom >= 4
    PROVE  /\ \A s \in M!Sections : M!Count(s) \in Nat /\ Begin(s) \in Nat \union {M!Fail}
           /\ \A s \in M!Sections, n \in Nat : Place(s, n) \in Nat \union {M!Fail} /\ (Place(s, n) # M!Fail => Place(s, n) >= 4)
           /\ \A s \in M!Sections : Place(s, 0) = Begin(s)
           /\ \A s \in M!Sections, n \in Nat : Place(s, n + 1) = M!SkipOne(s, Place(s, n))
           /\ Place(M!QD, M!Count(M!QD)) = Place(M!AN, 0)
<1>1. msg \in Seq(Nat) /\ Len(msg) >= 4 /\ M!Sections = {0, 1} /\ M!QD = 0 /\ M!AN = 1 /\ M!Fail = -1
  BY DEF Octets, M!Eom, M!Sections, M!QD, M!AN, M!Fail
<1>2. \A s \in M!Sections : M!Count(s) \in Nat
  BY <1>1 DEF M!Count
<1>3. 4 \in Nat \union {M!Fail} /\ 4 # M!Fail
  BY <1>1
<1>4. \A n \in Nat : M!Skipped(4, M!QD)[n] \in Nat \union {M!Fail}
                     /\ (M!Skipped(4, M!QD)[n] # M!Fail => M!Skipped(4, M!QD)[n] >= 4)
  BY <1>1, <1>3, SkippedType
<1>5. \A s \in M!Sections : Begin(s) \in Nat \union {M!Fail} /\ (Begin(s) # M!Fail => Begin(s) >= 4)
  BY <1>1, <1>2, <1>3, <1>4 DEF Begin
<1>6. ASSUME NEW s \in M!Sections
      PROVE  /\ Place(s, 0) = Begin(s)
             /\ \A n \in Nat : /\ Place(s, n + 1) = M!SkipOne(s, Place(s, n))
                               /\ Place(s, n) \in Nat \union {M!Fail} /\ (Place(s, n) # M!Fail => Place(s, n) >= 4)
  <2> DEFINE b == Begin(s)
  <2>1. b \in Nat \union {M!Fail} /\ (b # M!Fail => b >= 4)
    BY <1>5
  <2> HIDE DEF b
  <2>2. M!Skipped(b, s)[0] = b /\ \A n \in Nat : M!Skipped(b, s)[n + 1] = M!SkipOne(s, M!Skipped(b, s)[n])
    BY <2>1, SkippedProp
  <2>3. \A n \in Nat : M!Skipped(b, s)[n] \in Nat \union {M!Fail}
                       /\ (M!Skipped(b, s)[n] # M!Fail => b # M!Fail /\ M!Skipped(b, s)[n] >= b)
    BY <2>1, SkippedType
  <2>4. \A n \in Nat : M!Skipped(b, s)[n] # M!Fail => M!Skipped(b, s)[n] >= 4
    BY <1>1, <2>1, <2>3
  <2> QED BY <2>2, <2>3, <2>4 DEF Place, b
<1>7. Place(M!QD, M!Count(M!QD)) = Place(M!AN, 0)
  <2>1. Place(M!AN, 0) = Begin(M!AN)
    BY <1>1, <1>6
  <2> QED BY <1>1, <2>1 DEF Place, Begin
<1> QED BY <1>2, <1>5, <1>6, <1>7

\* The walk over the records meets the only place where k records can end.
LEMMA EndsProp ==
    ASSUME Octets, M!Eom >= 4, NEW k \in Nat
    PROVE  \A e : e \in M!Ends[k] <=> e \in 4..M!Eom /\ e = Record(k)
<1> DEFINE Good(j) == \A e : e \in M!Ends[j] <=> e \in 4..M!Eom /\ e = Record(j)
           Sec(j) == IF j <= M!Count(M!QD) THEN M!QD ELSE M!AN
           Bad == {j \in Nat : ~Good(j)}
<1>0. M!Fail = -1 /\ M!Eom \in Nat /\ M!Count(M!QD) \in Nat /\ M!QD \in M!Sections /\ M!AN \in M!Sections /\ M!QD # M!AN
  <2>1. M!Fail = -1 /\ M!QD \in M!Sections /\ M!AN \in M!Sections /\ M!QD # M!AN
    BY DEF M!Sections, M!QD, M!AN, M!Fail
  <2>2. M!Eom \in Nat
    BY DEF M!Eom, Octets
  <2> QED BY <2>1, <2>2, PlaceProp
<1>1. \A j \in Nat : Record(j) \in Nat \union {M!Fail} /\ (Record(j) # M!Fail => Record(j) >= 4)
  <2> TAKE j \in Nat
  <2>1. CASE j <= M!Count(M!QD)
    BY <1>0, <2>1, PlaceProp DEF Record
  <2>2. CASE ~(j <= M!Count(M!QD))
    <3>1. j - M!Count(M!QD) \in Nat
      BY <1>0, <2>2
    <3> QED BY <1>0, <2>2, <3>1, PlaceProp DEF Record
  <2> QED BY <2>1, <2>2
<1>2. Record(0) = 4
  <2>1. 0 <= M!Count(M!QD)
    BY <1>0
  <2>2. Place(M!QD, 0) = Begin(M!QD)
    BY <1>0, PlaceProp
  <2> QED BY <2>1, <2>2 DEF Record, Begin
<1>3. ASSUME NEW j \in Nat PROVE Record(j + 1) = M!SkipOne(Sec(j + 1), Record(j))
  <2> DEFINE n == M!Count(M!QD)
  <2>0. n \in Nat
    BY <1>0
  <2>1. CASE j + 1 <= n
    <3>1. j <= n
      BY <2>0, <2>1
    <3> QED BY <1>0, <2>1, <3>1, PlaceProp DEF Record
  <2>2. CASE ~(j + 1 <= n)
    <3>1. j - n \in Nat /\ (j + 1) - n = (j - n) + 1
      BY <2>0, <2>2
    <3>2. Record(j) = Place(M!AN, j - n)
      <4>1. CASE j <= n
        <5>1. j = n /\ j - n = 0
          BY <2>0, <2>2, <4>1
        <5> QED BY <4>1, <5>1, PlaceProp DEF Record
      <4>2. CASE ~(j <= n)
        BY <4>2 DEF Record
      <4> QED BY <4>1, <4>2
    <3>3. Record(j + 1) = Place(M!AN, (j - n) + 1)
      BY <2>2, <3>1 DEF Record
    <3>4. Place(M!AN, (j - n) + 1) = M!SkipOne(M!AN, Place(M!AN, j - n))
      BY <1>0, <3>1, PlaceProp
    <3> QED BY <2>2, <3>2, <3>3, <3>4
  <2> QED BY <2>1, <2>2
<1>4. SUFFICES ASSUME Bad # {} PROVE FALSE
  OBVIOUS
<1>5. PICK j \in Bad : \A m_1 \in Bad : ~(<<m_1, j>> \in Below)
  <2>1. Bad \subseteq Nat
    OBVIOUS
  <2> HIDE DEF Bad
  <2> QED BY <1>4, <2>1, Least
<1>6. CASE j = 0
  <2>1. M!Ends[0] = {4}
    BY EndsStep
  <2> QED BY <1>0, <1>2, <1>5, <1>6, <2>1
<1>7. CASE j # 0
  <2> DEFINE i_1 == j - 1
             p == Record(i_1)
  <2>1. i_1 \in Nat /\ i_1 + 1 = j /\ <<i_1, j>> \in Below
    BY <1>5, <1>7 DEF Below
  <2>2. Good(i_1)
    BY <1>5, <2>1
  <2> HIDE DEF i_1
  <2> DEFINE sec == Sec(i_1 + 1)
  <2>3. M!Ends[i_1 + 1] = UNION {{e \in (d + 1)..M!Eom : M!IsRecord(sec, M!Cells(d, e))} : d \in M!Ends[i_1]}
    BY <2>1, EndsStep
  <2>4. Record(i_1 + 1) = M!SkipOne(sec, p) /\ sec \in M!Sections
    BY <1>0, <1>3, <2>1
  <2>5. p \in Nat \union {M!Fail} /\ (p # M!Fail => p >= 4)
    BY <1>1, <2>1
  <2>6. M!SkipOne(sec, p) # M!Fail => p \in Nat /\ p <= M!Eom /\ M!SkipOne(sec, p) > p
    BY <2>4, <2>5, SkipOneProp
  <2> HIDE DEF sec, Good, p
  <2>7. \A e : e \in M!Ends[i_1] <=> e \in 4..M!Eom /\ e = p
    BY <2>2 DEF Good, p
  <2>8. ASSUME NEW e PROVE e \in M!Ends[i_1 + 1] <=> e \in 4..M!Eom /\ e = Record(i_1 + 1)
    <3>1. CASE p \in 4..M!Eom
      <4>1. e \in M!Ends[i_1 + 1] <=> e \in (p + 1)..M!Eom /\ M!IsRecord(sec, M!Cells(p, e))
        BY <2>3, <2>7, <3>1
      <4>2. e \in (p + 1)..M!Eom => (M!IsRecord(sec, M!Cells(p, e)) <=> M!SkipOne(sec, p) = e)
        <5>1. SUFFICES ASSUME e \in (p + 1)..M!Eom
                       PROVE  M!IsRecord(sec, M!Cells(p, e)) <=> M!SkipOne(sec, p) = e
          OBVIOUS
        <5>2. p \in Nat /\ p >= 4 /\ e \in Nat /\ p < e /\ e <= M!Eom
          BY <1>0, <3>1, <5>1
        <5> QED BY <2>4, <5>2, RecordProp
      <4>3. e \in 4..M!Eom /\ e = M!SkipOne(sec, p) => e \in (p + 1)..M!Eom
        BY <1>0, <2>6, <3>1
      <4>4. e \in (p + 1)..M!Eom => e \in 4..M!Eom
        BY <1>0, <3>1
      <4> QED BY <2>4, <4>1, <4>2, <4>3, <4>4
    <3>2. CASE p \notin 4..M!Eom
      <4>1. M!Ends[i_1] = {}
        BY <2>7, <3>2
      <4>2. M!Ends[i_1 + 1] = {}
        BY <2>3, <4>1
      <4>3. M!SkipOne(sec, p) = M!Fail
        BY <1>0, <2>5, <2>6, <3>2
      <4> QED BY <1>0, <2>4, <4>2, <4>3
    <3> QED BY <3>1, <3>2
  <2>9. Good(i_1 + 1)
    BY <2>8 DEF Good
  <2> QED BY <1>5, <2>1, <2>9
<1> QED BY <1>6, <1>7

-----------------------------------------------------------------------------
(***************************************************************************)
(* The handle                                                               *)
(***************************************************************************)

\* The message is cut into as many records as it announces.
Whole == M!Eom >= 4 /\ Record(M!Count(M!QD) + M!Count(M!AN)) = M!Eom

Counted == [s \in M!Sections |-> M!Count(s)]
Begins == [s \in M!Sections |-> IF M!Count(s) = 0 THEN M!Null ELSE Begin(s)]

Handles == [counts : {Counted}, sections : {Begins}, sect : 0..2, rrnum : Int, ptr : Int]

\* The pointer is where the record with its number begins.
HandleAt(h) ==
    /\ h \in Handles
    /\ h.sect \in M!Sections =>
        /\ h.rrnum \in 0..M!Count(h.sect)
        /\ M!Count(h.sect) > 0 => h.ptr = Place(h.sect, h.rrnum)

\* The last call went over the record it names.
CallAt(c) ==
    c # M!NoCall =>
        /\ c.section \in M!Sections /\ c.rrnum \in 0..(M!Count(c.section) - 1)
        /\ c.from = Place(c.section, c.rrnum)
        /\ c.to = Place(c.section, c.rrnum + 1)

HandleInv == HandleAt(handle)
CallInv == CallAt(last)

MessageInv ==
    /\ Octets
    /\ status \in {"new", "parsed", "refused"}
    /\ status # "parsed" => last = M!NoCall
    /\ status = "new" =>
        handle = [counts |-> <<>>, sections |-> <<>>, sect |-> M!S_MAX, rrnum |-> M!Null, ptr |-> M!Null]
    /\ status = "refused" => ~Whole
    /\ status = "parsed" => Whole /\ HandleInv /\ CallInv

LEMMA Codes == M!Sections = {0, 1} /\ M!QD = 0 /\ M!AN = 1 /\ M!S_MAX = 2 /\ M!Fail = -1 /\ M!Null = -1
  BY DEF M!Sections, M!QD, M!AN, M!S_MAX, M!Fail, M!Null

\* All of this is about the message, which no step changes.
LEMMA MessageStays ==
    ASSUME msg' = msg
    PROVE  /\ Octets' <=> Octets
           /\ Whole' <=> Whole
           /\ \A s, n : Place(s, n)' = Place(s, n)
           /\ \A s : M!Count(s)' = M!Count(s)
           /\ Handles' = Handles
<1>1. M!Eom' = M!Eom
  BY DEF M!Eom
<1>2. \A p : M!Cell(p)' = M!Cell(p)
  BY DEF M!Cell
<1>3. Octets' <=> Octets
  BY <1>2 DEF Octets
<1>4. (M!Walk)' = M!Walk
  BY DEF M!Walk, M!Eom, M!Cell, M!LabelLen, M!Fail, M!Bitstring
<1>5. ASSUME NEW s, NEW n PROVE M!Skipped(s, n)' = M!Skipped(s, n)
  BY <1>4 DEF M!Skipped, M!Eom, M!Cell, M!NameSkip, M!SkipOne, M!FixedFields, M!QD, M!Fail
<1>6. \A s : M!Count(s)' = M!Count(s)
  BY DEF M!Count
<1>7. \A s : Begin(s)' = Begin(s)
  <2>1. M!Skipped(4, M!QD)' = M!Skipped(4, M!QD)
    BY <1>5
  <2>2. M!Count(M!QD)' = M!Count(M!QD) /\ M!QD' = M!QD
    BY DEF M!Count, M!QD
  <2> QED BY <2>1, <2>2 DEF Begin
<1>8. ASSUME NEW s, NEW n PROVE Place(s, n)' = Place(s, n)
  <2>1. Begin(s)' = Begin(s)
    BY <1>7, Zenon
  <2>2. M!Skipped(Begin(s), s)' = M!Skipped(Begin(s), s)
    BY <1>4, <2>1 DEF M!Skipped, M!Eom, M!Cell, M!NameSkip, M!SkipOne, M!FixedFields, M!QD, M!Fail
  <2> QED BY <2>2 DEF Place
<1>9. \A k : Record(k)' = Record(k)
  <2> TAKE k
  <2>1. M!Count(M!QD)' = M!Count(M!QD) /\ M!QD' = M!QD /\ M!AN' = M!AN
    BY DEF M!Count, M!QD, M!AN
  <2>2. Place(M!QD, k)' = Place(M!QD, k) /\ Place(M!AN, k - M!Count(M!QD))' = Place(M!AN, k - M!Count(M!QD))
    BY <1>8, <2>1
  <2> QED BY <2>1, <2>2 DEF Record
<1>10. Whole' <=> Whole
  <2> DEFINE k == M!Count(M!QD) + M!Count(M!AN)
  <2>1. k' = k
    BY DEF M!Count, M!QD, M!AN
  <2>2. Record(k)' = Record(k)
    BY <1>9, <2>1 DEF Record
  <2> QED BY <1>1, <2>2 DEF Whole
<1>11. Handles' = Handles
  <2>1. Counted' = Counted
    BY <1>6 DEF Counted, M!Sections, M!QD, M!AN
  <2>2. Begins' = Begins
    BY <1>6, <1>7 DEF Begins, M!Sections, M!QD, M!AN, M!Null
  <2> QED BY <2>1, <2>2 DEF Handles
<1> QED BY <1>3, <1>6, <1>8, <1>10, <1>11

\* Every record that a whole message announces begins and ends in it.
LEMMA WholeProp ==
    ASSUME Octets, Whole, NEW s \in M!Sections, NEW n \in 0..M!Count(s)
    PROVE  Place(s, n) \in 4..M!Eom
<1> DEFINE q == M!Count(M!QD)
           a == M!Count(M!AN)
<1>0. q \in Nat /\ a \in Nat /\ M!Eom \in Nat /\ M!Eom >= 4 /\ M!Sections = {M!QD, M!AN} /\ M!Fail = -1
  BY PlaceProp, Codes DEF Whole, M!Eom, Octets
<1>1. \A t \in M!Sections, m_1 \in Nat : Place(t, m_1) \in Nat \union {M!Fail} /\ (Place(t, m_1) # M!Fail => Place(t, m_1) >= 4)
  BY <1>0, PlaceProp
<1>2. Place(M!QD, q) = Place(M!AN, 0)
  BY <1>0, PlaceProp
<1>3. ASSUME NEW t \in M!Sections, NEW j \in Nat, Place(t, j) \in 4..M!Eom, NEW m_1 \in 0..j
      PROVE  Place(t, m_1) \in 4..M!Eom
  <2>1. CASE m_1 = j
    BY <1>3, <2>1
  <2>2. CASE m_1 # j
    <3> DEFINE b == Begin(t)
    <3>1. b \in Nat \union {M!Fail} /\ m_1 \in Nat /\ m_1 < j
      BY <1>0, <2>2, PlaceProp
    <3>2. M!Skipped(b, t)[j] # M!Fail
      BY <1>0, <1>3 DEF Place
    <3> HIDE DEF b
    <3>3. M!Skipped(b, t)[m_1] \in Nat /\ M!Skipped(b, t)[m_1] <= M!Eom
      BY <3>1, <3>2, SkippedBefore
    <3>4. Place(t, m_1) \in Nat /\ Place(t, m_1) <= M!Eom
      BY <3>3 DEF Place, b
    <3>5. Place(t, m_1) >= 4
      BY <1>0, <1>1, <3>1, <3>4
    <3> QED BY <1>0, <3>4, <3>5
  <2> QED BY <2>1, <2>2
<1>4. Place(M!AN, a) \in 4..M!Eom
  <2>1. Record(q + a) = M!Eom
    BY DEF Whole
  <2>2. CASE a = 0
    <3> DEFINE k == q + a
    <3>1. k = M!Count(M!QD) /\ k <= M!Count(M!QD)
      BY <1>0, <2>2
    <3> HIDE DEF k
    <3>2. Record(k) = Place(M!QD, k)
      BY <3>1 DEF Record
    <3>3. Place(M!QD, k) = M!Eom
      BY <2>1, <3>2 DEF k
    <3> QED BY <1>0, <1>2, <2>2, <3>1, <3>3
  <2>3. CASE a # 0
    <3> DEFINE k == q + a
    <3>1. k - M!Count(M!QD) = a /\ ~(k <= M!Count(M!QD))
      BY <1>0, <2>3
    <3> HIDE DEF k, a
    <3>2. Record(k) = Place(M!AN, a)
      BY <3>1 DEF Record
    <3>3. Place(M!AN, a) = M!Eom
      BY <2>1, <3>2 DEF k
    <3> QED BY <1>0, <3>3
  <2> QED BY <2>2, <2>3
<1>5. Place(M!AN, 0) \in 4..M!Eom
  <2>1. 0 \in 0..a
    BY <1>0
  <2> HIDE DEF a
  <2> QED BY <1>0, <1>3, <1>4, <2>1
<1>6. CASE s = M!AN
  BY <1>0, <1>3, <1>4, <1>6
<1>7. CASE s = M!QD
  BY <1>0, <1>2, <1>3, <1>5, <1>7
<1> QED BY <1>0, <1>6, <1>7

\* The places of the records in their sections are those in the message.
LEMMA RecordPlace ==
    ASSUME Octets, M!Eom >= 4, NEW s \in M!Sections, NEW n \in 0..M!Count(s)
    PROVE  Record(n + (IF s = M!QD THEN 0 ELSE M!Count(M!QD))) = Place(s, n)
<1> DEFINE q == M!Count(M!QD)
<1>0. q \in Nat /\ M!Sections = {M!QD, M!AN} /\ M!QD # M!AN /\ n \in Int
  BY PlaceProp, Codes
<1>1. CASE s = M!QD
  <2>1. n + 0 = n /\ n <= q
    BY <1>0, <1>1
  <2> QED BY <1>1, <2>1 DEF Record
<1>2. CASE s = M!AN /\ n = 0
  <2>1. 0 + q = q /\ q <= q
    BY <1>0
  <2>2. Record(q) = Place(M!AN, 0)
    BY <2>1, PlaceProp DEF Record
  <2> QED BY <1>0, <1>2, <2>1, <2>2
<1>3. CASE s = M!AN /\ n # 0
  <2> DEFINE k == n + q
  <2>1. ~(k <= M!Count(M!QD)) /\ k - M!Count(M!QD) = n
    <3>1. n > 0
      BY <1>0, <1>3, PlaceProp
    <3> QED BY <1>0, <3>1
  <2> HIDE DEF k
  <2>2. Record(k) = Place(M!AN, n)
    BY <2>1 DEF Record
  <2> QED BY <1>0, <1>3, <2>2 DEF k
<1> QED BY <1>0, <1>1, <1>2, <1>3

\* initparse takes the whole messages.
LEMMA InitParseProp ==
    ASSUME Octets, M!InitParse
    PROVE  /\ status = "new" /\ msg' = msg /\ last' = last
           /\ \/ /\ Whole /\ status' = "parsed"
                 /\ handle' = M!SetSection([handle EXCEPT !.counts = Counted, !.sections = Begins], M!S_MAX)
              \/ ~Whole /\ status' = "refused" /\ handle' = handle
<1> DEFINE counts == [s \in M!Sections |-> M!Cell(2 + s)]
           qdEnd == M!SkipRr(4, M!QD, counts[M!QD])
           anEnd == IF qdEnd = M!Fail THEN M!Fail ELSE M!SkipRr(qdEnd, M!AN, counts[M!AN])
           whole == M!Eom >= 4 /\ anEnd = M!Eom
           begin == [s \in M!Sections |-> IF counts[s] = 0 THEN M!Null ELSE IF s = M!QD THEN 4 ELSE qdEnd]
           q == M!Count(M!QD)
           a == M!Count(M!AN)
<1>1. /\ status = "new" /\ msg' = msg /\ last' = last
      /\ \/ whole /\ status' = "parsed"
            /\ handle' = M!SetSection([handle EXCEPT !.counts = counts, !.sections = begin], M!S_MAX)
         \/ ~whole /\ status' = "refused" /\ handle' = handle
  BY DEF M!InitParse
<1>2. M!Sections = {M!QD, M!AN} /\ M!QD = 0 /\ M!AN = 1 /\ M!Fail = -1
  BY Codes
<1>3. counts = Counted
  <2>1. \A s \in M!Sections : M!Cell(2 + s) = M!Count(s)
    <3>1. \A s \in M!Sections : 2 + s + 1 = 3 + s
      BY <1>2
    <3> QED BY <3>1 DEF M!Cell, M!Count
  <2> QED BY <2>1 DEF Counted
<1>4. counts[M!QD] = q /\ counts[M!AN] = a
  <2> HIDE DEF counts
  <2> QED BY <1>2, <1>3 DEF Counted
<1> HIDE DEF counts
<1>5. ASSUME M!Eom >= 4 PROVE (whole <=> Whole) /\ (Whole => qdEnd = Begin(M!AN))
  <2>0. M!Eom \in Nat /\ q \in Nat /\ a \in Nat
    BY <1>2, <1>5, PlaceProp DEF M!Eom, Octets
  <2> DEFINE v == Place(M!QD, q)
  <2>1. qdEnd = IF v > M!Eom THEN M!Fail ELSE v
    <3>1. M!Skipped(4, M!QD)[q] = v
      BY DEF Place, Begin
    <3> QED BY <1>4, <3>1 DEF M!SkipRr
  <2>2. v = Begin(M!AN)
    BY <1>2 DEF Place, Begin
  <2>3. v = Place(M!AN, 0) /\ v \in Nat \union {M!Fail}
    BY <1>2, <1>5, <2>0, PlaceProp
  <2>4. Record(q + a) = Place(M!AN, a)
    <3>1. a \in 0..a /\ M!QD # M!AN
      BY <1>2, <2>0
    <3>2. Record(a + (IF M!AN = M!QD THEN 0 ELSE q)) = Place(M!AN, a)
      BY <1>2, <1>5, <3>1, RecordPlace
    <3>3. a + q = q + a
      BY <2>0
    <3> QED BY <3>1, <3>2, <3>3
  <2>5. Whole <=> Place(M!AN, a) = M!Eom
    BY <1>5, <2>4 DEF Whole
  <2>6. Whole => v <= M!Eom /\ v # M!Fail
    <3>1. SUFFICES ASSUME Whole PROVE v \in 4..M!Eom
      BY <1>2, <2>0, <2>3
    <3>2. q \in 0..M!Count(M!QD)
      BY <2>0
    <3> QED BY <1>2, <3>1, <3>2, WholeProp
  <2> HIDE DEF v, qdEnd
  <2>7. ASSUME v <= M!Eom, v # M!Fail
        PROVE  anEnd = IF Place(M!AN, a) > M!Eom THEN M!Fail ELSE Place(M!AN, a)
    <3>1. qdEnd = v /\ qdEnd # M!Fail
      BY <1>2, <2>0, <2>1, <2>3, <2>7
    <3>2. M!Skipped(v, M!AN)[a] = Place(M!AN, a)
      BY <2>2 DEF Place
    <3> QED BY <1>4, <3>1, <3>2 DEF M!SkipRr
  <2>8. ASSUME ~(v <= M!Eom /\ v # M!Fail) PROVE anEnd = M!Fail
    BY <1>2, <2>0, <2>1, <2>3, <2>8
  <2>9. Place(M!AN, a) \in Nat \union {M!Fail}
    BY <1>2, <1>5, <2>0, PlaceProp
  <2>10. whole <=> Whole
    <3> HIDE DEF anEnd
    <3>1. CASE v <= M!Eom /\ v # M!Fail
      BY <1>2, <1>5, <2>0, <2>5, <2>7, <2>9, <3>1
    <3>2. CASE ~(v <= M!Eom /\ v # M!Fail)
      BY <1>2, <2>0, <2>6, <2>8, <3>2
    <3> QED BY <3>1, <3>2
  <2>11. Whole => qdEnd = Begin(M!AN)
    BY <1>2, <2>0, <2>1, <2>2, <2>3, <2>6
  <2> QED BY <2>10, <2>11
<1>6. whole <=> Whole
  BY <1>5 DEF Whole
<1>7. Whole => begin = Begins
  <2>1. SUFFICES ASSUME Whole PROVE begin = Begins
    OBVIOUS
  <2>2. qdEnd = Begin(M!AN) /\ 4 = Begin(M!QD)
    BY <1>5, <2>1 DEF Whole, Begin
  <2> HIDE DEF qdEnd
  <2>3. \A s \in M!Sections : counts[s] = M!Count(s)
    BY <1>3 DEF Counted
  <2> QED BY <1>2, <2>2, <2>3 DEF Begins
<1> HIDE DEF whole, begin
<1> QED BY <1>1, <1>3, <1>6, <1>7

LEMMA Joined ==
    ASSUME NEW h_1 \in Seq(Nat), NEW h_2 \in Seq(Nat)
    PROVE  /\ h_1 \o h_2 \in Seq(Nat) /\ Len(h_1 \o h_2) = Len(h_1) + Len(h_2)
           /\ \A k \in 1..(Len(h_1) + Len(h_2)) :
                (h_1 \o h_2)[k] = IF k <= Len(h_1) THEN h_1[k] ELSE h_2[k - Len(h_1)]
  OBVIOUS

LEMMA Start ==
    ASSUME NEW h_1 \in Seq(Nat), NEW n \in 1..Len(h_1)
    PROVE  SubSeq(h_1, 1, n) \in Seq(Nat) /\ Len(SubSeq(h_1, 1, n)) = n
<1>1. \A k \in 1..n : h_1[k] \in Nat
  OBVIOUS
<1>2. n \in Nat /\ 1 <= n /\ n <= Len(h_1)
  OBVIOUS
<1>3. Len(SubSeq(h_1, 1, n)) = n
  BY <1>2
<1>4. SubSeq(h_1, 1, n) \in Seq(Nat)
  BY <1>1, <1>2
<1> QED BY <1>3, <1>4

LEMMA OctetsInit == M!Init => Octets
<1>1. ASSUME NEW q \in 0..MaxRecords, NEW n \in 0..MaxBody, NEW a \in 0..(MaxRecords - q), NEW b \in M!Body(n),
             msg = M!Header(q, a) \o b
      PROVE  Octets
  <2>1. q \in Nat /\ a \in Nat /\ n \in Nat
    BY CellAssumption
  <2>2. b \in [1..n -> 0..255]
    BY CellAssumption DEF M!Body
  <2> DEFINE h == M!Header(q, a)
  <2>3. h \in Seq(Nat) /\ Len(h) = 4
    BY <2>1 DEF M!Header
  <2>4. b \in Seq(Nat) /\ Len(b) = n /\ \A j \in 1..n : b[j] \in 0..255
    <3>1. \A j \in 1..n : b[j] \in 0..255
      BY <2>2
    <3>2. \A j \in 1..n : b[j] \in Nat
      BY <3>1
    <3>3. b \in [1..n -> Nat]
      BY <2>2, <3>2
    <3> QED BY <2>1, <3>1, <3>3
  <2>5. msg = h \o b
    BY <1>1
  <2> HIDE DEF h
  <2>6. /\ msg \in Seq(Nat) /\ Len(msg) = 4 + n
        /\ \A k \in 1..(4 + n) : msg[k] = IF k <= 4 THEN h[k] ELSE b[k - 4]
    <3>1. /\ h \o b \in Seq(Nat) /\ Len(h \o b) = Len(h) + Len(b)
          /\ \A k \in 1..(Len(h) + Len(b)) : (h \o b)[k] = IF k <= Len(h) THEN h[k] ELSE b[k - Len(h)]
      BY <2>3, <2>4, Joined
    <3> QED BY <2>1, <2>3, <2>4, <2>5, <3>1
  <2>7. ASSUME NEW p \in 4..(Len(msg) - 1) PROVE M!Cell(p) \in 0..255
    <3> DEFINE k == p + 1
    <3>1. k \in 1..(4 + n) /\ ~(k <= 4) /\ k - 4 \in 1..n
      BY <2>1, <2>6
    <3> HIDE DEF k
    <3>2. msg[k] \in 0..255
      BY <2>4, <2>6, <3>1
    <3> QED BY <3>2 DEF k, M!Cell
  <2> QED BY <2>6, <2>7 DEF Octets
<1>2. ASSUME NEW n \in 0..3, msg = SubSeq(M!Header(1, 1), 1, n) PROVE Octets
  <2> DEFINE h == M!Header(1, 1)
  <2>1. h \in Seq(Nat) /\ Len(h) = 4
    BY DEF M!Header
  <2>2. msg = SubSeq(h, 1, n)
    BY <1>2
  <2> HIDE DEF h
  <2>3. msg \in Seq(Nat) /\ Len(msg) <= 3
    <3>1. CASE n = 0
      BY <2>1, <2>2, <3>1
    <3>2. CASE n # 0
      <4>1. n \in 1..Len(h) /\ n - 1 + 1 = n
        BY <2>1, <3>2
      <4>2. SubSeq(h, 1, n) \in Seq(Nat) /\ Len(SubSeq(h, 1, n)) = n
        BY <2>1, <4>1, Start
      <4> QED BY <2>2, <4>2
    <3> QED BY <3>1, <3>2
  <2>4. 4..(Len(msg) - 1) = {}
    BY <2>3
  <2> QED BY <2>3, <2>4 DEF Octets
<1>3. M!Init => \/ \E q \in 0..MaxRecords, n \in 0..MaxBody :
                      \E a \in 0..(MaxRecords - q), b \in M!Body(n) : msg = M!Header(q, a) \o b
                \/ \E n \in 0..3 : msg = SubSeq(M!Header(1, 1), 1, n)
  BY DEF M!Init
<1> QED BY <1>1, <1>2, <1>3

LEMMA MessageInit == M!Init => MessageInv
<1> SUFFICES ASSUME M!Init PROVE MessageInv
  OBVIOUS
<1>1. Octets
  BY OctetsInit
<1>2. status = "new" /\ last = M!NoCall
      /\ handle = [counts |-> <<>>, sections |-> <<>>, sect |-> M!S_MAX, rrnum |-> M!Null, ptr |-> M!Null]
  BY DEF M!Init
<1> QED BY <1>1, <1>2 DEF MessageInv

\* setsection
LEMMA SetSectionProp ==
    ASSUME Octets, Whole, HandleInv, NEW s \in M!Sections
    PROVE  LET h == M!SetSection(handle, s) IN
           /\ h \in Handles /\ h.sect = s /\ h.rrnum = 0
           /\ M!Count(s) > 0 => h.ptr = Place(s, 0)
<1> DEFINE h == M!SetSection(handle, s)
<1>1. M!Sections = {0, 1} /\ M!S_MAX = 2 /\ M!Null = -1
  BY Codes
<1>2. /\ handle \in [counts : {Counted}, sections : {Begins}, sect : 0..2, rrnum : Int, ptr : Int]
      /\ handle.sections = Begins
  BY DEF HandleInv, HandleAt, Handles
<1>3. h = [handle EXCEPT !.sect = s, !.rrnum = 0, !.ptr = Begins[s]]
  <2>1. s # M!S_MAX
    BY <1>1
  <2> QED BY <1>2, <2>1 DEF M!SetSection
<1>4. M!Count(s) \in Nat /\ Place(s, 0) = Begin(s)
  BY PlaceProp DEF Whole
<1>5. Begins[s] = IF M!Count(s) = 0 THEN M!Null ELSE Place(s, 0)
  BY <1>4 DEF Begins
<1>6. Begins[s] \in Int
  <2>1. M!Count(s) # 0 => Place(s, 0) \in 4..M!Eom
    <3>1. 0 \in 0..M!Count(s)
      BY <1>4
    <3> QED BY <3>1, WholeProp
  <2> QED BY <1>1, <1>5, <2>1
<1> HIDE DEF h
<1>7. h \in Handles /\ h.sect = s /\ h.rrnum = 0 /\ h.ptr = Begins[s]
  <2> DEFINE p == Begins[s]
  <2>1. handle \in Handles /\ s \in 0..2 /\ 0 \in Int /\ p \in Int /\ h = [handle EXCEPT !.sect = s, !.rrnum = 0, !.ptr = p]
    BY <1>1, <1>3, <1>6 DEF HandleInv, HandleAt
  <2> HIDE DEF p
  <2>2. h \in Handles /\ h.sect = s /\ h.rrnum = 0 /\ h.ptr = p
    BY <2>1 DEF Handles
  <2> QED BY <2>2 DEF p
<1>8. M!Count(s) > 0 => h.ptr = Place(s, 0)
  BY <1>4, <1>5, <1>7
<1> QED BY <1>7, <1>8 DEF h

\* parserr goes to the record it is asked for.
LEMMA AtRecordProp ==
    ASSUME Octets, Whole, HandleInv, status = "parsed",
           NEW s \in M!Sections, NEW n \in M!Null..MaxRecords, M!Asked(s, n)
    PROVE  LET h == M!AtRecord(s, n) IN
           /\ h \in Handles /\ h.sect = s /\ h.rrnum \in 0..(M!Count(s) - 1)
           /\ h.ptr = Place(s, h.rrnum)
<1> DEFINE h1 == IF s # handle.sect THEN M!SetSection(handle, s) ELSE handle
           k == IF n = M!Null THEN h1.rrnum ELSE n
           h2 == IF k < h1.rrnum THEN M!SetSection(h1, s) ELSE h1
           h == M!AtRecord(s, n)
<1>0. M!Sections = {0, 1} /\ M!Null = -1 /\ M!Count(s) \in Nat /\ n \in Int
  BY CellAssumption, Codes, PlaceProp DEF Whole
<1>1. handle \in Handles /\ handle.counts = Counted /\ Counted[s] = M!Count(s)
  BY DEF HandleInv, HandleAt, Handles, Counted
<1>2. h1 \in Handles /\ h1.sect = s /\ h1.rrnum \in 0..M!Count(s) /\ (M!Count(s) > 0 => h1.ptr = Place(s, h1.rrnum))
  <2>1. CASE s # handle.sect
    BY <1>0, <2>1, SetSectionProp
  <2>2. CASE s = handle.sect
    BY <1>1, <2>2 DEF HandleInv, HandleAt
  <2> QED BY <2>1, <2>2
<1>3. (s # handle.sect => h1.rrnum = 0) /\ (s = handle.sect => h1.rrnum = handle.rrnum)
  BY SetSectionProp
<1>4. k \in 0..(M!Count(s) - 1)
  <2>1. (IF n # M!Null THEN n ELSE IF s = handle.sect THEN handle.rrnum ELSE 0) \in 0..(M!Count(s) - 1)
    BY <1>1 DEF M!Asked
  <2> HIDE DEF h1
  <2> QED BY <1>3, <2>1
<1>5. M!Count(s) > 0
  <2> HIDE DEF k
  <2> QED BY <1>0, <1>4
<1> HIDE DEF h1
<1>6. h2 \in Handles /\ h2.sect = s /\ h2.rrnum \in 0..k /\ h2.ptr = Place(s, h2.rrnum)
  <2>1. CASE k < h1.rrnum
    <3>1. h1.sections = Begins /\ h1.counts = Counted
      BY <1>2 DEF Handles
    <3>2. Begins[s] = Place(s, 0) /\ Begins[s] \in Int
      <4>1. Place(s, 0) = Begin(s)
        BY PlaceProp DEF Whole
      <4>2. 0 \in 0..M!Count(s) /\ M!Count(s) # 0
        BY <1>0, <1>5
      <4>3. Place(s, 0) \in 4..M!Eom
        BY <4>2, WholeProp
      <4> QED BY <4>1, <4>2, <4>3 DEF Begins
    <3>3. h2 = [h1 EXCEPT !.sect = s, !.rrnum = 0, !.ptr = Begins[s]]
      <4>1. s # M!S_MAX
        BY <1>0, Codes
      <4> QED BY <2>1, <3>1, <4>1 DEF M!SetSection
    <3>4. h2 \in Handles /\ h2.sect = s /\ h2.rrnum = 0 /\ h2.ptr = Begins[s]
      <4> DEFINE p == Begins[s]
      <4> HIDE DEF h2
      <4>1. s \in 0..2 /\ 0 \in Int /\ p \in Int /\ h2 = [h1 EXCEPT !.sect = s, !.rrnum = 0, !.ptr = p]
        BY <1>0, <3>2, <3>3
      <4> HIDE DEF p
      <4>2. h2 \in Handles /\ h2.sect = s /\ h2.rrnum = 0 /\ h2.ptr = p
        BY <1>2, <4>1 DEF Handles
      <4> QED BY <4>2 DEF p
    <3> HIDE DEF h2, k
    <3> QED BY <1>0, <1>4, <3>2, <3>4
  <2>2. CASE ~(k < h1.rrnum)
    <3>1. h2 = h1
      BY <2>2
    <3> HIDE DEF h2, k
    <3> QED BY <1>0, <1>2, <1>4, <1>5, <2>2, <3>1
  <2> QED BY <2>1, <2>2
<1>7. h = [h2 EXCEPT !.rrnum = k, !.ptr = M!SkipRr(h2.ptr, s, k - h2.rrnum)]
  BY DEF M!AtRecord, h1
<1> HIDE DEF h2, k, h
<1>8. M!SkipRr(h2.ptr, s, k - h2.rrnum) = Place(s, k)
  <2> DEFINE b == Begin(s)
             i_1 == h2.rrnum
             j == k - i_1
  <2>1. i_1 \in Nat /\ j \in Nat /\ i_1 + j = k /\ k \in 0..M!Count(s)
    BY <1>0, <1>4, <1>6
  <2>2. b \in Nat \union {M!Fail}
    BY PlaceProp DEF Whole
  <2>3. h2.ptr = M!Skipped(b, s)[i_1]
    BY <1>6 DEF Place
  <2>4. Place(s, k) \in 4..M!Eom /\ Place(s, k) = M!Skipped(b, s)[k]
    BY <2>1, WholeProp DEF Place
  <2> HIDE DEF b, i_1, j
  <2>5. M!Skipped(M!Skipped(b, s)[i_1], s)[j] = M!Skipped(b, s)[i_1 + j]
    BY <2>1, <2>2, SkippedOn
  <2>6. M!Skipped(h2.ptr, s)[j] = Place(s, k)
    BY <2>1, <2>3, <2>4, <2>5
  <2>7. ~(Place(s, k) > M!Eom)
    <3>1. M!Eom \in Nat
      BY DEF M!Eom, Octets
    <3> QED BY <2>4, <3>1
  <2>8. M!SkipRr(h2.ptr, s, j) = Place(s, k)
    BY <2>6, <2>7 DEF M!SkipRr
  <2> QED BY <2>8 DEF j, i_1
<1>9. Place(s, k) \in Int
  <2>1. k \in 0..M!Count(s)
    BY <1>0, <1>4
  <2>2. Place(s, k) \in 4..M!Eom
    BY <2>1, WholeProp
  <2> QED BY <2>2
<1>10. h \in Handles /\ h.sect = s /\ h.rrnum = k /\ h.ptr = Place(s, k)
  <2> DEFINE p == Place(s, k)
  <2>0. h = [h2 EXCEPT !.rrnum = k, !.ptr = p]
    BY <1>7, <1>8
  <2>1. k \in Int /\ p \in Int
    BY <1>0, <1>4, <1>9
  <2> HIDE DEF p
  <2>2. h \in Handles /\ h.sect = s /\ h.rrnum = k /\ h.ptr = p
    <3>1. s \in 0..2
      BY <1>0
    <3> QED BY <1>6, <2>0, <2>1, <3>1 DEF Handles
  <2> QED BY <2>2 DEF p
<1> QED BY <1>4, <1>10 DEF h

\* What a step on a whole message has to keep.
LEMMA Kept ==
    ASSUME Octets, Whole, msg' = msg, status' = "parsed", NEW h, handle' = h, HandleAt(h),
           NEW c, last' = c, CallAt(c)
    PROVE  MessageInv'
<1>1. /\ Octets' /\ Whole' /\ Handles' = Handles
      /\ \A s, n : Place(s, n)' = Place(s, n)
      /\ \A s : M!Count(s)' = M!Count(s)
  BY MessageStays
<1>2. M!Sections' = M!Sections /\ M!NoCall' = M!NoCall
  BY DEF M!Sections, M!NoCall, M!QD, M!AN, M!S_MAX, M!Null
<1>3. HandleInv'
  BY <1>1, <1>2 DEF HandleAt, HandleInv
<1>4. CallInv'
  BY <1>1, <1>2 DEF CallAt, CallInv
<1> QED BY <1>1, <1>3, <1>4 DEF MessageInv

LEMMA InitParseStep == MessageInv /\ M!InitParse => MessageInv'
<1> SUFFICES ASSUME MessageInv, M!InitParse PROVE MessageInv'
  OBVIOUS
<1>1. Octets
  BY DEF MessageInv
<1>2. /\ status = "new" /\ msg' = msg /\ last' = last
      /\ \/ /\ Whole /\ status' = "parsed"
            /\ handle' = M!SetSection([handle EXCEPT !.counts = Counted, !.sections = Begins], M!S_MAX)
         \/ ~Whole /\ status' = "refused" /\ handle' = handle
  BY <1>1, InitParseProp
<1>3. last = M!NoCall
      /\ handle = [counts |-> <<>>, sections |-> <<>>, sect |-> M!S_MAX, rrnum |-> M!Null, ptr |-> M!Null]
  BY <1>2 DEF MessageInv
<1>4. CASE Whole /\ status' = "parsed"
           /\ handle' = M!SetSection([handle EXCEPT !.counts = Counted, !.sections = Begins], M!S_MAX)
  <2> DEFINE h == [counts |-> Counted, sections |-> Begins, sect |-> M!S_MAX, rrnum |-> M!Null, ptr |-> M!Null]
  <2>1. handle' = h
    BY <1>3, <1>4 DEF M!SetSection
  <2>2. HandleAt(h)
    <3>1. M!S_MAX \in 0..2 /\ M!Null \in Int /\ M!S_MAX \notin M!Sections
      BY Codes
    <3>2. h \in Handles /\ h.sect = M!S_MAX
      BY <3>1 DEF Handles
    <3> HIDE DEF h
    <3> QED BY <3>1, <3>2 DEF HandleAt
  <2>3. CallAt(last)
    BY <1>3 DEF CallAt
  <2> HIDE DEF h
  <2> QED BY <1>1, <1>2, <1>4, <2>1, <2>2, <2>3, Kept
<1>5. CASE ~Whole /\ status' = "refused" /\ handle' = handle
  <2>1. Octets' /\ (Whole' <=> Whole)
    BY <1>1, <1>2, MessageStays
  <2>2. last' = M!NoCall'
    BY <1>2, <1>3 DEF M!NoCall, M!S_MAX, M!Null
  <2> QED BY <1>5, <2>1, <2>2 DEF MessageInv
<1> QED BY <1>2, <1>4, <1>5

LEMMA ParseRrStep ==
    ASSUME NEW s \in M!Sections, NEW n \in M!Null..MaxRecords, MessageInv, M!ParseRr(s, n)
    PROVE  MessageInv'
<1> DEFINE h == M!AtRecord(s, n)
           j == h.rrnum
           end == M!FixedFields(s, M!NameSkip(h.ptr))
           h1 == [h EXCEPT !.rrnum = @ + 1, !.ptr = end]
           c == [section |-> s, rrnum |-> j, from |-> h.ptr, to |-> end]
<1>1. M!Asked(s, n) /\ status = "parsed"
  BY DEF M!ParseRr, M!Asked
<1>2. Octets /\ Whole /\ HandleInv
  BY <1>1 DEF MessageInv
<1>3. handle' = h1 /\ last' = c /\ msg' = msg /\ status' = "parsed"
  BY <1>1 DEF M!ParseRr
<1>4. M!Sections = {0, 1} /\ M!Fail = -1 /\ M!Count(s) \in Nat
  BY <1>2, Codes, PlaceProp DEF Whole
<1>5. h \in Handles /\ h.sect = s /\ j \in 0..(M!Count(s) - 1) /\ h.ptr = Place(s, j)
  BY <1>1, <1>2, AtRecordProp
<1> HIDE DEF h
<1>6. j \in Nat /\ j + 1 \in 0..M!Count(s)
  <2> HIDE DEF j
  <2> QED BY <1>4, <1>5
<1>7. end = Place(s, j + 1) /\ end \in Int
  <2>1. Place(s, j + 1) = M!SkipOne(s, Place(s, j))
    BY <1>2, <1>6, PlaceProp DEF Whole
  <2>2. Place(s, j + 1) \in 4..M!Eom
    BY <1>2, <1>6, WholeProp
  <2>3. Place(s, j + 1) # M!Fail /\ Place(s, j + 1) \in Int
    BY <1>4, <2>2
  <2>4. M!SkipOne(s, h.ptr) # M!Fail
    BY <1>5, <2>1, <2>3
  <2>5. M!SkipOne(s, h.ptr) = end
    BY <2>4 DEF M!SkipOne
  <2> QED BY <1>5, <2>1, <2>3, <2>5
<1> HIDE DEF end, j
<1>8. h1 \in Handles /\ h1.sect = s /\ h1.rrnum = j + 1 /\ h1.ptr = end
  <2>1. h1 = [h EXCEPT !.rrnum = j + 1, !.ptr = end]
    BY <1>5 DEF j, Handles
  <2>2. j + 1 \in Int
    BY <1>6
  <2> QED BY <1>5, <1>7, <2>1, <2>2 DEF Handles
<1> HIDE DEF h1
<1>9. HandleAt(h1)
  BY <1>6, <1>7, <1>8 DEF HandleAt
<1>10. CallAt(c)
  BY <1>5, <1>7 DEF CallAt
<1> HIDE DEF c
<1> QED BY <1>2, <1>3, <1>9, <1>10, Kept

LEMMA BadNameStep ==
    ASSUME NEW s \in M!Sections, NEW n \in M!Null..MaxRecords, MessageInv, M!ParseRrBadName(s, n)
    PROVE  MessageInv'
<1> DEFINE h == M!AtRecord(s, n)
<1>1. M!Asked(s, n) /\ status = "parsed"
  BY DEF M!ParseRrBadName, M!Asked
<1>2. Octets /\ Whole /\ HandleInv
  BY <1>1 DEF MessageInv
<1>3. handle' = h /\ last' = M!NoCall /\ msg' = msg /\ status' = "parsed"
  BY <1>1 DEF M!ParseRrBadName
<1>4. h \in Handles /\ h.sect = s /\ h.rrnum \in 0..(M!Count(s) - 1) /\ h.ptr = Place(s, h.rrnum)
  BY <1>1, <1>2, AtRecordProp
<1>5. M!Count(s) \in Nat
  BY <1>2, PlaceProp DEF Whole
<1> HIDE DEF h
<1>6. HandleAt(h)
  <2>1. h.rrnum \in 0..M!Count(s)
    BY <1>4, <1>5
  <2> QED BY <1>4, <2>1 DEF HandleAt
<1>7. CallAt(M!NoCall)
  BY DEF CallAt
<1> QED BY <1>2, <1>3, <1>6, <1>7, Kept

LEMMA NoneStep ==
    ASSUME NEW s \in M!Sections, NEW n \in M!Null..MaxRecords, MessageInv, M!ParseRrNone(s, n)
    PROVE  MessageInv'
<1> DEFINE h == IF s # handle.sect THEN M!SetSection(handle, s) ELSE handle
<1>1. status = "parsed" /\ handle' = h /\ last' = M!NoCall /\ msg' = msg /\ status' = "parsed"
  BY DEF M!ParseRrNone
<1>2. Octets /\ Whole /\ HandleInv
  BY <1>1 DEF MessageInv
<1>3. M!Count(s) \in Nat
  BY <1>2, PlaceProp DEF Whole
<1>4. HandleAt(h)
  <2>1. CASE s # handle.sect
    <3>1. h \in Handles /\ h.sect = s /\ h.rrnum = 0 /\ (M!Count(s) > 0 => h.ptr = Place(s, 0))
      BY <1>2, <2>1, SetSectionProp
    <3> HIDE DEF h
    <3>2. 0 \in 0..M!Count(s)
      BY <1>3
    <3> QED BY <3>1, <3>2 DEF HandleAt
  <2>2. CASE s = handle.sect
    BY <1>2, <2>2 DEF HandleAt, HandleInv
  <2> QED BY <2>1, <2>2
<1>5. CallAt(M!NoCall)
  BY DEF CallAt
<1> HIDE DEF h
<1> QED BY <1>1, <1>2, <1>4, <1>5, Kept

LEMMA MessageAlways == M!Spec => []MessageInv
<1>1. MessageInv /\ [M!Next]_(M!vars) => MessageInv'
  <2> SUFFICES ASSUME MessageInv, [M!Next]_(M!vars) PROVE MessageInv'
    OBVIOUS
  <2>1. CASE M!InitParse
    BY <2>1, InitParseStep
  <2>2. ASSUME NEW s \in M!Sections, NEW n \in M!Null..MaxRecords,
               M!ParseRr(s, n) \/ M!ParseRrBadName(s, n) \/ M!ParseRrNone(s, n)
        PROVE  MessageInv'
    BY <2>2, ParseRrStep, BadNameStep, NoneStep
  <2>3. CASE UNCHANGED M!vars
    <3>1. msg' = msg /\ handle' = handle /\ status' = status /\ last' = last
      BY <2>3 DEF M!vars
    <3>2. CASE status = "parsed"
      <4>1. Octets /\ Whole /\ HandleAt(handle) /\ CallAt(last)
        BY <3>2 DEF MessageInv, HandleInv, HandleAt, CallInv, CallAt
      <4> QED BY <3>1, <3>2, <4>1, Kept
    <3>3. CASE status # "parsed"
      <4>1. Octets' /\ (Whole' <=> Whole)
        BY <3>1, MessageStays DEF MessageInv
      <4>2. last' = M!NoCall'
        BY <3>1, <3>3 DEF MessageInv, M!NoCall, M!S_MAX, M!Null
      <4>3. M!S_MAX' = M!S_MAX /\ M!Null' = M!Null
        BY DEF M!S_MAX, M!Null
      <4> QED BY <3>1, <3>3, <4>1, <4>2, <4>3 DEF MessageInv
    <3> QED BY <3>2, <3>3
  <2> QED BY <2>1, <2>2, <2>3 DEF M!Next
<1> QED BY MessageInit, <1>1, PTL DEF M!Spec, M!vars, messageVars

LEMMA ParsedFollows == MessageInv => ParsedIffMessage
<1> SUFFICES ASSUME MessageInv PROVE ParsedIffMessage
  OBVIOUS
<1> DEFINE k == M!Count(M!QD) + M!Count(M!AN)
<1>1. Octets
  BY DEF MessageInv
<1>2. ASSUME M!Eom >= 4 PROVE M!Eom \in M!Ends[k] <=> Whole
  <2>1. k \in Nat
    <3>1. M!QD \in M!Sections /\ M!AN \in M!Sections
      BY Codes
    <3> QED BY <1>1, <1>2, <3>1, PlaceProp
  <2>2. M!Eom \in 4..M!Eom
    BY <1>1, <1>2 DEF M!Eom, Octets
  <2>3. Whole <=> Record(k) = M!Eom
    BY <1>2 DEF Whole
  <2> HIDE DEF k
  <2> QED BY <1>1, <1>2, <2>1, <2>2, <2>3, EndsProp
<1>3. (M!Eom >= 4 /\ M!Eom \in M!Ends[k]) <=> Whole
  BY <1>2 DEF Whole
<1> QED BY <1>3 DEF MessageInv, ParsedIffMessage, M!ParsedIffMessage

LEMMA RightFollows == MessageInv => RightRecord
<1> SUFFICES ASSUME MessageInv, last # M!NoCall PROVE RightRecord
  BY DEF RightRecord, M!RightRecord
<1> DEFINE s == last.section
           n == last.rrnum
           q == IF s = M!QD THEN 0 ELSE M!Count(M!QD)
<1>1. Octets /\ Whole /\ CallInv
  BY DEF MessageInv
<1>2. s \in M!Sections /\ n \in 0..(M!Count(s) - 1) /\ last.from = Place(s, n) /\ last.to = Place(s, n + 1)
  BY <1>1 DEF CallInv, CallAt
<1>3. M!Eom >= 4
  BY <1>1 DEF Whole
<1>4. M!Count(s) \in Nat /\ q \in Nat
  <2>1. M!QD \in M!Sections
    BY Codes
  <2> HIDE DEF s
  <2> QED BY <1>1, <1>2, <1>3, <2>1, PlaceProp
<1> HIDE DEF n, s
<1>5. n \in 0..M!Count(s) /\ n + 1 \in 0..M!Count(s)
  BY <1>2, <1>4
<1>6. ASSUME NEW j \in 0..M!Count(s) PROVE Place(s, j) \in M!Ends[j + q]
  <2>1. Record(j + q) = Place(s, j)
    BY <1>1, <1>2, <1>3, RecordPlace
  <2>2. Place(s, j) \in 4..M!Eom
    BY <1>1, <1>2, WholeProp
  <2>3. j + q \in Nat
    BY <1>4
  <2> QED BY <1>1, <1>3, <2>1, <2>2, <2>3, EndsProp
<1>7. last.from \in M!Ends[n + q] /\ last.to \in M!Ends[(n + 1) + q]
  BY <1>2, <1>5, <1>6
<1>8. (n + 1) + q = (n + q) + 1
  <2> HIDE DEF q
  <2> QED BY <1>2, <1>4
<1>9. RightRecord <=> (last.from \in M!Ends[n + q] /\ last.to \in M!Ends[(n + q) + 1])
  BY DEF RightRecord, M!RightRecord, n, s
<1> QED BY <1>7, <1>8, <1>9

\* local_ns_initparse takes a message exactly when its body can be cut into the
\* records that the header announces, whatever labels, pointers and lengths it
\* has.
THEOREM ParsedAreMessages == M!Spec => []ParsedIffMessage
<1> QED BY MessageAlways, ParsedFollows, PTL

\* local_ns_parserr hands out the record it is asked for, with its right ends,
\* after any calls before, those that went back or failed included.
THEOREM RecordIsRight == M!Spec => []RightRecord
<1> QED BY MessageAlways, RightFollows, PTL
=============================================================================
