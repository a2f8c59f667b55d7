--------------------------- MODULE SessionsProofs ---------------------------
(***************************************************************************)
(* Proofs about Sessions: for any number of sockets, tokens and addresses,  *)
(* the two maps agree and packets go to the client the address was told to. *)
(*                                                                         *)
(* The argument.  A socket enters ip_map once, when its func_socket gets    *)
(* past the token, and leaves it when it is deleted.  While nobody runs     *)
(* during the half second of a replacement, the address that is replaced    *)
(* still has its user, and its socket is closed already.                    *)
(***************************************************************************)
EXTENDS Sessions, TLAPS, FiniteSetTheorems, WellFoundedInduction

\* There is at most one user more than there are addresses.
FewUsers == IsFiniteSet(Users) /\ Cardinality(Users) <= NAddr + 1

\* A socket is in ip_map, or deleted, only when its func_socket is past the
\* token; a thread that replaces a socket knows the address.
Entered ==
    /\ \A a \in DOMAIN ip_map : ip_map[a] # None => pc[ip_map[a]] \in {"loop", "end"}
    /\ \A s \in deleted : pc[s] \in {"loop", "end"}
    /\ \A s \in Sockets : pc[s] = "sleep" => ip[s] \in Addr \union {0}
    /\ \A s \in Sockets : pc[s] = "none" => s \notin alive
    /\ \A s \in Sockets : pc[s] \in {"none", "recv", "sleep"} => told[s] = None

\* user_map and ip_map agree.
Agree ==
    /\ \A k \in Users : ip_map[user_map[k]] # None
    /\ \A a \in DOMAIN ip_map : ip_map[a] # None => \E k \in Users : user_map[k] = a
    /\ \A k, l \in Users : user_map[k] = user_map[l] => k = l

\* One thread at a time replaces a socket, and that socket is closed.
OneSleeper ==
    /\ \A s \in Sockets : pc[s] = "sleep" => ip_map[ip[s]] # None /\ ip_map[ip[s]] \notin alive
    /\ \A s, t \in Sockets : pc[s] = "sleep" /\ pc[t] = "sleep" => s = t

\* A live client has the address it was told.
HasAddress == \A s \in alive : told[s] # None => ip_map[told[s]] = s

NoDeadRevived == deleted \intersect alive = {}

SessionInv == TypeOK /\ Entered /\ (~overlap => Agree /\ OneSleeper /\ HasAddress /\ NoDeadRevived)

-----------------------------------------------------------------------------
(***************************************************************************)
(* get_useable_ip                                                           *)
(***************************************************************************)

\* A non-empty set of naturals has a least element.
LEMMA LeastNat ==
    ASSUME NEW T, T \subseteq Nat, T # {}
    PROVE  \E x \in T : \A y \in T : x <= y
<1> DEFINE R == {ss \in Nat \X Nat : ss[1] < ss[2]}
<1>1. IsWellFoundedOn(R, Nat)
  BY NatLessThanWellFounded DEF OpToRel
<1> HIDE DEF R
<1>2. PICK x \in T : \A y \in T : ~(<<y, x>> \in R)
  BY <1>1, WFMin
<1>3. ASSUME NEW y \in T PROVE x <= y
  <2>1. x \in Nat /\ y \in Nat
    OBVIOUS
  <2>2. ~(y < x)
    BY <1>2, <2>1 DEF R
  <2> QED BY <2>1, <2>2
<1> QED BY <1>3

\* The address get_useable_ip answers is free, unless it is 0 because none is.
LEMMA UseableIp ==
    ASSUME TypeOK
    PROVE  \/ GetUseableIp \in Addr /\ ip_map[GetUseableIp] = None
           \/ GetUseableIp = 0 /\ \A a \in Addr : ip_map[a] # None
<1> DEFINE free == {a \in Addr : ip_map[a] = None}
<1>1. CASE free = {}
  BY <1>1 DEF GetUseableIp
<1>2. CASE free # {}
  <2>1. free \subseteq Nat
    BY NAddrAssumption DEF Addr
  <2>2. \E x \in free : \A y \in free : x <= y
    <3> HIDE DEF free
    <3> QED BY <1>2, <2>1, LeastNat
  <2>3. Min(free) \in free
    BY <2>2 DEF Min
  <2> QED BY <1>2, <2>3 DEF GetUseableIp
<1> QED BY <1>1, <1>2

\* When every address has a user, and 0 has one too, a new user is one too many.
LEMMA TooMany ==
    ASSUME TypeOK, FewUsers', NEW k \in Key, k \notin Users,
           Users \union {k} \subseteq Users',
           \A a \in Addr \union {0} : \E l \in Users : user_map[l] = a
    PROVE  FALSE
<1> DEFINE D == {l \in Users : user_map[l] \in 0..NAddr}
           f == [l \in D |-> user_map[l]]
<1>1. Addr \union {0} = 0..NAddr
  BY NAddrAssumption DEF Addr
<1>2. f \in [D -> 0..NAddr] /\ \A a \in 0..NAddr : \E l \in D : f[l] = a
  BY <1>1
<1>3. IsFiniteSet(Users') /\ Cardinality(Users') <= NAddr + 1
  BY DEF FewUsers
<1>4. IsFiniteSet(D) /\ IsFiniteSet(D \union {k})
  BY <1>3, FS_Subset
<1>5. f \in Surjection(D, 0..NAddr)
  <2> HIDE DEF f, D
  <2> QED BY <1>2 DEF Surjection
<1>6. Cardinality(0..NAddr) <= Cardinality(D)
  <2> HIDE DEF f, D
  <2> QED BY <1>4, <1>5, FS_Surjection
<1>7. Cardinality(0..NAddr) = NAddr + 1
  BY NAddrAssumption, FS_Interval
<1>8. Cardinality(D \union {k}) = Cardinality(D) + 1
  BY <1>4, FS_AddElement
<1>9. Cardinality(D \union {k}) <= Cardinality(Users')
  BY <1>3, FS_Subset
<1>10. Cardinality(D) \in Nat /\ Cardinality(D \union {k}) \in Nat /\ Cardinality(Users') \in Nat
  BY <1>3, <1>4, FS_CardinalityType
<1> HIDE DEF D
<1> QED BY <1>3, <1>6, <1>7, <1>8, <1>9, <1>10, NAddrAssumption

-----------------------------------------------------------------------------
(***************************************************************************)
(* Types                                                                    *)
(***************************************************************************)
LEMMA NoneApart == \A a \in Addr \union {0} : a # None
  BY NoneAssumption, NAddrAssumption DEF Addr

LEMMA CleanedType ==
    ASSUME TypeOK, Cleaned
    PROVE  /\ user_map' \in [Key -> Addr \union {0, None}]
           /\ ip_map' \in [Addr \union {0} -> Sockets \union {None}]
           /\ deleted' \subseteq Sockets
<1>1. user_map' \in [Key -> Addr \union {0, None}]
  BY DEF Cleaned, TypeOK
<1>2. ip_map' \in [Addr \union {0} -> Sockets \union {None}]
  BY DEF Cleaned, TypeOK
<1>3. \A k \in Users : ip_map[user_map[k]] \in Sockets \union {None}
  BY DEF Users, TypeOK
<1>4. deleted' \subseteq Sockets
  BY <1>3 DEF Cleaned, TypeOK
<1> QED BY <1>1, <1>2, <1>4

LEMMA TypeStep == TypeOK /\ Entered /\ [Next]_vars => TypeOK'
<1> SUFFICES ASSUME TypeOK, Entered, [Next]_vars PROVE TypeOK'
  OBVIOUS
<1>0. GetUseableIp \in Addr \union {0}
  BY UseableIp
<1>r. Runs => overlap' \in BOOLEAN
  BY DEF Runs
<1>1. ASSUME NEW s \in Sockets, Accept(s) PROVE TypeOK'
  <2>1. /\ user_map' \in [Key -> Addr \union {0, None}]
        /\ ip_map' \in [Addr \union {0} -> Sockets \union {None}]
        /\ deleted' \subseteq Sockets
    BY <1>1, CleanedType DEF Accept
  <2>2. pc' \in [Sockets -> {"none", "recv", "sleep", "loop", "end"}] /\ alive' \subseteq Sockets
    BY <1>1 DEF Accept, TypeOK
  <2>3. UNCHANGED <<token, sent, ip, told>>
    BY <1>1 DEF Accept
  <2> QED BY <1>1, <1>r, <2>1, <2>2, <2>3 DEF Accept, TypeOK
<1>2. ASSUME NEW s \in Sockets, TokenArrives(s) \/ ClientCloses(s) PROVE TypeOK'
  BY <1>2 DEF TokenArrives, ClientCloses, TypeOK
<1>3. ASSUME NEW s \in Sockets, AssignNew(s) PROVE TypeOK'
  <2>1. user_map' \in [Key -> Addr \union {0, None}]
    BY <1>0, <1>3 DEF AssignNew, TypeOK
  <2>2. ip_map' \in [Addr \union {0} -> Sockets \union {None}]
    BY <1>0, <1>3 DEF AssignNew, TypeOK
  <2>3. ip' \in [Sockets -> Addr \union {0, None}] /\ told' \in [Sockets -> Addr \union {0, None}]
    BY <1>0, <1>3 DEF AssignNew, Tell, TypeOK
  <2>4. pc' \in [Sockets -> {"none", "recv", "sleep", "loop", "end"}]
    BY <1>3 DEF AssignNew, TypeOK
  <2>5. UNCHANGED <<token, sent, alive, deleted>>
    BY <1>3 DEF AssignNew
  <2> QED BY <1>3, <1>r, <2>1, <2>2, <2>3, <2>4, <2>5 DEF AssignNew, TypeOK
<1>4. ASSUME NEW s \in Sockets, CloseOld(s) PROVE TypeOK'
  <2>1. ip' \in [Sockets -> Addr \union {0, None}] /\ alive' \subseteq Sockets
    BY <1>4 DEF CloseOld, TypeOK
  <2>2. pc' \in [Sockets -> {"none", "recv", "sleep", "loop", "end"}]
    BY <1>4 DEF CloseOld, TypeOK
  <2>3. UNCHANGED <<token, sent, deleted, user_map, ip_map, told>>
    BY <1>4 DEF CloseOld
  <2> QED BY <1>4, <1>r, <2>1, <2>2, <2>3 DEF CloseOld, TypeOK
<1>5. ASSUME NEW s \in Sockets, Replace(s) PROVE TypeOK'
  <2>1. ip[s] \in Addr \union {0}
    BY <1>5 DEF Replace, Entered
  <2>2. ip_map' \in [Addr \union {0} -> Sockets \union {None}] /\ deleted' \subseteq Sockets
    BY <1>5, <2>1 DEF Replace, TypeOK
  <2>3. pc' \in [Sockets -> {"none", "recv", "sleep", "loop", "end"}]
    BY <1>5 DEF Replace, TypeOK
  <2>4. told' \in [Sockets -> Addr \union {0, None}]
    BY <1>5, <2>1 DEF Replace, Tell, TypeOK
  <2>5. UNCHANGED <<token, sent, alive, user_map, ip, overlap>>
    BY <1>5 DEF Replace
  <2> QED BY <2>2, <2>3, <2>4, <2>5 DEF TypeOK
<1>6. ASSUME NEW s \in Sockets, End(s) PROVE TypeOK'
  BY <1>6 DEF End, TypeOK
<1>7. CASE UNCHANGED vars
  BY <1>7 DEF vars, TypeOK
<1> QED BY <1>1, <1>2, <1>3, <1>4, <1>5, <1>6, <1>7 DEF Next

-----------------------------------------------------------------------------
(***************************************************************************)
(* The invariant                                                            *)
(***************************************************************************)

\* The clean-up only takes sessions away, and deletes only what is in ip_map
\* and dead.
LEMMA CleanedEffect ==
    ASSUME TypeOK, Cleaned
    PROVE  /\ \A a \in DOMAIN ip_map' : ip_map'[a] # None => ip_map'[a] = ip_map[a]
           /\ \A t \in deleted' : t \in deleted \/ (t \notin alive /\ \E a \in DOMAIN ip_map : ip_map[a] = t /\ t # None)
<1>1. \A a \in DOMAIN ip_map' : ip_map'[a] # None => ip_map'[a] = ip_map[a]
  BY DEF Cleaned, TypeOK
<1>2. ASSUME NEW k \in Users PROVE user_map[k] \in DOMAIN ip_map
  BY DEF Users, TypeOK
<1>3. ASSUME NEW t \in deleted', t \notin deleted
      PROVE  t \notin alive /\ \E a \in DOMAIN ip_map : ip_map[a] = t /\ t # None
  BY <1>2, <1>3 DEF Cleaned
<1> QED BY <1>1, <1>3

LEMMA EnteredStep == TypeOK /\ Entered /\ [Next]_vars => Entered'
<1> SUFFICES ASSUME TypeOK, Entered, [Next]_vars PROVE Entered'
  OBVIOUS
<1>0. TypeOK' /\ GetUseableIp \in Addr \union {0}
  BY TypeStep, UseableIp
<1>d. DOMAIN ip_map = Addr \union {0} /\ DOMAIN ip_map' = Addr \union {0}
  BY <1>0 DEF TypeOK
<1>n. None \notin Sockets
  BY NoneAssumption
<1>1. ASSUME NEW s \in Sockets, Accept(s) PROVE Entered'
  <2>1. pc[s] = "none" /\ \A t \in Sockets : pc'[t] = IF t = s THEN "recv" ELSE pc[t]
    BY <1>1 DEF Accept, TypeOK
  <2>2. UNCHANGED <<ip, told>> /\ alive' = alive \union {s} /\ Cleaned
    BY <1>1 DEF Accept
  <2>3. \A a \in DOMAIN ip_map' : ip_map'[a] # None => ip_map'[a] \in Sockets /\ ip_map'[a] = ip_map[a]
    BY <1>0, <2>2, CleanedEffect DEF TypeOK
  <2>4. \A a \in DOMAIN ip_map' : ip_map'[a] # None => pc'[ip_map'[a]] \in {"loop", "end"}
    BY <1>d, <2>1, <2>3 DEF Entered
  <2>5. \A t \in deleted' : pc'[t] \in {"loop", "end"}
    <3>1. \A t \in deleted' : t \in Sockets /\ pc[t] \in {"loop", "end"}
      BY <1>0, <2>2, CleanedEffect DEF Entered, TypeOK
    <3> QED BY <2>1, <3>1
  <2> QED BY <2>1, <2>2, <2>4, <2>5 DEF Entered
<1>2. ASSUME NEW s \in Sockets, TokenArrives(s) \/ ClientCloses(s) PROVE Entered'
  <2>1. UNCHANGED <<pc, deleted, ip_map, ip, told>> /\ alive' \subseteq alive
    BY <1>2 DEF TokenArrives, ClientCloses
  <2> QED BY <2>1 DEF Entered
<1>3. ASSUME NEW s \in Sockets, AssignNew(s) PROVE Entered'
  <2>1. pc[s] = "recv" /\ \A t \in Sockets : pc'[t] = IF t = s THEN "loop" ELSE pc[t]
    BY <1>3 DEF AssignNew, TypeOK
  <2>2. /\ UNCHANGED <<alive, deleted>>
        /\ ip_map' = [ip_map EXCEPT ![GetUseableIp] = s]
        /\ \A t \in Sockets \ {s} : ip'[t] = ip[t] /\ told'[t] = told[t]
    BY <1>3 DEF AssignNew, Tell, TypeOK
  <2>3. \A a \in DOMAIN ip_map' : ip_map'[a] # None => pc'[ip_map'[a]] \in {"loop", "end"}
    <3>1. \A a \in DOMAIN ip_map : ip_map'[a] \in {ip_map[a], s} /\ ip_map[a] \in Sockets \union {None}
      BY <1>d, <2>2 DEF TypeOK
    <3> QED BY <1>d, <2>1, <3>1 DEF Entered
  <2>4. deleted \subseteq Sockets
    BY DEF TypeOK
  <2> QED BY <2>1, <2>2, <2>3, <2>4 DEF Entered
<1>4. ASSUME NEW s \in Sockets, CloseOld(s) PROVE Entered'
  <2>1. pc[s] = "recv" /\ \A t \in Sockets : pc'[t] = IF t = s THEN "sleep" ELSE pc[t]
    BY <1>4 DEF CloseOld, TypeOK
  <2>2. /\ UNCHANGED <<deleted, ip_map, told>> /\ alive' \subseteq alive
        /\ \A t \in Sockets \ {s} : ip'[t] = ip[t]
    BY <1>4 DEF CloseOld, TypeOK
  <2>3. ip'[s] \in Addr \union {0}
    BY <1>4 DEF CloseOld, Users, TypeOK
  <2>4. \A a \in DOMAIN ip_map : ip_map[a] \in Sockets \union {None}
    BY DEF TypeOK
  <2>5. deleted \subseteq Sockets
    BY DEF TypeOK
  <2> QED BY <2>1, <2>2, <2>3, <2>4, <2>5 DEF Entered
<1>5. ASSUME NEW s \in Sockets, Replace(s) PROVE Entered'
  <2>1. pc[s] = "sleep" /\ ip[s] \in Addr \union {0} /\ \A t \in Sockets : pc'[t] = IF t = s THEN "loop" ELSE pc[t]
    BY <1>5 DEF Replace, TypeOK, Entered
  <2>2. /\ UNCHANGED <<alive, ip>>
        /\ ip_map' = [ip_map EXCEPT ![ip[s]] = s]
        /\ deleted' = deleted \union ({ip_map[ip[s]]} \ {None})
        /\ \A t \in Sockets \ {s} : told'[t] = told[t]
    BY <1>5 DEF Replace, Tell, TypeOK
  <2>3. \A a \in DOMAIN ip_map : ip_map'[a] \in {ip_map[a], s} /\ ip_map[a] \in Sockets \union {None}
    BY <1>d, <2>2 DEF TypeOK
  <2>4. \A a \in DOMAIN ip_map' : ip_map'[a] # None => pc'[ip_map'[a]] \in {"loop", "end"}
    BY <1>d, <2>1, <2>3 DEF Entered
  <2>5. \A t \in deleted' : pc'[t] \in {"loop", "end"}
    <3>1. deleted \subseteq Sockets
      BY DEF TypeOK
    <3> QED BY <1>d, <2>1, <2>2, <2>3, <3>1 DEF Entered
  <2> QED BY <2>1, <2>2, <2>4, <2>5 DEF Entered
<1>6. ASSUME NEW s \in Sockets, End(s) PROVE Entered'
  <2>1. pc[s] = "loop" /\ \A t \in Sockets : pc'[t] = IF t = s THEN "end" ELSE pc[t]
    BY <1>6 DEF End, TypeOK
  <2>2. UNCHANGED <<alive, deleted, ip_map, ip, told>>
    BY <1>6 DEF End
  <2>3. \A a \in DOMAIN ip_map : ip_map[a] \in Sockets \union {None}
    BY DEF TypeOK
  <2>4. deleted \subseteq Sockets
    BY DEF TypeOK
  <2> QED BY <2>1, <2>2, <2>3, <2>4 DEF Entered
<1>7. CASE UNCHANGED vars
  BY <1>7 DEF vars, Entered
<1> QED BY <1>1, <1>2, <1>3, <1>4, <1>5, <1>6, <1>7 DEF Next

\* A thread that runs while nobody replaces a socket.
LEMMA Quiet ==
    ASSUME TypeOK, Runs, ~overlap'
    PROVE  ~overlap /\ \A s \in Sockets : pc[s] # "sleep"
  BY DEF Runs

LEMMA SessionStep == SessionInv /\ FewUsers' /\ [Next]_vars => SessionInv'
<1> SUFFICES ASSUME SessionInv, FewUsers', [Next]_vars PROVE SessionInv'
  OBVIOUS
<1>0. TypeOK /\ Entered /\ TypeOK' /\ Entered'
  BY TypeStep, EnteredStep DEF SessionInv
<1> SUFFICES ASSUME ~overlap' PROVE (Agree /\ OneSleeper /\ HasAddress /\ NoDeadRevived)'
  BY <1>0 DEF SessionInv
<1>i. ~overlap => Agree /\ OneSleeper /\ HasAddress /\ NoDeadRevived
  BY DEF SessionInv
<1>d. DOMAIN ip_map = Addr \union {0} /\ DOMAIN ip_map' = Addr \union {0}
  BY <1>0 DEF TypeOK
<1>n. None \notin Sockets /\ \A a \in Addr \union {0} : a # None
  BY NoneAssumption, NoneApart
<1>m. \A a \in Addr \union {0} : ip_map[a] \in Sockets \union {None}
  BY <1>0 DEF TypeOK
<1>u. \A k \in Users : k \in Key /\ user_map[k] \in Addr \union {0}
  BY <1>0 DEF Users, TypeOK
<1>1. ASSUME NEW s \in Sockets, Accept(s) PROVE (Agree /\ OneSleeper /\ HasAddress /\ NoDeadRevived)'
  <2>1. ~overlap /\ \A t \in Sockets : pc[t] # "sleep"
    BY <1>0, <1>1, Quiet DEF Accept
  <2>2. pc[s] = "none" /\ alive' = alive \union {s} /\ UNCHANGED <<told, ip>> /\ Cleaned
    BY <1>1 DEF Accept
  <2>3. \A t \in Sockets : pc'[t] # "sleep"
    BY <1>0, <1>1, <2>1 DEF Accept, TypeOK
  <2>4. told[s] = None
    BY <1>0, <2>2 DEF Entered
  <2> DEFINE dead == {k \in Users : ip_map[user_map[k]] \notin alive}
  <2>5. /\ ip_map' = [a \in Addr \union {0} |-> IF \E k \in dead : user_map[k] = a THEN None ELSE ip_map[a]]
        /\ user_map' = [k \in Key |-> IF k \in dead THEN None ELSE user_map[k]]
    BY <1>d, <2>2 DEF Cleaned
  <2>6. Agree
    BY <1>i, <2>1
  <2>7. Users' = Users \ dead /\ \A k \in Users' : user_map'[k] = user_map[k]
    BY <2>5 DEF Users
  <2>8. Agree'
    <3>1. \A k \in Users' : ip_map'[user_map'[k]] # None
      <4>1. SUFFICES ASSUME NEW k \in Users' PROVE ip_map'[user_map[k]] # None
        BY <2>7
      <4>2. k \in Users /\ k \notin dead /\ user_map[k] \in Addr \union {0}
        BY <1>u, <2>7
      <4>3. ~ \E l \in dead : user_map[l] = user_map[k]
        BY <2>6, <4>2 DEF Agree
      <4>4. ip_map'[user_map[k]] = ip_map[user_map[k]]
        BY <2>5, <4>2, <4>3
      <4> QED BY <2>6, <4>2, <4>4 DEF Agree
    <3>2. \A a \in DOMAIN ip_map' : ip_map'[a] # None => \E k \in Users' : user_map'[k] = a
      <4>1. SUFFICES ASSUME NEW a \in Addr \union {0}, ip_map'[a] # None PROVE \E k \in Users' : user_map[k] = a
        BY <1>d, <2>7
      <4>2. ip_map[a] # None /\ ~ \E k \in dead : user_map[k] = a
        BY <2>5, <4>1
      <4>3. PICK k \in Users : user_map[k] = a
        BY <1>d, <2>6, <4>2 DEF Agree
      <4> QED BY <2>7, <4>2, <4>3
    <3>3. \A k, l \in Users' : user_map'[k] = user_map'[l] => k = l
      BY <2>6, <2>7 DEF Agree
    <3> QED BY <3>1, <3>2, <3>3 DEF Agree
  <2>9. HasAddress'
    <3>1. SUFFICES ASSUME NEW t \in alive', told'[t] # None PROVE ip_map'[told'[t]] = t
      BY DEF HasAddress
    <3>2. t \in alive /\ told'[t] = told[t] /\ ip_map[told[t]] = t
      BY <1>i, <2>1, <2>2, <2>4, <3>1 DEF HasAddress
    <3>3. told[t] \in Addr \union {0}
      BY <1>0, <2>2, <3>1, <3>2 DEF TypeOK
    <3>4. ~ \E k \in dead : user_map[k] = told[t]
      BY <3>2
    <3> QED BY <2>5, <3>2, <3>3, <3>4
  <2>10. NoDeadRevived'
    <3>1. SUFFICES ASSUME NEW t \in deleted' PROVE t \notin alive'
      BY DEF NoDeadRevived
    <3>2. t \notin alive
      BY <1>0, <1>i, <2>1, <2>2, CleanedEffect DEF NoDeadRevived
    <3>3. t # s
      BY <1>0, <2>2, CleanedEffect DEF Entered
    <3> QED BY <2>2, <3>2, <3>3
  <2> QED BY <2>3, <2>8, <2>9, <2>10 DEF OneSleeper
<1>2. ASSUME NEW s \in Sockets, TokenArrives(s) \/ ClientCloses(s)
      PROVE  (Agree /\ OneSleeper /\ HasAddress /\ NoDeadRevived)'
  <2>1. UNCHANGED <<pc, deleted, user_map, ip_map, ip, told, overlap>> /\ alive' \subseteq alive
    BY <1>2 DEF TokenArrives, ClientCloses
  <2>2. Users' = Users
    BY <2>1 DEF Users
  <2> QED BY <1>i, <2>1, <2>2 DEF Agree, OneSleeper, HasAddress, NoDeadRevived
<1>3. ASSUME NEW s \in Sockets, AssignNew(s) PROVE (Agree /\ OneSleeper /\ HasAddress /\ NoDeadRevived)'
  <2> DEFINE g == GetUseableIp
  <2>1. ~overlap /\ \A t \in Sockets : pc[t] # "sleep"
    BY <1>0, <1>3, Quiet DEF AssignNew
  <2>2. PICK k \in Key : /\ k \notin Users
                         /\ user_map' = [user_map EXCEPT ![k] = g]
                         /\ ip_map' = [ip_map EXCEPT ![g] = s]
    BY <1>3 DEF AssignNew
  <2>3. pc[s] = "recv" /\ UNCHANGED <<alive, deleted>> /\ Tell(s, g)
    BY <1>3 DEF AssignNew
  <2>4. \A t \in Sockets : pc'[t] # "sleep"
    BY <1>0, <1>3, <2>1 DEF AssignNew, TypeOK
  <2>5. Agree /\ HasAddress /\ NoDeadRevived
    BY <1>i, <2>1
  <2>6. g \in Addr \union {0}
    BY <1>0, UseableIp
  <2>7. Users' = Users \union {k} /\ user_map'[k] = g /\ \A l \in Users : user_map'[l] = user_map[l]
    BY <1>0, <1>n, <2>2, <2>6 DEF Users, TypeOK
  <2>8. ip_map[g] = None
    <3>1. SUFFICES ASSUME ip_map[g] # None PROVE FALSE
      OBVIOUS
    <3>2. g = 0 /\ \A a \in Addr \union {0} : ip_map[a] # None
      BY <1>0, <3>1, UseableIp
    <3>3. \A a \in Addr \union {0} : \E l \in Users : user_map[l] = a
      BY <1>d, <2>5, <3>2 DEF Agree
    <3> QED BY <1>0, <2>2, <2>7, <3>3, TooMany
  <2>9. \A a \in Addr \union {0} : ip_map'[a] = IF a = g THEN s ELSE ip_map[a]
    BY <1>d, <2>2
  <2>10. \A l \in Users : user_map[l] # g
    BY <2>5, <2>8 DEF Agree
  <2> HIDE DEF g
  <2>11. Agree'
    <3>1. \A l \in Users' : ip_map'[user_map'[l]] # None
      BY <1>n, <1>u, <2>5, <2>6, <2>7, <2>9 DEF Agree
    <3>2. \A a \in DOMAIN ip_map' : ip_map'[a] # None => \E l \in Users' : user_map'[l] = a
      BY <1>d, <2>5, <2>7, <2>9 DEF Agree
    <3>3. \A l, m \in Users' : user_map'[l] = user_map'[m] => l = m
      BY <2>5, <2>7, <2>10 DEF Agree
    <3> QED BY <3>1, <3>2, <3>3 DEF Agree
  <2>12. HasAddress'
    <3>1. SUFFICES ASSUME NEW t \in alive', told'[t] # None PROVE ip_map'[told'[t]] = t
      BY DEF HasAddress
    <3>2. t \in Sockets /\ t \in alive /\ t # None
      BY <1>0, <1>n, <2>3 DEF TypeOK
    <3>3. CASE t = s
      <4>1. told'[s] = g
        BY <1>0, <2>3, <3>2, <3>3 DEF Tell, TypeOK
      <4> QED BY <2>6, <2>9, <3>3, <4>1
    <3>4. CASE t # s
      <4>1. told'[t] = told[t]
        BY <1>0, <2>3, <3>2, <3>4 DEF Tell, TypeOK
      <4>2. ip_map[told[t]] = t /\ told[t] \in Addr \union {0}
        BY <1>0, <2>5, <3>1, <3>2, <4>1 DEF HasAddress, TypeOK
      <4> QED BY <2>8, <2>9, <3>2, <4>1, <4>2
    <3> QED BY <3>3, <3>4
  <2> QED BY <2>3, <2>4, <2>5, <2>11, <2>12 DEF OneSleeper, NoDeadRevived
<1>4. ASSUME NEW s \in Sockets, CloseOld(s) PROVE (Agree /\ OneSleeper /\ HasAddress /\ NoDeadRevived)'
  <2>1. ~overlap /\ \A t \in Sockets : pc[t] # "sleep"
    BY <1>0, <1>4, Quiet DEF CloseOld
  <2>2. PICK k \in Users : ip'[s] = user_map[k] /\ alive' = alive \ {ip_map[user_map[k]]}
    BY <1>0, <1>4 DEF CloseOld, TypeOK
  <2>3. UNCHANGED <<deleted, user_map, ip_map, told>>
    BY <1>4 DEF CloseOld
  <2>4. \A t \in Sockets : pc'[t] = "sleep" => t = s
    BY <1>0, <1>4, <2>1 DEF CloseOld, TypeOK
  <2>5. Agree /\ HasAddress /\ NoDeadRevived
    BY <1>i, <2>1
  <2>6. Users' = Users
    BY <2>3 DEF Users
  <2>7. Agree' /\ HasAddress' /\ NoDeadRevived'
    BY <2>2, <2>3, <2>5, <2>6 DEF Agree, HasAddress, NoDeadRevived
  <2>8. OneSleeper'
    BY <2>2, <2>3, <2>4, <2>5 DEF OneSleeper, Agree
  <2> QED BY <2>7, <2>8
<1>5. ASSUME NEW s \in Sockets, Replace(s) PROVE (Agree /\ OneSleeper /\ HasAddress /\ NoDeadRevived)'
  <2>1. /\ pc[s] = "sleep" /\ UNCHANGED <<alive, user_map, ip, overlap>>
        /\ ip_map' = [ip_map EXCEPT ![ip[s]] = s]
        /\ deleted' = deleted \union ({ip_map[ip[s]]} \ {None})
        /\ Tell(s, ip[s])
    BY <1>5 DEF Replace
  <2>2. Agree /\ OneSleeper /\ HasAddress /\ NoDeadRevived
    BY <1>i, <2>1
  <2>3. ip[s] \in Addr \union {0} /\ ip_map[ip[s]] # None /\ ip_map[ip[s]] \notin alive
    BY <1>0, <2>1, <2>2 DEF Entered, OneSleeper
  <2>4. \A a \in Addr \union {0} : ip_map'[a] = IF a = ip[s] THEN s ELSE ip_map[a]
    BY <1>d, <2>1
  <2>5. Users' = Users
    BY <2>1 DEF Users
  <2>6. Agree'
    BY <1>d, <1>n, <1>u, <2>1, <2>2, <2>3, <2>4, <2>5 DEF Agree
  <2>7. \A t \in Sockets : pc'[t] # "sleep"
    <3>1. \A t \in Sockets : pc'[t] = IF t = s THEN "loop" ELSE pc[t]
      BY <1>0, <1>5 DEF Replace, TypeOK
    <3> QED BY <2>1, <2>2, <3>1 DEF OneSleeper
  <2>8. HasAddress'
    <3>1. SUFFICES ASSUME NEW t \in alive', told'[t] # None PROVE ip_map'[told'[t]] = t
      BY DEF HasAddress
    <3>2. t \in Sockets /\ t \in alive
      BY <1>0, <2>1 DEF TypeOK
    <3>3. CASE t = s
      <4>1. told'[s] = ip[s]
        BY <1>0, <2>1, <3>2, <3>3 DEF Tell, TypeOK
      <4> QED BY <2>3, <2>4, <3>3, <4>1
    <3>4. CASE t # s
      <4>1. told'[t] = told[t]
        BY <1>0, <2>1, <3>2, <3>4 DEF Tell, TypeOK
      <4>2. ip_map[told[t]] = t /\ told[t] \in Addr \union {0}
        BY <1>0, <2>2, <3>1, <3>2, <4>1 DEF HasAddress, TypeOK
      <4> QED BY <2>3, <2>4, <3>2, <4>1, <4>2
    <3> QED BY <3>3, <3>4
  <2>9. NoDeadRevived'
    BY <2>1, <2>2, <2>3 DEF NoDeadRevived
  <2> QED BY <2>6, <2>7, <2>8, <2>9 DEF OneSleeper
<1>6. ASSUME NEW s \in Sockets, End(s) PROVE (Agree /\ OneSleeper /\ HasAddress /\ NoDeadRevived)'
  <2>1. UNCHANGED <<alive, deleted, user_map, ip_map, ip, told, overlap>>
    BY <1>6 DEF End
  <2>2. Users' = Users /\ \A t \in Sockets : pc'[t] = "sleep" => pc[t] = "sleep"
    BY <1>0, <1>6, <2>1 DEF Users, End, TypeOK
  <2> QED BY <1>i, <2>1, <2>2 DEF Agree, OneSleeper, HasAddress, NoDeadRevived
<1>7. CASE UNCHANGED vars
  <2>1. Users' = Users
    BY <1>7 DEF Users, vars
  <2> QED BY <1>7, <1>i, <2>1 DEF vars, Agree, OneSleeper, HasAddress, NoDeadRevived
<1> QED BY <1>1, <1>2, <1>3, <1>4, <1>5, <1>6, <1>7 DEF Next

LEMMA SessionInit == Init => SessionInv
<1> SUFFICES ASSUME Init PROVE SessionInv
  OBVIOUS
<1>1. TypeOK
  BY DEF Init, TypeOK
<1>2. Users = {}
  BY DEF Init, Users
<1>3. Entered /\ OneSleeper /\ HasAddress /\ NoDeadRevived
  BY DEF Init, Entered, OneSleeper, HasAddress, NoDeadRevived
<1>4. Agree
  BY <1>2 DEF Init, Agree
<1> QED BY <1>1, <1>3, <1>4 DEF SessionInv

-----------------------------------------------------------------------------
(***************************************************************************)
(* The theorems                                                             *)
(***************************************************************************)

\* The state has its type: func_socket works on addresses of the tunnel only.
THEOREM SessionsTypeCorrect == Spec => []TypeOK
<1>1. TypeOK /\ Entered /\ [Next]_vars => (TypeOK /\ Entered)'
  BY TypeStep, EnteredStep
<1>2. Init => TypeOK /\ Entered
  BY SessionInit DEF SessionInv
<1> QED BY <1>1, <1>2, PTL DEF Spec

\* user_map and ip_map agree for any number of clients, tokens and addresses,
\* as long as there is at most one user more than get_useable_ip has addresses.
THEOREM MapsConsistent == Spec /\ []FewUsers => []MapsAgree
<1>1. SessionInv => MapsAgree
  BY DEF SessionInv, Agree, MapsAgree
<1> QED BY <1>1, SessionInit, SessionStep, PTL DEF Spec

\* Under the same condition packets for the address a connected client was
\* told go to that client's socket, which has not been deleted.
THEOREM ClientsRouted == Spec /\ []FewUsers => []SessionRouted
<1>1. ASSUME SessionInv PROVE SessionRouted
  <2>1. SUFFICES ASSUME ~overlap, NEW s \in alive, told[s] # None
                 PROVE  RouteOf(told[s]) = s /\ s \notin deleted
    BY DEF SessionRouted
  <2>2. s # None /\ ip_map[told[s]] = s /\ s \notin deleted
    BY <1>1, <2>1, NoneAssumption DEF SessionInv, HasAddress, NoDeadRevived, TypeOK
  <2> QED BY <2>2 DEF RouteOf
<1> QED BY <1>1, SessionInit, SessionStep, PTL DEF Spec
=============================================================================
