--------------------------- MODULE ChinaDnsProofs ---------------------------
(***************************************************************************)
(* Proofs about ChinaDns, for rings of any length: ids are distinct, the    *)
(* buffers of the ring of delayed answers are those that wait, and answers  *)
(* go to those who have asked.                                              *)
(*                                                                         *)
(* The argument.  An entry of the id queue that is in use holds the id its  *)
(* query was given, and no other entry has it.  So an answer whose entry is *)
(* still there finds that entry and no other, and every delayed answer      *)
(* keeps the asker it was filed for.                                        *)
(***************************************************************************)
EXTENDS ChinaDns, TLAPS, WellFoundedInduction

Slots == 0..(DelayLen - 1)
Entries == 0..(QueueLen - 1)

QueueType ==
    /\ id_addr_queue \in [Entries -> [id : Id, asker : Nat]]
    /\ id_addr_queue_pos \in Entries
    /\ asked \in Seq(Id)

RingType ==
    /\ delay_queue \in [Slots -> [id : Id, asker : Nat, about : Nat, age : Nat]]
    /\ mem \in [Slots -> {"null", "alloc", "freed"}]
    /\ delay_queue_first \in Slots /\ delay_queue_last \in Slots

\* An entry in use holds the id that its query was given.
EntryOfQuery ==
    \A i \in Entries : id_addr_queue[i].asker # 0 =>
        /\ id_addr_queue[i].asker \in DOMAIN asked
        /\ id_addr_queue[i].id = asked[id_addr_queue[i].asker]

\* A delayed answer is kept for the one who has asked, unless it came late.
DelayedForAsker ==
    \A i \in Slots : delay_queue[i].asker = delay_queue[i].about \/ delay_queue[i].about \in late

DnsInv ==
    /\ QueueType /\ RingType
    /\ IdsDistinct /\ EntryOfQuery
    /\ DelaySlotsOwned
    /\ DelayedForAsker /\ AnswersItsQuestion

-----------------------------------------------------------------------------
(***************************************************************************)
(* The ring                                                                 *)
(***************************************************************************)

\* A step along a ring of n slots.
LEMMA ModStep ==
    ASSUME NEW n \in Nat \ {0}, NEW p \in 0..(n - 1)
    PROVE  (p + 1) % n = IF p = n - 1 THEN 0 ELSE p + 1
  OBVIOUS

\* A number below 2n, modulo n.
LEMMA ModTwice ==
    ASSUME NEW n \in Nat \ {0}, NEW x \in 0..(2 * n - 1)
    PROVE  x % n = IF x < n THEN x ELSE x - n
  OBVIOUS

LEMMA WaitingSlots ==
    ASSUME NEW f \in Slots, NEW l \in Slots
    PROVE  Waiting(f, l) \subseteq Slots /\ l \notin Waiting(f, l)
  BY LenAssumption DEF Waiting, Slots

\* The first d of the waiting slots are given up.
LEMMA WaitingDrop ==
    ASSUME NEW f \in Slots, NEW l \in Slots, NEW d \in 0..((l - f + DelayLen) % DelayLen)
    PROVE  LET g == (f + d) % DelayLen IN
           /\ g \in Slots
           /\ Waiting(f, g) \subseteq Waiting(f, l)
           /\ Waiting(g, l) = Waiting(f, l) \ Waiting(f, g)
<1> DEFINE g == (f + d) % DelayLen
<1>1. DelayLen \in Nat \ {0} /\ l - f + DelayLen \in 0..(2 * DelayLen - 1)
  BY LenAssumption DEF Slots
<1>2. (l - f + DelayLen) % DelayLen = IF l - f + DelayLen < DelayLen THEN l - f + DelayLen ELSE l - f
  <2> DEFINE x == l - f + DelayLen
  <2>1. x \in 0..(2 * DelayLen - 1) /\ l - f = x - DelayLen
    BY <1>1 DEF Slots
  <2> HIDE DEF x
  <2>2. x % DelayLen = IF x < DelayLen THEN x ELSE x - DelayLen
    BY <1>1, <2>1, ModTwice
  <2> QED BY <2>1, <2>2 DEF x
<1>3. d \in Nat /\ d <= IF l < f THEN l - f + DelayLen ELSE l - f
  BY <1>1, <1>2 DEF Slots
<1>4. f + d \in 0..(2 * DelayLen - 1)
  BY <1>1, <1>3 DEF Slots
<1>5. g = IF f + d < DelayLen THEN f + d ELSE (f + d) - DelayLen
  <2> DEFINE x == f + d
  <2>1. x \in 0..(2 * DelayLen - 1)
    BY <1>4
  <2> HIDE DEF x
  <2>2. x % DelayLen = IF x < DelayLen THEN x ELSE x - DelayLen
    BY <1>1, <2>1, ModTwice
  <2> QED BY <2>2 DEF x
<1> HIDE DEF g
<1>6. g \in Slots
  BY <1>1, <1>3, <1>4, <1>5 DEF Slots
<1>7. f \in Int /\ l \in Int
  BY <1>1 DEF Slots
<1>8. Waiting(f, g) \subseteq Waiting(f, l)
  BY <1>1, <1>3, <1>5, <1>6, <1>7 DEF Waiting, Slots
<1>9. Waiting(g, l) = Waiting(f, l) \ Waiting(f, g)
  BY <1>1, <1>3, <1>5, <1>6, <1>7 DEF Waiting, Slots
<1> QED BY <1>6, <1>8, <1>9 DEF g

\* One slot more waits; in a full ring the first one no longer does.
LEMMA WaitingGrow ==
    ASSUME NEW f \in Slots, NEW l \in Slots
    PROVE  LET m == (l + 1) % DelayLen IN
           /\ m \in Slots
           /\ m # f => Waiting(f, m) = Waiting(f, l) \union {l}
           /\ m = f => /\ (f + 1) % DelayLen \in Slots
                       /\ Waiting((f + 1) % DelayLen, m) = (Waiting(f, l) \union {l}) \ {f}
<1> DEFINE m == (l + 1) % DelayLen
           g == (f + 1) % DelayLen
<1>1. DelayLen \in Nat \ {0} /\ f \in Int /\ l \in Int
  BY LenAssumption DEF Slots
<1>2. m = IF l = DelayLen - 1 THEN 0 ELSE l + 1
  BY <1>1, ModStep DEF Slots
<1>3. g = IF f = DelayLen - 1 THEN 0 ELSE f + 1
  BY <1>1, ModStep DEF Slots
<1> HIDE DEF m, g
<1>4. m \in Slots /\ g \in Slots
  BY <1>1, <1>2, <1>3 DEF Slots
<1>5. m # f => Waiting(f, m) = Waiting(f, l) \union {l}
  BY <1>1, <1>2, <1>4 DEF Waiting, Slots
<1>6. m = f => Waiting(g, m) = (Waiting(f, l) \union {l}) \ {f}
  BY <1>1, <1>2, <1>3, <1>4 DEF Waiting, Slots
<1> QED BY <1>4, <1>5, <1>6 DEF m, g

\* A non-empty set of naturals has a least element.
LEMMA LeastNat ==
    ASSUME NEW T, T \subseteq Nat, T # {}
    PROVE  \E x \in T : \A y \in T : x <= y
<1> DEFINE R == {ss \in Nat \X Nat : ss[1] < ss[2]}
<1>1. IsWellFoundedOn(R, Nat)
  BY NatLessThanWellFounded DEF OpToRel
<1> HIDE DEF R
<1>2. PICK x \in T : \A y \in T : ~(<<y, x>> \in R)
  BY <1>1, WFMin
<1>3. ASSUME NEW y \in T PROVE x <= y
  <2>1. x \in Nat /\ y \in Nat
    OBVIOUS
  <2>2. ~(y < x)
    BY <1>2, <2>1 DEF R
  <2> QED BY <2>1, <2>2
<1> QED BY <1>3

\* The loop of check_and_send_delay ends within the waiting answers.
LEMMA DueBound ==
    ASSUME RingType
    PROVE  DueCount \in 0..((delay_queue_last - delay_queue_first + DelayLen) % DelayLen)
<1> DEFINE n == (delay_queue_last - delay_queue_first + DelayLen) % DelayLen
           late_at(k) == Due(delay_queue[(delay_queue_first + k) % DelayLen])
           T == {k \in 0..n : k < n => ~late_at(k)}
<1>1. n \in Nat
  <2>1. delay_queue_last - delay_queue_first + DelayLen \in 0..(2 * DelayLen - 1) /\ DelayLen \in Nat \ {0}
    BY LenAssumption DEF RingType, Slots
  <2> QED BY <2>1, ModTwice
<1> HIDE DEF n
<1>2. T \subseteq Nat /\ T # {}
  <2>1. n \in T
    BY <1>1
  <2>2. ASSUME NEW m \in T PROVE m \in Nat
    BY <1>1
  <2> HIDE DEF T
  <2> QED BY <2>1, <2>2
<1>3. PICK k \in T : \A y \in T : k <= y
  <2> HIDE DEF T
  <2> QED BY <1>2, LeastNat
<1>4. ASSUME NEW j \in 0..(k - 1) PROVE late_at(j)
  <2>1. j \in 0..n /\ j < n /\ j < k
    BY <1>1, <1>3
  <2>2. j \notin T
    BY <1>2, <1>3, <2>1
  <2> QED BY <2>1, <2>2
<1>5. \E x \in 0..n : /\ \A j \in 0..(x - 1) : late_at(j)
                      /\ x < n => ~late_at(x)
  BY <1>3, <1>4
<1> QED BY <1>5 DEF DueCount, n

-----------------------------------------------------------------------------
(***************************************************************************)
(* What the steps do to the ring                                            *)
(***************************************************************************)
Delayed == [id : Id, asker : Nat, about : Nat, age : Nat]

LEMMA SendEffect ==
    ASSUME RingType, DelaySlotsOwned, CheckAndSendDelay
    PROVE  /\ RingType' /\ DelaySlotsOwned'
           /\ UNCHANGED delay_queue
           /\ \A m \in replies' :
                m \in replies \/ \E i \in Slots : m = [asker |-> delay_queue[i].asker, about |-> delay_queue[i].about]
<1> DEFINE first == (delay_queue_first + DueCount) % DelayLen
           sent == Waiting(delay_queue_first, first)
           slots == Waiting(delay_queue_first, delay_queue_last)
<1>1. /\ replies' = replies \union
            {[asker |-> delay_queue[i].asker, about |-> delay_queue[i].about] : i \in sent}
      /\ mem' = [i \in Slots |-> IF i \in sent THEN "freed" ELSE mem[i]]
      /\ delay_queue_first' = first
      /\ UNCHANGED <<delay_queue, delay_queue_last>>
  BY DEF CheckAndSendDelay, RingType
<1>2. delay_queue_first \in Slots /\ delay_queue_last \in Slots
  BY DEF RingType
<1>3. first \in Slots /\ sent \subseteq slots /\ Waiting(first, delay_queue_last) = slots \ sent
  BY <1>2, DueBound, WaitingDrop
<1>4. slots \subseteq Slots
  BY <1>2, WaitingSlots
<1> HIDE DEF first, sent, slots
<1>5. RingType'
  BY <1>1, <1>3 DEF RingType
<1>6. Waiting(delay_queue_first, delay_queue_last)' = slots \ sent
  BY <1>1, <1>3 DEF Waiting
<1>7. /\ \A i \in Slots : mem[i] = "alloc" <=> i \in slots
      /\ \A i, j \in slots : i # j => delay_queue[i].id # delay_queue[j].id
  BY DEF DelaySlotsOwned, RingType, slots
<1>8. \A i \in Slots : mem'[i] = "alloc" <=> i \in slots \ sent
  BY <1>1, <1>7
<1>9. DelaySlotsOwned'
  <2>1. DOMAIN mem' = Slots
    BY <1>5 DEF RingType
  <2> QED BY <1>1, <1>6, <1>7, <1>8, <2>1 DEF DelaySlotsOwned
<1>10. sent \subseteq Slots
  BY <1>3, <1>4
<1>11. \A m \in replies' :
         m \in replies \/ \E i \in Slots : m = [asker |-> delay_queue[i].asker, about |-> delay_queue[i].about]
  BY <1>1, <1>10
<1> QED BY <1>1, <1>5, <1>9, <1>11

LEMMA TickEffect ==
    ASSUME RingType, DelaySlotsOwned, Tick
    PROVE  /\ RingType' /\ DelaySlotsOwned'
           /\ \A i \in Slots : /\ delay_queue'[i].asker = delay_queue[i].asker
                               /\ delay_queue'[i].about = delay_queue[i].about
<1> DEFINE W == Waiting(delay_queue_first, delay_queue_last)
<1>1. /\ delay_queue' = [i \in Slots |-> IF i \in W /\ ~Due(delay_queue[i])
                                         THEN [delay_queue[i] EXCEPT !.age = @ + 1] ELSE delay_queue[i]]
      /\ UNCHANGED <<mem, delay_queue_first, delay_queue_last>>
  BY DEF Tick, RingType
<1>2. W' = W
  BY <1>1 DEF Waiting
<1>3. W \subseteq Slots
  BY WaitingSlots DEF RingType
<1> HIDE DEF W
<1>4. ASSUME NEW i \in Slots
      PROVE  /\ delay_queue'[i] \in Delayed
             /\ delay_queue'[i].asker = delay_queue[i].asker
             /\ delay_queue'[i].about = delay_queue[i].about
             /\ delay_queue'[i].id = delay_queue[i].id
  <2>1. delay_queue[i] \in Delayed
    BY DEF RingType, Delayed
  <2> QED BY <1>1, <2>1 DEF Delayed
<1>5. RingType'
  <2>1. delay_queue' \in [Slots -> Delayed]
    BY <1>1, <1>4
  <2> QED BY <1>1, <2>1 DEF RingType, Delayed
<1>6. DelaySlotsOwned'
  BY <1>1, <1>2, <1>3, <1>4 DEF DelaySlotsOwned, W
<1> QED BY <1>4, <1>5, <1>6

LEMMA AppendEffect ==
    ASSUME RingType, DelaySlotsOwned, NEW new \in Delayed, AppendDelay(new)
    PROVE  /\ RingType' /\ DelaySlotsOwned'
           /\ \A i \in Slots : delay_queue'[i] \in {delay_queue[i], new}
<1> DEFINE f == delay_queue_first
           l == delay_queue_last
           m == (l + 1) % DelayLen
           slots == Waiting(f, l)
<1>1. f \in Slots /\ l \in Slots /\ DOMAIN mem = Slots
  BY DEF RingType
<1>2. /\ m \in Slots
      /\ m # f => Waiting(f, m) = slots \union {l}
      /\ m = f => /\ (f + 1) % DelayLen \in Slots
                  /\ Waiting((f + 1) % DelayLen, m) = (slots \union {l}) \ {f}
  BY <1>1, WaitingGrow
<1>3. /\ \A i \in slots : delay_queue[i].id # new.id
      /\ delay_queue' = [delay_queue EXCEPT ![l] = new]
      /\ delay_queue_last' = m
      /\ delay_queue_first' = IF m = f THEN (f + 1) % DelayLen ELSE f
      /\ mem' = [i \in Slots |-> IF m = f /\ i = f THEN "freed" ELSE IF i = l THEN "alloc" ELSE mem[i]]
  BY <1>1 DEF AppendDelay, DelayedSlots, FirstAfter
<1>4. slots \subseteq Slots /\ l \notin slots
  BY <1>1, WaitingSlots
<1>5. /\ \A i \in Slots : mem[i] = "alloc" <=> i \in slots
      /\ \A i, j \in slots : i # j => delay_queue[i].id # delay_queue[j].id
  BY <1>1 DEF DelaySlotsOwned
<1>6. \A i \in Slots : delay_queue'[i] = IF i = l THEN new ELSE delay_queue[i]
  BY <1>1, <1>3 DEF RingType
<1>7. Waiting(delay_queue_first, delay_queue_last)' = IF m = f THEN (slots \union {l}) \ {f} ELSE slots \union {l}
  <2>1. Waiting(delay_queue_first, delay_queue_last)' = Waiting(delay_queue_first', delay_queue_last')
    BY DEF Waiting
  <2> HIDE DEF m, slots, f, l
  <2> QED BY <1>2, <1>3, <2>1
<1>8. RingType'
  <2>1. delay_queue' \in [Slots -> Delayed]
    BY <1>1, <1>3 DEF RingType, Delayed
  <2>2. mem' \in [Slots -> {"null", "alloc", "freed"}]
    BY <1>3 DEF RingType
  <2>3. delay_queue_first' \in Slots /\ delay_queue_last' \in Slots
    BY <1>1, <1>2, <1>3
  <2> QED BY <2>1, <2>2, <2>3 DEF RingType, Delayed
<1>9. DOMAIN mem' = Slots
  BY <1>8 DEF RingType
<1> DEFINE W == Waiting(delay_queue_first, delay_queue_last)'
<1>10. W = IF m = f THEN (slots \union {l}) \ {f} ELSE slots \union {l}
  BY <1>7
<1>12. DelaySlotsOwned' <=> /\ \A i \in DOMAIN mem' : mem'[i] = "alloc" <=> i \in W
                            /\ \A i, j \in W : i # j => delay_queue'[i].id # delay_queue'[j].id
  BY DEF DelaySlotsOwned
<1> HIDE DEF W, m, slots, f, l
<1>13. \A i \in Slots : mem'[i] = "alloc" <=> i \in W
  BY <1>3, <1>5, <1>10
<1>14. \A i, j \in W : i # j => delay_queue'[i].id # delay_queue'[j].id
  BY <1>1, <1>3, <1>4, <1>5, <1>6, <1>10
<1>15. DelaySlotsOwned'
  BY <1>9, <1>12, <1>13, <1>14
<1> QED BY <1>6, <1>8, <1>15

LEMMA ReplaceEffect ==
    ASSUME RingType, DelaySlotsOwned, NEW new \in Delayed, ReplaceDelay(new)
    PROVE  /\ RingType' /\ DelaySlotsOwned'
           /\ \A i \in Slots : delay_queue'[i] \in {delay_queue[i], new}
<1> DEFINE W == Waiting(delay_queue_first, delay_queue_last)
           D == DelayedSlots(new.id)
           slot == CHOOSE i \in D : \A j \in D :
                    (j - delay_queue_first + DelayLen) % DelayLen
                        <= (i - delay_queue_first + DelayLen) % DelayLen
<1>1. DOMAIN mem = Slots /\ W \subseteq Slots
  BY WaitingSlots DEF RingType
<1>2. /\ D # {}
      /\ delay_queue' = [delay_queue EXCEPT ![slot] = new]
      /\ mem' = [i \in Slots |-> IF i = slot THEN "alloc" ELSE IF i \in D THEN "freed" ELSE mem[i]]
      /\ UNCHANGED <<delay_queue_first, delay_queue_last>>
  BY <1>1 DEF ReplaceDelay
<1>3. D = {i \in W : delay_queue[i].id = new.id}
  BY DEF DelayedSlots
<1>4. /\ \A i \in Slots : mem[i] = "alloc" <=> i \in W
      /\ \A i, j \in W : i # j => delay_queue[i].id # delay_queue[j].id
  BY <1>1 DEF DelaySlotsOwned
<1>5. PICK d \in D : D = {d}
  <2> HIDE DEF D, W
  <2> QED BY <1>2, <1>3, <1>4
<1>6. slot = d /\ d \in W /\ d \in Slots /\ delay_queue[d].id = new.id
  <2>1. (d - delay_queue_first + DelayLen) % DelayLen <= (d - delay_queue_first + DelayLen) % DelayLen
    <3>1. d \in Slots /\ delay_queue_first \in Slots
      BY <1>1, <1>3, <1>5 DEF RingType
    <3>2. d - delay_queue_first + DelayLen \in 0..(2 * DelayLen - 1) /\ DelayLen \in Nat \ {0}
      BY <3>1, LenAssumption DEF Slots
    <3>3. (d - delay_queue_first + DelayLen) % DelayLen \in Int
      BY <3>2
    <3> QED BY <3>3
  <2>2. slot \in D
    <3> HIDE DEF D
    <3> QED BY <1>5, <2>1
  <2> HIDE DEF D, slot
  <2> QED BY <1>1, <1>3, <1>5, <2>2
<1> HIDE DEF D, slot
<1>7. \A i \in Slots : delay_queue'[i] = IF i = d THEN new ELSE delay_queue[i]
  BY <1>2, <1>6 DEF RingType
<1>8. \A i \in Slots : mem'[i] = mem[i]
  BY <1>1, <1>2, <1>4, <1>5, <1>6
<1>9. RingType'
  <2>1. delay_queue' \in [Slots -> Delayed]
    BY <1>2, <1>6 DEF RingType, Delayed
  <2>2. mem' \in [Slots -> {"null", "alloc", "freed"}]
    BY <1>2 DEF RingType
  <2> QED BY <1>2, <2>1, <2>2 DEF RingType, Delayed
<1>10. W' = W
  BY <1>2 DEF Waiting
<1>11. DOMAIN mem' = Slots
  BY <1>9 DEF RingType
<1>12. DelaySlotsOwned' <=> /\ \A i \in DOMAIN mem' : mem'[i] = "alloc" <=> i \in W'
                            /\ \A i, j \in W' : i # j => delay_queue'[i].id # delay_queue'[j].id
  BY DEF DelaySlotsOwned
<1> HIDE DEF W
<1>13. DelaySlotsOwned'
  BY <1>1, <1>4, <1>6, <1>7, <1>8, <1>10, <1>11, <1>12
<1> QED BY <1>7, <1>9, <1>13

-----------------------------------------------------------------------------
(***************************************************************************)
(* What an answer is taken for                                              *)
(***************************************************************************)
LEMMA RemoteEffect ==
    ASSUME DnsInv, HandleRemote
    PROVE  /\ UNCHANGED queueVars
           /\ late \subseteq late'
           /\ \/ UNCHANGED <<replies, delayVars>>
              \/ \E new \in Delayed :
                    /\ new.asker = new.about \/ new.about \in late'
                    /\ \/ /\ replies' = replies \union {[asker |-> new.asker, about |-> new.about]}
                          /\ UNCHANGED delayVars
                       \/ (AppendDelay(new) \/ ReplaceDelay(new)) /\ UNCHANGED replies
<1>1. UNCHANGED queueVars
  BY DEF HandleRemote
<1>2. PICK q \in DOMAIN asked, server \in Server, rrs \in Answer :
        LET found == {i \in DOMAIN id_addr_queue : id_addr_queue[i].id = asked[q]}
            entry == id_addr_queue[CHOOSE i \in found : \A j \in found : i <= j]
            new == [id |-> asked[q], asker |-> entry.asker, about |-> q, age |-> 0]
        IN
        /\ late' = IF \E i \in DOMAIN id_addr_queue : id_addr_queue[i].asker = q
                   THEN late ELSE late \union {q}
        /\ \/ found = {} /\ UNCHANGED <<replies, delayVars, accepted>>
           \/ /\ found # {}
              /\ \/ UNCHANGED <<replies, delayVars>>
                 \/ /\ replies' = replies \union {[asker |-> entry.asker, about |-> q]}
                    /\ UNCHANGED delayVars
                 \/ (AppendDelay(new) \/ ReplaceDelay(new)) /\ UNCHANGED replies
  BY DEF HandleRemote
<1> DEFINE found == {i \in DOMAIN id_addr_queue : id_addr_queue[i].id = asked[q]}
           at == CHOOSE i \in found : \A j \in found : i <= j
           entry == id_addr_queue[at]
           new == [id |-> asked[q], asker |-> entry.asker, about |-> q, age |-> 0]
<1>3. QueueType /\ IdsDistinct /\ EntryOfQuery /\ DOMAIN id_addr_queue = Entries
  BY DEF DnsInv, QueueType
<1>4. late' = IF \E i \in Entries : id_addr_queue[i].asker = q THEN late ELSE late \union {q}
  BY <1>2, <1>3
<1>5. q \in Nat /\ q # 0 /\ asked[q] \in Id
  BY <1>3 DEF QueueType
<1>6. ASSUME found # {}
      PROVE  /\ new \in Delayed /\ new.asker = entry.asker /\ new.about = q
             /\ new.asker = new.about \/ new.about \in late'
  <2>1. found \subseteq Nat
    BY <1>3, LenAssumption DEF Entries
  <2>2. at \in found
    <3> HIDE DEF found
    <3> QED BY <1>6, <2>1, LeastNat
  <2> HIDE DEF at
  <2>3. at \in Entries /\ id_addr_queue[at].id = asked[q]
    BY <1>3, <2>2
  <2>4. entry \in [id : Id, asker : Nat]
    BY <1>3, <2>3 DEF QueueType
  <2>5. new \in Delayed /\ new.asker = entry.asker /\ new.about = q
    BY <1>5, <2>4 DEF Delayed
  <2>6. ASSUME q \notin late' PROVE entry.asker = q
    <3>1. PICK i \in Entries : id_addr_queue[i].asker = q
      BY <1>4, <2>6
    <3>2. id_addr_queue[i].id = asked[q]
      BY <1>3, <1>5, <3>1 DEF EntryOfQuery
    <3>3. i = at
      BY <1>3, <1>5, <2>3, <3>1, <3>2 DEF IdsDistinct
    <3> QED BY <3>1, <3>3
  <2> QED BY <2>5, <2>6
<1>7. late \subseteq late'
  BY <1>4
<1>8. CASE UNCHANGED <<replies, delayVars>>
  BY <1>1, <1>7, <1>8
<1>9. CASE found # {} /\ replies' = replies \union {[asker |-> entry.asker, about |-> q]} /\ UNCHANGED delayVars
  <2>1. /\ new \in Delayed /\ new.asker = entry.asker /\ new.about = q
        /\ new.asker = new.about \/ new.about \in late'
    BY <1>6, <1>9
  <2>2. replies' = replies \union {[asker |-> new.asker, about |-> new.about]}
    BY <1>9
  <2> HIDE DEF new
  <2> QED BY <1>1, <1>7, <1>9, <2>1, <2>2
<1>10. CASE found # {} /\ (AppendDelay(new) \/ ReplaceDelay(new)) /\ UNCHANGED replies
  <2>1. new \in Delayed /\ (new.asker = new.about \/ new.about \in late')
    BY <1>6, <1>10
  <2> HIDE DEF new
  <2> QED BY <1>1, <1>7, <1>10, <2>1
<1> QED BY <1>2, <1>8, <1>9, <1>10

\* A query gets an id no entry has, and the next entry.
LEMMA LocalEffect ==
    ASSUME QueueType, IdsDistinct, EntryOfQuery, HandleLocal
    PROVE  QueueType' /\ IdsDistinct' /\ EntryOfQuery'
<1> DEFINE pos == (id_addr_queue_pos + 1) % QueueLen
           n == Len(asked) + 1
<1>1. PICK id \in Id : /\ Unused(id)
                       /\ id_addr_queue_pos' = pos
                       /\ id_addr_queue' = [id_addr_queue EXCEPT ![pos] = [id |-> id, asker |-> n]]
                       /\ asked' = Append(asked, id)
  BY DEF HandleLocal
<1>2. pos \in Entries
  <2>1. id_addr_queue_pos \in 0..(QueueLen - 1) /\ QueueLen \in Nat \ {0}
    BY LenAssumption DEF QueueType, Entries
  <2>2. pos = IF id_addr_queue_pos = QueueLen - 1 THEN 0 ELSE id_addr_queue_pos + 1
    BY <2>1, ModStep
  <2> HIDE DEF pos
  <2> QED BY <2>1, <2>2 DEF Entries
<1> HIDE DEF pos
<1>3. n \in Nat /\ n # 0 /\ asked' \in Seq(Id) /\ DOMAIN asked' = 1..n
  BY <1>1 DEF QueueType
<1>4. \A q \in DOMAIN asked : q \in DOMAIN asked' /\ asked'[q] = asked[q]
  BY <1>1 DEF QueueType
<1>5. n \in DOMAIN asked' /\ asked'[n] = id
  BY <1>1 DEF QueueType
<1> HIDE DEF n
<1>6. DOMAIN id_addr_queue = Entries /\ DOMAIN id_addr_queue' = Entries
  BY <1>1 DEF QueueType
<1>7. \A i \in Entries : id_addr_queue'[i] = IF i = pos THEN [id |-> id, asker |-> n] ELSE id_addr_queue[i]
  BY <1>1, <1>2, <1>6
<1>8. QueueType'
  <2>1. id_addr_queue' \in [Entries -> [id : Id, asker : Nat]]
    BY <1>1, <1>2, <1>3 DEF QueueType
  <2> QED BY <1>1, <1>2, <1>3, <2>1 DEF QueueType
<1>9. \A i \in Entries : id_addr_queue[i].id # id
  BY <1>1, <1>6 DEF Unused
<1>10. IdsDistinct'
  BY <1>6, <1>7, <1>9 DEF IdsDistinct
<1>11. EntryOfQuery'
  <2>1. SUFFICES ASSUME NEW i \in Entries, id_addr_queue'[i].asker # 0
                 PROVE  /\ id_addr_queue'[i].asker \in DOMAIN asked'
                        /\ id_addr_queue'[i].id = asked'[id_addr_queue'[i].asker]
    BY DEF EntryOfQuery
  <2>2. CASE i = pos BY <1>5, <1>7, <2>2
  <2>3. CASE i # pos BY <1>4, <1>7, <2>1, <2>3 DEF EntryOfQuery
  <2> QED BY <2>2, <2>3
<1> QED BY <1>8, <1>10, <1>11

-----------------------------------------------------------------------------
(***************************************************************************)
(* The invariant                                                            *)
(***************************************************************************)
LEMMA DnsInit == Init => DnsInv
<1> SUFFICES ASSUME Init PROVE DnsInv
  OBVIOUS
<1> USE LenAssumption, IdAssumption
<1>1. QueueType
  BY DEF Init, QueueType, Entries, Id
<1>2. RingType
  BY DEF Init, RingType, Slots, Id
<1>3. IdsDistinct /\ EntryOfQuery
  BY DEF Init, IdsDistinct, EntryOfQuery, Entries
<1>4. DelaySlotsOwned
  <2>1. Waiting(delay_queue_first, delay_queue_last) = {}
    BY DEF Init, Waiting
  <2>2. \A i \in DOMAIN mem : mem[i] # "alloc"
    BY DEF Init
  <2> QED BY <2>1, <2>2 DEF DelaySlotsOwned
<1>5. DelayedForAsker /\ AnswersItsQuestion
  BY DEF Init, DelayedForAsker, AnswersItsQuestion, Slots
<1> QED BY <1>1, <1>2, <1>3, <1>4, <1>5 DEF DnsInv

LEMMA DnsStep == DnsInv /\ [Next]_vars => DnsInv'
<1> SUFFICES ASSUME DnsInv, [Next]_vars PROVE DnsInv'
  OBVIOUS
<1>0. QueueType /\ RingType /\ IdsDistinct /\ EntryOfQuery /\ DelaySlotsOwned /\ DelayedForAsker /\ AnswersItsQuestion
  BY DEF DnsInv
<1>q. UNCHANGED queueVars => QueueType' /\ IdsDistinct' /\ EntryOfQuery'
  BY <1>0 DEF queueVars, QueueType, IdsDistinct, EntryOfQuery
<1>r. UNCHANGED delayVars => RingType' /\ DelaySlotsOwned'
  BY <1>0 DEF delayVars, RingType, DelaySlotsOwned, Waiting
<1>1. CASE CheckAndSendDelay
  <2>1. UNCHANGED <<queueVars, late>>
    BY <1>1 DEF CheckAndSendDelay
  <2>2. RingType' /\ DelaySlotsOwned' /\ UNCHANGED delay_queue
    BY <1>0, <1>1, SendEffect
  <2>3. DelayedForAsker'
    BY <1>0, <2>1, <2>2 DEF DelayedForAsker
  <2>4. AnswersItsQuestion'
    <3>1. SUFFICES ASSUME NEW m \in replies' PROVE m.asker = m.about \/ m.about \in late
      BY <2>1 DEF AnswersItsQuestion
    <3>2. m \in replies \/ \E i \in Slots : m = [asker |-> delay_queue[i].asker, about |-> delay_queue[i].about]
      BY <1>0, <1>1, SendEffect
    <3> QED BY <1>0, <3>2 DEF AnswersItsQuestion, DelayedForAsker
  <2> QED BY <1>q, <2>1, <2>2, <2>3, <2>4 DEF DnsInv
<1>2. CASE Tick
  <2>1. UNCHANGED <<queueVars, late, replies>>
    BY <1>2 DEF Tick
  <2>2. RingType' /\ DelaySlotsOwned' /\ DelayedForAsker'
    BY <1>0, <1>2, <2>1, TickEffect DEF DelayedForAsker
  <2>3. AnswersItsQuestion'
    BY <1>0, <2>1 DEF AnswersItsQuestion
  <2> QED BY <1>q, <2>1, <2>2, <2>3 DEF DnsInv
<1>3. CASE HandleLocal
  <2>1. UNCHANGED <<delayVars, replies, late>>
    BY <1>3 DEF HandleLocal
  <2>2. QueueType' /\ IdsDistinct' /\ EntryOfQuery'
    BY <1>0, <1>3, LocalEffect
  <2>3. DelayedForAsker' /\ AnswersItsQuestion'
    BY <1>0, <2>1 DEF DelayedForAsker, AnswersItsQuestion, delayVars
  <2> QED BY <1>r, <2>1, <2>2, <2>3 DEF DnsInv
<1>4. CASE HandleRemote
  <2>1. UNCHANGED queueVars /\ late \subseteq late'
    BY <1>4, RemoteEffect
  <2>2. CASE UNCHANGED <<replies, delayVars>>
    <3>1. DelayedForAsker' /\ AnswersItsQuestion'
      BY <1>0, <2>1, <2>2 DEF DelayedForAsker, AnswersItsQuestion, delayVars
    <3> QED BY <1>q, <1>r, <2>1, <2>2, <3>1 DEF DnsInv
  <2>3. ASSUME NEW new \in Delayed, new.asker = new.about \/ new.about \in late',
               replies' = replies \union {[asker |-> new.asker, about |-> new.about]}, UNCHANGED delayVars
        PROVE  DnsInv'
    <3>1. DelayedForAsker'
      BY <1>0, <2>1, <2>3 DEF DelayedForAsker, delayVars
    <3>2. AnswersItsQuestion'
      BY <1>0, <2>1, <2>3 DEF AnswersItsQuestion
    <3> QED BY <1>q, <1>r, <2>1, <2>3, <3>1, <3>2 DEF DnsInv
  <2>4. ASSUME NEW new \in Delayed, new.asker = new.about \/ new.about \in late',
               AppendDelay(new) \/ ReplaceDelay(new), UNCHANGED replies
        PROVE  DnsInv'
    <3>1. RingType' /\ DelaySlotsOwned' /\ \A i \in Slots : delay_queue'[i] \in {delay_queue[i], new}
      BY <1>0, <2>4, AppendEffect, ReplaceEffect
    <3>2. DelayedForAsker'
      BY <1>0, <2>1, <2>4, <3>1 DEF DelayedForAsker
    <3>3. AnswersItsQuestion'
      BY <1>0, <2>1, <2>4 DEF AnswersItsQuestion
    <3> QED BY <1>q, <2>1, <3>1, <3>2, <3>3 DEF DnsInv
  <2>5. \/ UNCHANGED <<replies, delayVars>>
        \/ \E new \in Delayed :
              /\ new.asker = new.about \/ new.about \in late'
              /\ \/ /\ replies' = replies \union {[asker |-> new.asker, about |-> new.about]}
                    /\ UNCHANGED delayVars
                 \/ (AppendDelay(new) \/ ReplaceDelay(new)) /\ UNCHANGED replies
    BY <1>4, RemoteEffect
  <2> QED BY <2>2, <2>3, <2>4, <2>5
<1>5. CASE NoLocal \/ NoRemote \/ UNCHANGED vars
  <2>1. UNCHANGED <<queueVars, delayVars, replies, late>>
    BY <1>5 DEF NoLocal, NoRemote, vars
  <2>2. DelayedForAsker' /\ AnswersItsQuestion'
    BY <1>0, <2>1 DEF DelayedForAsker, AnswersItsQuestion, delayVars
  <2> QED BY <1>q, <1>r, <2>1, <2>2 DEF DnsInv
<1> QED BY <1>1, <1>2, <1>3, <1>4, <1>5 DEF Next

-----------------------------------------------------------------------------
(***************************************************************************)
(* The theorems                                                             *)
(***************************************************************************)

\* However long the id queue and however many queries: queue_lookup never has a
\* choice between two entries.
THEOREM IdsStayDistinct == Spec => []IdsDistinct
<1>1. DnsInv => IdsDistinct
  BY DEF DnsInv
<1> QED BY <1>1, DnsInit, DnsStep, PTL DEF Spec

\* However long the ring of delayed answers, one slot included, and however it
\* wraps and overflows: check_and_send_delay and schedule_delay free every
\* buffer once and send none they have freed.
THEOREM BuffersOwned == Spec => []DelaySlotsOwned
<1>1. DnsInv => DelaySlotsOwned
  BY DEF DnsInv
<1> QED BY <1>1, DnsInit, DnsStep, PTL DEF Spec

\* A client gets what it has asked for, passed on or delayed, unless a server
\* has answered after the query's entry was overwritten.
THEOREM ClientsGetTheirAnswers == Spec => []AnswersItsQuestion
<1>1. DnsInv => AnswersItsQuestion
  BY DEF DnsInv
<1> QED BY <1>1, DnsInit, DnsStep, PTL DEF Spec
=============================================================================
