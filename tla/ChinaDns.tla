------------------------------ MODULE ChinaDns ------------------------------
(***************************************************************************)
(* The DNS proxy: one select loop that forwards a query to every server     *)
(* under an id of its own, and passes, filters or delays what they answer.  *)
(*                                                                         *)
(* Query q is the q-th the proxy has received; an entry's asker stands for  *)
(* the client's address and the id the client has used.  An answer is its   *)
(* list of records, each a Chinese or a foreign address, one that lets the  *)
(* answer pass (IPv6, PTR, unreadable), or another one.  The time an answer *)
(* has been delayed is counted in ticks.  compression, bidirectional and    *)
(* the ip list are off, as the program never sets them.                     *)
(***************************************************************************)
EXTENDS Integers, Sequences, SequencesExt

CONSTANTS
    MaxId,         \* bound: ids are 0..MaxId (65535)
    QueueLen,      \* ID_ADDR_QUEUE_LEN (128)
    DelayLen,      \* DELAY_QUEUE_LEN (128)
    Delay,         \* an answer is sent when it has been delayed longer (0.3 s)
    MaxQuery,      \* bound: queries the clients make
    MaxAnswer      \* bound: answers the servers give

ASSUME IdAssumption == MaxId \in Nat /\ MaxId >= QueueLen
ASSUME LenAssumption == QueueLen \in Nat \ {0} /\ DelayLen \in Nat \ {0}
ASSUME BoundAssumption == Delay \in Nat /\ MaxQuery \in Nat /\ MaxAnswer \in Nat

VARIABLES
    pc,                 \* the part of the loop that comes next
    id_addr_queue,      \* the ring of ids and who has asked
    id_addr_queue_pos,  \* where the last query is
    delay_queue,        \* the ring of delayed answers
    mem,                \* whether the buffer of a slot of delay_queue is allocated
    delay_queue_first,  \* the oldest delayed answer
    delay_queue_last,   \* the next free slot
    asked,              \* history: the id that query q was given
    answers,            \* how many answers have come
    replies,            \* history: [asker, about], what the clients have got
    accepted,           \* history: queries a foreign server has answered in time
    displaced,          \* history: queries whose delayed answer was thrown out
    late                \* history: queries answered after their entry was overwritten

queueVars == <<id_addr_queue, id_addr_queue_pos, asked>>
delayVars == <<delay_queue, mem, delay_queue_first, delay_queue_last, displaced>>
vars == <<pc, queueVars, delayVars, answers, replies, accepted, late>>

Id == 0..MaxId
Query == 1..MaxQuery
Server == {"chn", "foreign"}
Record == {"chn", "foreign", "v6", "other"}
Answer == UNION {[1..n -> Record] : n \in 0..2}

\* The slots between first and last.
Waiting(first, last) ==
    IF first <= last THEN first..(last - 1) ELSE (first..(DelayLen - 1)) \union (0..(last - 1))

Init ==
    /\ pc = "select"
    /\ id_addr_queue = [i \in 0..(QueueLen - 1) |-> [id |-> 0, asker |-> 0]]
    /\ id_addr_queue_pos = 0
    /\ delay_queue = [i \in 0..(DelayLen - 1) |-> [id |-> 0, asker |-> 0, about |-> 0, age |-> 0]]
    /\ mem = [i \in 0..(DelayLen - 1) |-> "null"]
    /\ delay_queue_first = 0
    /\ delay_queue_last = 0
    /\ asked = <<>>
    /\ answers = 0
    /\ replies = {}
    /\ accepted = {}
    /\ displaced = {}
    /\ late = {}

-----------------------------------------------------------------------------
(***************************************************************************)
(* check_and_send_delay                                                     *)
(***************************************************************************)

Due(e) == e.age > Delay

\* How many answers are due: the loop stops at the first that is not.
DueCount ==
    LET n == (delay_queue_last - delay_queue_first + DelayLen) % DelayLen
    IN  CHOOSE k \in 0..n :
            /\ \A j \in 0..(k - 1) : Due(delay_queue[(delay_queue_first + j) % DelayLen])
            /\ k < n => ~Due(delay_queue[(delay_queue_first + k) % DelayLen])

CheckAndSendDelay ==
    LET first == (delay_queue_first + DueCount) % DelayLen
        sent == Waiting(delay_queue_first, first)
    IN
    /\ pc = "select"
    /\ replies' = replies \union
            {[asker |-> delay_queue[i].asker, about |-> delay_queue[i].about] : i \in sent}
    /\ mem' = [i \in DOMAIN mem |-> IF i \in sent THEN "freed" ELSE mem[i]]
    /\ delay_queue_first' = first
    /\ pc' = "local"
    /\ UNCHANGED <<queueVars, delay_queue, delay_queue_last, displaced, answers, accepted, late>>

\* Time passes in select.  A delayed answer that is due grows no older.
Tick ==
    /\ pc = "select"
    /\ \E i \in Waiting(delay_queue_first, delay_queue_last) : ~Due(delay_queue[i])
    /\ delay_queue' = [i \in DOMAIN delay_queue |->
            IF i \in Waiting(delay_queue_first, delay_queue_last) /\ ~Due(delay_queue[i])
            THEN [delay_queue[i] EXCEPT !.age = @ + 1] ELSE delay_queue[i]]
    /\ UNCHANGED <<pc, queueVars, mem, delay_queue_first, delay_queue_last, displaced, answers,
                   replies, accepted, late>>

(***************************************************************************)
(* dns_handle_local                                                         *)
(***************************************************************************)

\* Mutant: an id is taken without a look at the queue.
UnusedAny(id) == TRUE

\* queue_lookup(id) finds nothing.
Unused(id) == \A i \in DOMAIN id_addr_queue : id_addr_queue[i].id # id

\* A query gets an id that is in no entry, and the entry of the oldest query.
HandleLocal ==
    /\ pc = "local"
    /\ Len(asked) < MaxQuery
    /\ \E id \in Id :
        LET pos == (id_addr_queue_pos + 1) % QueueLen IN
        /\ Unused(id)
        /\ id_addr_queue_pos' = pos
        /\ id_addr_queue' = [id_addr_queue EXCEPT ![pos] = [id |-> id, asker |-> Len(asked) + 1]]
        /\ asked' = Append(asked, id)
    /\ pc' = "remote"
    /\ UNCHANGED <<delayVars, answers, replies, accepted, late>>

\* Nothing to read from local_sock, or no query that can be parsed.
NoLocal ==
    /\ pc = "local"
    /\ pc' = "remote"
    /\ UNCHANGED <<queueVars, delayVars, answers, replies, accepted, late>>

(***************************************************************************)
(* dns_handle_remote                                                        *)
(***************************************************************************)

\* Mutant: foreign addresses are filtered whoever has sent them.
ShouldFilterAlways(server, rrs) ==
    LET k == SelectInSeq(rrs, LAMBDA rr : rr = "v6" \/ rr = "foreign")
    IN  IF k # 0 THEN (IF rrs[k] = "v6" THEN "pass" ELSE "filter")
        ELSE IF Len(rrs) <= 1 THEN "delay" ELSE "pass"

\* should_filter_query: the first record that decides, else the number of
\* records.  A Chinese server is not believed when it gives a foreign address.
ShouldFilter(server, rrs) ==
    LET k == SelectInSeq(rrs, LAMBDA rr : rr = "v6" \/ (rr = "foreign" /\ server = "chn"))
    IN  IF k # 0 THEN (IF rrs[k] = "v6" THEN "pass" ELSE "filter")
        ELSE IF Len(rrs) <= 1 THEN "delay" ELSE "pass"

\* The slots of delay_queue that schedule_delay finds with the id.
DelayedSlots(id) ==
    {i \in Waiting(delay_queue_first, delay_queue_last) : delay_queue[i].id = id}

\* Mutant: a full ring takes the answer without giving up the oldest.
FirstAfterKept(last) == delay_queue_first

\* delay_queue_first after last has moved.
FirstAfter(last) ==
    IF last = delay_queue_first THEN (delay_queue_first + 1) % DelayLen ELSE delay_queue_first

\* schedule_delay with a free slot: append, and give up the oldest when full.
AppendDelay(new) ==
    LET last == (delay_queue_last + 1) % DelayLen
        full == last = delay_queue_first
    IN
    /\ DelayedSlots(new.id) = {}
    /\ delay_queue' = [delay_queue EXCEPT ![delay_queue_last] = new]
    /\ delay_queue_last' = last
    /\ delay_queue_first' = FirstAfter(last)
    /\ mem' = [i \in DOMAIN mem |-> IF full /\ i = delay_queue_first THEN "freed"
                                    ELSE IF i = delay_queue_last THEN "alloc" ELSE mem[i]]
    /\ displaced' = displaced \union (IF full THEN {delay_queue'[delay_queue_first].asker} ELSE {})

\* schedule_delay for an id that is delayed already: every slot with the id is
\* freed, the last one is used.
ReplaceDelay(new) ==
    LET slots == DelayedSlots(new.id)
        slot == CHOOSE i \in slots : \A j \in slots :
                    (j - delay_queue_first + DelayLen) % DelayLen
                        <= (i - delay_queue_first + DelayLen) % DelayLen
    IN
    /\ slots # {}
    /\ delay_queue' = [delay_queue EXCEPT ![slot] = new]
    /\ mem' = [i \in DOMAIN mem |-> IF i = slot THEN "alloc"
                                    ELSE IF i \in slots THEN "freed" ELSE mem[i]]
    /\ displaced' = displaced \union ({delay_queue[i].asker : i \in slots} \ {new.asker})
    /\ UNCHANGED <<delay_queue_first, delay_queue_last>>

\* An answer to query q comes under the id q was sent with.  It is taken as the
\* answer to whatever query has that id now, or skipped if none has.
HandleRemote ==
    /\ pc = "remote"
    /\ answers < MaxAnswer
    /\ answers' = answers + 1
    /\ \E q \in DOMAIN asked, server \in Server, rrs \in Answer :
        LET found == {i \in DOMAIN id_addr_queue : id_addr_queue[i].id = asked[q]}
            entry == id_addr_queue[CHOOSE i \in found : \A j \in found : i <= j]
            new == [id |-> asked[q], asker |-> entry.asker, about |-> q, age |-> 0]
            verdict == ShouldFilter(server, rrs)
        IN
        /\ late' = IF \E i \in DOMAIN id_addr_queue : id_addr_queue[i].asker = q
                   THEN late ELSE late \union {q}
        /\ \/ found = {} /\ UNCHANGED <<replies, delayVars, accepted>>
           \/ /\ found # {}
              /\ \/ verdict = "filter" /\ UNCHANGED <<replies, delayVars>>
                 \/ /\ verdict = "pass"
                    /\ replies' = replies \union {[asker |-> entry.asker, about |-> q]}
                    /\ UNCHANGED delayVars
                 \/ /\ verdict = "delay"
                    /\ AppendDelay(new) \/ ReplaceDelay(new)
                    /\ UNCHANGED replies
              /\ accepted' = IF server = "foreign" THEN accepted \union {entry.asker} ELSE accepted
    /\ pc' = "select"
    /\ UNCHANGED queueVars

\* Nothing to read from remote_sock, or no answer that can be parsed.
NoRemote ==
    /\ pc = "remote"
    /\ pc' = "select"
    /\ UNCHANGED <<queueVars, delayVars, answers, replies, accepted, late>>

Next ==
    \/ CheckAndSendDelay
    \/ Tick
    \/ HandleLocal \/ NoLocal
    \/ HandleRemote \/ NoRemote

Spec == Init /\ [][Next]_vars

\* The loop goes round, at least every 50 ms, and time passes.
FairSpec ==
    /\ Spec
    /\ WF_vars(CheckAndSendDelay) /\ SF_vars(Tick)
    /\ WF_vars(HandleLocal \/ NoLocal) /\ WF_vars(HandleRemote \/ NoRemote)

-----------------------------------------------------------------------------
(***************************************************************************)
(* Properties                                                               *)
(***************************************************************************)

\* No two entries of the id queue in use have the same id, so queue_lookup
\* never has a choice, the ids of overwritten queries and id 0 included.
IdsDistinct ==
    \A i, j \in DOMAIN id_addr_queue :
        i # j /\ id_addr_queue[i].asker # 0 => id_addr_queue[i].id # id_addr_queue[j].id

\* The buffers of delay_queue that are allocated are those of the waiting
\* answers, one answer for an id: when the ring wraps, overflows, and answers
\* are replaced, no buffer is freed twice, none is sent after it was freed and
\* none is lost.
DelaySlotsOwned ==
    LET slots == Waiting(delay_queue_first, delay_queue_last) IN
    /\ \A i \in DOMAIN mem : mem[i] = "alloc" <=> i \in slots
    /\ \A i, j \in slots : i # j => delay_queue[i].id # delay_queue[j].id

\* Whatever a client gets is about the question it has asked, passed or
\* delayed; what is not is about a question that a server has answered after
\* its entry was overwritten, and its id given to another query.
AnswersItsQuestion == \A m \in replies : m.asker = m.about \/ m.about \in late

\* When a foreign server has answered a query in time, its client gets a reply
\* in the end, unless a later answer has taken its place in delay_queue.
ForeignAnswerReachesClient ==
    \A q \in Query :
        q \in accepted ~> q \in displaced \/ \E m \in replies : m.asker = q

=============================================================================
