------------------------------ MODULE Segments ------------------------------
(***************************************************************************)
(* From packets of the tunnel to packages and back.  send_package puts a    *)
(* segment into a ring; the segment thread takes a copy of the ring, which  *)
(* shares its array, empties the ring (rebase) and packs as many segments   *)
(* into a package as fit, each behind a field with its length, the last one *)
(* followed by a zero.  The receiver decrypts a package and hands over its  *)
(* segments one by one until it reads the zero.                             *)
(*                                                                         *)
(* Packages arrive in order and at most once (Rudp); one may be given up on *)
(* the way, or fail to decrypt.  A package is a function from the offsets   *)
(* of its length fields to the segments behind them.                        *)
(***************************************************************************)
EXTENDS Integers, Sequences, SequencesExt, Functions, FiniteSets

CONSTANTS
    Capacity,    \* slots of the ring (100000)
    MaxSegment,  \* max_segment, the bytes a package has room for
    MaxLen,      \* the longest segment: the MTU of the tunnel, MaxSegment - 8
    MaxSegs,     \* bound: segments that are sent
    MaxBad       \* bound: packages that are given up or do not decrypt

ASSUME CapacityAssumption == Capacity \in Nat \ {0}
ASSUME LenAssumption == MaxSegment \in Nat /\ MaxLen \in Nat \ {0}
ASSUME BoundAssumption == MaxSegs \in Nat /\ MaxBad \in Nat

Slot == 0..(Capacity - 1)
Segment == [id : 1..MaxSegs, len : 1..MaxLen]
Ring == [len : 0..Capacity, start : Slot, end : Slot]
Zero == [id |-> 0, len |-> 0]
NoPackage == <<>>

VARIABLES
    array,     \* the array of both rings
    ring,      \* segment_list: [len, start, end]
    list,      \* the segment thread's copy
    sent,      \* history: the segments given to send_package
    buf,       \* the package the segment thread packs
    start,     \* its end so far
    packages,  \* packages under way, oldest first
    bad,       \* packages lost
    parser,    \* SegmentParser: the decrypted package and the offset of the next field
    received   \* history: the segments handed over

segmentsVars == <<array, ring, list, sent, buf, start, packages, bad, parser, received>>

SegmentsInit ==
    /\ array = [s \in Slot |-> Zero]
    /\ ring = [len |-> 0, start |-> 0, end |-> 0]
    /\ list = ring
    /\ sent = <<>>
    /\ buf = NoPackage
    /\ start = 2
    /\ packages = <<>>
    /\ bad = 0
    /\ parser = [buf |-> NoPackage, start |-> 0]
    /\ received = <<>>

-----------------------------------------------------------------------------
\* PackageSegmentList::push
PushSegment(seg) ==
    /\ array' = [array EXCEPT ![ring.end] = seg]
    /\ ring' = [ring EXCEPT !.end = (@ + 1) % Capacity, !.len = @ + 1]

\* send_package.  Nothing in the code stops it at a full ring, whose oldest
\* segments it would overwrite: the bound is what the segment thread has not
\* packed yet.
SendPackage ==
    /\ Len(sent) < MaxSegs
    /\ ring.len + list.len < Capacity
    /\ \E n \in 1..MaxLen :
        LET seg == [id |-> Len(sent) + 1, len |-> n] IN
        /\ PushSegment(seg)
        /\ sent' = Append(sent, seg)
    /\ UNCHANGED <<list, buf, start, packages, bad, parser, received>>

\* Mutant: the ring is emptied towards its start.
RebaseToStart == [ring EXCEPT !.len = 0, !.end = ring.start]

\* PackageSegmentList::rebase
Rebase == [ring EXCEPT !.len = 0, !.start = ring.end]

\* The segment thread's turn: copy and rebase, under segment_mutex.
TakeSegments ==
    /\ list.len = 0 /\ start = 2
    /\ ring.len > 0
    /\ list' = ring
    /\ ring' = Rebase
    /\ UNCHANGED <<array, sent, buf, start, packages, bad, parser, received>>

FrontSegment == array[list.start]

\* Mutant: room is kept for a field more than there is.
FitsLess == MaxSegment - 8 - start > FrontSegment.len

\* Mutant: the room for the fields is forgotten.
FitsMore == MaxSegment + 2 - start > FrontSegment.len

Fits == MaxSegment - 2 - start > FrontSegment.len

\* What is at an offset of a package is overwritten.
Write(b, offset, seg) ==
    [o \in DOMAIN b \union {offset} |-> IF o = offset THEN seg ELSE b[o]]

\* The inner loop of the segment thread: one more segment, and a zero.
PackSegment ==
    /\ list.len > 0
    /\ Fits
    /\ buf' = Write(Write(buf, start - 2, FrontSegment), start + FrontSegment.len, Zero)
    /\ start' = start + FrontSegment.len + 2
    /\ list' = [list EXCEPT !.len = @ - 1, !.start = (@ + 1) % Capacity]
    /\ UNCHANGED <<array, ring, sent, packages, bad, parser, received>>

\* The package is encrypted and goes to the sender.
FinishPackage ==
    /\ list.len = 0 \/ ~Fits
    /\ start > 2
    /\ packages' = Append(packages, [buf |-> buf, len |-> start])
    /\ buf' = NoPackage
    /\ start' = 2
    /\ UNCHANGED <<array, ring, list, sent, bad, parser, received>>

\* A package is given up by the sender.
DropPackage ==
    /\ packages # <<>> /\ bad < MaxBad
    /\ bad' = bad + 1
    /\ packages' = Tail(packages)
    /\ UNCHANGED <<array, ring, list, sent, buf, start, parser, received>>

\* SegmentParser::next_segment has something: the field is in the package.
Field == IF parser.buf = NoPackage THEN Zero ELSE parser.buf[parser.start]

\* recv_package hands over the next segment of the package it has.
NextSegment ==
    /\ Field # Zero
    /\ received' = Append(received, Field)
    /\ parser' = [parser EXCEPT !.start = @ + Field.len + 2]
    /\ UNCHANGED <<array, ring, list, sent, buf, start, packages, bad>>

Loaded(p) == [buf |-> p.buf, start |-> 0]

\* recv_package has none left and loads the next package.
LoadPackage ==
    /\ Field = Zero
    /\ packages # <<>>
    /\ parser' = Loaded(Head(packages))
    /\ packages' = Tail(packages)
    /\ UNCHANGED <<array, ring, list, sent, buf, start, bad, received>>

\* The same, but it does not decrypt: the parser stays at its zero.
LoadFails ==
    /\ Field = Zero
    /\ packages # <<>> /\ bad < MaxBad
    /\ bad' = bad + 1
    /\ packages' = Tail(packages)
    /\ UNCHANGED <<array, ring, list, sent, buf, start, parser, received>>

SegmentThread == TakeSegments \/ PackSegment \/ FinishPackage
Receiver == NextSegment \/ LoadPackage \/ LoadFails

SegmentsNext == SendPackage \/ SegmentThread \/ DropPackage \/ Receiver

\* Both threads run on; nobody has to send, and packages need not get lost.
SegmentsFairness == WF_segmentsVars(SegmentThread) /\ WF_segmentsVars(Receiver)

SegmentsSpec == SegmentsInit /\ [][SegmentsNext]_segmentsVars
SegmentsFairSpec == SegmentsSpec /\ SegmentsFairness

-----------------------------------------------------------------------------
SegmentsTypeOK ==
    /\ array \in [Slot -> Segment \union {Zero}]
    /\ ring \in Ring /\ list \in Ring
    /\ sent \in Seq(Segment) /\ received \in Seq(Segment)
    /\ start \in Nat /\ bad \in 0..MaxBad
    /\ parser.start \in Nat

\* What is handed over are segments that were sent, whole, in order and none
\* twice; all of them from the first one on while no package is lost.
InOrder ==
    /\ \A k \in DOMAIN received : received[k] = sent[received[k].id]
    /\ \A k \in DOMAIN received : k > 1 => received[k - 1].id < received[k].id
    /\ bad = 0 => IsPrefix(received, sent)

\* A package is never longer than a datagram has room for.
PackageFits == \A k \in DOMAIN packages : packages[k].len <= MaxSegment

\* Every segment that is sent is packed: the segment thread never stands before
\* one that does not fit into an empty package, and comes back for the ring.
EveryPacked ==
    \A k \in 1..MaxSegs :
        Len(sent) = k ~> Len(sent) > k \/ (ring.len = 0 /\ list.len = 0 /\ start = 2)
=============================================================================
