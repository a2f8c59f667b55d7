----------------------------- MODULE DnsMessage -----------------------------
(***************************************************************************)
(* The parser of DNS messages: initparse walks over a message once and      *)
(* notes where its sections begin; parserr hands out record rrnum of a      *)
(* section, going on from where the last call stopped when it can.          *)
(*                                                                         *)
(* A message is a sequence of cells, offset 0 first.  Cells have the values *)
(* that bytes have, but a 16 or 32 bit field takes one cell, and the        *)
(* question section is followed by one other instead of three, which are    *)
(* all read alike.                                                          *)
(***************************************************************************)
EXTENDS Integers, Sequences, FiniteSets, SequencesExt

CONSTANTS
    Plain,      \* values of cells: ends, lengths and pointers
    Odd,        \* values of cells: extended and illegal labels
    MaxOdd,     \* bound: cells of a message with a value in Odd
    MaxBody,    \* bound: cells after the header
    MaxRecords  \* bound: the records a header announces

QD == 0         \* ns_s_qd, the questions
AN == 1         \* ns_s_an, the answers
S_MAX == 2      \* ns_s_max
Sections == QD..AN
Fail == -1
Null == -1      \* a pointer that is none

Bitstring == 65

VARIABLES
    msg,     \* the message
    handle,  \* ns_msg: counts, sections, and the place of the last call
    status,  \* "new", "parsed", "refused"
    last     \* the last parserr: what was asked, and the cells it went over

vars == <<msg, handle, status, last>>

Body(n) == {b \in [1..n -> Plain \union Odd] : Cardinality({i \in 1..n : b[i] \in Odd}) <= MaxOdd}
Header(q, a) == <<0, 0, q, a>>

NoCall == [section |-> S_MAX, rrnum |-> Null, from |-> Null, to |-> Null]

Init ==
    /\ \/ \E q \in 0..MaxRecords, n \in 0..MaxBody :
            \E a \in 0..(MaxRecords - q), b \in Body(n) : msg = Header(q, a) \o b
       \/ msg \in {SubSeq(Header(1, 1), 1, n) : n \in 0..3}
    /\ handle = [counts |-> <<>>, sections |-> <<>>, sect |-> S_MAX, rrnum |-> Null, ptr |-> Null]
    /\ status = "new"
    /\ last = NoCall

Eom == Len(msg)
Cell(p) == msg[p + 1]

-----------------------------------------------------------------------------
\* Mutant: the cell with the length in bits is not counted.
LabelLenShort(p) == IF Cell(p) = Bitstring /\ p + 1 < Eom THEN (Cell(p + 1) + 7) \div 8 ELSE Fail

\* labellen of an extended label at p: only the bit string is known.  Past the
\* end it reads what it finds there; every outcome is past the end again.
LabelLen(p) ==
    IF Cell(p) # Bitstring THEN Fail
    ELSE IF p + 1 >= Eom THEN 2
    ELSE ((IF Cell(p + 1) = 0 THEN 256 ELSE Cell(p + 1)) + 7) \div 8 + 1

\* The loop of name_skip at p.  A name may end with the message, without a zero.
Walk[p \in Nat] ==
    IF p >= Eom THEN p
    ELSE IF Cell(p) = 0 THEN p + 1
    ELSE IF Cell(p) < 64 THEN Walk[p + 1 + Cell(p)]
    ELSE IF Cell(p) < 128 THEN (IF LabelLen(p) = Fail THEN Fail ELSE Walk[p + 1 + LabelLen(p)])
    ELSE IF Cell(p) < 192 THEN Fail
    ELSE p + 2

\* name_skip: where the name that starts at p ends, or Fail.
NameSkip(p) ==
    LET end == Walk[p]
    IN  IF end > Eom THEN Fail ELSE end

\* What follows the name: type and class, and but for questions the time to
\* live, the length of the data and the data.
FixedFields(section, p) ==
    IF section = QD THEN p + 2
    ELSE IF p + 4 > Eom THEN Fail ELSE p + 4 + Cell(p + 3)

\* The loop of skiprr for one record at p.
SkipOne(section, p) ==
    IF p = Fail \/ NameSkip(p) = Fail THEN Fail ELSE FixedFields(section, NameSkip(p))

Skipped(start, section) ==
    LET skip[n \in Nat] == IF n = 0 THEN start ELSE SkipOne(section, skip[n - 1])
    IN  skip

\* skiprr: where count records from start on end, or Fail.
SkipRr(start, section, count) ==
    LET end == Skipped(start, section)[count]
    IN  IF end > Eom THEN Fail ELSE end

\* setsection
SetSection(h, section) ==
    [h EXCEPT !.sect = section,
              !.rrnum = IF section = S_MAX THEN Null ELSE 0,
              !.ptr = IF section = S_MAX THEN Null ELSE h.sections[section]]

\* initparse: the header, then a walk over every section that has records,
\* which must end where the message does.
InitParse ==
    LET counts == [s \in Sections |-> Cell(2 + s)]
        qdEnd == SkipRr(4, QD, counts[QD])
        anEnd == IF qdEnd = Fail THEN Fail ELSE SkipRr(qdEnd, AN, counts[AN])
        whole == Eom >= 4 /\ anEnd = Eom
        start == [s \in Sections |-> IF counts[s] = 0 THEN Null ELSE IF s = QD THEN 4 ELSE qdEnd]
    IN
    /\ status = "new"
    /\ \/ /\ whole
          /\ handle' = SetSection([handle EXCEPT !.counts = counts, !.sections = start], S_MAX)
          /\ status' = "parsed"
       \/ /\ ~whole
          /\ status' = "refused"
          /\ UNCHANGED handle
    /\ UNCHANGED <<msg, last>>

\* Mutant: going back in a section starts from the place of the last call.
AtRecordForward(section, num) ==
    LET h == IF section # handle.sect THEN SetSection(handle, section) ELSE handle
        rrnum == IF num = Null THEN h.rrnum ELSE num
    IN  [h EXCEPT !.rrnum = rrnum, !.ptr = SkipRr(@, section, IF rrnum > h.rrnum THEN rrnum - h.rrnum ELSE 0)]

\* parserr up to the record it is asked for; rrnum -1 is the next one.
AtRecord(section, num) ==
    LET h1 == IF section # handle.sect THEN SetSection(handle, section) ELSE handle
        rrnum == IF num = Null THEN h1.rrnum ELSE num
        h2 == IF rrnum < h1.rrnum THEN SetSection(h1, section) ELSE h1
    IN  [h2 EXCEPT !.rrnum = rrnum, !.ptr = SkipRr(@, section, rrnum - h2.rrnum)]

\* parserr is asked for a record that the section has.
Asked(section, num) ==
    /\ status = "parsed"
    /\ (IF num # Null THEN num ELSE IF section = handle.sect THEN handle.rrnum ELSE 0)
            \in 0..(handle.counts[section] - 1)

\* The name of the record expands (dn_expand goes over the same cells as
\* name_skip): the record is read.
ParseRr(section, num) ==
    LET h == AtRecord(section, num)
        end == FixedFields(section, NameSkip(h.ptr))
    IN
    /\ Asked(section, num)
    /\ handle' = [h EXCEPT !.rrnum = @ + 1, !.ptr = end]
    /\ last' = [section |-> section, rrnum |-> h.rrnum, from |-> h.ptr, to |-> end]
    /\ UNCHANGED <<msg, status>>

\* The name does not expand: a pointer leads nowhere, or the name is too long.
ParseRrBadName(section, num) ==
    /\ Asked(section, num)
    /\ handle' = AtRecord(section, num)
    /\ last' = NoCall
    /\ UNCHANGED <<msg, status>>

\* There is no such record.  The section is set all the same.
ParseRrNone(section, num) ==
    /\ status = "parsed" /\ ~Asked(section, num)
    /\ handle' = IF section # handle.sect THEN SetSection(handle, section) ELSE handle
    /\ last' = NoCall
    /\ UNCHANGED <<msg, status>>

Next ==
    \/ InitParse
    \/ \E section \in Sections, num \in Null..MaxRecords :
        ParseRr(section, num) \/ ParseRrBadName(section, num) \/ ParseRrNone(section, num)

Spec == Init /\ [][Next]_vars

-----------------------------------------------------------------------------
(***************************************************************************)
(* What a message is, said without walking over it: a name is labels and an *)
(* end, a record is a name and its fields, and the body of a message is cut *)
(* into as many records as the header announces.                            *)
(***************************************************************************)
Cells(from, to) == SubSeq(msg, from + 1, to)

\* The length of a bit string, of which 0 stands for 256.
BitCount(c) == IF c = 0 THEN 256 ELSE c

IsLabel(q) ==
    \/ q # <<>> /\ q[1] \in 1..63 /\ Len(q) = 1 + q[1]
    \/ Len(q) > 1 /\ q[1] = Bitstring /\ 8 * (Len(q) - 2) \in BitCount(q[2])..(BitCount(q[2]) + 7)

IsEnd(q) == q = <<0>> \/ (Len(q) = 2 /\ q[1] \in 192..255)

\* It can be cut so that a label or the end follows every cut.
IsName(q) ==
    \E cuts \in SUBSET (1..(Len(q) - 1)) :
        \A k \in cuts \union {0} :
            \/ IsEnd(SubSeq(q, k + 1, Len(q)))
            \/ \E n \in cuts : k < n /\ IsLabel(SubSeq(q, k + 1, n))

IsRecord(section, q) ==
    \E n \in 1..Len(q) :
        /\ IF section = QD THEN Len(q) = n + 2 ELSE Len(q) >= n + 4 /\ Len(q) = n + 4 + q[n + 4]
        /\ IsName(SubSeq(q, 1, n))

Count(s) == msg[3 + s]

\* The offsets where the first k records of the message can end.
Ends[k \in Nat] ==
    IF k = 0 THEN {4}
    ELSE UNION {{e \in (d + 1)..Eom : IsRecord(IF k <= Count(QD) THEN QD ELSE AN, Cells(d, e))}
                    : d \in Ends[k - 1]}

\* initparse takes exactly the messages: none that is cut off, has cells left
\* over or an illegal label, and every other one.
ParsedIffMessage ==
    /\ status = "parsed" => Eom >= 4 /\ Eom \in Ends[Count(QD) + Count(AN)]
    /\ status = "refused" => ~(Eom >= 4 /\ Eom \in Ends[Count(QD) + Count(AN)])

\* parserr hands out the record it is asked for, with its right ends, in
\* whatever order the records are asked for and whatever calls have failed.
RightRecord ==
    last # NoCall =>
        LET k == last.rrnum + (IF last.section = QD THEN 0 ELSE Count(QD)) IN
        last.from \in Ends[k] /\ last.to \in Ends[k + 1]
=============================================================================
