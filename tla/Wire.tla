-------------------------------- MODULE Wire --------------------------------
(***************************************************************************)
(* The sequencing core of package wire: the Sender log and the Receiver    *)
(* window, one pair per direction of a host session (wire/sender.go,       *)
(* wire/receiver.go).  Both are plain values in the code (their owner      *)
(* locks), so here they are records and every method is an operator from   *)
(* the old record to the new one.                                          *)
(*                                                                         *)
(* A Sender's log is a slice ordered by seq without repetitions; it is     *)
(* modelled as the function from the logged seqs to their payloads.  The   *)
(* byte counter that accompanies it is left out.                           *)
(***************************************************************************)
EXTENDS Naturals, FiniteSets, Sequences

NewSender(acked) == [next |-> acked, acked |-> acked, log |-> [q \in {} |-> acked]]

\* The unexported append: log payload under seq, which becomes the newest seq.
LogAppend(s, seq, payload) ==
    [next  |-> seq,
     acked |-> s.acked,
     log   |-> [q \in DOMAIN s.log \cup {seq} |-> IF q = seq THEN payload ELSE s.log[q]]]

SenderAppend(s, payload) == LogAppend(s, s.next + 1, payload)

\* AppendAt refuses seq 0 and any seq but the next one; on a sender that has
\* assigned nothing yet the first call sets the baseline.
AppendAtAllowed(s, seq) == seq # 0 /\ (s.next = 0 \/ seq = s.next + 1)

SenderAppendAt(s, seq, payload) == LogAppend(s, seq, payload)

\* Mutants: the entry behind the acked one is dropped too; the watermark moves
\* and the entries stay.
SenderAck_OffByOne(s, n) ==
    LET m == IF n > s.next THEN s.next ELSE n
    IN  IF m <= s.acked
        THEN s
        ELSE [next |-> s.next, acked |-> m,
              log  |-> [q \in {d \in DOMAIN s.log : d > m + 1} |-> s.log[q]]]
SenderAck_KeepsLog(s, n) ==
    LET m == IF n > s.next THEN s.next ELSE n
    IN  IF m <= s.acked THEN s ELSE [next |-> s.next, acked |-> m, log |-> s.log]

\* Ack never moves backwards and is clamped to what was assigned; it drops
\* the entries it covers.
SenderAck(s, n) ==
    LET m == IF n > s.next THEN s.next ELSE n
    IN  IF m <= s.acked
        THEN s
        ELSE [next  |-> s.next,
              acked |-> m,
              log   |-> [q \in {d \in DOMAIN s.log : d > m} |-> s.log[q]]]

\* Elide replaces the payload of a logged seq and keeps the seq; it is an
\* error (no change) when the seq is no longer logged.
Elidable(s, seq) == seq \in DOMAIN s.log

SenderElide(s, seq, payload) ==
    [next |-> s.next, acked |-> s.acked, log |-> [s.log EXCEPT ![seq] = payload]]

-----------------------------------------------------------------------------

\* Mutant: one frame more than the advertised window.
NewReceiver_WiderWindow(acked, window) ==
    [acked |-> acked, window |-> window + 1, buf |-> [q \in {} |-> acked]]

NewReceiver(acked, window) == [acked |-> acked, window |-> window, buf |-> [q \in {} |-> acked]]

\* The last seq of the contiguous run of parked frames that starts behind n
\* (n itself when n + 1 is not parked): where the drain loop of Accept stops.
RunEnd(buf, n) ==
    CHOOSE k \in {n} \cup DOMAIN buf :
        /\ n <= k
        /\ (n + 1) .. k \subseteq DOMAIN buf
        /\ k + 1 \notin DOMAIN buf

\* Mutants: one frame too many is parked; a frame beyond the gap is applied.
Overflows_OffByOne(r, seq) ==
    seq > r.acked + 1 /\ seq \notin DOMAIN r.buf /\ Cardinality(DOMAIN r.buf) > r.window
IsNext_SkipsGap(r, seq) == seq > r.acked

\* What Accept does with a frame, by where its seq stands.
IsGap(r, seq)     == seq > r.acked + 1 /\ seq \notin DOMAIN r.buf
Overflows(r, seq) == IsGap(r, seq) /\ Cardinality(DOMAIN r.buf) >= r.window
IsNext(r, seq)    == seq = r.acked + 1

Park(r, seq, payload) ==
    [acked  |-> r.acked,
     window |-> r.window,
     buf    |-> [q \in DOMAIN r.buf \cup {seq} |-> IF q = seq THEN payload ELSE r.buf[q]]]

DrainBehind(r, seq) ==
    LET k == RunEnd(r.buf, seq)
    IN  [acked  |-> k,
         window |-> r.window,
         buf    |-> [q \in {d \in DOMAIN r.buf : d > k} |-> r.buf[q]]]

\* The receiver after Accept(seq, payload) and the payloads that became
\* applicable, in seq order.  A duplicate and an overflow change nothing.
AcceptReceiver(r, seq, payload) ==
    IF IsNext(r, seq) THEN DrainBehind(r, seq)
    ELSE IF IsGap(r, seq) /\ ~Overflows(r, seq) THEN Park(r, seq, payload)
    ELSE r

\* Mutant: the drained frames are not handed on.
AcceptReady_OnlyFirst(r, seq, payload) == IF IsNext(r, seq) THEN << payload >> ELSE << >>

AcceptReady(r, seq, payload) ==
    IF IsNext(r, seq)
    THEN [i \in 1 .. (RunEnd(r.buf, seq) - seq + 1) |->
              IF i = 1 THEN payload ELSE r.buf[seq + i - 1]]
    ELSE << >>
=============================================================================
