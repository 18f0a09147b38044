------------------------------- MODULE TCPProofs -------------------------------
(***************************************************************************)
(* Proofs about TCP. The first half says what one entry into the code does *)
(* to a control block and which segments it sends: arithmetic modulo 2^32  *)
(* and 2^16, tcp_input() stage by stage (InputEffect), tcp_output()        *)
(* (SentBy), the timers and the calls. The second half proves from it the  *)
(* type invariant, that no call waits in vain and that queued data is      *)
(* never forgotten. What the handshake guarantees (Hand) rules out the     *)
(* ACK that would make a half-open connection take the wrong path.         *)
(***************************************************************************)
EXTENDS TCP, SequenceTheorems, FiniteSetTheorems, TLAPS

(* Division with remainder. *)
LEMMA ModDef ==
  ASSUME NEW m \in Nat \ {0}, NEW n \in Int
  PROVE  /\ n % m \in 0 .. m - 1
         /\ n \div m \in Int
         /\ n = m * (n \div m) + (n % m)
  OBVIOUS

(* The remainder is the only one. *)
LEMMA ModUnique ==
  ASSUME NEW m \in Nat \ {0}, NEW k \in Int, NEW r \in 0 .. m - 1
  PROVE  (m * k + r) % m = r
<1> DEFINE n == m * k + r
<1>1. n \in Int OBVIOUS
<1>2. n % m \in 0 .. m - 1 /\ n \div m \in Int /\ n = m * (n \div m) + (n % m)
  BY <1>1, ModDef
<1>3. m * (k - n \div m) = (n % m) - r
  BY <1>2
<1>4. k = n \div m
  BY <1>2, <1>3
<1> QED
  BY <1>2, <1>4

(* Numbers that differ by a multiple of the modulus have one remainder. *)
LEMMA ModShift ==
  ASSUME NEW m \in Nat \ {0}, NEW n \in Int, NEW k \in Int
  PROVE  (n + m * k) % m = n % m
<1>1. n % m \in 0 .. m - 1 /\ n \div m \in Int /\ n = m * (n \div m) + (n % m)
  BY ModDef
<1>2. n + m * k = m * ((n \div m) + k) + (n % m)
  BY <1>1
<1>3. (n \div m) + k \in Int
  BY <1>1
<1> QED
  BY <1>1, <1>2, <1>3, ModUnique

(* Reducing a summand first changes nothing. *)
LEMMA ModAdd ==
  ASSUME NEW m \in Nat \ {0}, NEW a \in Int, NEW b \in Int
  PROVE  ((a % m) + b) % m = (a + b) % m
<1>1. a % m \in 0 .. m - 1 /\ a \div m \in Int /\ a = m * (a \div m) + (a % m)
  BY ModDef
<1>2. a + b = ((a % m) + b) + m * (a \div m)
  BY <1>1
<1>3. (a % m) + b \in Int
  BY <1>1
<1> QED
  BY <1>1, <1>2, <1>3, ModShift

(* A number within the modulus is its own remainder. *)
LEMMA ModSmall ==
  ASSUME NEW m \in Nat \ {0}, NEW r \in 0 .. m - 1
  PROVE  r % m = r
<1>1. m * 0 + r = r
  OBVIOUS
<1> QED
  BY <1>1, ModUnique

--------------------------------------------------------------------------------
(* Sequence numbers, and offsets from the first that is not acknowledged. *)
Seqs == 0 .. SEQ_MOD - 1
Offs == 0 .. OFF_MOD - 1

(* The two moduli are positive. *)
LEMMA SeqMod == SEQ_MOD \in Nat \ {0} /\ OFF_MOD \in Nat \ {0}
  BY TCPAssumption

(* A sum is a sequence number. *)
LEMMA Seq32Type == \A n \in Int : Seq32(n) \in Seqs
  BY SeqMod, ModDef DEF Seq32, Seqs

(* A sequence number is its own remainder. *)
LEMMA Seq32Small == \A n \in Seqs : Seq32(n) = n
  BY SeqMod, ModSmall DEF Seq32, Seqs

(* Sums of sequence numbers may be reduced at any point. *)
LEMMA Seq32Add == \A a, b \in Int : Seq32(Seq32(a) + b) = Seq32(a + b)
  BY SeqMod, ModAdd DEF Seq32

(* Numbers that differ by 2^32 are one sequence number. *)
LEMMA Seq32Shift == \A n, k \in Int : Seq32(n + SEQ_MOD * k) = Seq32(n)
  BY SeqMod, ModShift DEF Seq32

(* A sum of offsets is an offset. *)
LEMMA Off16Type == \A n \in Int : Off16(n) \in Offs
  BY SeqMod, ModDef DEF Off16, Offs

(* An offset is its own remainder. *)
LEMMA Off16Small == \A n \in Offs : Off16(n) = n
  BY SeqMod, ModSmall DEF Off16, Offs

(* The signed difference. *)
LEMMA SeqDiffType ==
  ASSUME NEW a \in Int, NEW b \in Int
  PROVE  /\ SeqDiff(a, b) \in Int
         /\ 2 * SeqDiff(a, b) < SEQ_MOD
         /\ 2 * SeqDiff(a, b) >= -SEQ_MOD
         /\ Seq32(b + SeqDiff(a, b)) = Seq32(a)
<1> DEFINE d == (a - b) % SEQ_MOD
           k == (a - b) \div SEQ_MOD
<1>1. d \in 0 .. SEQ_MOD - 1 /\ k \in Int /\ a - b = SEQ_MOD * k + d
  BY SeqMod, ModDef
<1>2. SeqDiff(a, b) = IF 2 * d < SEQ_MOD THEN d ELSE d - SEQ_MOD
  BY DEF SeqDiff
<1> HIDE DEF d, k
<1>3. Seq32(b + d) = Seq32(a)
  <2>1. b + d = a + SEQ_MOD * (-k)
    BY <1>1, SeqMod
  <2> QED
    BY <1>1, <2>1, Seq32Shift
<1>4. Seq32(b + (d - SEQ_MOD)) = Seq32(a)
  <2>1. b + (d - SEQ_MOD) = (b + d) + SEQ_MOD * (-1)
    BY <1>1, SeqMod
  <2> QED
    BY <1>1, <1>3, <2>1, Seq32Shift
<1> QED
  BY <1>1, <1>2, <1>3, <1>4, SeqMod

(* A distance is a number. *)
LEMMA SeqDiffInt == \A a, b \in Int : SeqDiff(a, b) \in Int
  BY SeqDiffType

(* From b, the distance to a leads to a. *)
LEMMA SeqDiffBack == \A a \in Seqs, b \in Int : Seq32(b + SeqDiff(a, b)) = a
  BY SeqDiffType, Seq32Small DEF Seqs

(* Distances of less than half the modulus are measured as they are. *)
LEMMA SeqDiffNear ==
  ASSUME NEW a \in Int, NEW b \in Int, NEW x \in Int, NEW y \in Int,
         Seq32(a) = Seq32(x), Seq32(b) = Seq32(y),
         2 * (x - y) < SEQ_MOD, 2 * (x - y) >= -SEQ_MOD
  PROVE  SeqDiff(a, b) = x - y
<1> DEFINE d == (a - b) % SEQ_MOD
<1>1. d = (x - y) % SEQ_MOD
  <2>1. /\ a = SEQ_MOD * (a \div SEQ_MOD) + Seq32(a) /\ a \div SEQ_MOD \in Int
        /\ b = SEQ_MOD * (b \div SEQ_MOD) + Seq32(b) /\ b \div SEQ_MOD \in Int
        /\ x = SEQ_MOD * (x \div SEQ_MOD) + Seq32(x) /\ x \div SEQ_MOD \in Int
        /\ y = SEQ_MOD * (y \div SEQ_MOD) + Seq32(y) /\ y \div SEQ_MOD \in Int
    BY SeqMod, ModDef DEF Seq32
  <2>2. Seq32(a) \in Int /\ Seq32(b) \in Int /\ Seq32(x) \in Int /\ Seq32(y) \in Int
    BY Seq32Type DEF Seqs
  <2>3. PICK ka, kb, kx, ky \in Int :
          /\ a = SEQ_MOD * ka + Seq32(a) /\ b = SEQ_MOD * kb + Seq32(b)
          /\ x = SEQ_MOD * kx + Seq32(x) /\ y = SEQ_MOD * ky + Seq32(y)
    BY <2>1
  <2>4. a - b = (x - y) + SEQ_MOD * (ka - kx - kb + ky)
    BY <2>2, <2>3, SeqMod
  <2>5. Seq32(a - b) = Seq32(x - y)
    BY <2>4, Seq32Shift
  <2> QED
    BY <2>5 DEF Seq32
<1>2. CASE x - y >= 0
  <2>1. d = x - y
    BY <1>1, <1>2, SeqMod, ModSmall
  <2> QED
    BY <2>1 DEF SeqDiff
<1>3. CASE x - y < 0
  <2>1. (x - y) + SEQ_MOD \in 0 .. SEQ_MOD - 1
    BY <1>3, SeqMod
  <2>2. Seq32((x - y) + SEQ_MOD * 1) = Seq32(x - y)
    BY Seq32Shift
  <2>3. d = (x - y) + SEQ_MOD
    BY <1>1, <2>1, <2>2, SeqMod, Seq32Small DEF Seqs, Seq32
  <2> QED
    BY <2>1, <2>3, SeqMod DEF SeqDiff
<1> QED
  BY <1>2, <1>3

--------------------------------------------------------------------------------
(* A part of a queue is a queue, of known length and elements (Part). *)
LEMMA PartLemma ==
  ASSUME NEW S, NEW q \in Seq(S), NEW from \in Nat, NEW len \in Int,
         NEW n \in Int, n = MinOf(from + len, Len(q))
  PROVE  /\ Part(q, from, len) \in Seq(S)
         /\ Len(Part(q, from, len)) \in Nat
         /\ Len(Part(q, from, len)) <= Len(q)
         /\ n > from => Len(Part(q, from, len)) = n - from
         /\ n <= from => Part(q, from, len) = <<>> /\ Len(Part(q, from, len)) = 0
         /\ \A i \in 1 .. Len(Part(q, from, len)) : Part(q, from, len)[i] = q[from + i]
<1>1. Len(q) \in Nat /\ \A i \in 1 .. Len(q) : q[i] \in S
  BY LenProperties, ElementOfSeq
<1>2. n <= Len(q)
  BY <1>1 DEF MinOf
<1>3. \A i \in from + 1 .. n : q[i] \in S
  BY <1>1, <1>2
<1>4. /\ SubSeq(q, from + 1, n) \in Seq(S)
      /\ Len(SubSeq(q, from + 1, n)) = IF from + 1 <= n THEN n - (from + 1) + 1 ELSE 0
      /\ \A i \in 1 .. n - (from + 1) + 1 : SubSeq(q, from + 1, n)[i] = q[(from + 1) + i - 1]
  BY <1>2, <1>3, SubSeqProperties
<1>5. n <= from => SubSeq(q, from + 1, n) = <<>>
  BY <1>2, SubSeqEmpty
<1>6. Part(q, from, len) = SubSeq(q, from + 1, n)
  BY DEF Part
<1>7. Len(SubSeq(q, from + 1, n)) = IF n > from THEN n - from ELSE 0
  BY <1>4
<1>8. \A i \in 1 .. Len(SubSeq(q, from + 1, n)) : SubSeq(q, from + 1, n)[i] = q[from + i]
  BY <1>4, <1>7
<1> QED
  BY <1>1, <1>2, <1>4, <1>5, <1>6, <1>7, <1>8, SMTT(40)

(* The rest of a queue behind its first k blocks. *)
LEMMA DropLemma ==
  ASSUME NEW S, NEW q \in Seq(S), NEW k \in Nat
  PROVE  LET r == Part(q, k, Len(q))
         IN  /\ r \in Seq(S)
             /\ Len(r) \in Nat
             /\ Len(r) <= Len(q)
             /\ k <= Len(q) => Len(r) = Len(q) - k
             /\ k >= Len(q) => r = <<>> /\ Len(r) = 0
             /\ \A i \in 1 .. Len(r) : r[i] = q[k + i]
<1>1. Len(q) \in Nat
  BY LenProperties
<1>2. MinOf(k + Len(q), Len(q)) = Len(q)
  BY <1>1 DEF MinOf
<1> QED
  BY <1>1, <1>2, PartLemma

(* The first k blocks of a queue. *)
LEMMA TakeLemma ==
  ASSUME NEW S, NEW q \in Seq(S), NEW k \in Int
  PROVE  LET r == Part(q, 0, k)
         IN  /\ r \in Seq(S)
             /\ Len(r) \in Nat
             /\ Len(r) <= Len(q)
             /\ k <= Len(q) /\ k >= 0 => Len(r) = k
             /\ k >= Len(q) => Len(r) = Len(q)
             /\ k <= 0 => r = <<>> /\ Len(r) = 0
             /\ \A i \in 1 .. Len(r) : r[i] = q[i]
<1>1. Len(q) \in Nat
  BY LenProperties
<1> DEFINE n == MinOf(0 + k, Len(q))
<1>2. n \in Int /\ (k <= Len(q) => n = k) /\ (k >= Len(q) => n = Len(q))
  BY <1>1 DEF MinOf
<1>3. n = MinOf(0 + k, Len(q))
  OBVIOUS
<1> HIDE DEF n
<1> DEFINE r == Part(q, 0, k)
<1>4. /\ r \in Seq(S) /\ Len(r) \in Nat /\ Len(r) <= Len(q)
      /\ n > 0 => Len(r) = n - 0
      /\ n <= 0 => r = <<>> /\ Len(r) = 0
      /\ \A i \in 1 .. Len(r) : r[i] = q[0 + i]
  BY <1>2, <1>3, PartLemma
<1>5. \A i \in 1 .. Len(r) : r[i] = q[i]
  BY <1>4
<1> HIDE DEF r
<1>6. r = Part(q, 0, k)
  BY DEF r
<1>7. /\ k <= Len(q) /\ k >= 0 => Len(r) = k
      /\ k >= Len(q) => Len(r) = Len(q)
      /\ k <= 0 => r = <<>> /\ Len(r) = 0
  BY <1>1, <1>2, <1>4
<1> QED
  BY <1>4, <1>5, <1>6, <1>7

--------------------------------------------------------------------------------
(* The types of the control block and of the segments. *)
Flags == {"SYN", "ACK", "FIN", "RST"}
Calls == {"none", "connect", "send", "recv"}

PcbRec ==
  [state : TCPS, snd_seq : Seqs, snd_off : Offs, snd_max : Offs, snd_wnd : 0 .. MAXRCV,
   rcv_nxt : Seqs, rcv_adv_wnd : Int, rcv_q : Seq(Nat), snd_q : Seq(Nat),
   acknow : BOOLEAN, delack : BOOLEAN, sentfin : BOOLEAN, needoutput : BOOLEAN,
   rxmt_tmr : BOOLEAN, rxmt_cnt : Nat, blocked : Calls]

(* A control block whose queues are within their sizes. *)
PcbOK(p) == p \in PcbRec /\ Len(p.snd_q) <= MAXSND /\ Len(p.rcv_q) <= MAXRCV

SegRec ==
  [flags : SUBSET Flags, seq : Seqs, ack : Seqs, win : 0 .. MAXRCV, data : Seq(Nat)]

(* The segment acknowledges something: the ack of a reset is not looked at. *)
AckSeg(s) == "ACK" \in s.flags /\ "RST" \notin s.flags

(* A segment that output and reset may have made. *)
SegOK(s) ==
  /\ s \in SegRec
  /\ Len(s.data) <= MAXSEG
  /\ s.data # <<>> => AckSeg(s) /\ "SYN" \notin s.flags
  /\ "SYN" \in s.flags => "FIN" \notin s.flags

(* The fields of a control block. *)
LEMMA PcbFields ==
  \A p : PcbOK(p) =>
    /\ p.state \in TCPS /\ p.snd_seq \in Seqs /\ p.snd_off \in Offs
    /\ p.snd_max \in Offs /\ p.snd_wnd \in 0 .. MAXRCV /\ p.rcv_nxt \in Seqs
    /\ p.rcv_adv_wnd \in Int /\ p.rcv_q \in Seq(Nat) /\ p.snd_q \in Seq(Nat)
    /\ p.acknow \in BOOLEAN /\ p.delack \in BOOLEAN /\ p.sentfin \in BOOLEAN
    /\ p.needoutput \in BOOLEAN /\ p.rxmt_tmr \in BOOLEAN /\ p.rxmt_cnt \in Nat
    /\ p.blocked \in Calls
    /\ Len(p.snd_q) \in 0 .. MAXSND /\ Len(p.rcv_q) \in 0 .. MAXRCV
  BY TCPAssumption, LenProperties DEF PcbOK, PcbRec

(* The fields of a segment. *)
LEMMA SegFields ==
  \A s : SegOK(s) =>
    /\ s.flags \subseteq Flags /\ s.seq \in Seqs /\ s.ack \in Seqs
    /\ s.win \in 0 .. MAXRCV /\ s.data \in Seq(Nat) /\ Len(s.data) \in 0 .. MAXSEG
  BY TCPAssumption, LenProperties DEF SegOK, SegRec

(* The empty queue fits everywhere. *)
LEMMA EmptyQueue ==
  <<>> \in Seq(Nat) /\ Len(<<>>) = 0 /\ Len(<<>>) <= MAXSND /\ Len(<<>>) <= MAXRCV
  BY EmptySeq, TCPAssumption

(* The offsets after a segment are offsets (Advance). *)
LEMMA AdvanceType ==
  ASSUME NEW p, PcbOK(p), NEW fin \in BOOLEAN, NEW end \in Int
  PROVE  PcbOK(Advance(p, fin, end))
<1>1. Off16(end) \in Offs /\ Off16(MaxOf(end, p.snd_max)) \in Offs
  <2>1. p.snd_max \in Offs
    BY PcbFields
  <2>2. MaxOf(end, p.snd_max) \in Int
    BY <2>1, SeqMod DEF Offs, MaxOf
  <2> QED
    BY <2>2, Off16Type
<1> QED
  BY <1>1, PcbFields, ZenonT(60) DEF PcbOK, PcbRec, Advance

(* An edit of the sending side gives a control block again. *)
LEMMA SendUpdate ==
  ASSUME NEW p \in PcbRec, NEW q \in Seq(Nat), NEW sq \in Seqs, NEW off \in Offs,
         NEW max \in Offs, NEW tmr \in BOOLEAN, NEW cnt \in Nat, NEW b \in Calls
  PROVE  [p EXCEPT !.snd_q = q, !.snd_seq = sq, !.snd_off = off, !.snd_max = max,
                   !.rxmt_tmr = tmr, !.rxmt_cnt = cnt, !.blocked = b] \in PcbRec
  BY DEF PcbRec

(* An ACK leaves a control block (AckedPcb). *)
LEMMA AckedPcbType ==
  ASSUME NEW p, PcbOK(p), NEW acked \in Nat, NEW nxt \in Int, NEW max \in Int
  PROVE  PcbOK(AckedPcb(p, acked, nxt, max))
<1> DEFINE n == Len(p.snd_q)
           q == Part(p.snd_q, MinOf(acked, n), n)
<1>0. n \in Nat /\ n <= MAXSND /\ p.snd_q \in Seq(Nat) /\ p.snd_seq \in Int /\ p.rxmt_cnt \in Nat
  BY PcbFields DEF Seqs
<1>1. Off16(max - acked) \in Offs /\ Off16(MaxOf(nxt, acked) - acked) \in Offs
      /\ Seq32(p.snd_seq + acked) \in Seqs
  <2>1. MaxOf(nxt, acked) - acked \in Int /\ max - acked \in Int /\ p.snd_seq + acked \in Int
    BY <1>0 DEF MaxOf
  <2> QED BY <2>1, Off16Type, Seq32Type
<1>2. q \in Seq(Nat) /\ Len(q) <= n /\ Len(q) \in Nat
  <2>1. MinOf(acked, n) \in Nat
    BY <1>0 DEF MinOf
  <2> QED BY <1>0, <2>1, DropLemma
<1>3. MAXSND \in Nat
  BY TCPAssumption
<1> HIDE DEF q, n
<1>4. AckedPcb(p, acked, nxt, max) =
       [p EXCEPT !.snd_q = q,
                   !.snd_seq = Seq32(p.snd_seq + acked),
                   !.snd_off = Off16(MaxOf(nxt, acked) - acked),
                   !.snd_max = Off16(max - acked),
                   !.rxmt_tmr = acked # max,
                   !.rxmt_cnt = IF acked = max THEN 0 ELSE p.rxmt_cnt, !.blocked = "none"]
  BY DEF AckedPcb, Notify, q, n
<1> DEFINE r == AckedPcb(p, acked, nxt, max)
<1>5. /\ r.snd_q = q /\ r.rcv_q = p.rcv_q
  BY <1>4 DEF PcbOK, PcbRec
<1>6. r \in PcbRec
  <2> DEFINE tmr == acked # max
             cnt == IF acked = max THEN 0 ELSE p.rxmt_cnt
             b   == "none"
  <2>1. tmr \in BOOLEAN /\ cnt \in Nat /\ b \in Calls /\ p \in PcbRec
    BY <1>0 DEF PcbOK, Calls
  <2>2. r = [p EXCEPT !.snd_q = q, !.snd_seq = Seq32(p.snd_seq + acked),
                   !.snd_off = Off16(MaxOf(nxt, acked) - acked),
                   !.snd_max = Off16(max - acked),
                   !.rxmt_tmr = tmr, !.rxmt_cnt = cnt, !.blocked = b]
    BY <1>4
  <2> HIDE DEF tmr, cnt, b, r
  <2> QED
    BY <1>1, <1>2, <2>1, <2>2, SendUpdate, ZenonT(40)
<1> HIDE DEF r
<1>7. QED
  BY <1>0, <1>2, <1>3, <1>5, <1>6 DEF PcbOK, r

--------------------------------------------------------------------------------
(* The state of the processing of a segment (Work). *)
Labels == {"go", "close", "close_and_reset", "dropafterack", "dropwithreset", "free", "drop"}

WorkRec == [p : PcbRec, s : SegRec, next : Labels, needoutput : BOOLEAN]

(* Nothing changes on the sending side, or on the receiving side. *)
SendSame(p, q) ==
  /\ q.snd_seq = p.snd_seq /\ q.snd_off = p.snd_off /\ q.snd_max = p.snd_max
  /\ q.snd_q = p.snd_q /\ q.rxmt_tmr = p.rxmt_tmr /\ q.rxmt_cnt = p.rxmt_cnt

RecvSame(p, q) == q.rcv_q = p.rcv_q /\ q.rcv_nxt = p.rcv_nxt

(* Nothing but the need for an ACK may have changed. *)
Untouched(p, q) ==
  /\ q.state = p.state /\ SendSame(p, q) /\ RecvSame(p, q)
  /\ q.snd_wnd = p.snd_wnd /\ q.sentfin = p.sentfin /\ q.delack = p.delack
  /\ q.blocked = p.blocked /\ q.needoutput = p.needoutput

(* The data of t is the data of s from its d-th block on, or a part of that. *)
Slice(s, t) ==
  t.data # <<>> =>
    \E d \in Nat :
      /\ t.seq = Seq32(s.seq + d)
      /\ d + Len(t.data) <= Len(s.data)
      /\ \A i \in 1 .. Len(t.data) : t.data[i] = s.data[d + i]

(* What the two trims leave: the control block as it was, a part of the segment. *)
Trimmed(p, s, w) ==
  /\ w \in WorkRec /\ ~w.needoutput
  /\ PcbOK(w.p) /\ Untouched(p, w.p)
  /\ SegOK(w.s) /\ w.s.ack = s.ack /\ w.s.win = s.win
  /\ w.s.flags \subseteq s.flags
  /\ \A f \in {"ACK", "RST"} : f \in s.flags => f \in w.s.flags
  /\ Slice(s, w.s)

(* Asking for an ACK gives a control block again. *)
LEMMA AcknowUpdate ==
  ASSUME NEW p, PcbOK(p), NEW b \in BOOLEAN
  PROVE  PcbOK([p EXCEPT !.acknow = b]) /\ Untouched(p, [p EXCEPT !.acknow = b])
  BY DEF PcbOK, PcbRec, Untouched, SendSame, RecvSame

(* A segment is a slice of itself. *)
LEMMA SliceSelf ==
  ASSUME NEW s, SegOK(s)
  PROVE  Slice(s, s)
<1>1. s.seq = Seq32(s.seq + 0)
  BY SegFields, Seq32Small DEF Seqs
<1>2. 0 + Len(s.data) <= Len(s.data) /\ \A i \in 1 .. Len(s.data) : s.data[i] = s.data[0 + i]
  BY SegFields
<1> QED
  BY <1>1, <1>2 DEF Slice

(* The old data is dropped from the segment, and nothing else happens (TrimFront). *)
LEMMA TrimFrontLemma ==
  ASSUME NEW p, PcbOK(p), NEW s, SegOK(s)
  PROVE  Trimmed(p, s, TrimFront(p, s)) /\ TrimFront(p, s).next = "go"
<1> DEFINE behind == SeqDiff(p.rcv_nxt, s.seq)
           syn    == IF "SYN" \in s.flags THEN 1 ELSE 0
           len    == Len(s.data)
           todrop == behind - syn
           old    == todrop > len \/ (todrop = len /\ "FIN" \notin s.flags)
           drop   == IF old THEN len ELSE todrop
           f      == s.flags \ (IF old THEN {"SYN", "FIN"} ELSE {"SYN"})
           q      == Seq32(s.seq + syn + drop)
           d      == Part(s.data, drop, len)
           b      == p.acknow \/ old
<1> HIDE DEF behind, syn, len, todrop, old, drop, f, q, d, b
<1>1. /\ p.rcv_nxt \in Int /\ s.seq \in Int /\ s.data \in Seq(Nat) /\ len \in Nat
      /\ s.flags \in SUBSET Flags
      /\ s \in SegRec /\ p \in PcbRec /\ p.acknow \in BOOLEAN /\ "go" \in Labels
  BY PcbFields, SegFields DEF Seqs, PcbOK, SegOK, Labels, len
<1>2. CASE behind <= 0
  <2>1. TrimFront(p, s) = Work(p, s, "go")
    BY <1>2 DEF TrimFront, behind
  <2>2. Untouched(p, p)
    BY DEF Untouched, SendSame, RecvSame
  <2>3. Slice(s, s)
    BY SliceSelf
  <2> DEFINE w == Work(p, s, "go")
  <2>4. w \in WorkRec /\ w.p = p /\ w.s = s /\ w.next = "go" /\ w.needoutput = FALSE
    BY <1>1 DEF Work, WorkRec
  <2> HIDE DEF w
  <2>5. Trimmed(p, s, w)
    BY <2>2, <2>3, <2>4 DEF Trimmed
  <2> QED
    BY <2>1, <2>4, <2>5 DEF w
<1>3. CASE ~(behind <= 0)
  <2>1. behind \in Int
    BY <1>1, SeqDiffInt DEF behind
  <2>2. old \in BOOLEAN /\ b \in BOOLEAN /\ syn \in 0 .. 1 /\ todrop \in Nat
    BY <1>1, <1>3, <2>1 DEF old, b, syn, todrop
  <2>3. drop \in Nat /\ drop <= len
    BY <1>1, <2>2 DEF drop, old
  <2>4. f \in SUBSET Flags /\ f \subseteq s.flags
        /\ \A g \in {"ACK", "RST"} : g \in s.flags => g \in f
    BY <1>1 DEF f
  <2>5. q \in Seqs
    BY <1>1, <2>2, <2>3, Seq32Type DEF q
  <2>6. d \in Seq(Nat) /\ Len(d) = len - drop /\ \A i \in 1 .. Len(d) : d[i] = s.data[drop + i]
    BY <1>1, <2>3, DropLemma, ZenonT(60) DEF d, len
  <2> DEFINE p1 == [p EXCEPT !.acknow = b]
             s1 == [s EXCEPT !.flags = f, !.seq = q, !.data = d]
             w  == Work(p1, s1, "go")
  <2>7. TrimFront(p, s) = w
    BY <1>3 DEF TrimFront, behind, syn, len, todrop, old, drop, f, q, d, b
  <2>8. PcbOK(p1) /\ Untouched(p, p1) /\ p1 \in PcbRec
    BY <2>2, AcknowUpdate DEF PcbOK
  <2>9. /\ s1 \in SegRec
        /\ s1.flags = f /\ s1.seq = q /\ s1.data = d /\ s1.ack = s.ack /\ s1.win = s.win
    BY <1>1, <2>4, <2>5, <2>6 DEF SegRec
  <2> HIDE DEF p1, s1
  <2>10. d # <<>> => s.data # <<>> /\ syn = 0
    BY <1>1, <2>3, <2>6, EmptySeq DEF SegOK, syn, len
  <2>11. SegOK(s1)
    <3>1. MAXSEG \in Nat /\ len <= MAXSEG
      BY TCPAssumption DEF SegOK, len
    <3>2. Len(d) <= MAXSEG
      BY <1>1, <2>3, <2>6, <3>1
    <3>3. d # <<>> => AckSeg(s1) /\ "SYN" \notin f
      BY <2>4, <2>9, <2>10 DEF SegOK, AckSeg
    <3>4. "SYN" \in f => "FIN" \notin f
      BY <2>4 DEF SegOK
    <3> QED
      BY <2>9, <3>2, <3>3, <3>4 DEF SegOK
  <2>12. Slice(s, s1)
    <3>1. d # <<>> => q = Seq32(s.seq + drop)
      BY <1>1, <2>3, <2>10 DEF q
    <3>2. drop + Len(d) <= Len(s.data)
      BY <1>1, <2>3, <2>6 DEF len
    <3> QED
      BY <2>3, <2>6, <2>9, <3>1, <3>2 DEF Slice
  <2>13. w \in WorkRec /\ w.p = p1 /\ w.s = s1 /\ w.next = "go" /\ w.needoutput = FALSE
    BY <1>1, <2>8, <2>9 DEF Work, WorkRec
  <2> HIDE DEF w
  <2> QED
    BY <2>4, <2>7, <2>8, <2>9, <2>11, <2>12, <2>13 DEF Trimmed
<1> QED
  BY <1>2, <1>3

(* A segment is shorter than half the sequence space. *)
LEMMA TrimBackLemma ==
  ASSUME NEW p, PcbOK(p), NEW s, SegOK(s),
         NEW w, Trimmed(p, s, w), w.next = "go"
  PROVE  LET v == TrimBack(w)
         IN  /\ Trimmed(p, s, v)
             /\ v.next \in {"go", "dropafterack", "dropwithreset"}
             /\ v.next = "go" /\ v.s.seq = p.rcv_nxt =>
                  Len(v.s.data) <= MAXRCV - Len(p.rcv_q)
<1> DEFINE len == Len(w.s.data)
           wnd == MaxOf(MAXRCV - Len(w.p.rcv_q), 0)
           todrop == SeqDiff(w.s.seq + len, w.p.rcv_nxt + wnd)
           probe  == wnd = 0 /\ w.s.seq = w.p.rcv_nxt
           d == Part(w.s.data, 0, len - todrop)
           b == w.p.acknow \/ todrop >= len
           f == w.s.flags \ {"FIN"}
           v == TrimBack(w)
<1> HIDE DEF len, wnd, todrop, probe, d, b, f, v
<1>1. /\ w.s.data \in Seq(Nat) /\ len \in Nat /\ w.s.seq \in Int /\ w.p.rcv_nxt \in Int
      /\ len <= MAXSEG /\ MAXRCV \in Nat /\ Len(w.p.rcv_q) \in 0 .. MAXRCV /\ MAXSEG \in Nat
      /\ SEQ_MOD \in Nat /\ w.s.flags \in SUBSET Flags /\ w.p.acknow \in BOOLEAN
  BY TCPAssumption, SegFields, PcbFields DEF Trimmed, Seqs, len
<1> DEFINE ql == Len(w.p.rcv_q)
           x  == w.s.seq + len
           y  == w.p.rcv_nxt + wnd
<1>2. wnd = MAXRCV - ql /\ wnd \in Nat
  <2>1. ql \in Int /\ ql <= MAXRCV /\ wnd = MaxOf(MAXRCV - ql, 0)
    BY <1>1 DEF wnd
  <2> HIDE DEF ql
  <2> QED
    BY <1>1, <2>1 DEF MaxOf
<1>3. todrop \in Int
  <2>1. x \in Int /\ y \in Int
    BY <1>1, <1>2, SMTT(40)
  <2>2. todrop = SeqDiff(x, y)
    BY DEF todrop
  <2> HIDE DEF x, y
  <2> QED
    BY <2>1, <2>2, SeqDiffInt
<1>4. p.rcv_nxt = w.p.rcv_nxt /\ p.rcv_q = w.p.rcv_q
  BY DEF Trimmed, Untouched, RecvSame
<1>5. w.s.seq = p.rcv_nxt /\ len >= wnd => todrop = len - wnd
  <2> SUFFICES ASSUME w.s.seq = p.rcv_nxt, len >= wnd
               PROVE  todrop = len - wnd
    OBVIOUS
  <2>1. x \in Int /\ y \in Int /\ x - y = len - wnd
    <3> DEFINE rn == w.p.rcv_nxt
    <3>1. x = rn + len /\ y = rn + wnd /\ rn \in Int
      BY <1>1, <1>4
    <3>2. len \in Int /\ wnd \in Int
      BY <1>1, <1>2
    <3> HIDE DEF x, y, rn
    <3> QED
      BY <3>1, <3>2
  <2>3. 2 * (len - wnd) < SEQ_MOD /\ 2 * (len - wnd) >= -SEQ_MOD
    BY <1>1, <1>2, TCPAssumption
  <2>2. todrop = SeqDiff(x, y)
    BY DEF todrop
  <2> HIDE DEF x, y
  <2> QED
    BY <2>1, <2>2, <2>3, SeqDiffNear
<1>6. w \in [p : PcbRec, s : SegRec, next : Labels, needoutput : BOOLEAN]
  BY DEF Trimmed, WorkRec
<1>7. CASE w.p.state \in AfterFinWait1 /\ len > 0
  <2>1. v = [w EXCEPT !.next = "dropwithreset"]
    BY <1>7 DEF TrimBack, v, len
  <2>2. v \in WorkRec /\ v.p = w.p /\ v.s = w.s /\ v.next = "dropwithreset" /\ v.needoutput = w.needoutput
    BY <1>6, <2>1 DEF WorkRec, Labels
  <2>3. Trimmed(p, s, v)
    BY <2>2 DEF Trimmed
  <2> QED
    BY <2>2, <2>3 DEF v
<1>8. CASE ~(w.p.state \in AfterFinWait1 /\ len > 0) /\ todrop <= 0
  <2>1. v = w
    BY <1>8 DEF TrimBack, v, len, todrop, wnd
  <2>2. w.s.seq = p.rcv_nxt => len <= MAXRCV - Len(p.rcv_q)
    BY <1>1, <1>2, <1>3, <1>4, <1>5, <1>8
  <2> QED
    BY <2>1, <2>2 DEF v, len
<1>9. CASE ~(w.p.state \in AfterFinWait1 /\ len > 0) /\ ~(todrop <= 0) /\ todrop >= len /\ ~probe
  <2>1. v = [w EXCEPT !.next = "dropafterack"]
    BY <1>9 DEF TrimBack, v, len, todrop, wnd, probe
  <2>2. v \in WorkRec /\ v.p = w.p /\ v.s = w.s /\ v.next = "dropafterack" /\ v.needoutput = w.needoutput
    BY <1>6, <2>1 DEF WorkRec, Labels
  <2>3. Trimmed(p, s, v)
    BY <2>2 DEF Trimmed
  <2> QED
    BY <2>2, <2>3 DEF v
<1>10. CASE ~(w.p.state \in AfterFinWait1 /\ len > 0) /\ ~(todrop <= 0) /\ ~(todrop >= len /\ ~probe)
  <2>1. v = [w EXCEPT !.p.acknow = b, !.s.data = d, !.s.flags = f]
    BY <1>10 DEF TrimBack, v, len, todrop, wnd, probe, b, d, f
  <2>2. /\ d \in Seq(Nat) /\ Len(d) \in Nat /\ Len(d) <= len
        /\ len - todrop <= len /\ len - todrop >= 0 => Len(d) = len - todrop
        /\ len - todrop <= 0 => Len(d) = 0
        /\ \A i \in 1 .. Len(d) : d[i] = w.s.data[i]
    <3> DEFINE k == len - todrop
               q == w.s.data
    <3>1. k \in Int /\ q \in Seq(Nat) /\ d = Part(q, 0, k) /\ len = Len(q)
      BY <1>1, <1>3 DEF d, len
    <3> HIDE DEF k, q
    <3>2. /\ d \in Seq(Nat) /\ Len(d) \in Nat /\ Len(d) <= len
          /\ k <= len /\ k >= 0 => Len(d) = k
          /\ k <= 0 => Len(d) = 0
          /\ \A i \in 1 .. Len(d) : d[i] = q[i]
      BY <3>1, TakeLemma
    <3> QED
      BY <3>2 DEF k, q
  <2> DEFINE p1 == [w.p EXCEPT !.acknow = b]
             s1 == [w.s EXCEPT !.data = d, !.flags = f]
  <2>3. b \in BOOLEAN /\ f \in SUBSET Flags /\ w.p \in PcbRec /\ w.s \in SegRec /\ PcbOK(w.p)
    BY <1>1, <1>6 DEF b, f, Trimmed
  <2>4. PcbOK(p1) /\ Untouched(w.p, p1) /\ p1 \in PcbRec
    BY <2>3, AcknowUpdate DEF PcbOK
  <2>5. /\ s1 \in SegRec
        /\ s1.flags = f /\ s1.seq = w.s.seq /\ s1.data = d /\ s1.ack = w.s.ack /\ s1.win = w.s.win
    BY <2>2, <2>3 DEF SegRec
  <2>6. v \in WorkRec /\ v.p = p1 /\ v.s = s1 /\ v.next = "go" /\ v.needoutput = w.needoutput
    BY <1>6, <2>1, <2>2, <2>3, <2>4, <2>5 DEF WorkRec
  <2> HIDE DEF p1, s1
  <2>7. Untouched(p, p1)
    BY <2>4 DEF Trimmed, Untouched, SendSame, RecvSame
  <2>8. d # <<>> => w.s.data # <<>>
    BY <1>1, <2>2, EmptySeq DEF len
  <2>9. SegOK(s1)
    <3>1. Len(d) <= MAXSEG
      BY <1>1, <2>2
    <3>2. d # <<>> => AckSeg(s1) /\ "SYN" \notin f
      BY <2>5, <2>8 DEF SegOK, AckSeg, f, Trimmed
    <3>3. "FIN" \notin f
      BY DEF f
    <3> QED
      BY <2>5, <3>1, <3>2, <3>3 DEF SegOK
  <2>10. Slice(s, s1)
    <3> SUFFICES ASSUME d # <<>>
                 PROVE  \E k \in Nat :
                          /\ s1.seq = Seq32(s.seq + k)
                          /\ k + Len(d) <= Len(s.data)
                          /\ \A i \in 1 .. Len(d) : d[i] = s.data[k + i]
      BY <2>5 DEF Slice
    <3>1. PICK k \in Nat :
            /\ w.s.seq = Seq32(s.seq + k)
            /\ k + len <= Len(s.data)
            /\ \A i \in 1 .. len : w.s.data[i] = s.data[k + i]
      BY <2>8 DEF Trimmed, Slice, len
    <3>2. k + Len(d) <= Len(s.data)
      BY <1>1, <2>2, <3>1, SegFields
    <3>3. \A i \in 1 .. Len(d) : d[i] = s.data[k + i]
      BY <1>1, <2>2, <3>1
    <3> QED
      BY <2>5, <3>1, <3>2, <3>3
  <2>11. Trimmed(p, s, v)
    BY <2>3, <2>4, <2>5, <2>6, <2>7, <2>9, <2>10 DEF Trimmed, f
  <2>12. w.s.seq = p.rcv_nxt => Len(d) <= MAXRCV - Len(p.rcv_q)
    <3> SUFFICES ASSUME w.s.seq = p.rcv_nxt PROVE Len(d) <= wnd
      BY <1>2, <1>4
    <3>1. CASE len >= wnd
      BY <1>1, <1>2, <1>3, <1>5, <2>2, <3>1
    <3>2. CASE len < wnd
      BY <1>1, <1>2, <2>2, <3>2
    <3> QED BY <1>1, <1>2, <3>1, <3>2
  <2> QED
    BY <2>5, <2>6, <2>11, <2>12 DEF v
<1> QED
  BY <1>7, <1>8, <1>9, <1>10

(* The test of the flags changes only where to go on (CheckFlags). *)
LEMMA CheckFlagsLemma ==
  ASSUME NEW p, NEW s, NEW w, Trimmed(p, s, w), w.next = "go"
  PROVE  LET v == CheckFlags(w)
         IN  /\ Trimmed(p, s, v)
             /\ v.p = w.p /\ v.s = w.s
             /\ v.next \in {"go", "close", "free", "dropwithreset", "drop"}
             /\ v.next = "go" => AckSeg(s) /\ AckSeg(w.s) /\ "SYN" \notin w.s.flags
<1> DEFINE v == CheckFlags(w)
<1>1. w \in [p : PcbRec, s : SegRec, next : Labels, needoutput : BOOLEAN]
  BY DEF Trimmed, WorkRec
<1>2. PICK l \in {"go", "close", "free", "dropwithreset", "drop"} :
        /\ v = [w EXCEPT !.next = l]
        /\ l = "go" => "RST" \notin w.s.flags /\ "ACK" \in w.s.flags /\ "SYN" \notin w.s.flags
  <2>1. w = [w EXCEPT !.next = "go"]
    BY <1>1
  <2> QED
    BY <2>1 DEF CheckFlags
<1> HIDE DEF v
<1>3. v \in WorkRec /\ v.p = w.p /\ v.s = w.s /\ v.next = l /\ v.needoutput = w.needoutput
  BY <1>1, <1>2 DEF WorkRec, Labels
<1>4. Trimmed(p, s, v)
  BY <1>3 DEF Trimmed
<1> QED
  BY <1>2, <1>3, <1>4 DEF v, Trimmed, AckSeg

--------------------------------------------------------------------------------
(* What is left of a send queue when d units are acknowledged. *)
Unacked(q, d) == Part(q, MinOf(d, Len(q)), Len(q))

(* The first d units of what was sent and not acknowledged are acknowledged. *)
AckedBy(p, q, d) ==
  /\ d \in 1 .. p.snd_max
  /\ q.snd_seq = Seq32(p.snd_seq + d)
  /\ q.snd_q = Unacked(p.snd_q, d)
  /\ q.snd_off = MaxOf(p.snd_off, d) - d
  /\ q.snd_max = p.snd_max - d
  /\ q.rxmt_tmr = (d # p.snd_max)

(* The fields that an ACK leaves alone. *)
RestSame(p, q) ==
  /\ q.snd_wnd = p.snd_wnd /\ q.sentfin = p.sentfin /\ q.delack = p.delack
  /\ q.needoutput = p.needoutput

(* The fields after an ACK (AckedPcb). *)
LEMMA AckedPcbFields ==
  ASSUME NEW p, PcbOK(p), NEW acked \in Nat, NEW nxt \in Int, NEW max \in Int
  PROVE  LET r == AckedPcb(p, acked, nxt, max)
         IN  /\ r.state = p.state /\ RecvSame(p, r) /\ RestSame(p, r)
             /\ r.snd_seq = Seq32(p.snd_seq + acked) /\ r.snd_q = Unacked(p.snd_q, acked)
             /\ r.snd_off = Off16(MaxOf(nxt, acked) - acked)
             /\ r.snd_max = Off16(max - acked)
             /\ r.rxmt_tmr = (acked # max) /\ r.blocked = "none"
  BY DEF PcbOK, PcbRec, AckedPcb, Notify, RecvSame, RestSame, Unacked

(* An ACK within what was sent acknowledges its first units (AckedPcb). *)
LEMMA AckedPcbLemma ==
  ASSUME NEW p, PcbOK(p), NEW p0, PcbOK(p0), NEW acked \in 1 .. p0.snd_max,
         p.snd_seq = p0.snd_seq, p.snd_q = p0.snd_q, RecvSame(p0, p), RestSame(p0, p)
  PROVE  LET r == AckedPcb(p, acked, p0.snd_off, p0.snd_max)
         IN  /\ PcbOK(r)
             /\ r.state = p.state /\ RecvSame(p0, r) /\ RestSame(p0, r)
             /\ AckedBy(p0, r, acked) /\ r.blocked = "none"
<1> DEFINE r == AckedPcb(p, acked, p0.snd_off, p0.snd_max)
           off == p0.snd_off
           max == p0.snd_max
<1>1. off \in 0 .. OFF_MOD - 1 /\ max \in 0 .. OFF_MOD - 1 /\ OFF_MOD \in Nat
  BY PcbFields, SeqMod DEF Offs
<1>2. acked \in Nat /\ acked >= 1 /\ acked <= max /\ off \in Int /\ max \in Int
  BY <1>1
<1>3. PcbOK(r)
  BY <1>2, AckedPcbType
<1>4. /\ r.state = p.state /\ RecvSame(p, r) /\ RestSame(p, r)
      /\ r.snd_seq = Seq32(p.snd_seq + acked) /\ r.snd_q = Unacked(p.snd_q, acked)
      /\ r.snd_off = Off16(MaxOf(off, acked) - acked)
      /\ r.snd_max = Off16(max - acked)
      /\ r.rxmt_tmr = (acked # max) /\ r.blocked = "none"
  BY <1>2, AckedPcbFields
<1> HIDE DEF r, off, max
<1>5. MaxOf(off, acked) - acked \in Offs /\ max - acked \in Offs
  BY <1>1, <1>2 DEF MaxOf, Offs
<1>6. Off16(MaxOf(off, acked) - acked) = MaxOf(off, acked) - acked /\ Off16(max - acked) = max - acked
  BY <1>5, Off16Small
<1>7. AckedBy(p0, r, acked)
  BY <1>4, <1>6 DEF AckedBy, off, max
<1> QED
  BY <1>3, <1>4, <1>7 DEF r, off, max, RecvSame, RestSame

(* Beyond the queue nothing is left. *)
LEMMA UnackedLemma ==
  ASSUME NEW q \in Seq(Nat), NEW d \in Nat
  PROVE  LET r == Unacked(q, d)
         IN  /\ r \in Seq(Nat) /\ Len(r) \in Nat /\ Len(r) <= Len(q)
             /\ d <= Len(q) => Len(r) = Len(q) - d /\ \A i \in 1 .. Len(r) : r[i] = q[d + i]
             /\ d >= Len(q) => r = <<>> /\ Len(r) = 0
<1> DEFINE k == MinOf(d, Len(q))
<1>1. Len(q) \in Nat
  BY LenProperties
<1>2. k \in Nat /\ (d <= Len(q) => k = d) /\ (d >= Len(q) => k = Len(q))
  BY <1>1 DEF MinOf
<1>3. Unacked(q, d) = Part(q, k, Len(q))
  BY DEF Unacked
<1> HIDE DEF k
<1> DEFINE r == Part(q, k, Len(q))
<1>4. /\ r \in Seq(Nat) /\ Len(r) \in Nat /\ Len(r) <= Len(q)
      /\ k <= Len(q) => Len(r) = Len(q) - k
      /\ k >= Len(q) => r = <<>> /\ Len(r) = 0
      /\ \A i \in 1 .. Len(r) : r[i] = q[k + i]
  BY <1>2, DropLemma
<1> HIDE DEF r
<1>5. CASE d <= Len(q)
  <2>1. k = d
    BY <1>2, <1>5
  <2>2. d >= Len(q) => r = <<>> /\ Len(r) = 0
    BY <2>1, <1>4
  <2>3. Len(r) = Len(q) - d /\ \A i \in 1 .. Len(r) : r[i] = q[d + i]
    BY <2>1, <1>4, <1>5
  <2> QED
    BY <1>3, <1>4, <2>2, <2>3 DEF r
<1>6. CASE ~(d <= Len(q))
  <2>1. k = Len(q)
    BY <1>1, <1>2, <1>6
  <2>2. r = <<>> /\ Len(r) = 0
    BY <1>1, <2>1, <1>4
  <2> QED
    BY <1>3, <1>4, <1>6, <2>2 DEF r
<1> QED
  BY <1>5, <1>6

(* The state after an ACK of new data. *)
StateAcked(p, q) ==
  \/ p.state = "SYN_RCVD" /\ q.state = "ESTABLISHED"
  \/ p.state # "SYN_RCVD" /\ q.state = p.state
  \/ p.state = "FIN_WAIT_1" /\ q.state = "FIN_WAIT_2" /\ q.snd_q = <<>>

(* An ACK for d units and what it makes of the state. *)
NewlyAcked(p, q, d) ==
  \/ /\ AckedBy(p, q, d) /\ RecvSame(p, q) /\ StateAcked(p, q)
  \/ /\ p.state = "CLOSING" /\ q.state = "TIME_WAIT"
     /\ q.snd_q = <<>> /\ q.rcv_q = <<>> /\ q.rcv_nxt = p.rcv_nxt

(* The work of the ACK stage for a segment that acknowledges d. *)
AckOutcome(p, d, v) ==
  \/ /\ Untouched(p, v.p) /\ ~v.needoutput
     /\ v.next = "go" => p.state # "SYN_RCVD" /\ d <= 0
     /\ v.next = "dropafterack" => p.state # "SYN_RCVD"
     /\ v.next \in {"go", "dropafterack", "dropwithreset"}
  \/ /\ d \in 1 .. p.snd_max
     /\ NewlyAcked(p, v.p, d) /\ RestSame(p, v.p)
     /\ v.p.blocked = "none"
     /\ v.next = "go" => v.needoutput = (d = p.snd_max)
     /\ v.next \in {"go", "free"} \/ (v.next = "dropafterack" /\ p.state = "TIME_WAIT")
  \/ /\ p.state = "SYN_RCVD" /\ d = 0
     /\ v.p.state = "ESTABLISHED" /\ v.next = "go"
     /\ v.p.snd_q = p.snd_q /\ RecvSame(p, v.p) /\ RestSame(p, v.p)
     /\ v.p.blocked = p.blocked

(* What the ACK of the FIN leads to (FinAcked). *)
LEMMA FinAckedLemma ==
  ASSUME NEW p, PcbOK(p), NEW d \in 1 .. p.snd_max,
         NEW w \in WorkRec, w.next = "go", PcbOK(w.p), NEW finacked \in BOOLEAN,
         AckedBy(p, w.p, d), RecvSame(p, w.p), RestSame(p, w.p), w.p.blocked = "none",
         w.p.state = IF p.state = "SYN_RCVD" THEN "ESTABLISHED" ELSE p.state,
         w.needoutput = (d = p.snd_max),
         finacked => w.p.snd_q = <<>>
  PROVE  LET v == FinAcked(w, finacked)
         IN  v \in WorkRec /\ PcbOK(v.p) /\ v.s = w.s /\ AckOutcome(p, d, v)
<1> DEFINE v == FinAcked(w, finacked)
<1>1. w \in [p : PcbRec, s : SegRec, next : Labels, needoutput : BOOLEAN] /\ w.p \in PcbRec
  BY DEF WorkRec
<1>2. CASE w.p.state = "FIN_WAIT_1" /\ finacked
  <2> DEFINE q == [w.p EXCEPT !.state = "FIN_WAIT_2"]
  <2>1. v = [w EXCEPT !.p.state = "FIN_WAIT_2"]
    BY <1>2 DEF FinAcked
  <2>2. /\ PcbOK(q) /\ q.state = "FIN_WAIT_2" /\ AckedBy(p, q, d) /\ RecvSame(p, q)
        /\ RestSame(p, q) /\ q.blocked = "none" /\ q.snd_q = w.p.snd_q
    BY <1>1 DEF PcbOK, PcbRec, TCPS, AckedBy, RecvSame, RestSame
  <2>3. v \in WorkRec /\ v.p = q /\ v.s = w.s /\ v.next = "go" /\ v.needoutput = w.needoutput
    BY <1>1, <2>1, <2>2 DEF WorkRec, PcbOK
  <2> HIDE DEF q, v
  <2>4. p.state = "FIN_WAIT_1"
    BY <1>2
  <2> QED
    BY <1>2, <2>2, <2>3, <2>4 DEF v, AckOutcome, NewlyAcked, StateAcked
<1>3. CASE w.p.state = "CLOSING" /\ finacked
  <2> DEFINE q == [w.p EXCEPT !.state = "TIME_WAIT", !.snd_q = <<>>, !.rcv_q = <<>>, !.rxmt_tmr = FALSE]
  <2>1. v = [w EXCEPT !.p.state = "TIME_WAIT", !.p.snd_q = <<>>, !.p.rcv_q = <<>>,
                      !.p.rxmt_tmr = FALSE]
    BY <1>3 DEF FinAcked
  <2>2. /\ PcbOK(q) /\ q.state = "TIME_WAIT" /\ q.snd_q = <<>> /\ q.rcv_q = <<>>
        /\ RestSame(p, q) /\ q.blocked = "none" /\ q.rcv_nxt = p.rcv_nxt
    <3>1. "TIME_WAIT" \in TCPS /\ FALSE \in BOOLEAN
      BY DEF TCPS
    <3>2. q \in PcbRec
      BY <1>1, <3>1, EmptyQueue DEF PcbRec
    <3>3. /\ q.state = "TIME_WAIT" /\ q.snd_q = <<>> /\ q.rcv_q = <<>>
          /\ RestSame(p, q) /\ q.blocked = "none" /\ q.rcv_nxt = p.rcv_nxt
      BY <1>1 DEF PcbRec, RestSame, RecvSame
    <3> QED
      BY <3>2, <3>3, EmptyQueue DEF PcbOK
  <2>3. v \in WorkRec /\ v.p = q /\ v.s = w.s /\ v.next = "go" /\ v.needoutput = w.needoutput
    BY <1>1, <2>1, <2>2 DEF WorkRec, PcbOK
  <2> HIDE DEF q, v
  <2>4. p.state = "CLOSING"
    BY <1>3
  <2> QED
    BY <2>2, <2>3, <2>4 DEF v, AckOutcome, NewlyAcked
<1>4. CASE w.p.state = "LAST_ACK" /\ finacked
  <2>1. v = [w EXCEPT !.next = "free"]
    BY <1>4 DEF FinAcked
  <2>2. v \in WorkRec /\ v.p = w.p /\ v.s = w.s /\ v.next = "free"
    BY <1>1, <2>1 DEF WorkRec, Labels
  <2> HIDE DEF v
  <2> QED
    BY <1>4, <2>2 DEF v, AckOutcome, NewlyAcked, StateAcked
<1>5. CASE w.p.state = "TIME_WAIT"
  <2>1. v = [w EXCEPT !.next = "dropafterack"]
    BY <1>5 DEF FinAcked
  <2>2. v \in WorkRec /\ v.p = w.p /\ v.s = w.s /\ v.next = "dropafterack"
    BY <1>1, <2>1 DEF WorkRec, Labels
  <2> HIDE DEF v
  <2> QED
    BY <1>5, <2>2 DEF v, AckOutcome, NewlyAcked, StateAcked
<1>6. CASE /\ ~(w.p.state = "FIN_WAIT_1" /\ finacked) /\ ~(w.p.state = "CLOSING" /\ finacked)
           /\ ~(w.p.state = "LAST_ACK" /\ finacked) /\ w.p.state # "TIME_WAIT"
  <2>1. v = w
    BY <1>6 DEF FinAcked
  <2> HIDE DEF v
  <2> QED
    BY <2>1 DEF v, AckOutcome, NewlyAcked, StateAcked
<1> QED
  BY <1>2, <1>3, <1>4, <1>5, <1>6

(* An ACK for new data (AckNew). *)
LEMMA AckNewLemma ==
  ASSUME NEW p, PcbOK(p), NEW d \in 1 .. p.snd_max,
         NEW w \in WorkRec, w.next = "go", PcbOK(w.p),
         w.p.snd_seq = p.snd_seq, w.p.snd_q = p.snd_q, RecvSame(p, w.p), RestSame(p, w.p),
         w.p.state = IF p.state = "SYN_RCVD" THEN "ESTABLISHED" ELSE p.state
  PROVE  LET v == AckNew(w, d, p.snd_off, p.snd_max)
         IN  v \in WorkRec /\ PcbOK(v.p) /\ v.s = w.s /\ AckOutcome(p, d, v)
<1> DEFINE q == AckedPcb(w.p, d, p.snd_off, p.snd_max)
           b == d = p.snd_max
           u == [w EXCEPT !.p = q, !.needoutput = b]
           finacked == d > Len(w.p.snd_q)
<1>1. /\ PcbOK(q) /\ q.state = w.p.state /\ RecvSame(p, q) /\ RestSame(p, q)
      /\ AckedBy(p, q, d) /\ q.blocked = "none"
  BY AckedPcbLemma
<1>2. finacked => q.snd_q = <<>>
  <2>1. p.snd_q \in Seq(Nat) /\ Len(p.snd_q) \in Nat /\ d \in Nat /\ q.snd_q = Unacked(p.snd_q, d)
    BY <1>1, PcbFields DEF AckedBy, Offs
  <2> HIDE DEF q
  <2> SUFFICES ASSUME d >= Len(p.snd_q) PROVE q.snd_q = <<>>
    BY <2>1
  <2> QED
    BY <2>1, UnackedLemma
<1>3. AckNew(w, d, p.snd_off, p.snd_max) = FinAcked(u, finacked)
  BY DEF AckNew
<1>4. w \in [p : PcbRec, s : SegRec, next : Labels, needoutput : BOOLEAN] /\ q \in PcbRec /\ b \in BOOLEAN
  BY <1>1 DEF WorkRec, PcbOK
<1> HIDE DEF q, b
<1>5. u \in WorkRec /\ u.p = q /\ u.s = w.s /\ u.next = "go" /\ u.needoutput = b
  BY <1>4 DEF WorkRec
<1> HIDE DEF u
<1>6. finacked \in BOOLEAN
  OBVIOUS
<1> HIDE DEF finacked
<1>7. LET v == FinAcked(u, finacked)
      IN  v \in WorkRec /\ PcbOK(v.p) /\ v.s = u.s /\ AckOutcome(p, d, v)
  BY <1>1, <1>2, <1>5, <1>6, FinAckedLemma DEF b
<1> QED
  BY <1>3, <1>5, <1>7

(* Every ACK is old, for new data, or a reason to drop the segment (AckStage). *)
LEMMA AckStageLemma ==
  ASSUME NEW p, PcbOK(p), NEW s, NEW w, Trimmed(p, s, w), w.next = "go", s.ack \in Seqs
  PROVE  LET v == AckStage(w)
         IN  /\ v \in WorkRec /\ PcbOK(v.p) /\ v.s = w.s
             /\ AckOutcome(p, SeqDiff(s.ack, p.snd_seq), v)
<1> DEFINE d == SeqDiff(s.ack, p.snd_seq)
           v == AckStage(w)
<1>1. /\ w \in [p : PcbRec, s : SegRec, next : Labels, needoutput : BOOLEAN] /\ w \in WorkRec
      /\ PcbOK(w.p) /\ w.p \in PcbRec /\ ~w.needoutput
  BY DEF WorkRec, Trimmed, PcbOK
<1>2. Untouched(p, w.p) /\ w.s.ack = s.ack
  BY DEF Trimmed
<1>3. /\ w.p.state = p.state /\ w.p.snd_seq = p.snd_seq /\ w.p.snd_off = p.snd_off
      /\ w.p.snd_max = p.snd_max /\ w.p.snd_q = p.snd_q /\ w.p.blocked = p.blocked
      /\ RecvSame(p, w.p) /\ RestSame(p, w.p)
  BY <1>2 DEF Untouched, SendSame, RestSame
<1>4. SeqDiff(w.s.ack, w.p.snd_seq) = d /\ d \in Int
  <2>1. s.ack \in Int /\ p.snd_seq \in Int
    BY PcbFields DEF Seqs
  <2> QED
    BY <1>2, <1>3, <2>1, SeqDiffInt
<1>5. p.snd_max \in Nat /\ p.snd_off \in Int
  BY PcbFields DEF Offs
<1> HIDE DEF d
<1>6. CASE p.state # "SYN_RCVD"
  <2>1. v = AckRange(w, d, p.snd_off, p.snd_max)
    BY <1>3, <1>4, <1>6 DEF AckStage
  <2>2. CASE d <= 0
    <3>1. v = w
      BY <2>1, <2>2 DEF AckRange
    <3> HIDE DEF v
    <3> QED
      BY <1>1, <1>2, <1>6, <2>2, <3>1 DEF AckOutcome, v, d
  <2>3. CASE d > 0 /\ d > p.snd_max
    <3>1. v = [w EXCEPT !.next = "dropafterack"]
      BY <1>4, <2>1, <2>3 DEF AckRange
    <3>2. v \in WorkRec /\ v.p = w.p /\ v.s = w.s /\ v.next = "dropafterack" /\ v.needoutput = w.needoutput
      BY <1>1, <3>1 DEF WorkRec, Labels
    <3> HIDE DEF v
    <3> QED
      BY <1>1, <1>2, <1>6, <3>2 DEF AckOutcome, v, d
  <2>4. CASE d > 0 /\ d <= p.snd_max
    <3>1. v = AckNew(w, d, p.snd_off, p.snd_max)
      BY <1>4, <1>5, <2>1, <2>4 DEF AckRange
    <3>2. d \in 1 .. p.snd_max
      BY <1>4, <1>5, <2>4
    <3>3. v \in WorkRec /\ PcbOK(v.p) /\ v.s = w.s /\ AckOutcome(p, d, v)
      <4> HIDE DEF v
      <4> QED BY <1>1, <1>3, <1>6, <3>1, <3>2, AckNewLemma
    <3> QED
      BY <3>3 DEF d
  <2> QED
    BY <1>4, <1>5, <2>2, <2>3, <2>4
<1>7. CASE p.state = "SYN_RCVD" /\ d \in 0 .. p.snd_max
  <2> DEFINE off == Off16(p.snd_off - 1)
             max == Off16(p.snd_max - 1)
             q == [w.p EXCEPT !.state = "ESTABLISHED", !.snd_off = off, !.snd_max = max]
             u == [w EXCEPT !.p.state = "ESTABLISHED", !.p.snd_off = off, !.p.snd_max = max]
  <2>1. off \in Offs /\ max \in Offs /\ "ESTABLISHED" \in TCPS
    BY <1>5, Off16Type DEF TCPS
  <2>2. u = SynAcked(w)
    BY <1>3 DEF SynAcked
  <2> HIDE DEF off, max
  <2>3. /\ q \in PcbRec /\ q.state = "ESTABLISHED" /\ q.snd_seq = p.snd_seq /\ q.snd_q = p.snd_q
        /\ q.rcv_q = w.p.rcv_q
        /\ RecvSame(p, q) /\ RestSame(p, q) /\ q.blocked = p.blocked
    BY <1>1, <1>3, <2>1 DEF PcbRec, RecvSame, RestSame
  <2>4. PcbOK(q)
    BY <1>1, <1>3, <2>3 DEF PcbOK
  <2>5. u \in WorkRec /\ u.p = q /\ u.s = w.s /\ u.next = "go" /\ u.needoutput = FALSE
    BY <1>1, <2>1, <2>3 DEF WorkRec
  <2> HIDE DEF q, u
  <2>6. v = AckRange(u, d, p.snd_off, p.snd_max)
    BY <1>3, <1>4, <1>7, <2>2 DEF AckStage
  <2>7. CASE d = 0
    <3>1. v = u
      BY <2>6, <2>7 DEF AckRange
    <3> HIDE DEF v
    <3> QED
      BY <1>7, <2>3, <2>4, <2>5, <2>7, <3>1 DEF AckOutcome, v, d
  <2>8. CASE d # 0
    <3>1. d \in 1 .. p.snd_max
      BY <1>5, <1>7, <2>8
    <3>2. v = AckNew(u, d, p.snd_off, p.snd_max)
      BY <1>5, <2>6, <3>1 DEF AckRange
    <3>3. v \in WorkRec /\ PcbOK(v.p) /\ v.s = u.s /\ AckOutcome(p, d, v)
      <4> HIDE DEF v
      <4> QED BY <1>7, <2>3, <2>4, <2>5, <3>1, <3>2, AckNewLemma
    <3> QED
      BY <2>5, <3>3 DEF d
  <2> QED
    BY <2>7, <2>8
<1>8. CASE p.state = "SYN_RCVD" /\ d \notin 0 .. p.snd_max
  <2>1. v = [w EXCEPT !.next = "dropwithreset"]
    BY <1>3, <1>4, <1>8 DEF AckStage
  <2>2. v \in WorkRec /\ v.p = w.p /\ v.s = w.s /\ v.next = "dropwithreset" /\ v.needoutput = w.needoutput
    BY <1>1, <2>1 DEF WorkRec, Labels
  <2> HIDE DEF v
  <2> QED
    BY <1>1, <1>2, <2>2 DEF AckOutcome, v, d
<1> QED
  BY <1>6, <1>7, <1>8

--------------------------------------------------------------------------------
(* The data of s is taken, or none of it. *)
DataEffect(p, s, q) ==
  \/ RecvSame(p, q) /\ q.blocked = p.blocked
  \/ /\ p.state = "ESTABLISHED" /\ s.seq = p.rcv_nxt
     /\ q.rcv_q = p.rcv_q \o s.data
     /\ q.rcv_nxt = Seq32(p.rcv_nxt + Len(s.data))
     /\ q.blocked = "none"

(* The FIN of s is taken, after its data. *)
FinEffect(p, s, q) ==
  \/ /\ p.state \in {"SYN_RCVD", "ESTABLISHED"} /\ q.state = "CLOSE_WAIT"
     /\ SendSame(p, q)
     /\ \/ q.rcv_q = p.rcv_q /\ (q.blocked = "none" \/ (q.rcv_q # <<>> /\ q.blocked = p.blocked))
        \/ /\ p.state = "ESTABLISHED" /\ s.seq = p.rcv_nxt
           /\ q.rcv_q = p.rcv_q \o s.data /\ q.blocked = "none"
  \/ /\ p.state \notin {"SYN_RCVD", "ESTABLISHED"}
     /\ q.blocked = p.blocked
     /\ \/ SendSame(p, q) /\ q.rcv_q = p.rcv_q /\ p.state # "FIN_WAIT_1" /\ q.state = p.state
        \/ SendSame(p, q) /\ q.rcv_q = p.rcv_q /\ p.state = "FIN_WAIT_1" /\ q.state = "CLOSING"
        \/ p.state = "FIN_WAIT_2" /\ q.state = "TIME_WAIT" /\ q.snd_q = <<>> /\ q.rcv_q = <<>>

(* The window, the data and the FIN of s are processed: p before, q after. *)
Step6Effect(p, s, q) ==
  /\ q.sentfin = p.sentfin
  /\ p.needoutput => q.needoutput
  /\ p.delack => q.delack
  /\ q.snd_wnd >= p.snd_wnd /\ q.snd_wnd \in {p.snd_wnd, s.win}
  /\ \/ q.state = p.state /\ SendSame(p, q) /\ DataEffect(p, s, q)
     \/ "FIN" \in s.flags /\ FinEffect(p, s, q)

(* The window of the peer is noted (WindowStage). *)
LEMMA WindowStageLemma ==
  ASSUME NEW w \in WorkRec, PcbOK(w.p), SegOK(w.s)
  PROVE  LET v == WindowStage(w)
             p == w.p
             q == v.p
         IN  /\ v \in WorkRec /\ PcbOK(q) /\ v.s = w.s /\ v.next = w.next
             /\ w.needoutput => v.needoutput
             /\ q.sentfin = p.sentfin /\ q.needoutput = p.needoutput /\ q.delack = p.delack
             /\ q.snd_wnd >= p.snd_wnd /\ q.snd_wnd \in {p.snd_wnd, w.s.win}
             /\ q.state = p.state /\ SendSame(p, q) /\ RecvSame(p, q) /\ q.blocked = p.blocked
<1> DEFINE v == WindowStage(w)
           p == w.p
           q == [p EXCEPT !.snd_wnd = w.s.win]
<1>1. /\ w \in [p : PcbRec, s : SegRec, next : Labels, needoutput : BOOLEAN] /\ p \in PcbRec
      /\ w.s.win \in 0 .. MAXRCV /\ p.snd_wnd \in 0 .. MAXRCV /\ MAXRCV \in Nat
  BY SegFields, PcbFields, TCPAssumption DEF WorkRec
<1>2. CASE w.s.win > w.p.snd_wnd
  <2>1. v = [w EXCEPT !.p.snd_wnd = w.s.win, !.needoutput = TRUE]
    BY <1>2 DEF WindowStage
  <2>2. /\ q \in PcbRec /\ q.sentfin = p.sentfin /\ q.needoutput = p.needoutput
        /\ q.delack = p.delack /\ q.snd_wnd = w.s.win
        /\ q.state = p.state /\ SendSame(p, q) /\ RecvSame(p, q) /\ q.blocked = p.blocked
    BY <1>1 DEF PcbRec, SendSame, RecvSame
  <2>3. PcbOK(q)
    BY <2>2 DEF PcbOK, SendSame, RecvSame
  <2>4. v \in WorkRec /\ v.p = q /\ v.s = w.s /\ v.next = w.next /\ v.needoutput = TRUE
    BY <1>1, <2>1, <2>2 DEF WorkRec
  <2>5. w.s.win >= p.snd_wnd
    BY <1>1, <1>2
  <2> HIDE DEF q, v
  <2> QED
    BY <2>2, <2>3, <2>4, <2>5 DEF v
<1>3. CASE ~(w.s.win > w.p.snd_wnd)
  <2>1. v = w
    BY <1>3 DEF WindowStage
  <2>2. p.snd_wnd >= p.snd_wnd
    BY <1>1
  <2> QED
    BY <2>1, <2>2 DEF SendSame, RecvSame
<1> QED
  BY <1>2, <1>3

(* The next data is queued and the reader woken up, or nothing is (DataStage). *)
LEMMA DataStageLemma ==
  ASSUME NEW w \in WorkRec, PcbOK(w.p), SegOK(w.s), w.next = "go",
         w.s.seq = w.p.rcv_nxt => Len(w.s.data) <= MAXRCV - Len(w.p.rcv_q)
  PROVE  LET v == DataStage(w)
             p == w.p
             q == v.p
         IN  /\ v \in WorkRec /\ PcbOK(q) /\ v.next = "go" /\ v.needoutput = w.needoutput
             /\ v.s.flags \subseteq w.s.flags
             /\ q.sentfin = p.sentfin /\ q.needoutput = p.needoutput
             /\ p.delack => q.delack
             /\ q.snd_wnd = p.snd_wnd /\ q.state = p.state /\ SendSame(p, q)
             /\ DataEffect(p, w.s, q)
<1> DEFINE v == DataStage(w)
           p == w.p
           s == w.s
<1>1. /\ w \in [p : PcbRec, s : SegRec, next : Labels, needoutput : BOOLEAN] /\ p \in PcbRec
      /\ s \in SegRec
  BY DEF WorkRec
<1>2. CASE (s.data = <<>> /\ "FIN" \notin s.flags) \/ p.state = "TIME_WAIT"
  <2>1. v = [w EXCEPT !.s.flags = @ \ {"FIN"}]
    BY <1>2 DEF DataStage
  <2>2. v \in WorkRec /\ v.p = p /\ v.s.flags = s.flags \ {"FIN"} /\ v.next = "go" /\ v.needoutput = w.needoutput
    <3> DEFINE f == s.flags \ {"FIN"}
               t == [s EXCEPT !.flags = f]
    <3>1. f \in SUBSET Flags
      BY SegFields
    <3> HIDE DEF f
    <3>2. t \in SegRec /\ t.flags = f
      BY <1>1, <3>1 DEF SegRec
    <3>3. v = [w EXCEPT !.s = t]
      BY <2>1 DEF f
    <3> HIDE DEF t
    <3>4. v \in WorkRec /\ v.p = p /\ v.s = t /\ v.next = "go" /\ v.needoutput = w.needoutput
      BY <1>1, <3>2, <3>3 DEF WorkRec
    <3> QED
      BY <3>2, <3>4 DEF f
  <2> HIDE DEF v
  <2> QED
    BY <2>2 DEF v, SendSame, RecvSame, DataEffect
<1>3. CASE ~((s.data = <<>> /\ "FIN" \notin s.flags) \/ p.state = "TIME_WAIT")
           /\ s.seq = p.rcv_nxt /\ p.state = "ESTABLISHED"
  <2> DEFINE rq == p.rcv_q \o s.data
             rn == Seq32(p.rcv_nxt + Len(s.data))
             b  == "none"
             q == [p EXCEPT !.delack = TRUE, !.rcv_q = rq, !.rcv_nxt = rn, !.blocked = b]
  <2>1. v = [w EXCEPT !.p = q]
    BY <1>3 DEF DataStage, Notify
  <2>2. rq \in Seq(Nat) /\ rn \in Seqs /\ b \in Calls /\ Len(rq) <= MAXRCV
    <3>1. p.rcv_q \in Seq(Nat) /\ s.data \in Seq(Nat) /\ p.rcv_nxt \in Int /\ Len(s.data) \in Nat
          /\ Len(p.rcv_q) \in Nat /\ MAXRCV \in Nat
      BY PcbFields, SegFields, TCPAssumption DEF Seqs
    <3>2. rq \in Seq(Nat) /\ Len(rq) = Len(p.rcv_q) + Len(s.data)
      BY <3>1, ConcatProperties
    <3>3. Len(s.data) <= MAXRCV - Len(p.rcv_q)
      BY <1>3
    <3>4. rn \in Seqs
      BY <3>1, Seq32Type
    <3>5. b \in Calls
      BY DEF Calls
    <3> DEFINE m == Len(p.rcv_q)
               n == Len(s.data)
    <3>6. m \in Nat /\ n \in Nat /\ MAXRCV \in Nat /\ n <= MAXRCV - m /\ Len(rq) = m + n
      BY <3>1, <3>2, <3>3
    <3> HIDE DEF m, n, rq, rn, b
    <3>7. Len(rq) <= MAXRCV
      BY <3>6
    <3> QED
      BY <3>2, <3>4, <3>5, <3>7
  <2> HIDE DEF rq, rn, b
  <2>3. /\ q \in PcbRec /\ q.sentfin = p.sentfin /\ q.needoutput = p.needoutput /\ q.delack = TRUE
        /\ q.snd_wnd = p.snd_wnd /\ q.state = p.state /\ SendSame(p, q)
        /\ q.rcv_q = rq /\ q.rcv_nxt = rn /\ q.blocked = b /\ q.snd_q = p.snd_q
    BY <1>1, <2>2 DEF PcbRec, SendSame
  <2>4. PcbOK(q)
    BY <2>2, <2>3 DEF PcbOK
  <2>5. v \in WorkRec /\ v.p = q /\ v.s = s /\ v.next = "go" /\ v.needoutput = w.needoutput
    BY <1>1, <2>1, <2>3 DEF WorkRec
  <2> HIDE DEF q, v
  <2> QED
    BY <1>3, <2>3, <2>4, <2>5 DEF v, DataEffect, rq, rn, b
<1>4. CASE ~((s.data = <<>> /\ "FIN" \notin s.flags) \/ p.state = "TIME_WAIT")
           /\ ~(s.seq = p.rcv_nxt /\ p.state = "ESTABLISHED")
  <2> DEFINE q == [p EXCEPT !.acknow = TRUE]
  <2>1. v = [w EXCEPT !.p.acknow = TRUE]
    BY <1>4 DEF DataStage
  <2>2. PcbOK(q) /\ Untouched(p, q) /\ q \in PcbRec
    BY AcknowUpdate DEF PcbOK
  <2>3. v \in WorkRec /\ v.p = q /\ v.s = s /\ v.next = "go" /\ v.needoutput = w.needoutput
    BY <1>1, <2>1, <2>2 DEF WorkRec
  <2> HIDE DEF q, v
  <2> QED
    BY <2>2, <2>3 DEF v, DataEffect, Untouched
<1> QED
  BY <1>2, <1>3, <1>4

(* The FIN of the peer is processed. *)
FinOnly(p, q) ==
  \/ /\ p.state \in {"SYN_RCVD", "ESTABLISHED"} /\ q.state = "CLOSE_WAIT"
     /\ SendSame(p, q) /\ q.rcv_q = p.rcv_q
     /\ q.blocked = "none" \/ (q.rcv_q # <<>> /\ q.blocked = p.blocked)
  \/ /\ p.state \notin {"SYN_RCVD", "ESTABLISHED"}
     /\ q.blocked = p.blocked
     /\ \/ SendSame(p, q) /\ q.rcv_q = p.rcv_q /\ p.state # "FIN_WAIT_1" /\ q.state = p.state
        \/ SendSame(p, q) /\ q.rcv_q = p.rcv_q /\ p.state = "FIN_WAIT_1" /\ q.state = "CLOSING"
        \/ p.state = "FIN_WAIT_2" /\ q.state = "TIME_WAIT" /\ q.snd_q = <<>> /\ q.rcv_q = <<>>

(* What the FIN of the peer leads to (FinStage). *)
LEMMA FinStageLemma ==
  ASSUME NEW w \in WorkRec, PcbOK(w.p), w.next = "go"
  PROVE  LET v == FinStage(w)
             p == w.p
             q == v.p
         IN  /\ v \in WorkRec /\ PcbOK(q) /\ v.next = "go" /\ v.needoutput = w.needoutput
             /\ q.sentfin = p.sentfin /\ q.needoutput = p.needoutput /\ q.delack = p.delack
             /\ q.snd_wnd = p.snd_wnd
             /\ q = p \/ ("FIN" \in w.s.flags /\ FinOnly(p, q))
<1> DEFINE v == FinStage(w)
           p == w.p
<1>1. w \in [p : PcbRec, s : SegRec, next : Labels, needoutput : BOOLEAN] /\ p \in PcbRec
  BY DEF WorkRec
<1>2. CASE "FIN" \notin w.s.flags
  BY <1>2 DEF FinStage
<1>3. CASE "FIN" \in w.s.flags
  <2> DEFINE rn == Seq32(p.rcv_nxt + 1)
             p1 == [p EXCEPT !.acknow = TRUE, !.rcv_nxt = rn]
             q  == CASE p1.state \in {"SYN_RCVD", "ESTABLISHED"} ->
                          [p1 EXCEPT !.state = "CLOSE_WAIT",
                                     !.blocked = IF p1.rcv_q = <<>> THEN "none" ELSE @]
                     [] p1.state = "FIN_WAIT_1" -> [p1 EXCEPT !.state = "CLOSING"]
                     [] p1.state = "FIN_WAIT_2" ->
                          [p1 EXCEPT !.state = "TIME_WAIT", !.rxmt_tmr = FALSE,
                                     !.rcv_q = <<>>, !.snd_q = <<>>]
                     [] OTHER -> p1
  <2>1. v = [w EXCEPT !.p = q]
    BY <1>3 DEF FinStage
  <2>2. rn \in Seqs
    BY PcbFields, Seq32Type, SMTT(30) DEF Seqs
  <2> HIDE DEF rn
  <2>3. p1 \in PcbRec
    BY <1>1, <2>2 DEF PcbRec
  <2>4. /\ p1.state = p.state /\ p1.blocked = p.blocked /\ SendSame(p, p1) /\ p1.rcv_q = p.rcv_q
        /\ p1.sentfin = p.sentfin /\ p1.needoutput = p.needoutput /\ p1.delack = p.delack
        /\ p1.snd_wnd = p.snd_wnd
    BY <1>1 DEF PcbRec, SendSame
  <2> HIDE DEF p1
  <2>5. "CLOSE_WAIT" \in TCPS /\ "CLOSING" \in TCPS /\ "TIME_WAIT" \in TCPS /\ "none" \in Calls
        /\ p1.blocked \in Calls /\ PcbOK(p1)
    BY <2>3, <2>4, PcbFields DEF TCPS, Calls, PcbOK, PcbRec, SendSame
  <2>6. /\ PcbOK(q)
        /\ q.sentfin = p.sentfin /\ q.needoutput = p.needoutput /\ q.delack = p.delack
        /\ q.snd_wnd = p.snd_wnd /\ FinOnly(p, q)
    <3>1. CASE p1.state \in {"SYN_RCVD", "ESTABLISHED"}
      <4> DEFINE b == IF p1.rcv_q = <<>> THEN "none" ELSE p1.blocked
                 r == [p1 EXCEPT !.state = "CLOSE_WAIT", !.blocked = b]
      <4>1. q = r
        BY <3>1
      <4>2. b \in Calls /\ (b = "none" \/ (p1.rcv_q # <<>> /\ b = p1.blocked))
        BY <2>5
      <4> HIDE DEF b
      <4>3. /\ r \in PcbRec /\ r.state = "CLOSE_WAIT" /\ r.blocked = b /\ SendSame(p1, r) /\ r.rcv_q = p1.rcv_q
            /\ r.sentfin = p1.sentfin /\ r.needoutput = p1.needoutput /\ r.delack = p1.delack
            /\ r.snd_wnd = p1.snd_wnd
        BY <2>3, <2>5, <4>2 DEF PcbRec, SendSame
      <4> HIDE DEF r, q
      <4> QED
        BY <2>4, <2>5, <3>1, <4>1, <4>2, <4>3 DEF FinOnly, PcbOK, SendSame
    <3>2. CASE p1.state = "FIN_WAIT_1"
      <4> DEFINE r == [p1 EXCEPT !.state = "CLOSING"]
      <4>1. q = r
        BY <3>2
      <4>3. /\ r \in PcbRec /\ r.state = "CLOSING" /\ r.blocked = p1.blocked /\ SendSame(p1, r) /\ r.rcv_q = p1.rcv_q
            /\ r.sentfin = p1.sentfin /\ r.needoutput = p1.needoutput /\ r.delack = p1.delack
            /\ r.snd_wnd = p1.snd_wnd
        BY <2>3, <2>5 DEF PcbRec, SendSame
      <4> HIDE DEF r, q
      <4> QED
        BY <2>4, <2>5, <3>2, <4>1, <4>3 DEF FinOnly, PcbOK, SendSame
    <3>3. CASE p1.state = "FIN_WAIT_2"
      <4> DEFINE r == [p1 EXCEPT !.state = "TIME_WAIT", !.rxmt_tmr = FALSE,
                                 !.rcv_q = <<>>, !.snd_q = <<>>]
      <4>1. q = r
        BY <3>3
      <4>3. r \in PcbRec
        BY <2>3, <2>5, EmptyQueue DEF PcbRec
      <4>4. /\ r.state = "TIME_WAIT" /\ r.blocked = p1.blocked /\ r.rcv_q = <<>> /\ r.snd_q = <<>>
            /\ r.sentfin = p1.sentfin /\ r.needoutput = p1.needoutput /\ r.delack = p1.delack
            /\ r.snd_wnd = p1.snd_wnd
        BY <2>3 DEF PcbRec
      <4> HIDE DEF r, q
      <4> QED
        BY <2>4, <3>3, <4>1, <4>3, <4>4, EmptyQueue DEF FinOnly, PcbOK
    <3>4. CASE p1.state \notin {"SYN_RCVD", "ESTABLISHED", "FIN_WAIT_1", "FIN_WAIT_2"}
      <4>1. q = p1
        BY <3>4
      <4> HIDE DEF q
      <4> QED
        BY <2>4, <2>5, <3>4, <4>1 DEF FinOnly
    <3> QED
      BY <3>1, <3>2, <3>3, <3>4
  <2>7. q \in PcbRec
    BY <2>6 DEF PcbOK
  <2> HIDE DEF q
  <2>8. v \in WorkRec /\ v.p = q /\ v.next = "go" /\ v.needoutput = w.needoutput
    BY <1>1, <2>1, <2>7 DEF WorkRec
  <2> HIDE DEF v
  <2> QED
    BY <1>3, <2>6, <2>8 DEF v
<1> QED
  BY <1>2, <1>3

(* The last three stages together (FromStep6). *)
LEMMA FromStep6Lemma ==
  ASSUME NEW w \in WorkRec, PcbOK(w.p), SegOK(w.s), w.next = "go",
         w.s.seq = w.p.rcv_nxt => Len(w.s.data) <= MAXRCV - Len(w.p.rcv_q)
  PROVE  LET v == FromStep6(w)
         IN  /\ v \in WorkRec /\ PcbOK(v.p) /\ v.next = "go"
             /\ w.needoutput => v.needoutput
             /\ Step6Effect(w.p, w.s, v.p)
<1> DEFINE w1 == WindowStage(w)
           w2 == DataStage(w1)
           w3 == FinStage(w2)
           p  == w.p
           p1 == w1.p
           p2 == w2.p
           q  == w3.p
<1>1. /\ w1 \in WorkRec /\ PcbOK(p1) /\ w1.s = w.s /\ w1.next = w.next
      /\ w.needoutput => w1.needoutput
      /\ p1.sentfin = p.sentfin /\ p1.needoutput = p.needoutput /\ p1.delack = p.delack
      /\ p1.snd_wnd >= p.snd_wnd /\ p1.snd_wnd \in {p.snd_wnd, w.s.win}
      /\ p1.state = p.state /\ SendSame(p, p1) /\ RecvSame(p, p1) /\ p1.blocked = p.blocked
  BY WindowStageLemma
<1> HIDE DEF w1
<1>2. /\ w2 \in WorkRec /\ PcbOK(p2) /\ w2.next = "go" /\ w2.needoutput = w1.needoutput
      /\ w2.s.flags \subseteq w1.s.flags
      /\ p2.sentfin = p1.sentfin /\ p2.needoutput = p1.needoutput
      /\ p1.delack => p2.delack
      /\ p2.snd_wnd = p1.snd_wnd /\ p2.state = p1.state /\ SendSame(p1, p2)
      /\ DataEffect(p1, w1.s, p2)
  <2>1. w1.s.seq = w1.p.rcv_nxt => Len(w1.s.data) <= MAXRCV - Len(w1.p.rcv_q)
    BY <1>1 DEF RecvSame
  <2>2. w1 \in WorkRec /\ PcbOK(w1.p) /\ SegOK(w1.s) /\ w1.next = "go"
    BY <1>1
  <2> QED
    BY <2>1, <2>2, DataStageLemma
<1> HIDE DEF w2
<1>3. /\ w3 \in WorkRec /\ PcbOK(q) /\ w3.next = "go" /\ w3.needoutput = w2.needoutput
      /\ q.sentfin = p2.sentfin /\ q.needoutput = p2.needoutput /\ q.delack = p2.delack
      /\ q.snd_wnd = p2.snd_wnd
      /\ q = p2 \/ ("FIN" \in w2.s.flags /\ FinOnly(p2, q))
  BY <1>2, FinStageLemma
<1> HIDE DEF w3
<1>4. FromStep6(w) = w3
  BY <1>1, <1>2 DEF FromStep6, Then, w1, w2, w3
<1>5. DataEffect(p, w.s, p2) /\ SendSame(p, p2) /\ p2.state = p.state
  BY <1>1, <1>2, ZenonT(60) DEF DataEffect, SendSame, RecvSame
<1>6. CASE q = p2
  BY <1>1, <1>2, <1>3, <1>4, <1>5, <1>6 DEF Step6Effect
<1>7. CASE "FIN" \in w2.s.flags /\ FinOnly(p2, q)
  <2>1. "FIN" \in w.s.flags
    BY <1>1, <1>2, <1>7
  <2>2. FinEffect(p, w.s, q)
    <3> HIDE DEF p, q, p1, p2
    <3>1. CASE RecvSame(p, p2) /\ p2.blocked = p.blocked
      BY <1>5, <1>7, <3>1 DEF FinOnly, FinEffect, SendSame, RecvSame
    <3>2. CASE /\ p.state = "ESTABLISHED" /\ w.s.seq = p.rcv_nxt
               /\ p2.rcv_q = p.rcv_q \o w.s.data /\ p2.blocked = "none"
      BY <1>5, <1>7, <3>2 DEF FinOnly, FinEffect, SendSame, RecvSame
    <3> QED
      BY <1>5, <3>1, <3>2 DEF DataEffect
  <2> QED
    BY <1>1, <1>2, <1>3, <1>4, <2>1, <2>2 DEF Step6Effect
<1> QED
  BY <1>3, <1>6, <1>7

--------------------------------------------------------------------------------
(* The connection has ended. *)
Gone(q) ==
  /\ q.state \in {"FREE", "CLOSED"}
  /\ q.snd_q = <<>> /\ q.rcv_q = <<>> /\ q.blocked = "none"
  /\ q.state = "FREE" => ~q.needoutput

(* The answer to the SYN of this side. *)
Opened(p, s, q) ==
  /\ p.state = "SYN_SENT" /\ q.state = "ESTABLISHED"
  /\ {"SYN", "ACK"} \subseteq s.flags /\ "RST" \notin s.flags
  /\ s.ack = Seq32(p.snd_seq + 1)
  /\ q.snd_seq = Seq32(p.snd_seq + 1) /\ q.rcv_nxt = Seq32(s.seq + 1)
  /\ q.snd_off = Off16(p.snd_off - 1) /\ q.snd_max = Off16(p.snd_max - 1)
  /\ q.snd_q = p.snd_q /\ q.rcv_q = p.rcv_q
  /\ q.rxmt_tmr = p.rxmt_tmr /\ q.rxmt_cnt = p.rxmt_cnt
  /\ q.snd_wnd = s.win /\ q.sentfin = p.sentfin /\ q.blocked = "none"

(* The segment lies behind the receive window. *)
BeyondWindow(p, s) ==
  "RST" \notin s.flags /\ TrimBack(TrimFront(p, s)).next = "dropafterack"

(* The segment is dropped; at most an ACK is due. *)
Held(p, s, q) ==
  /\ p.state # "SYN_SENT"
  /\ q.state = p.state /\ SendSame(p, q) /\ RecvSame(p, q)
  /\ q.snd_wnd = p.snd_wnd /\ q.sentfin = p.sentfin /\ q.delack = p.delack
  /\ q.blocked = p.blocked
  /\ p.needoutput => q.needoutput
  /\ p.state = "SYN_RCVD" /\ q.needoutput => p.needoutput \/ BeyondWindow(p, s)

(* What its ACK does, where it acknowledges d. *)
AckMid(p, m, d) ==
  \/ Untouched(p, m) /\ p.state # "SYN_RCVD" /\ d <= 0
  \/ d \in 1 .. p.snd_max /\ NewlyAcked(p, m, d) /\ RestSame(p, m) /\ m.blocked = "none"
  \/ /\ p.state = "SYN_RCVD" /\ d = 0 /\ m.state = "ESTABLISHED"
     /\ m.snd_q = p.snd_q /\ RecvSame(p, m) /\ RestSame(p, m) /\ m.blocked = p.blocked

(* The ACK of s and then the data of t, the part of s within the window, are taken. *)
Taken(p, s, m, t, q) ==
  /\ PcbOK(m) /\ SegOK(t)
  /\ t.win = s.win /\ t.flags \subseteq s.flags /\ Slice(s, t)
  /\ AckMid(p, m, SeqDiff(s.ack, p.snd_seq))
  /\ Step6Effect(m, t, q)
  /\ LET d == SeqDiff(s.ack, p.snd_seq)
     IN  d >= 1 /\ d = p.snd_max /\ q.snd_q # <<>> /\ q.state = "ESTABLISHED" => q.needoutput

(* The segment passes all the tests. *)
Through(p, s, q) ==
  /\ p.state # "SYN_SENT" /\ AckSeg(s)
  /\ \E m, t : Taken(p, s, m, t, q)

(* The four ways in which a segment can end. *)
InputEffect(p, s, q) == Gone(q) \/ Opened(p, s, q) \/ Held(p, s, q) \/ Through(p, s, q)

(* A reset, and nothing else, is sent at once. *)
IsReset(m) ==
  SegOK(m) /\ m.flags \in {{"RST"}, {"RST", "ACK"}} /\ m.data = <<>>

(* The answer to a segment for nobody is a reset (Reset). *)
LEMMA ResetLemma ==
  ASSUME NEW s, SegOK(s)
  PROVE  \A m \in Reset(s) : IsReset(m)
<1> DEFINE k == Seq32(s.seq + Len(s.data) + IF "SYN" \in s.flags THEN 1 ELSE 0)
<1>1. s.ack \in Seqs /\ k \in Seqs /\ 0 \in Seqs /\ 0 \in 0 .. MAXRCV
  <2> DEFINE n == s.seq + Len(s.data) + IF "SYN" \in s.flags THEN 1 ELSE 0
  <2>1. s.ack \in Seqs /\ s.seq \in Int /\ Len(s.data) \in Int
    BY SegFields DEF Seqs
  <2>2. n \in Int /\ k = Seq32(n)
    BY <2>1
  <2> HIDE DEF n, k
  <2>3. 0 \in Seqs /\ 0 \in 0 .. MAXRCV
    BY TCPAssumption, SeqMod DEF Seqs
  <2> QED
    BY <2>1, <2>2, <2>3, Seq32Type
<1>2. Reset(s) \subseteq {Segment({"RST"}, s.ack, 0, 0, <<>>), Segment({"RST", "ACK"}, 0, k, 0, <<>>)}
  BY DEF Reset
<1>3. MAXSEG \in Nat
  BY TCPAssumption
<1> HIDE DEF k
<1>4. IsReset(Segment({"RST"}, s.ack, 0, 0, <<>>))
  BY <1>1, <1>3, EmptyQueue DEF IsReset, SegOK, SegRec, Segment, Flags, AckSeg
<1>5. IsReset(Segment({"RST", "ACK"}, 0, k, 0, <<>>))
  BY <1>1, <1>3, EmptyQueue DEF IsReset, SegOK, SegRec, Segment, Flags, AckSeg
<1> QED
  BY <1>2, <1>4, <1>5

(* A new control block is one. *)
LEMMA NewPcbOK == PcbOK(NewPcb)
<1>1. 0 \in Seqs /\ 0 \in Offs /\ 0 \in 0 .. MAXRCV /\ "CLOSED" \in TCPS /\ "none" \in Calls
  BY SeqMod, TCPAssumption DEF Seqs, Offs, TCPS, Calls
<1>2. <<>> \in Seq(Nat) /\ 0 \in Int /\ 0 \in Nat /\ FALSE \in BOOLEAN
  BY EmptyQueue
<1>3. NewPcb \in PcbRec
  BY <1>1, <1>2 DEF NewPcb, PcbRec
<1>4. NewPcb.snd_q = <<>> /\ NewPcb.rcv_q = <<>>
  BY DEF NewPcb
<1> QED
  BY <1>3, <1>4, EmptyQueue DEF PcbOK

(* And so is a free one. *)
LEMMA FreePcbOK == PcbOK(FreePcb) /\ Gone(FreePcb) /\ FreePcb.state = "FREE"
<1>1. "FREE" \in TCPS /\ NewPcb \in PcbRec
  BY NewPcbOK DEF TCPS, PcbOK
<1>2. /\ NewPcb.snd_q = <<>> /\ NewPcb.rcv_q = <<>> /\ NewPcb.blocked = "none"
      /\ NewPcb.needoutput = FALSE
  BY DEF NewPcb
<1>3. /\ FreePcb \in PcbRec /\ FreePcb.needoutput = FALSE
      /\ FreePcb.state = "FREE" /\ FreePcb.snd_q = <<>> /\ FreePcb.rcv_q = <<>> /\ FreePcb.blocked = "none"
  BY <1>1, <1>2 DEF FreePcb, PcbRec
<1> QED
  BY <1>3, EmptyQueue DEF PcbOK, Gone

(* A closed connection has empty queues and nobody waits (Close). *)
LEMMA CloseLemma ==
  ASSUME NEW p, PcbOK(p)
  PROVE  PcbOK(Close(p)) /\ Gone(Close(p)) /\ Close(p).state = "CLOSED"
<1> DEFINE q == [p EXCEPT !.state = "CLOSED", !.snd_q = <<>>, !.rcv_q = <<>>, !.blocked = "none"]
<1>1. Close(p) = q
  BY DEF Close, Notify
<1>2. "CLOSED" \in TCPS /\ "none" \in Calls /\ p \in PcbRec
  BY DEF TCPS, Calls, PcbOK
<1>3. q \in PcbRec
  BY <1>2, EmptyQueue DEF PcbRec
<1>4. q.state = "CLOSED" /\ q.snd_q = <<>> /\ q.rcv_q = <<>> /\ q.blocked = "none"
  BY <1>2 DEF PcbRec
<1> HIDE DEF q
<1> QED
  BY <1>1, <1>3, <1>4, EmptyQueue DEF PcbOK, Gone

(* The stages up to the ACK together (UpToAck). *)
LEMMA UpToAckLemma ==
  ASSUME NEW p, PcbOK(p), NEW s, SegOK(s)
  PROVE  LET w == UpToAck(p, s)
         IN  /\ w \in WorkRec /\ PcbOK(w.p) /\ SegOK(w.s)
             /\ w.s.win = s.win /\ w.s.flags \subseteq s.flags /\ Slice(s, w.s)
             /\ w.next = "go" /\ w.s.seq = w.p.rcv_nxt =>
                  Len(w.s.data) <= MAXRCV - Len(w.p.rcv_q)
             /\ \/ /\ Untouched(p, w.p)
                   /\ w.next \in {"dropafterack", "dropwithreset", "close", "free", "drop"}
                   /\ w.next = "dropafterack" /\ "RST" \notin w.s.flags => BeyondWindow(p, s)
                \/ AckSeg(s) /\ AckOutcome(p, SeqDiff(s.ack, p.snd_seq), w)
<1> DEFINE w1 == TrimFront(p, s)
           w2 == TrimBack(w1)
           w3 == CheckFlags(w2)
           w4 == AckStage(w3)
           w  == UpToAck(p, s)
           d  == SeqDiff(s.ack, p.snd_seq)
<1>1. Trimmed(p, s, w1) /\ w1.next = "go"
  BY TrimFrontLemma
<1>2. /\ Trimmed(p, s, w2)
      /\ w2.next \in {"go", "dropafterack", "dropwithreset"}
      /\ w2.next = "go" /\ w2.s.seq = p.rcv_nxt => Len(w2.s.data) <= MAXRCV - Len(p.rcv_q)
  <2> HIDE DEF w1
  <2> QED BY <1>1, TrimBackLemma
<1>3. w = Then(Then(w2, CheckFlags), AckStage)
  BY <1>1 DEF UpToAck, Then
<1>4. w2.next = "dropafterack" /\ "RST" \notin w2.s.flags => BeyondWindow(p, s)
  BY <1>2 DEF BeyondWindow, Trimmed
<1> HIDE DEF w1, w2
<1>5. CASE w2.next # "go"
  <2>1. w = w2
    BY <1>3, <1>5 DEF Then
  <2> HIDE DEF w
  <2> QED
    BY <1>2, <1>4, <1>5, <2>1 DEF Trimmed, w
<1>6. CASE w2.next = "go"
  <2>1. /\ Trimmed(p, s, w3)
        /\ w3.p = w2.p /\ w3.s = w2.s
        /\ w3.next \in {"go", "close", "free", "dropwithreset", "drop"}
        /\ w3.next = "go" => AckSeg(s) /\ AckSeg(w2.s) /\ "SYN" \notin w2.s.flags
    BY <1>2, <1>6, CheckFlagsLemma
  <2>2. w = Then(w3, AckStage)
    BY <1>3, <1>6 DEF Then
  <2> HIDE DEF w3
  <2>3. CASE w3.next # "go"
    <3>1. w = w3
      BY <2>2, <2>3 DEF Then
    <3> HIDE DEF w
    <3> QED
      BY <2>1, <2>3, <3>1 DEF Trimmed, w
  <2>4. CASE w3.next = "go"
    <3>1. w = w4
      BY <2>2, <2>4 DEF Then
    <3>2. w4 \in WorkRec /\ PcbOK(w4.p) /\ w4.s = w3.s /\ AckOutcome(p, d, w4)
      BY <2>1, <2>4, SegFields, AckStageLemma
    <3> HIDE DEF w, w4, d
    <3>3. w.p.rcv_nxt = p.rcv_nxt /\ (w.p.rcv_q = p.rcv_q \/ w.p.rcv_q = <<>>)
      BY <3>1, <3>2 DEF AckOutcome, NewlyAcked, Untouched, RecvSame
    <3>4. w.s.seq = w.p.rcv_nxt => Len(w.s.data) <= MAXRCV - Len(w.p.rcv_q)
      <4> SUFFICES ASSUME w.s.seq = w.p.rcv_nxt PROVE Len(w.s.data) <= MAXRCV - Len(w.p.rcv_q)
        OBVIOUS
      <4>1. Len(w.s.data) <= MAXRCV - Len(p.rcv_q)
        BY <1>2, <1>6, <2>1, <3>1, <3>2, <3>3
      <4>2. Len(p.rcv_q) \in Nat /\ MAXRCV \in Nat /\ Len(w.s.data) \in Nat
        BY <2>1, <3>1, <3>2, PcbFields, SegFields, TCPAssumption DEF Trimmed
      <4>3. Len(w.p.rcv_q) = Len(p.rcv_q) \/ Len(w.p.rcv_q) = 0
        BY <3>3, EmptyQueue
      <4> DEFINE a == Len(w.s.data)
                 b == Len(p.rcv_q)
                 c == Len(w.p.rcv_q)
      <4>4. a <= MAXRCV - b /\ b \in Nat /\ MAXRCV \in Nat /\ a \in Nat /\ (c = b \/ c = 0)
        BY <4>1, <4>2, <4>3
      <4> HIDE DEF a, b, c
      <4>5. a <= MAXRCV - c
        BY <4>4
      <4> QED
        BY <4>5 DEF a, c
    <3>5. SegOK(w.s) /\ w.s.win = s.win /\ w.s.flags \subseteq s.flags /\ Slice(s, w.s)
      BY <2>1, <3>1, <3>2 DEF Trimmed
    <3> QED
      BY <2>1, <2>4, <3>1, <3>2, <3>4, <3>5 DEF w, d
  <2> QED
    BY <2>3, <2>4
<1> QED
  BY <1>5, <1>6

(* Header prediction does to an ACK what the stages do (PredictedAck). *)
LEMMA PredictAckLemma ==
  ASSUME NEW p, PcbOK(p), NEW s, SegOK(s), PredictAck(p, s)
  PROVE  PcbOK(PredictedAck(p, s)) /\ Through(p, s, PredictedAck(p, s))
<1> DEFINE d   == SeqDiff(s.ack, p.snd_seq)
           sq  == Part(p.snd_q, d, Len(p.snd_q))
           off == Off16(p.snd_off - d)
           max == Off16(p.snd_max - d)
           tmr == ~(d = p.snd_max)
           cnt == IF d = p.snd_max THEN 0 ELSE p.rxmt_cnt
           b   == "none"
           no  == p.needoutput \/ sq # <<>>
           m   == [p EXCEPT !.snd_q = sq, !.snd_seq = s.ack, !.snd_off = off, !.snd_max = max,
                            !.rxmt_tmr = tmr, !.rxmt_cnt = cnt, !.blocked = b]
           q   == [m EXCEPT !.needoutput = no]
<1>1. /\ p \in PcbRec /\ p.snd_q \in Seq(Nat) /\ Len(p.snd_q) \in Nat /\ Len(p.snd_q) <= MAXSND
      /\ p.snd_max \in Offs /\ p.snd_off \in Offs /\ p.snd_max \in Int /\ p.snd_off \in Int
      /\ OFF_MOD \in Nat /\ s.ack \in Seqs /\ p.snd_seq \in Int /\ p.rxmt_cnt \in Nat
      /\ p.needoutput \in BOOLEAN /\ MAXSND \in Nat /\ s.ack \in Int
  BY PcbFields, SegFields, SeqMod, TCPAssumption DEF PcbOK, Offs, Seqs
<1>2. /\ d \in 1 .. p.snd_max /\ p.state = "ESTABLISHED" /\ s.flags = {"ACK"}
      /\ p.snd_off = p.snd_max
  BY DEF PredictAck, Predicted
<1>3. s.ack = Seq32(p.snd_seq + d)
  BY <1>1, SeqDiffBack
<1> HIDE DEF d
<1>4. d \in Nat
  BY <1>1, <1>2
<1>5. sq = Unacked(p.snd_q, d) /\ sq \in Seq(Nat) /\ Len(sq) <= MAXSND
  <2>1. /\ sq \in Seq(Nat) /\ Len(sq) \in Nat /\ Len(sq) <= Len(p.snd_q)
        /\ d >= Len(p.snd_q) => sq = <<>>
    BY <1>1, <1>4, DropLemma
  <2>2. Len(sq) <= MAXSND
    <3> DEFINE x == Len(sq)
               y == Len(p.snd_q)
    <3>1. x \in Nat /\ y \in Nat /\ x <= y /\ y <= MAXSND
      BY <1>1, <2>1
    <3> HIDE DEF x, y
    <3>2. x <= MAXSND
      BY <1>1, <3>1
    <3> QED BY <3>2 DEF x
  <2>3. CASE d < Len(p.snd_q)
    <3>1. MinOf(d, Len(p.snd_q)) = d
      BY <1>1, <1>4, <2>3 DEF MinOf
    <3> QED
      BY <2>1, <2>2, <3>1 DEF Unacked
  <2>4. CASE ~(d < Len(p.snd_q))
    <3>1. d >= Len(p.snd_q)
      BY <1>1, <1>4, <2>4
    <3>2. Unacked(p.snd_q, d) = <<>>
      BY <1>1, <1>4, <3>1, UnackedLemma
    <3> QED
      BY <2>1, <2>2, <3>1, <3>2
  <2> QED
    BY <2>3, <2>4
<1>6. off = MaxOf(p.snd_off, d) - d /\ max = p.snd_max - d /\ off \in Offs /\ max \in Offs
  <2>1. p.snd_max - d \in Offs /\ MaxOf(p.snd_off, d) = p.snd_max
    BY <1>1, <1>2, <1>4 DEF Offs, MaxOf
  <2> QED
    BY <1>2, <2>1, Off16Small
<1>7. tmr \in BOOLEAN /\ cnt \in Nat /\ b \in Calls /\ no \in BOOLEAN /\ tmr = (d # p.snd_max)
  BY <1>1 DEF Calls
<1>8. PredictedAck(p, s) = q
  BY <1>1 DEF PredictedAck, Notify, d
<1>9. sq # <<>> => no
  OBVIOUS
<1>10. p.needoutput => no
  OBVIOUS
<1> HIDE DEF sq, off, max, tmr, cnt, b, no
<1>11. m \in PcbRec
  <2>1. /\ p \in PcbRec /\ sq \in Seq(Nat) /\ s.ack \in Seqs /\ off \in Offs /\ max \in Offs
        /\ tmr \in BOOLEAN /\ cnt \in Nat /\ b \in Calls
    BY <1>1, <1>5, <1>6, <1>7
  <2> QED
    BY <2>1, SendUpdate
<1>12. /\ m.snd_q = sq /\ m.snd_seq = s.ack /\ m.snd_off = off /\ m.snd_max = max /\ m.rxmt_tmr = tmr
       /\ m.blocked = b /\ m.state = p.state /\ RecvSame(p, m) /\ RestSame(p, m)
  BY <1>1 DEF PcbRec, RecvSame, RestSame
<1> HIDE DEF m
<1>13. /\ q \in PcbRec /\ q.state = m.state /\ SendSame(m, q) /\ RecvSame(m, q)
       /\ q.snd_wnd = m.snd_wnd /\ q.sentfin = m.sentfin /\ q.delack = m.delack
       /\ q.blocked = m.blocked /\ q.needoutput = no
  BY <1>7, <1>11 DEF PcbRec, SendSame, RecvSame
<1> HIDE DEF q
<1>14. PcbOK(m) /\ PcbOK(q)
  BY <1>5, <1>11, <1>12, <1>13 DEF PcbOK, RecvSame, SendSame
<1>15. AckedBy(p, m, d)
  BY <1>2, <1>3, <1>5, <1>6, <1>7, <1>12 DEF AckedBy
<1>16. AckMid(p, m, d)
  BY <1>2, <1>12, <1>15 DEF AckMid, NewlyAcked, StateAcked, b
<1>17. Step6Effect(m, s, q)
  <2>1. m.snd_wnd >= m.snd_wnd
    BY <1>14, PcbFields
  <2> QED
    BY <1>10, <1>12, <1>13, <2>1 DEF Step6Effect, DataEffect, RestSame
<1>18. q.snd_q # <<>> => q.needoutput
  BY <1>9, <1>12, <1>13 DEF SendSame
<1>19. Taken(p, s, m, s, q)
  BY <1>14, <1>16, <1>17, <1>18, SliceSelf DEF Taken, d
<1> QED
  BY <1>2, <1>8, <1>14, <1>19 DEF Through, AckSeg

(* Header prediction does to data what the stages do (PredictedData). *)
LEMMA PredictDataLemma ==
  ASSUME NEW p, PcbOK(p), NEW s, SegOK(s), PredictData(p, s)
  PROVE  PcbOK(PredictedData(p, s)) /\ Through(p, s, PredictedData(p, s))
<1> DEFINE rq == p.rcv_q \o s.data
           rn == Seq32(p.rcv_nxt + Len(s.data))
           b  == "none"
           q  == [p EXCEPT !.rcv_q = rq, !.rcv_nxt = rn, !.delack = TRUE, !.blocked = b]
           d  == SeqDiff(s.ack, p.snd_seq)
<1>1. /\ p.rcv_q \in Seq(Nat) /\ s.data \in Seq(Nat) /\ p.rcv_nxt \in Int /\ Len(s.data) \in Nat
      /\ Len(p.rcv_q) \in Nat /\ MAXRCV \in Nat /\ p \in PcbRec /\ p.snd_seq \in Int
      /\ p.snd_wnd \in Int /\ p.snd_max \in Nat
  BY PcbFields, SegFields, TCPAssumption DEF Seqs, Offs, PcbOK
<1>2. /\ p.state = "ESTABLISHED" /\ s.flags = {"ACK"} /\ s.seq = p.rcv_nxt /\ s.ack = p.snd_seq
      /\ Len(s.data) <= MAXRCV - Len(p.rcv_q)
  BY DEF PredictData, Predicted
<1>3. d = 0
  <2> DEFINE x == p.snd_seq
  <2>1. x \in Int /\ 2 * (x - x) < SEQ_MOD /\ 2 * (x - x) >= -SEQ_MOD /\ x - x = 0
    BY <1>1, SeqMod
  <2>2. d = SeqDiff(x, x)
    BY <1>2
  <2> HIDE DEF x, d
  <2> QED
    BY <2>1, <2>2, SeqDiffNear
<1>4. rq \in Seq(Nat) /\ Len(rq) = Len(p.rcv_q) + Len(s.data)
  BY <1>1, ConcatProperties
<1>5. rn \in Seqs /\ b \in Calls
  BY <1>1, Seq32Type DEF Calls
<1>6. Len(rq) <= MAXRCV
  <2> DEFINE x == Len(p.rcv_q)
             y == Len(s.data)
  <2>1. x \in Nat /\ y \in Nat /\ MAXRCV \in Nat /\ y <= MAXRCV - x /\ Len(rq) = x + y
    BY <1>1, <1>2, <1>4
  <2> HIDE DEF x, y, rq
  <2> QED
    BY <2>1
<1>7. PredictedData(p, s) = q
  BY DEF PredictedData, Notify
<1> HIDE DEF rq, rn, b
<1>8. /\ q \in PcbRec /\ q.state = p.state /\ SendSame(p, q) /\ q.rcv_q = rq /\ q.rcv_nxt = rn
      /\ q.snd_wnd = p.snd_wnd /\ q.sentfin = p.sentfin /\ q.delack = TRUE
      /\ q.blocked = b /\ q.needoutput = p.needoutput
  BY <1>1, <1>4, <1>5 DEF PcbRec, SendSame
<1> HIDE DEF q
<1>9. PcbOK(q)
  BY <1>6, <1>8 DEF PcbOK, SendSame
<1>10. Step6Effect(p, s, q)
  <2>1. p.snd_wnd >= p.snd_wnd
    BY <1>1
  <2> QED
    BY <1>2, <1>8, <2>1 DEF Step6Effect, DataEffect, rq, rn, b
<1>11. AckMid(p, p, d)
  BY <1>2, <1>3 DEF AckMid, Untouched, SendSame, RecvSame
<1>12. ~(d >= 1)
  BY <1>3
<1>13. Taken(p, s, p, s, q)
  BY <1>9, <1>10, <1>11, <1>12, SliceSelf DEF Taken
<1> QED
  BY <1>2, <1>7, <1>9, <1>13 DEF Through, AckSeg

(* The answer to a SYN: the connection opens, or ends (SynSent). *)
LEMMA SynSentLemma ==
  ASSUME NEW p, PcbOK(p), NEW s, SegOK(s), p.state = "SYN_SENT"
  PROVE  LET w == SynSent(p, s)
         IN  \/ w.next \in {"close", "close_and_reset"} /\ PcbOK(w.p) /\ w.s = s
             \/ /\ w.next = "go" /\ w \in WorkRec /\ PcbOK(w.p) /\ SegOK(w.s)
                /\ w.p.acknow
                /\ w.s.data = <<>> /\ "FIN" \notin w.s.flags /\ w.s.win = s.win
                /\ Opened(p, s, w.p)
<1> DEFINE w   == SynSent(p, s)
           sq  == Seq32(p.snd_seq + 1)
           off == Off16(p.snd_off - 1)
           max == Off16(p.snd_max - 1)
           rn  == Seq32(s.seq + 1)
           b   == "none"
           st  == "ESTABLISHED"
           sw  == s.win
           q   == [p EXCEPT !.state = st, !.snd_seq = sq, !.snd_off = off, !.snd_max = max,
                            !.rcv_nxt = rn, !.snd_wnd = sw, !.acknow = TRUE, !.blocked = b]
           t   == [s EXCEPT !.seq = rn]
           u   == [p EXCEPT !.snd_seq = sq]
<1>1. /\ p \in PcbRec /\ p.snd_seq \in Int /\ p.snd_off \in Int /\ p.snd_max \in Int
      /\ s.seq \in Int /\ sw \in 0 .. MAXRCV /\ s \in SegRec
  BY PcbFields, SegFields DEF Seqs, Offs, PcbOK, SegOK
<1>2. sq \in Seqs /\ rn \in Seqs /\ off \in Offs /\ max \in Offs /\ b \in Calls /\ st \in TCPS
  BY <1>1, Seq32Type, Off16Type DEF Calls, TCPS
<1>3. Established(p, s) = q
  BY DEF Established, Notify
<1>4. w = Work(p, s, "close") \/ w = Work(p, s, "close_and_reset") \/ w = Work(u, s, "close_and_reset")
      \/ (/\ w = Work(q, t, "go") /\ {"SYN", "ACK"} \subseteq s.flags /\ s.data = <<>>
          /\ "RST" \notin s.flags /\ s.ack = sq)
  BY <1>3 DEF SynSent
<1> HIDE DEF w, sq, off, max, rn, b, st, sw
<1>5. u \in PcbRec /\ u.snd_q = p.snd_q /\ u.rcv_q = p.rcv_q
  BY <1>1, <1>2 DEF PcbRec
<1>6. q \in PcbRec
  BY <1>1, <1>2 DEF PcbRec
<1>7. /\ q.state = st /\ q.snd_seq = sq /\ q.snd_off = off /\ q.snd_max = max /\ q.rcv_nxt = rn
      /\ q.snd_wnd = sw /\ q.acknow /\ q.blocked = b /\ q.snd_q = p.snd_q /\ q.rcv_q = p.rcv_q
      /\ q.rxmt_tmr = p.rxmt_tmr /\ q.rxmt_cnt = p.rxmt_cnt /\ q.sentfin = p.sentfin
  BY <1>1 DEF PcbRec
<1>8. t \in SegRec /\ t.flags = s.flags /\ t.data = s.data /\ t.win = s.win
  BY <1>1, <1>2 DEF SegRec
<1> HIDE DEF u, q, t
<1>9. PcbOK(u) /\ PcbOK(q) /\ SegOK(t)
  BY <1>5, <1>6, <1>7, <1>8 DEF PcbOK, SegOK, AckSeg
<1>10. CASE w.next # "go"
  BY <1>4, <1>9, <1>10 DEF Work, w
<1>11. CASE w.next = "go"
  <2>1. /\ w = Work(q, t, "go") /\ {"SYN", "ACK"} \subseteq s.flags /\ s.data = <<>>
        /\ "RST" \notin s.flags /\ s.ack = sq
    BY <1>4, <1>11 DEF Work
  <2>2. w.p = q /\ w.s = t /\ w \in WorkRec
    BY <1>6, <1>8, <2>1 DEF Work, WorkRec, Labels
  <2>3. "FIN" \notin t.flags
    BY <1>8, <1>9, <2>1 DEF SegOK
  <2>4. Opened(p, s, q)
    BY <1>7, <2>1 DEF Opened, sq, off, max, rn, b, st, sw
  <2> QED
    BY <1>7, <1>8, <1>9, <1>11, <2>1, <2>2, <2>3, <2>4 DEF w
<1> QED
  BY <1>10, <1>11

(* The last stages change nothing of what the answer to the SYN has set up. *)
LEMMA OpenedLemma ==
  ASSUME NEW p, PcbOK(p), NEW s, SegOK(s), NEW w \in WorkRec, PcbOK(w.p), SegOK(w.s),
         w.next = "go", w.s.data = <<>>, "FIN" \notin w.s.flags, w.s.win = s.win,
         Opened(p, s, w.p)
  PROVE  LET v == FromStep6(w)
         IN  v \in WorkRec /\ PcbOK(v.p) /\ v.next = "go" /\ Opened(p, s, v.p)
<1> DEFINE v == FromStep6(w)
           m == w.p
           q == v.p
<1>1. Len(w.s.data) = 0 /\ Len(w.p.rcv_q) \in 0 .. MAXRCV /\ MAXRCV \in Nat /\ m.rcv_q \in Seq(Nat)
  BY EmptyQueue, PcbFields, TCPAssumption
<1>2. Len(w.s.data) <= MAXRCV - Len(w.p.rcv_q)
  BY <1>1
<1>3. v \in WorkRec /\ PcbOK(v.p) /\ v.next = "go" /\ Step6Effect(w.p, w.s, v.p)
  BY <1>2, FromStep6Lemma
<1> HIDE DEF v
<1>4. m.rcv_q \o w.s.data = m.rcv_q
  BY <1>1, ConcatEmptySeq
<1>5. Seq32(m.rcv_nxt + Len(w.s.data)) = m.rcv_nxt
  <2>1. m.rcv_nxt \in Seqs /\ m.rcv_nxt + 0 = m.rcv_nxt
    BY PcbFields DEF Seqs
  <2> QED
    BY <1>1, <2>1, Seq32Small
<1>6. /\ q.state = m.state /\ SendSame(m, q) /\ DataEffect(m, w.s, q) /\ q.sentfin = m.sentfin
      /\ q.snd_wnd = s.win
  BY <1>3 DEF Step6Effect, Opened
<1>7. RecvSame(m, q) /\ q.blocked = "none"
  BY <1>4, <1>5, <1>6 DEF DataEffect, RecvSame, Opened
<1> QED
  BY <1>3, <1>6, <1>7 DEF Opened, SendSame, RecvSame, v

(* Nothing but the need for output and for an ACK may have changed. *)
Same(p, q) ==
  /\ q.state = p.state /\ SendSame(p, q) /\ RecvSame(p, q)
  /\ q.snd_wnd = p.snd_wnd /\ q.sentfin = p.sentfin /\ q.delack = p.delack
  /\ q.blocked = p.blocked
  /\ p.needoutput => q.needoutput

(* The need for output and for an ACK may be set at any time. *)
LEMMA OutputUpdate ==
  ASSUME NEW p, PcbOK(p), NEW a \in BOOLEAN, NEW b \in BOOLEAN, p.needoutput => b
  PROVE  LET q == [p EXCEPT !.acknow = a, !.needoutput = b]
         IN  PcbOK(q) /\ Same(p, q) /\ q.needoutput = b
<1> DEFINE q == [p EXCEPT !.acknow = a, !.needoutput = b]
<1>1. /\ q \in PcbRec /\ q.state = p.state /\ SendSame(p, q) /\ RecvSame(p, q)
      /\ q.snd_wnd = p.snd_wnd /\ q.sentfin = p.sentfin /\ q.delack = p.delack
      /\ q.blocked = p.blocked /\ q.needoutput = b
  BY DEF PcbOK, PcbRec, SendSame, RecvSame
<1> HIDE DEF q
<1>2. PcbOK(q) /\ Same(p, q)
  BY <1>1 DEF PcbOK, Same, SendSame, RecvSame
<1> QED
  BY <1>1, <1>2 DEF q

(* What the labels at the end of tcp_input() make of the work done. *)
LEMMA OutcomeLemma ==
  ASSUME NEW w, PcbOK(w.p), w.next = "dropwithreset" => SegOK(w.s), w.next \in Labels,
         w.needoutput \in BOOLEAN, NEW s, SegOK(s)
  PROVE  LET r == Outcome(w, s)
         IN  /\ PcbOK(r.pcb) /\ \A m \in r.segs : IsReset(m)
             /\ w.next \in {"close", "close_and_reset", "free"} => Gone(r.pcb)
             /\ w.next \in {"go", "dropafterack", "dropwithreset", "drop"} => Same(w.p, r.pcb)
             /\ w.next \in {"dropwithreset", "drop"} => r.pcb = w.p
             /\ w.next = "dropafterack" /\ "RST" \in w.s.flags => r.pcb = w.p
             /\ w.next = "go" /\ w.needoutput => r.pcb.needoutput
<1> DEFINE r  == Outcome(w, s)
           p  == w.p
           no == p.needoutput \/ w.needoutput \/ p.acknow
           q1 == [p EXCEPT !.needoutput = no]
           q2 == Sched([p EXCEPT !.acknow = TRUE])
<1>1. p \in PcbRec /\ p.acknow \in BOOLEAN /\ p.needoutput \in BOOLEAN
  BY PcbFields DEF PcbOK
<1>2. PcbOK(q1) /\ Same(p, q1) /\ q1.needoutput = no
  <2> DEFINE a == p.acknow
  <2>1. q1 = [p EXCEPT !.acknow = a, !.needoutput = no]
    BY <1>1 DEF PcbRec
  <2>2. no \in BOOLEAN /\ (p.needoutput => no) /\ a \in BOOLEAN
    BY <1>1
  <2> HIDE DEF no, p, a, q1
  <2> QED
    BY <2>1, <2>2, OutputUpdate, ZenonT(60) DEF p
<1>3. PcbOK(q2) /\ Same(p, q2) /\ q2.needoutput
  <2>1. q2 = [p EXCEPT !.acknow = TRUE, !.needoutput = TRUE]
    BY <1>1 DEF PcbRec, Sched
  <2> HIDE DEF q2
  <2> QED
    BY <2>1, OutputUpdate
<1>4. Same(p, p)
  BY DEF Same, SendSame, RecvSame
<1>5. CASE w.next = "go"
  <2>1. r = [pcb |-> q1, segs |-> {}]
    BY <1>5 DEF Outcome
  <2>2. r.pcb = q1 /\ r.segs = {}
    BY <2>1
  <2> HIDE DEF r, q1
  <2> QED
    BY <1>2, <1>5, <2>2 DEF r
<1>6. CASE w.next = "dropafterack"
  <2>1. r = [pcb |-> IF "RST" \in w.s.flags THEN p ELSE q2, segs |-> {}]
    BY <1>6 DEF Outcome
  <2>2. r.pcb = (IF "RST" \in w.s.flags THEN p ELSE q2) /\ r.segs = {}
    BY <2>1
  <2> HIDE DEF r, q2
  <2> QED
    BY <1>3, <1>4, <1>6, <2>2 DEF r
<1>7. CASE w.next = "dropwithreset"
  <2>1. r = [pcb |-> p, segs |-> Reset(w.s)]
    BY <1>7 DEF Outcome
  <2>2. r.pcb = p /\ r.segs = Reset(w.s)
    BY <2>1
  <2>3. \A m \in Reset(w.s) : IsReset(m)
    BY <1>7, ResetLemma
  <2> HIDE DEF r
  <2> QED
    BY <1>4, <1>7, <2>2, <2>3 DEF r
<1>8. CASE w.next = "close"
  <2>1. r = [pcb |-> Close(p), segs |-> {}]
    BY <1>8 DEF Outcome
  <2>2. r.pcb = Close(p) /\ r.segs = {}
    BY <2>1
  <2> HIDE DEF r
  <2> QED
    BY <1>8, <2>2, CloseLemma DEF r
<1>9. CASE w.next = "close_and_reset"
  <2>1. r = [pcb |-> Close(p), segs |-> Reset(s)]
    BY <1>9 DEF Outcome
  <2>2. r.pcb = Close(p) /\ r.segs = Reset(s)
    BY <2>1
  <2> HIDE DEF r
  <2> QED
    BY <1>9, <2>2, CloseLemma, ResetLemma DEF r
<1>10. CASE w.next = "free"
  <2>1. r = [pcb |-> FreePcb, segs |-> {}]
    BY <1>10 DEF Outcome
  <2>2. r.pcb = FreePcb /\ r.segs = {}
    BY <2>1
  <2> HIDE DEF r
  <2> QED
    BY <1>10, <2>2, FreePcbOK DEF r
<1>11. CASE w.next = "drop"
  <2>1. r = [pcb |-> p, segs |-> {}]
    BY <1>11 DEF Outcome
  <2>2. r.pcb = p /\ r.segs = {}
    BY <2>1
  <2> HIDE DEF r
  <2> QED
    BY <1>4, <1>11, <2>2 DEF r
<1> QED
  BY <1>5, <1>6, <1>7, <1>8, <1>9, <1>10, <1>11 DEF Labels

(* A change that Same allows hides none of the effects of the last stages. *)
LEMMA SameEffect ==
  ASSUME NEW m, NEW t, NEW v, NEW q, Step6Effect(m, t, v), Same(v, q)
  PROVE  Step6Effect(m, t, q)
<1>1. /\ q.sentfin = m.sentfin /\ (m.needoutput => q.needoutput) /\ (m.delack => q.delack)
      /\ q.snd_wnd >= m.snd_wnd /\ q.snd_wnd \in {m.snd_wnd, t.win}
  BY DEF Step6Effect, Same
<1>2. CASE v.state = m.state /\ SendSame(m, v) /\ DataEffect(m, t, v)
  <2>1. q.state = m.state /\ SendSame(m, q) /\ DataEffect(m, t, q)
    BY <1>2 DEF Same, SendSame, DataEffect, RecvSame
  <2> QED BY <1>1, <2>1 DEF Step6Effect
<1>3. CASE "FIN" \in t.flags /\ FinEffect(m, t, v)
  <2>1. q.state = v.state /\ q.rcv_q = v.rcv_q /\ q.snd_q = v.snd_q /\ q.blocked = v.blocked
        /\ (SendSame(m, v) => SendSame(m, q))
    BY DEF Same, SendSame, RecvSame
  <2>2. FinEffect(m, t, q)
    BY <1>3, <2>1 DEF FinEffect
  <2> QED BY <1>1, <1>3, <2>2 DEF Step6Effect
<1> QED
  BY <1>2, <1>3 DEF Step6Effect

(* A segment that goes through all the stages of tcp_input(). *)
LEMMA ThroughLemma ==
  ASSUME NEW p, PcbOK(p), NEW s, SegOK(s), p.state # "SYN_SENT",
         UpToAck(p, s).next = "go"
  PROVE  LET r == Outcome(FromStep6(UpToAck(p, s)), s)
         IN  PcbOK(r.pcb) /\ Through(p, s, r.pcb) /\ \A m \in r.segs : IsReset(m)
<1> DEFINE w == UpToAck(p, s)
           d == SeqDiff(s.ack, p.snd_seq)
           m == w.p
           t == w.s
           v == FromStep6(w)
           r == Outcome(v, s)
           q == r.pcb
<1>1. /\ w \in WorkRec /\ PcbOK(m) /\ SegOK(t)
      /\ t.win = s.win /\ t.flags \subseteq s.flags /\ Slice(s, t)
      /\ t.seq = m.rcv_nxt => Len(t.data) <= MAXRCV - Len(m.rcv_q)
      /\ AckSeg(s) /\ AckOutcome(p, d, w)
  BY UpToAckLemma
<1>2. w.next = "go"
  OBVIOUS
<1> HIDE DEF w, d
<1>3. /\ v \in WorkRec /\ PcbOK(v.p) /\ v.next = "go"
      /\ w.needoutput => v.needoutput
      /\ Step6Effect(m, t, v.p)
  BY <1>1, <1>2, FromStep6Lemma
<1> HIDE DEF v
<1>4. v.needoutput \in BOOLEAN /\ v.next \in Labels /\ v.next # "dropwithreset"
  BY <1>3 DEF WorkRec
<1>5. /\ PcbOK(q) /\ \A x \in r.segs : IsReset(x)
      /\ Same(v.p, q) /\ (v.needoutput => q.needoutput)
  BY <1>3, <1>4, OutcomeLemma
<1> HIDE DEF r
<1>6. Step6Effect(m, t, q)
  BY <1>3, <1>5, SameEffect
<1>7. AckMid(p, m, d)
  BY <1>1, <1>2 DEF AckMid, AckOutcome
<1>8. d >= 1 /\ d = p.snd_max => q.needoutput
  <2>1. d <= 0 => ~(d >= 1)
    <3>1. s.ack \in Int /\ p.snd_seq \in Int
      BY PcbFields, SegFields DEF Seqs
    <3>2. d \in Int
      BY <3>1, SeqDiffInt DEF d
    <3> QED BY <3>2
  <2>2. ~(0 >= 1)
    OBVIOUS
  <2>3. d >= 1 /\ d = p.snd_max => w.needoutput
    BY <1>1, <1>2, <2>1, <2>2 DEF AckOutcome
  <2> QED
    BY <1>3, <1>5, <2>3
<1>9. Taken(p, s, m, t, q)
  BY <1>1, <1>6, <1>7, <1>8 DEF Taken, d
<1> HIDE DEF m, t, q
<1>10. Through(p, s, q)
  BY <1>1, <1>9 DEF Through
<1> QED
  BY <1>5, <1>10 DEF q, r, v, w

(* A segment that tcp_input() does not process to the end. *)
LEMMA StoppedLemma ==
  ASSUME NEW p, PcbOK(p), NEW s, SegOK(s), p.state # "SYN_SENT",
         UpToAck(p, s).next # "go"
  PROVE  LET r == Outcome(UpToAck(p, s), s)
         IN  PcbOK(r.pcb) /\ InputEffect(p, s, r.pcb) /\ \A m \in r.segs : IsReset(m)
<1> DEFINE w == UpToAck(p, s)
           d == SeqDiff(s.ack, p.snd_seq)
           m == w.p
           t == w.s
           r == Outcome(w, s)
           q == r.pcb
<1>1. /\ w \in WorkRec /\ PcbOK(m) /\ SegOK(t)
      /\ t.win = s.win /\ t.flags \subseteq s.flags /\ Slice(s, t)
  BY UpToAckLemma
<1>2. \/ /\ Untouched(p, m)
         /\ w.next \in {"dropafterack", "dropwithreset", "close", "free", "drop"}
         /\ w.next = "dropafterack" /\ "RST" \notin t.flags => BeyondWindow(p, s)
      \/ AckSeg(s) /\ AckOutcome(p, d, w)
  BY UpToAckLemma
<1>3. w.next # "go"
  OBVIOUS
<1> HIDE DEF w, d
<1>4. w.next \in Labels /\ w.needoutput \in BOOLEAN
  BY <1>1 DEF WorkRec
<1>5. /\ PcbOK(q) /\ \A x \in r.segs : IsReset(x)
      /\ w.next \in {"close", "close_and_reset", "free"} => Gone(q)
      /\ w.next \in {"go", "dropafterack", "dropwithreset", "drop"} => Same(m, q)
      /\ w.next \in {"dropwithreset", "drop"} => q = m
      /\ w.next = "dropafterack" /\ "RST" \in t.flags => q = m
  BY <1>1, <1>4, OutcomeLemma
<1> HIDE DEF r
<1>6. CASE w.next \in {"close", "close_and_reset", "free"}
  BY <1>5, <1>6 DEF InputEffect, r, w
<1>7. CASE w.next \in {"dropafterack", "dropwithreset", "drop"} /\ Untouched(p, m)
  <2>1. Same(m, q)
    BY <1>5, <1>7
  <2>2. p.state = "SYN_RCVD" /\ q.needoutput => p.needoutput \/ BeyondWindow(p, s)
    <3>1. CASE q = m
      BY <1>7, <3>1 DEF Untouched
    <3>2. CASE q # m
      <4>1. w.next = "dropafterack" /\ "RST" \notin t.flags
        BY <1>5, <1>7, <3>2
      <4>2. BeyondWindow(p, s) \/ AckOutcome(p, d, w)
        BY <1>2, <4>1
      <4>3. AckOutcome(p, d, w) => p.state # "SYN_RCVD"
        BY <4>1 DEF AckOutcome
      <4> QED
        BY <4>2, <4>3
    <3> QED
      BY <3>1, <3>2
  <2>3. Held(p, s, q)
    BY <1>7, <2>1, <2>2 DEF Held, Untouched, Same, SendSame, RecvSame
  <2> QED
    BY <1>5, <2>3 DEF InputEffect, q, r, w
<1>8. CASE w.next \in {"dropafterack", "dropwithreset", "drop"} /\ ~Untouched(p, m)
  <2>1. AckSeg(s) /\ AckOutcome(p, d, w)
    BY <1>2, <1>8
  <2>2. /\ d \in 1 .. p.snd_max /\ NewlyAcked(p, m, d) /\ RestSame(p, m) /\ m.blocked = "none"
        /\ w.next = "dropafterack" /\ p.state = "TIME_WAIT"
    BY <1>8, <2>1 DEF AckOutcome
  <2>3. Same(m, q)
    BY <1>5, <2>2
  <2>4. AckMid(p, m, d)
    BY <2>2 DEF AckMid
  <2>5. Step6Effect(m, t, q)
    <3>1. m.snd_wnd >= m.snd_wnd
      BY <1>1, PcbFields
    <3> QED
      BY <2>3, <3>1 DEF Same, Step6Effect, DataEffect
  <2>6. q.state # "ESTABLISHED"
    BY <2>2, <2>3 DEF NewlyAcked, StateAcked, Same
  <2>7. Taken(p, s, m, t, q)
    BY <1>1, <2>4, <2>5, <2>6 DEF Taken, d
  <2> HIDE DEF m, t, q
  <2>8. Through(p, s, q)
    BY <2>1, <2>7 DEF Through
  <2> QED
    BY <1>5, <2>8 DEF InputEffect, q, r, w
<1> QED
  BY <1>3, <1>4, <1>6, <1>7, <1>8 DEF Labels

(***************************************************************************)
(* tcp_input(): a segment ends the connection, opens it, is dropped, or is *)
(* acknowledged and taken; what is sent at once is a reset.                *)
(***************************************************************************)
LEMMA InputLemma ==
  ASSUME NEW p, PcbOK(p), NEW s, SegOK(s)
  PROVE  LET r == tcp_input(p, s)
         IN  PcbOK(r.pcb) /\ InputEffect(p, s, r.pcb) /\ \A m \in r.segs : IsReset(m)
<1> DEFINE r == tcp_input(p, s)
<1>1. CASE PredictAck(p, s)
  <2>1. r.pcb = PredictedAck(p, s) /\ r.segs = {}
    BY <1>1 DEF tcp_input
  <2> HIDE DEF r
  <2> QED
    BY <1>1, <2>1, PredictAckLemma DEF InputEffect, r
<1>2. CASE ~PredictAck(p, s) /\ PredictData(p, s)
  <2>1. r.pcb = PredictedData(p, s) /\ r.segs = {}
    BY <1>2 DEF tcp_input
  <2> HIDE DEF r
  <2> QED
    BY <1>2, <2>1, PredictDataLemma DEF InputEffect, r
<1>3. CASE ~PredictAck(p, s) /\ ~PredictData(p, s) /\ p.state = "SYN_SENT"
  <2> DEFINE w == SynSent(p, s)
             v == FromStep6(w)
             q == r.pcb
  <2>1. r = Outcome(v, s)
    BY <1>3 DEF tcp_input, Processed
  <2>2. \/ w.next \in {"close", "close_and_reset"} /\ PcbOK(w.p) /\ w.s = s
        \/ /\ w.next = "go" /\ w \in WorkRec /\ PcbOK(w.p) /\ SegOK(w.s)
           /\ w.s.data = <<>> /\ "FIN" \notin w.s.flags /\ w.s.win = s.win
           /\ Opened(p, s, w.p)
    BY <1>3, SynSentLemma
  <2>3. w.needoutput = FALSE
    BY <1>3 DEF SynSent, Work
  <2> HIDE DEF w
  <2>4. CASE w.next \in {"close", "close_and_reset"} /\ PcbOK(w.p) /\ w.s = s
    <3>1. v = w
      BY <2>4 DEF FromStep6, Then
    <3>2. w.next \in Labels /\ w.needoutput \in BOOLEAN /\ w.next # "dropwithreset"
      BY <2>3, <2>4 DEF Labels
    <3> HIDE DEF r, v
    <3>3. PcbOK(q) /\ Gone(q) /\ \A x \in r.segs : IsReset(x)
      BY <2>1, <2>4, <3>1, <3>2, OutcomeLemma
    <3> QED
      BY <3>3 DEF InputEffect, q, r
  <2>5. CASE /\ w.next = "go" /\ w \in WorkRec /\ PcbOK(w.p) /\ SegOK(w.s)
             /\ w.s.data = <<>> /\ "FIN" \notin w.s.flags /\ w.s.win = s.win
             /\ Opened(p, s, w.p)
    <3>1. v \in WorkRec /\ PcbOK(v.p) /\ v.next = "go" /\ Opened(p, s, v.p)
      BY <2>5, OpenedLemma
    <3> HIDE DEF r, v
    <3>2. v.needoutput \in BOOLEAN /\ v.next \in Labels /\ v.next # "dropwithreset"
      BY <3>1 DEF WorkRec
    <3>3. PcbOK(q) /\ Same(v.p, q) /\ \A x \in r.segs : IsReset(x)
      BY <2>1, <3>1, <3>2, OutcomeLemma
    <3>4. Opened(p, s, q)
      BY <3>1, <3>3 DEF Opened, Same, SendSame, RecvSame
    <3> QED
      BY <3>3, <3>4 DEF InputEffect, q, r
  <2> QED
    BY <2>2, <2>4, <2>5
<1>4. CASE ~PredictAck(p, s) /\ ~PredictData(p, s) /\ p.state # "SYN_SENT"
  <2> DEFINE w == UpToAck(p, s)
  <2>1. r = Outcome(FromStep6(w), s)
    BY <1>4 DEF tcp_input, Processed
  <2>2. CASE w.next = "go"
    <3> HIDE DEF r
    <3> QED
      BY <1>4, <2>1, <2>2, ThroughLemma DEF InputEffect, r
  <2>3. CASE w.next # "go"
    <3>1. FromStep6(w) = w
      BY <2>3 DEF FromStep6, Then
    <3> HIDE DEF r
    <3> QED
      BY <1>4, <2>1, <2>3, <3>1, StoppedLemma DEF r
  <2> QED
    BY <2>2, <2>3
<1> QED
  BY <1>1, <1>2, <1>3, <1>4

--------------------------------------------------------------------------------
(* What output never changes. *)
Kept(p, q) ==
  /\ q.state = p.state /\ q.snd_seq = p.snd_seq /\ q.snd_q = p.snd_q
  /\ q.snd_wnd = p.snd_wnd /\ RecvSame(p, q) /\ q.blocked = p.blocked
  /\ q.needoutput = p.needoutput

(* Before the handshake is over, and after the connection, the queues are empty. *)
Early == {"FREE", "CLOSED", "SYN_SENT", "SYN_RCVD"}

(* Nothing is queued then. *)
Quiet(p) == p.state \in Early => p.snd_q = <<>> /\ p.rcv_q = <<>>

(* Kept is an equivalence as far as the proofs need it. *)
LEMMA KeptLemma ==
  /\ \A p : Kept(p, p)
  /\ \A p, q, r : Kept(p, q) /\ Kept(q, r) => Kept(p, r)
  BY DEF Kept, RecvSame

(* The window that a segment advertises fits the receive queue (Advertised). *)
LEMMA AdvertisedLemma ==
  ASSUME NEW p, PcbOK(p)
  PROVE  Advertised(p) \in 0 .. MAXRCV
<1> DEFINE n == Len(p.rcv_q)
           win == MAXRCV - n
<1>1. n \in 0 .. MAXRCV /\ MAXRCV \in Nat /\ MAXWIN \in Nat
  BY PcbFields, TCPAssumption
<1>2. Advertised(p) = 0 \/ Advertised(p) = MinOf(win, MAXWIN)
  BY DEF Advertised
<1> HIDE DEF n
<1>3. win \in 0 .. MAXRCV
  BY <1>1
<1> HIDE DEF win
<1>4. MinOf(win, MAXWIN) \in 0 .. MAXRCV /\ 0 \in 0 .. MAXRCV
  BY <1>1, <1>3 DEF MinOf
<1> QED
  BY <1>2, <1>4

(* The flags of a segment that is no reset (outflags). *)
LEMMA FlagsLemma ==
  ASSUME NEW st \in TCPS
  PROVE  /\ outflags(st) \in SUBSET Flags
         /\ "SYN" \in outflags(st) <=> st \in {"SYN_SENT", "SYN_RCVD"}
         /\ "FIN" \in outflags(st) <=> st \in {"FIN_WAIT_1", "CLOSING", "LAST_ACK"}
         /\ "RST" \in outflags(st) <=> st = "CLOSED"
         /\ "ACK" \in outflags(st) <=> st # "SYN_SENT"
  BY DEF outflags, Flags, TCPS

(* A segment with len blocks from the offset of p on. *)
Fits(p, len) == len \in 0 .. MAXSEG /\ (len > 0 => p.snd_off + len <= Len(p.snd_q))

(* The flags that a segment of p may have. *)
FlagsOf(p) == {outflags(p.state), outflags(p.state) \ {"FIN"}}

(* The segment m, as output makes it from p. *)
Carries(p, len, flags, m) ==
  /\ SegOK(m)
  /\ m.flags = flags /\ m.ack = p.rcv_nxt /\ m.win = Advertised(p)
  /\ Len(m.data) = len
  /\ \A i \in 1 .. len : m.data[i] = p.snd_q[p.snd_off + i]
  /\ len > 0 \/ {"SYN", "FIN"} \cap flags # {} => m.seq = Seq32(p.snd_seq + SegOff(p, flags))

(* What a segment carries (OutSegment). *)
LEMMA OutSegmentLemma ==
  ASSUME NEW p, PcbOK(p), Quiet(p), NEW len, Fits(p, len), NEW flags \in FlagsOf(p)
  PROVE  Carries(p, len, flags, OutSegment(p, len, flags))
<1> DEFINE off == IF len > 0 \/ {"SYN", "FIN"} \cap flags # {} THEN SegOff(p, flags) ELSE p.snd_max
           sq  == Seq32(p.snd_seq + off)
           ack == p.rcv_nxt
           win == Advertised(p)
           dat == Part(p.snd_q, p.snd_off, len)
           m   == [flags |-> flags, seq |-> sq, ack |-> ack, win |-> win, data |-> dat]
<1>1. /\ p.snd_seq \in Int /\ p.snd_off \in Nat /\ p.snd_max \in Nat /\ p.snd_q \in Seq(Nat)
      /\ p.state \in TCPS /\ ack \in Seqs /\ Len(p.snd_q) \in Nat
  BY PcbFields, TCPAssumption DEF Seqs, Offs
<1>2. /\ MAXSEG \in Nat /\ len \in Nat /\ len <= MAXSEG
      /\ len > 0 => p.snd_off + len <= Len(p.snd_q)
  BY TCPAssumption DEF Fits
<1>3. SegOff(p, flags) \in Int
  BY <1>1 DEF SegOff
<1>4. sq \in Seqs
  <2>1. off \in Int
    BY <1>1, <1>3
  <2> HIDE DEF off
  <2>2. p.snd_seq + off \in Int
    BY <1>1, <2>1
  <2> QED
    BY <2>2, Seq32Type
<1>5. win \in 0 .. MAXRCV
  BY AdvertisedLemma
<1>6. /\ dat \in Seq(Nat) /\ Len(dat) = len
      /\ \A i \in 1 .. len : dat[i] = p.snd_q[p.snd_off + i]
  <2> DEFINE o == p.snd_off
             s == p.snd_q
             n == Len(s)
  <2>1. s \in Seq(Nat) /\ o \in Nat /\ len \in Nat /\ n \in Nat /\ (len > 0 => o + len <= n)
    BY <1>1, <1>2
  <2>2. dat = SubSeq(s, o + 1, MinOf(o + len, n))
    BY DEF Part
  <2> HIDE DEF o, s, dat, n
  <2>3. CASE len > 0
    <3>1. MinOf(o + len, n) = o + len
      BY <2>1, <2>3 DEF MinOf
    <3>2. o + 1 \in Nat /\ o + len \in Nat /\ o + 1 \in 1 .. n /\ o + len \in 1 .. n /\ o + 1 <= o + len
      BY <2>1, <2>3
    <3>3. dat = SubSeq(s, o + 1, o + len) /\ n = Len(s)
      BY <2>2, <3>1 DEF n
    <3>4. dat \in Seq(Nat) /\ Len(dat) = (o + len) - (o + 1) + 1
          /\ \A i \in 1 .. (o + len) - (o + 1) + 1 : dat[i] = s[(o + 1) + i - 1]
      <4> DEFINE x == o + 1
                 y == o + len
      <4>1. \A i \in x .. y : s[i] \in Nat
        <5>1. \A i \in x .. y : i \in 1 .. n
          BY <2>1, <3>2
        <5> QED BY <2>1, <5>1, ElementOfSeq DEF n
      <4>2. x \in Int /\ y \in Int /\ x <= y /\ dat = SubSeq(s, x, y)
        BY <3>2, <3>3
      <4> HIDE DEF x, y
      <4>3. dat \in Seq(Nat) /\ Len(dat) = y - x + 1 /\ \A i \in 1 .. y - x + 1 : dat[i] = s[x + i - 1]
        BY <4>1, <4>2, SubSeqProperties
      <4> QED BY <4>3 DEF x, y
    <3>5. (o + len) - (o + 1) + 1 = len /\ \A i \in 1 .. len : (o + 1) + i - 1 = o + i
      BY <2>1
    <3> QED
      BY <3>4, <3>5 DEF o, s
  <2>4. CASE ~(len > 0)
    <3>1. len = 0
      BY <2>1, <2>4
    <3>2. MinOf(o + len, n) < o + 1 /\ MinOf(o + len, n) \in Nat /\ o + 1 \in Nat
      BY <2>1, <3>1 DEF MinOf
    <3>3. dat = <<>>
      BY <2>1, <2>2, <3>2, SubSeqEmpty
    <3> QED
      BY <3>1, <3>3, EmptyQueue
  <2> QED
    BY <2>3, <2>4
<1>7. flags \in SUBSET Flags
  BY <1>1, FlagsLemma DEF FlagsOf
<1>8. OutSegment(p, len, flags) = m
  BY DEF OutSegment, Segment
<1>9. /\ (len > 0 \/ {"SYN", "FIN"} \cap flags # {} => sq = Seq32(p.snd_seq + SegOff(p, flags)))
  OBVIOUS
<1> HIDE DEF off, sq, ack, win, dat
<1>10. m \in SegRec
  BY <1>1, <1>4, <1>5, <1>6, <1>7 DEF SegRec
<1>11. m.flags = flags /\ m.seq = sq /\ m.ack = ack /\ m.win = win /\ m.data = dat
  OBVIOUS
<1> HIDE DEF m
<1>12. dat # <<>> => AckSeg(m) /\ "SYN" \notin flags
  <2> SUFFICES ASSUME dat # <<>> PROVE AckSeg(m) /\ "SYN" \notin flags
    OBVIOUS
  <2>1. len > 0
    <3>1. Len(dat) # 0
      BY <1>6, EmptySeq
    <3> QED BY <1>2, <1>6, <3>1
  <2>2. p.snd_q # <<>>
    <3>1. p.snd_off + len > 0 /\ p.snd_off + len <= Len(p.snd_q)
      BY <1>1, <1>2, <2>1
    <3>2. Len(p.snd_q) # 0
      BY <1>1, <1>2, <3>1
    <3> QED BY <3>2, EmptySeq
  <2>3. p.state \notin Early
    BY <2>2 DEF Quiet
  <2>4. "ACK" \in outflags(p.state) /\ {"SYN", "RST"} \cap outflags(p.state) = {}
    BY <1>1, <2>3, FlagsLemma DEF Early
  <2> QED
    BY <1>11, <2>4 DEF AckSeg, FlagsOf
<1>13. "SYN" \in flags => "FIN" \notin flags
  BY <1>1, FlagsLemma DEF FlagsOf
<1>14. SegOK(m)
  BY <1>2, <1>6, <1>10, <1>11, <1>12, <1>13 DEF SegOK
<1> QED
  BY <1>6, <1>8, <1>9, <1>11, <1>14 DEF ack, win, Carries

(* Output leaves more than Kept alone where no segment is counted. *)
LEMMA AdvanceFields ==
  ASSUME NEW p, PcbOK(p), NEW fin \in BOOLEAN, NEW end \in Int
  PROVE  LET r == Advance(p, fin, end)
         IN  /\ PcbOK(r) /\ Kept(p, r) /\ r.delack = p.delack /\ r.acknow = p.acknow
             /\ r.rcv_adv_wnd = p.rcv_adv_wnd
             /\ r.sentfin = (p.sentfin \/ fin)
             /\ r.snd_off = Off16(end) /\ r.snd_max = Off16(MaxOf(end, p.snd_max))
             /\ r.rxmt_tmr = (p.rxmt_tmr \/ end # 0)
             /\ p.rxmt_tmr \/ end = 0 => r.rxmt_cnt = p.rxmt_cnt
<1>1. PcbOK(Advance(p, fin, end))
  BY AdvanceType
<1>2. p \in PcbRec /\ p.rxmt_tmr \in BOOLEAN /\ p.sentfin \in BOOLEAN
  BY PcbFields DEF PcbOK
<1> QED
  BY <1>1, <1>2 DEF PcbRec, Advance, Kept, RecvSame

(* Acked() is about the receiving side only. *)
LEMMA AckedFields ==
  ASSUME NEW p, PcbOK(p)
  PROVE  LET r == Acked(p)
         IN  PcbOK(r) /\ Kept(p, r) /\ SendSame(p, r) /\ r.sentfin = p.sentfin /\ ~r.delack
<1> DEFINE v == MaxOf(p.rcv_adv_wnd, Advertised(p))
           r == [p EXCEPT !.acknow = FALSE, !.delack = FALSE, !.rcv_adv_wnd = v]
<1>1. p \in PcbRec /\ v \in Int
  <2>1. p.rcv_adv_wnd \in Int /\ Advertised(p) \in Int /\ p \in PcbRec
    BY PcbFields, AdvertisedLemma, TCPAssumption DEF PcbOK
  <2> QED
    BY <2>1 DEF MaxOf
<1>2. Acked(p) = r
  BY DEF Acked
<1> HIDE DEF v
<1>3. r \in PcbRec /\ Kept(p, r) /\ SendSame(p, r) /\ r.sentfin = p.sentfin /\ ~r.delack
  BY <1>1 DEF PcbRec, Kept, SendSame, RecvSame
<1> HIDE DEF r
<1> QED
  BY <1>2, <1>3 DEF PcbOK, Kept, RecvSame

(* The closed window (WindowShut). *)
LEMMA WindowShutLemma ==
  ASSUME NEW p, PcbOK(p)
  PROVE  LET r == WindowShut(p)
         IN  /\ PcbOK(r) /\ Kept(p, r) /\ r.sentfin = p.sentfin /\ r.snd_max = p.snd_max
             /\ p.snd_wnd # 0 => r = p
<1> DEFINE r == [p EXCEPT !.rxmt_tmr = FALSE, !.snd_off = 0]
<1>1. p \in PcbRec /\ 0 \in Offs
  BY SeqMod DEF PcbOK, Offs
<1>2. r \in PcbRec /\ Kept(p, r) /\ r.sentfin = p.sentfin /\ r.snd_max = p.snd_max
  BY <1>1 DEF PcbRec, Kept, RecvSame
<1>3. (WindowShut(p) = r /\ p.snd_wnd = 0) \/ WindowShut(p) = p
  BY DEF WindowShut
<1> HIDE DEF r
<1>4. PcbOK(r)
  BY <1>2 DEF PcbOK, Kept, RecvSame
<1> QED
  BY <1>2, <1>3, <1>4, KeptLemma

(* The length of the last segment fits a segment and the queue (SegLen). *)
LEMMA SegLenLemma ==
  ASSUME NEW p, PcbOK(p)
  PROVE  /\ SegLen(p) \in 0 .. MAXSEG
         /\ Limit(p) \in 0 .. Len(p.snd_q) /\ Limit(p) <= p.snd_wnd
         /\ Limit(p) = Len(p.snd_q) \/ Limit(p) = p.snd_wnd
         /\ SegLen(p) > 0 => p.snd_off + SegLen(p) <= Limit(p)
         /\ SegLen(p) = 0 => Limit(p) <= p.snd_off
         /\ Room(p) <= MAXSEG /\ SegLen(p) > 0 => p.snd_off + SegLen(p) = Limit(p)
<1> DEFINE n == Len(p.snd_q)
           w == p.snd_wnd
           o == p.snd_off
           l == Limit(p)
           k == SegLen(p)
<1>1. n \in Nat /\ w \in Nat /\ o \in Nat /\ MAXSEG \in Nat /\ MAXSEG > 0
  BY PcbFields, TCPAssumption, SMTT(30) DEF Offs
<1>2. l = MinOf(n, w) /\ Room(p) = l - o /\ k = MinOf(MaxOf(l - o, 0), MAXSEG)
  BY DEF Limit, Room, SegLen
<1> HIDE DEF n, w, o, l, k
<1>3. l \in 0 .. n /\ l <= w /\ (l = n \/ l = w)
  BY <1>1, <1>2 DEF MinOf
<1>4. /\ k \in 0 .. MAXSEG /\ (k > 0 => o + k <= l) /\ (k = 0 => l <= o)
      /\ (l - o <= MAXSEG /\ k > 0 => o + k = l)
  BY <1>1, <1>2, <1>3 DEF MinOf, MaxOf
<1> QED
  BY <1>2, <1>3, <1>4 DEF n, w, o, l, k

(* The flags of the last segment (SegFlags). *)
LEMMA SegFlagsLemma ==
  ASSUME NEW p
  PROVE  SegFlags(p) \in FlagsOf(p)
<1>1. SegFlags(p) = outflags(p.state) \ {"FIN"} \/ SegFlags(p) = outflags(p.state) \ {}
  BY DEF SegFlags
<1>2. outflags(p.state) \ {} = outflags(p.state)
  OBVIOUS
<1> QED
  BY <1>1, <1>2 DEF FlagsOf

(* Where the full segments end. *)
FullEnd(p) == Limit(p) - 1 - ((Room(p) - 1) % MAXSEG)

(* After the full segments: less than a segment is left (AfterFull). *)
LEMMA AfterFullLemma ==
  ASSUME NEW p, PcbOK(p)
  PROVE  LET r == AfterFull(p)
         IN  /\ PcbOK(r) /\ Kept(p, r) /\ r.sentfin = p.sentfin
             /\ Room(p) <= MAXSEG => r = p
             /\ Room(p) > MAXSEG =>
                  /\ FullEnd(p) \in Nat
                  /\ FullEnd(p) >= p.snd_off + MAXSEG /\ FullEnd(p) < Limit(p)
                  /\ Limit(p) - FullEnd(p) <= MAXSEG
                  /\ r.snd_off = FullEnd(p) /\ r.snd_max = MaxOf(FullEnd(p), p.snd_max)
                  /\ r.rxmt_tmr
<1> DEFINE k   == (Room(p) - 1) % MAXSEG
           end == FullEnd(p)
           a   == Advance(p, FALSE, end)
           r   == AfterFull(p)
<1>1. CASE Room(p) <= MAXSEG
  <2>1. r = p
    BY <1>1 DEF AfterFull
  <2>2. ~(Room(p) > MAXSEG)
    <3>1. Limit(p) \in Int /\ p.snd_off \in Int /\ MAXSEG \in Int
      BY SegLenLemma, PcbFields, TCPAssumption DEF Offs
    <3>2. Room(p) \in Int
      BY <3>1 DEF Room
    <3> QED BY <1>1, <3>1, <3>2
  <2> HIDE DEF r
  <2> QED
    BY <2>1, <2>2, KeptLemma DEF r
<1>2. CASE ~(Room(p) <= MAXSEG)
  <2> DEFINE n == Limit(p)
             o == p.snd_off
             x == n - o
  <2>1. n \in Nat /\ o \in Nat /\ MAXSEG \in Nat \ {0} /\ Room(p) = x
    BY SegLenLemma, PcbFields, TCPAssumption DEF Offs, Room
  <2>2. r = Acked(a) /\ end = n - 1 - k /\ k = (x - 1) % MAXSEG
    BY <1>2 DEF AfterFull, Room, FullEnd
  <2> HIDE DEF end, n, o, k
  <2>3. x \in Int /\ x > MAXSEG
    BY <1>2, <2>1
  <2> HIDE DEF x
  <2>4. k \in 0 .. MAXSEG - 1 /\ k <= x - 1 - MAXSEG
    <3> DEFINE y == x - 1
               d == y \div MAXSEG
    <3>1. y \in Int /\ y >= MAXSEG /\ k = y % MAXSEG
      BY <2>1, <2>2, <2>3
    <3> HIDE DEF y
    <3>2. k \in 0 .. MAXSEG - 1 /\ d \in Int /\ y = MAXSEG * d + k
      BY <2>1, <3>1, ModDef
    <3> HIDE DEF d
    <3>3. d >= 1
      <4> SUFFICES ASSUME ~(d >= 1) PROVE FALSE
        OBVIOUS
      <4>1. d <= 0
        BY <3>2
      <4>2. MAXSEG * d <= 0
        BY <2>1, <3>2, <4>1
      <4> DEFINE z == MAXSEG * d
      <4>3. z \in Int /\ z <= 0 /\ y = z + k
        BY <2>1, <3>2, <4>2
      <4> HIDE DEF z
      <4> QED
        BY <2>1, <3>1, <3>2, <4>3
    <3>4. MAXSEG * d >= MAXSEG
      BY <2>1, <3>2, <3>3
    <3> DEFINE z == MAXSEG * d
    <3>5. z \in Int /\ z >= MAXSEG /\ y = z + k
      BY <2>1, <3>2, <3>4
    <3> HIDE DEF z
    <3>6. k <= y - MAXSEG
      BY <2>1, <3>1, <3>2, <3>5
    <3> QED
      BY <2>1, <2>3, <3>2, <3>6 DEF y
  <2>5. end \in Nat /\ end >= o + MAXSEG /\ end < n /\ n - end <= MAXSEG
    BY <2>1, <2>2, <2>3, <2>4 DEF x
  <2>6. end # 0
    BY <2>1, <2>5
  <2>7. /\ PcbOK(a) /\ Kept(p, a) /\ a.sentfin = p.sentfin
        /\ a.snd_off = Off16(end) /\ a.snd_max = Off16(MaxOf(end, p.snd_max)) /\ a.rxmt_tmr
    <3>1. end \in Int /\ p.sentfin \in BOOLEAN /\ FALSE \in BOOLEAN
      BY <2>5, PcbFields
    <3> DEFINE fin == FALSE
    <3>2. fin \in BOOLEAN /\ a = Advance(p, fin, end) /\ ~fin
      OBVIOUS
    <3> HIDE DEF fin, a
    <3>3. /\ PcbOK(a) /\ Kept(p, a) /\ a.sentfin = (p.sentfin \/ fin)
          /\ a.snd_off = Off16(end) /\ a.snd_max = Off16(MaxOf(end, p.snd_max))
          /\ a.rxmt_tmr = (p.rxmt_tmr \/ end # 0)
      BY <3>1, <3>2, AdvanceFields
    <3>4. a.sentfin = p.sentfin /\ a.rxmt_tmr
      BY <2>6, <3>1, <3>2, <3>3
    <3> QED
      BY <3>3, <3>4
  <2> HIDE DEF a, r
  <2>8. PcbOK(r) /\ Kept(a, r) /\ SendSame(a, r) /\ r.sentfin = a.sentfin
    BY <2>2, <2>7, AckedFields
  <2>9. Kept(p, r)
    BY <2>7, <2>8, KeptLemma
  <2>10. r.snd_off = end /\ r.snd_max = MaxOf(end, p.snd_max) /\ r.rxmt_tmr
    <3>1. n <= MAXSND /\ MAXSND \in Nat /\ MAXSND < OFF_MOD /\ OFF_MOD \in Nat /\ p.snd_max \in Offs
      <4>1. Limit(p) \in Nat /\ Limit(p) <= Len(p.snd_q) /\ Len(p.snd_q) \in Nat
            /\ Len(p.snd_q) <= MAXSND /\ MAXSND \in Nat
        BY SegLenLemma, PcbFields, TCPAssumption
      <4>2. Limit(p) <= MAXSND
        BY <4>1
      <4> QED BY <4>2, PcbFields, TCPAssumption DEF n
    <3>2. end \in Offs /\ MaxOf(end, p.snd_max) \in Offs
      BY <2>1, <2>5, <3>1 DEF Offs, MaxOf
    <3> QED
      BY <2>7, <2>8, <3>2, Off16Small DEF SendSame
  <2> QED
    BY <1>2, <2>5, <2>7, <2>8, <2>9, <2>10 DEF r, n, o, end
<1> QED
  BY <1>1, <1>2

(* The blocks of m are those of the send queue from off on. *)
DataFrom(p, m, off) ==
  /\ off + Len(m.data) <= Len(p.snd_q)
  /\ m.seq = Seq32(p.snd_seq + off)
  /\ \A i \in 1 .. Len(m.data) : m.data[i] = p.snd_q[off + i]

(* A segment of the connection of p; end bounds the data it carries. *)
SentBy(p, end, m) ==
  /\ SegOK(m) /\ m.flags \in FlagsOf(p)
  /\ m.ack = p.rcv_nxt /\ m.win = Advertised(p)
  /\ "SYN" \in m.flags => m.data = <<>> /\ \E off \in Offs : m.seq = Seq32(p.snd_seq + off)
  /\ p.snd_q = <<>> => m.data = <<>>
  /\ m.data # <<>> /\ (p.sentfin => p.snd_max > Len(p.snd_q)) =>
       \E off \in Nat : DataFrom(p, m, off) /\ off + Len(m.data) <= end

(* The full segments of the sendalot loop (FullSegments). *)
LEMMA FullSegmentsLemma ==
  ASSUME NEW p, PcbOK(p), Quiet(p), NEW m \in FullSegments(p), NEW end \in Nat,
         \A off \in FullOffsets(p) : off + MAXSEG <= end
  PROVE  SentBy(p, end, m)
<1> DEFINE fl == outflags(p.state) \ {"FIN"}
<1>1. PICK off \in FullOffsets(p) : m = OutSegment([p EXCEPT !.snd_off = off], MAXSEG, fl)
  BY DEF FullSegments
<1> DEFINE x == [p EXCEPT !.snd_off = off]
<1>2. /\ p.snd_off \in Nat /\ Limit(p) \in Nat /\ Limit(p) <= Len(p.snd_q) /\ Len(p.snd_q) \in Nat
      /\ Len(p.snd_q) <= MAXSND /\ MAXSND \in Nat /\ MAXSND < OFF_MOD /\ OFF_MOD \in Nat
      /\ MAXSEG \in Nat /\ MAXSEG > 0 /\ p \in PcbRec /\ p.snd_seq \in Int
  BY PcbFields, SegLenLemma, TCPAssumption DEF Offs, PcbOK, Seqs
<1>3. off \in Nat /\ off + MAXSEG < Limit(p)
  BY <1>2 DEF FullOffsets
<1>4. off \in Offs /\ off + MAXSEG <= Len(p.snd_q) /\ p.snd_q # <<>>
  <2> DEFINE n == Len(p.snd_q)
  <2>1. n \in Nat /\ n <= MAXSND /\ Limit(p) <= n
    BY <1>2
  <2> HIDE DEF n
  <2>2. off \in Offs /\ off + MAXSEG <= n /\ n # 0
    BY <1>2, <1>3, <2>1 DEF Offs
  <2> QED
    BY <2>2, EmptySeq DEF n
<1>5. /\ x \in PcbRec /\ x.snd_off = off /\ x.state = p.state /\ x.snd_q = p.snd_q
      /\ x.rcv_q = p.rcv_q /\ x.rcv_nxt = p.rcv_nxt /\ x.snd_seq = p.snd_seq
  BY <1>2, <1>4 DEF PcbRec
<1> HIDE DEF x
<1>6. PcbOK(x) /\ Quiet(x) /\ Advertised(x) = Advertised(p)
  BY <1>5 DEF PcbOK, Quiet, Advertised
<1>7. fl \in FlagsOf(x) /\ fl \in FlagsOf(p)
  BY <1>5 DEF FlagsOf
<1>8. Fits(x, MAXSEG)
  BY <1>2, <1>4, <1>5 DEF Fits
<1>9. m = OutSegment(x, MAXSEG, fl)
  BY <1>1 DEF x
<1> HIDE DEF fl
<1>10. /\ SegOK(m) /\ m.flags = fl /\ m.ack = p.rcv_nxt /\ m.win = Advertised(p)
       /\ Len(m.data) = MAXSEG
       /\ \A i \in 1 .. MAXSEG : m.data[i] = p.snd_q[off + i]
       /\ m.seq = Seq32(p.snd_seq + SegOff(x, fl))
  <2> DEFINE y == OutSegment(x, MAXSEG, fl)
  <2>1. Carries(x, MAXSEG, fl, y)
    BY <1>6, <1>7, <1>8, OutSegmentLemma
  <2> HIDE DEF y
  <2>2. y = m
    BY <1>9 DEF y
  <2>3. y.seq = Seq32(x.snd_seq + SegOff(x, fl))
    BY <1>2, <2>1 DEF Carries
  <2> QED
    BY <1>5, <1>6, <2>1, <2>2, <2>3 DEF Carries
<1>11. SegOff(x, fl) = off
  BY <1>5 DEF SegOff, fl
<1>12. "SYN" \notin fl
  <2>1. p.state \notin Early /\ p.state \in TCPS
    BY <1>4, PcbFields DEF Quiet
  <2> QED
    BY <2>1, FlagsLemma DEF Early, fl
<1>13. DataFrom(p, m, off)
  BY <1>4, <1>10, <1>11 DEF DataFrom
<1> QED
  BY <1>1, <1>3, <1>4, <1>7, <1>10, <1>12, <1>13 DEF SentBy

(* A segment that is not full, or the last (OutSegment in tcp_output). *)
LEMMA LastSegmentLemma ==
  ASSUME NEW p, PcbOK(p), Quiet(p), NEW end \in Nat, p.snd_off + SegLen(p) <= end
  PROVE  SentBy(p, end, OutSegment(p, SegLen(p), SegFlags(p)))
<1> DEFINE len == SegLen(p)
           fl  == SegFlags(p)
           m   == OutSegment(p, len, fl)
<1>1. /\ len \in 0 .. MAXSEG /\ len \in Nat /\ p.snd_off \in Nat /\ Len(p.snd_q) \in Nat
      /\ p.snd_off + len <= end /\ p.snd_off \in Offs /\ p.snd_max \in Nat
      /\ len > 0 => p.snd_off + len <= Limit(p)
      /\ Limit(p) \in Nat /\ Limit(p) <= Len(p.snd_q) /\ p.state \in TCPS
  BY PcbFields, SegLenLemma, TCPAssumption DEF Offs
<1>2. fl \in FlagsOf(p)
  BY SegFlagsLemma
<1> HIDE DEF len, fl
<1>3. len > 0 => p.snd_off + len <= Len(p.snd_q)
  BY <1>1
<1>4. /\ SegOK(m) /\ m.flags = fl /\ m.ack = p.rcv_nxt /\ m.win = Advertised(p)
      /\ Len(m.data) = len
      /\ \A i \in 1 .. len : m.data[i] = p.snd_q[p.snd_off + i]
      /\ len > 0 \/ {"SYN", "FIN"} \cap fl # {} => m.seq = Seq32(p.snd_seq + SegOff(p, fl))
  <2>1. Fits(p, len)
    BY <1>1, <1>3 DEF Fits
  <2>2. Carries(p, len, fl, m)
    BY <1>2, <2>1, OutSegmentLemma
  <2> HIDE DEF m
  <2> QED
    BY <2>2 DEF Carries
<1> HIDE DEF m
<1>5. "SYN" \in fl => m.data = <<>> /\ \E off \in Offs : m.seq = Seq32(p.snd_seq + off)
  <2> SUFFICES ASSUME "SYN" \in fl PROVE m.data = <<>> /\ \E off \in Offs : m.seq = Seq32(p.snd_seq + off)
    OBVIOUS
  <2>1. "FIN" \notin fl /\ m.data = <<>>
    BY <1>4 DEF SegOK
  <2>2. SegOff(p, fl) = p.snd_off
    BY <2>1 DEF SegOff
  <2> QED
    BY <1>1, <1>4, <2>1, <2>2
<1>6. ASSUME m.data # <<>>, p.sentfin => p.snd_max > Len(p.snd_q)
      PROVE  DataFrom(p, m, p.snd_off)
  <2>1. len > 0
    BY <1>1, <1>4, <1>6, SegFields, EmptySeq
  <2>2. p.snd_off + len <= Len(p.snd_q)
    BY <1>3, <2>1
  <2>3. p.sentfin => p.snd_off # p.snd_max
    <3> DEFINE n == Len(p.snd_q)
    <3>1. n \in Nat /\ p.snd_off + len <= n /\ (p.sentfin => p.snd_max > n)
      BY <1>1, <1>6, <2>2
    <3> HIDE DEF n
    <3> QED
      BY <1>1, <2>1, <3>1
  <2>4. SegOff(p, fl) = p.snd_off
    BY <2>3 DEF SegOff
  <2> QED
    BY <1>4, <2>1, <2>2, <2>4 DEF DataFrom
<1>7. p.snd_q = <<>> => m.data = <<>>
  <2>1. p.snd_q = <<>> => Len(p.snd_q) = 0
    OBVIOUS
  <2>2. p.snd_q = <<>> => len = 0
    BY <1>1, <1>3, <2>1
  <2> QED
    BY <1>4, <2>2, SegFields, EmptySeq
<1> QED
  BY <1>1, <1>2, <1>4, <1>5, <1>6, <1>7 DEF SentBy, m, len, fl

(* What Kept and a larger offset of the end leave of SentBy. *)
LEMMA SentByKept ==
  ASSUME NEW p, NEW x, NEW end, NEW m, SentBy(x, end, m), Kept(p, x), x.sentfin = p.sentfin,
         p.snd_max > Len(p.snd_q) => x.snd_max > Len(x.snd_q)
  PROVE  SentBy(p, end, m)
<1>1. /\ x.state = p.state /\ x.rcv_nxt = p.rcv_nxt /\ x.rcv_q = p.rcv_q
      /\ x.snd_seq = p.snd_seq /\ x.snd_q = p.snd_q
  BY DEF Kept, RecvSame
<1>2. Advertised(x) = Advertised(p) /\ FlagsOf(x) = FlagsOf(p)
  BY <1>1 DEF Advertised, FlagsOf
<1>3. \A off : DataFrom(x, m, off) => DataFrom(p, m, off)
  BY <1>1 DEF DataFrom
<1>4. (p.sentfin => p.snd_max > Len(p.snd_q)) => (x.sentfin => x.snd_max > Len(x.snd_q))
  OBVIOUS
<1> QED
  BY <1>1, <1>2, <1>3, <1>4 DEF SentBy

(* A bound on the data of a segment may be any larger number. *)
LEMMA SentByMore ==
  ASSUME NEW p, NEW a \in Nat, NEW b \in Nat, a <= b, NEW m, SentBy(p, a, m)
  PROVE  SentBy(p, b, m)
<1>1. \A off \in Nat : off + Len(m.data) <= a => off + Len(m.data) <= b
  <2> DEFINE n == Len(m.data)
  <2>1. n \in Nat
    BY SegFields, TCPAssumption DEF SentBy
  <2> HIDE DEF n
  <2>2. \A off \in Nat : off + n <= a => off + n <= b
    BY <2>1
  <2> QED BY <2>2 DEF n
<1> QED
  BY <1>1 DEF SentBy

(* The full segments end where what is left begins. *)
LEMMA FullOffsetsLemma ==
  ASSUME NEW p, PcbOK(p), NEW off \in FullOffsets(p)
  PROVE  /\ Room(p) > MAXSEG
         /\ off \in Nat /\ off + MAXSEG < Limit(p)
         /\ off + MAXSEG <= FullEnd(p)
<1> DEFINE l == Limit(p)
           o == p.snd_off
           M == MAXSEG
           y == (l - o) - 1
           k == y % M
           a == y \div M
           x == off - o
           j == x \div M
<1>1. l \in Nat /\ o \in Nat /\ M \in Nat \ {0} /\ Room(p) = l - o
  BY SegLenLemma, PcbFields, TCPAssumption DEF Offs, Room
<1>2. off \in o .. l /\ off + M < l /\ (off - o) % M = 0
  BY DEF FullOffsets
<1>3. (Room(p) - 1) % MAXSEG = k
  BY <1>1
<1> HIDE DEF l, o, M
<1>4. off \in Nat /\ x \in Nat /\ y \in Int /\ x + M <= y /\ l - o > M
  BY <1>1, <1>2
<1>5. k \in 0 .. M - 1 /\ a \in Int /\ y = M * a + k
  BY <1>1, <1>4, ModDef
<1>6. j \in Int /\ x = M * j + 0
  BY <1>1, <1>2, <1>4, ModDef
<1> HIDE DEF y, k, a, x, j
<1>7. x + M <= M * a
  <2>1. M * (j + 1) <= M * a + k
    BY <1>1, <1>4, <1>5, <1>6
  <2>2. j + 1 <= a
    <3> SUFFICES ASSUME ~(j + 1 <= a) PROVE FALSE
      OBVIOUS
    <3> DEFINE d == j - a
    <3>1. d \in Nat /\ j = a + d
      BY <1>5, <1>6
    <3>2. M * (j + 1) = M * a + M * d + M
      BY <1>1, <1>5, <1>6, <3>1
    <3>3. M * d \in Nat /\ M * a \in Int
      BY <1>1, <1>5, <3>1
    <3> DEFINE u == M * a
               v == M * d
               z == M * (j + 1)
    <3>4. u \in Int /\ v \in Nat /\ z = u + v + M /\ z <= u + k
      BY <2>1, <3>2, <3>3
    <3> HIDE DEF u, v, z
    <3> QED
      BY <1>1, <1>5, <3>4
  <2> DEFINE e == a - (j + 1)
  <2>3. e \in Nat /\ a = j + 1 + e
    BY <1>5, <1>6, <2>2
  <2>4. M * a = M * j + M + M * e /\ M * e \in Nat /\ M * j \in Int
    BY <1>1, <1>5, <1>6, <2>3
  <2> DEFINE u == M * a
             v == M * j
             z == M * e
  <2>5. u = v + M + z /\ z \in Nat /\ v \in Int /\ x = v
    BY <1>6, <2>4
  <2> HIDE DEF u, v, z
  <2>6. x + M <= u
    BY <1>1, <2>5
  <2> QED
    BY <2>6 DEF u
<1>8. off + M <= l - 1 - k
  <2> DEFINE u == M * a
  <2>1. u \in Int /\ y = u + k /\ x + M <= u
    BY <1>1, <1>5, <1>7
  <2> HIDE DEF u
  <2> QED
    BY <1>1, <1>2, <1>4, <1>5, <2>1 DEF x, y
<1> QED
  BY <1>1, <1>2, <1>3, <1>4, <1>8 DEF l, o, M, FullEnd

(* SYN and FIN take one sequence number. *)
Counted(flags) == Cardinality({"SYN", "FIN"} \cap flags)

(* The offset after the segment (Sent). *)
SentEnd(p, len, flags) == SegOff(p, flags) + Counted(flags) + len

(* SYN and FIN count one each, and no segment has both. *)
LEMMA CountedLemma ==
  ASSUME NEW p, PcbOK(p), NEW flags \in FlagsOf(p)
  PROVE  /\ Counted(flags) \in 0 .. 1
         /\ {"SYN", "FIN"} \cap flags = {} => Counted(flags) = 0
         /\ "SYN" \in flags \/ "FIN" \in flags => Counted(flags) = 1
<1>1. ~("SYN" \in flags /\ "FIN" \in flags)
  <2>1. p.state \in TCPS
    BY PcbFields
  <2> QED
    BY <2>1, FlagsLemma DEF FlagsOf
<1>2. CASE {"SYN", "FIN"} \cap flags = {}
  BY <1>2, FS_EmptySet DEF Counted
<1>3. CASE "SYN" \in flags
  <2>1. {"SYN", "FIN"} \cap flags = {"SYN"}
    BY <1>1, <1>3
  <2>2. Counted(flags) = 1
    BY <2>1, FS_Singleton DEF Counted
  <2> QED BY <2>1, <2>2
<1>4. CASE "FIN" \in flags
  <2>1. {"SYN", "FIN"} \cap flags = {"FIN"}
    BY <1>1, <1>4
  <2>2. Counted(flags) = 1
    BY <2>1, FS_Singleton DEF Counted
  <2> QED BY <2>1, <2>2
<1> QED
  BY <1>2, <1>3, <1>4

(* The control block once a segment has been handed over (Sent). *)
LEMMA SentLemma ==
  ASSUME NEW p, PcbOK(p), NEW len \in Nat, NEW flags \in FlagsOf(p)
  PROVE  LET r == Sent(p, len, flags)
             e == SentEnd(p, len, flags)
         IN  /\ e \in Nat
             /\ "FIN" \notin flags => e = p.snd_off + Counted(flags) + len
             /\ PcbOK(r) /\ Kept(p, r) /\ r.delack = p.delack
             /\ r.sentfin = (p.sentfin \/ "FIN" \in flags)
             /\ r.snd_off = Off16(e) /\ r.snd_max = Off16(MaxOf(e, p.snd_max))
             /\ r.rxmt_tmr = (p.rxmt_tmr \/ e # 0)
             /\ p.rxmt_tmr \/ e = 0 => r.rxmt_cnt = p.rxmt_cnt
<1> DEFINE e   == SentEnd(p, len, flags)
           fin == "FIN" \in flags
           r   == Sent(p, len, flags)
<1>1. r = Advance(p, fin, e)
  BY DEF Sent, SentEnd, Counted
<1>2. p.snd_off \in Nat
  BY PcbFields DEF Offs
<1>3. Counted(flags) \in 0 .. 1 /\ (fin => Counted(flags) = 1)
  BY CountedLemma
<1>4. (SegOff(p, flags) = p.snd_off) \/ (SegOff(p, flags) = p.snd_off - 1 /\ fin)
  BY DEF SegOff
<1>5. ~fin => SegOff(p, flags) = p.snd_off
  BY DEF SegOff
<1>6. fin \in BOOLEAN /\ e = SegOff(p, flags) + Counted(flags) + len
  BY DEF SentEnd
<1> HIDE DEF e, fin, r
<1>7. e \in Nat
  BY <1>2, <1>3, <1>4, <1>6
<1>8. ~fin => e = p.snd_off + Counted(flags) + len
  BY <1>5, <1>6
<1>9. e \in Int
  BY <1>7
<1>10. /\ PcbOK(r) /\ Kept(p, r) /\ r.delack = p.delack
       /\ r.sentfin = (p.sentfin \/ fin)
       /\ r.snd_off = Off16(e) /\ r.snd_max = Off16(MaxOf(e, p.snd_max))
       /\ r.rxmt_tmr = (p.rxmt_tmr \/ e # 0)
       /\ p.rxmt_tmr \/ e = 0 => r.rxmt_cnt = p.rxmt_cnt
  BY <1>1, <1>6, <1>9, AdvanceFields
<1> QED
  BY <1>7, <1>8, <1>10 DEF e, fin, r

(* The control block before the last segment of tcp_output(). *)
Last(p) == AfterFull(WindowShut(p))

(* tcp_output() sends what SentBy describes and keeps what Kept lists. *)
LEMMA OutputLemma ==
  ASSUME NEW p, PcbOK(p), Quiet(p)
  PROVE  LET r == tcp_output(p)
             x == Last(p)
         IN  /\ PcbOK(x) /\ Kept(p, x) /\ x.sentfin = p.sentfin
             /\ PcbOK(r.pcb) /\ Kept(p, r.pcb)
             /\ \A m \in r.segs : SentBy(p, OFF_MOD + MAXSEG, m)
             /\ \/ ~Due(x, p.snd_max = 0) /\ r.pcb = x
                \/ Due(x, p.snd_max = 0) /\ r.pcb = Acked(Sent(x, SegLen(x), SegFlags(x)))
<1> DEFINE f == WindowShut(p)
           x == Last(p)
           r == tcp_output(p)
           s == Sent(x, SegLen(x), SegFlags(x))
           z == OutSegment(x, SegLen(x), SegFlags(x))
           B == OFF_MOD + MAXSEG
<1>1. /\ r.segs \in {FullSegments(f), FullSegments(f) \cup {z}}
      /\ \/ ~Due(x, p.snd_max = 0) /\ r.pcb = x
         \/ Due(x, p.snd_max = 0) /\ r.pcb = Acked(s)
  BY DEF tcp_output, Last
<1>2. PcbOK(f) /\ Kept(p, f) /\ f.sentfin = p.sentfin /\ f.snd_max = p.snd_max
  BY WindowShutLemma
<1>3. x = AfterFull(f)
  BY DEF Last
<1> HIDE DEF f, x, r
<1>4. /\ PcbOK(x) /\ Kept(f, x) /\ x.sentfin = f.sentfin
      /\ Room(f) <= MAXSEG => x = f
      /\ Room(f) > MAXSEG => FullEnd(f) \in Nat /\ x.snd_max = MaxOf(FullEnd(f), f.snd_max)
  BY <1>2, <1>3, AfterFullLemma
<1>5. Kept(p, x) /\ x.sentfin = p.sentfin
  BY <1>2, <1>4, KeptLemma
<1>6. Quiet(f) /\ Quiet(x)
  BY <1>2, <1>5 DEF Quiet, Kept, RecvSame
<1>7. B \in Nat /\ OFF_MOD \in Nat /\ MAXSEG \in Nat
  BY TCPAssumption
<1>8. \A m \in FullSegments(f) : SentBy(p, B, m)
  <2>1. \A off \in FullOffsets(f) : off + MAXSEG <= B
    <3> TAKE off \in FullOffsets(f)
    <3>1. off \in Nat /\ off + MAXSEG < Limit(f) /\ Limit(f) \in Nat /\ Limit(f) <= MAXSND
      <4>1. Limit(f) \in Nat /\ Limit(f) <= Len(f.snd_q) /\ Len(f.snd_q) \in Nat
            /\ Len(f.snd_q) <= MAXSND /\ MAXSND \in Nat
        BY <1>2, SegLenLemma, PcbFields, TCPAssumption
      <4>2. Limit(f) <= MAXSND
        BY <4>1
      <4> QED BY <1>2, <4>1, <4>2, FullOffsetsLemma
    <3>2. MAXSND \in Nat /\ MAXSND < OFF_MOD
      BY TCPAssumption
    <3> QED
      BY <1>7, <3>1, <3>2
  <2>2. \A m \in FullSegments(f) : SentBy(f, B, m)
    BY <1>2, <1>6, <1>7, <2>1, FullSegmentsLemma
  <2>3. p.snd_max > Len(p.snd_q) => f.snd_max > Len(f.snd_q)
    BY <1>2 DEF Kept
  <2> HIDE DEF B
  <2> QED
    BY <1>2, <2>2, <2>3, SentByKept
<1>9. SentBy(p, B, z)
  <2>1. x.snd_off \in Offs /\ SegLen(x) \in 0 .. MAXSEG
    BY <1>4, PcbFields, SegLenLemma
  <2>2. x.snd_off + SegLen(x) <= B
    BY <1>7, <2>1 DEF Offs
  <2>3. SentBy(x, B, z)
    BY <1>4, <1>6, <1>7, <2>2, LastSegmentLemma
  <2>4. p.snd_max > Len(p.snd_q) => x.snd_max > Len(x.snd_q)
    <3>1. x.snd_q = p.snd_q /\ Len(p.snd_q) \in Nat /\ f.snd_max \in Nat /\ f.snd_max = p.snd_max
      BY <1>2, <1>5, PcbFields DEF Kept, Offs
    <3>2. Limit(f) \in Int /\ f.snd_off \in Int /\ MAXSEG \in Int
      BY <1>2, SegLenLemma, PcbFields, TCPAssumption DEF Offs
    <3>3. Room(f) \in Int
      BY <3>2 DEF Room
    <3>4. Room(f) <= MAXSEG \/ Room(f) > MAXSEG
      BY <3>2, <3>3
    <3>5. x.snd_max = f.snd_max \/ (x.snd_max = MaxOf(FullEnd(f), f.snd_max) /\ FullEnd(f) \in Nat)
      BY <1>4, <3>4
    <3>6. x.snd_max \in Nat /\ x.snd_max >= f.snd_max
      BY <3>1, <3>5 DEF MaxOf
    <3> DEFINE n == Len(p.snd_q)
    <3>7. n \in Nat /\ Len(x.snd_q) = n
      BY <3>1
    <3> HIDE DEF n
    <3>8. p.snd_max > n => x.snd_max > n
      BY <3>1, <3>6, <3>7
    <3> QED
      BY <3>7, <3>8 DEF n
  <2> HIDE DEF B, z
  <2> QED
    BY <1>5, <2>3, <2>4, SentByKept
<1>10. \A m \in r.segs : SentBy(p, B, m)
  <2> HIDE DEF B, z
  <2> QED BY <1>1, <1>8, <1>9
<1>11. PcbOK(r.pcb) /\ Kept(p, r.pcb)
  <2>1. SegLen(x) \in Nat /\ SegFlags(x) \in FlagsOf(x)
    BY <1>4, SegLenLemma, SegFlagsLemma
  <2>2. PcbOK(s) /\ Kept(x, s)
    BY <1>4, <2>1, SentLemma
  <2> HIDE DEF s
  <2>3. PcbOK(Acked(s)) /\ Kept(s, Acked(s))
    BY <2>2, AckedFields
  <2> QED
    BY <1>1, <1>4, <1>5, <2>2, <2>3, KeptLemma
<1> HIDE DEF B
<1> QED
  BY <1>1, <1>4, <1>5, <1>10, <1>11 DEF x, r, s, B

--------------------------------------------------------------------------------
(* The types of what the applications have done. *)
Phases == {"start", "open", "done"}

AppRec ==
  [phase : Phases, opens : Nat, sends : Nat, sent : Nat,
   got : Seq(Nat), eof : BOOLEAN]

(* A control block between two entries into the code. *)
BlockOK(p) == PcbOK(p) /\ Quiet(p) /\ (p.state = "FREE" => ~p.needoutput)

(* The types of all the variables, and the inductive form of TypeOK. *)
TypeInv ==
  /\ pcb \in [Host -> PcbRec] /\ \A h \in Host : BlockOK(pcb[h])
  /\ net \in [Host -> SUBSET SegRec] /\ \A h \in Host : \A m \in net[h] : SegOK(m)
  /\ app \in [Host -> AppRec]
  /\ faults \in Nat

(* The segments for one host, and what may come to them in a step. *)
Fewer(h) == net'[h] \subseteq net[h]

(* Resets only, or segments of the connection of p, are new. *)
OnlyResets(h) == \A m \in net'[h] : m \in net[h] \/ IsReset(m)

OnlySent(h, p, end) == \A m \in net'[h] : m \in net[h] \/ SentBy(p, end, m)

(* The type of the network after the step. *)
NetType == net' \in [Host -> SUBSET SegRec]

(* The other host is a host, and another one. *)
LEMMA PeerLemma ==
  \A h \in Host : Peer(h) \in Host /\ Peer(h) # h /\ Peer(Peer(h)) = h /\ Host = {h, Peer(h)}
  BY DEF Host, Peer

(* The network gains at most the segments that are put into it (Put). *)
LEMMA PutLemma ==
  ASSUME NEW n \in [Host -> SUBSET SegRec], NEW h \in Host, NEW segs \in SUBSET SegRec
  PROVE  /\ Put(n, h, segs) \in [Host -> SUBSET SegRec]
         /\ Put(n, h, segs)[Peer(h)] = n[Peer(h)]
         /\ \A m \in Put(n, h, segs)[h] : m \in n[h] \/ m \in segs
<1>1. Put(n, h, segs) = n \/ Put(n, h, segs) = [n EXCEPT ![h] = @ \cup segs]
  BY DEF Put
<1>2. [n EXCEPT ![h] = @ \cup segs] \in [Host -> SUBSET SegRec]
  OBVIOUS
<1> QED
  BY <1>1, <1>2, PeerLemma

(* A delivered segment leaves the network (Without). *)
LEMMA WithoutLemma ==
  ASSUME TypeInv, NEW h \in Host, NEW s
  PROVE  /\ Without(h, s) \in [Host -> SUBSET SegRec]
         /\ \A g \in Host : Without(h, s)[g] \subseteq net[g]
  BY DEF TypeInv, Without

(* The steps of tcp_input() for an active control block. *)
InputStep(h, s) ==
  /\ pcb[h].state \in Active
  /\ \E q : /\ PcbOK(q) /\ InputEffect(pcb[h], s, q)
            /\ pcb' = [pcb EXCEPT ![h] = q]
  /\ Fewer(h) /\ OnlyResets(Peer(h)) /\ app' = app

(* A segment for nobody, or one that is lost. *)
DropStep(h) ==
  /\ pcb' = pcb /\ app' = app /\ Fewer(h) /\ OnlyResets(Peer(h))
  /\ Fewer(Peer(h)) \/ (pcb[h].state \notin Active /\ net[h] # {})

(* The passive open. *)
OpenStep(h, s) ==
  /\ h = "server" /\ s.flags = {"SYN"} /\ MayOpen(h)
  /\ pcb' = [pcb EXCEPT ![h] = PassiveOpen(h, s)]
  /\ app' = [app EXCEPT ![h].opens = @ + 1]
  /\ Fewer(h) /\ Fewer(Peer(h))

(* Whatever arrives is processed in one of these three ways (Receive). *)
LEMMA ReceiveLemma ==
  ASSUME TypeInv, NEW h \in Host, NEW s \in net[h], Receive(h, s)
  PROVE  /\ NetType /\ faults' = faults /\ SegOK(s)
         /\ InputStep(h, s) \/ DropStep(h) \/ OpenStep(h, s)
<1> DEFINE w == Without(h, s)
           in == tcp_input(pcb[h], s)
<1>1. SegOK(s) /\ PcbOK(pcb[h]) /\ h \in Host /\ Peer(h) \in Host /\ Peer(Peer(h)) = h
  BY PeerLemma DEF TypeInv, BlockOK
<1>2. w \in [Host -> SUBSET SegRec] /\ w[h] \subseteq net[h] /\ w[Peer(h)] \subseteq net[Peer(h)]
  BY <1>1, WithoutLemma
<1>3. faults' = faults
  BY DEF Receive
<1>4. ASSUME NEW segs, \A m \in segs : IsReset(m), net' = Put(w, Peer(h), segs)
      PROVE  NetType /\ Fewer(h) /\ OnlyResets(Peer(h))
  <2>1. segs \in SUBSET SegRec
    BY <1>4 DEF IsReset, SegOK
  <2> HIDE DEF w
  <2>2. /\ net' \in [Host -> SUBSET SegRec] /\ net'[h] = w[h]
        /\ \A m \in net'[Peer(h)] : m \in w[Peer(h)] \/ m \in segs
    BY <1>1, <1>2, <1>4, <2>1, PutLemma
  <2> QED
    BY <1>2, <1>4, <2>2 DEF NetType, Fewer, OnlyResets
<1>5. CASE /\ pcb[h].state \in Active /\ SetPcb(h, in.pcb)
           /\ net' = Put(w, Peer(h), in.segs) /\ UNCHANGED app
  <2>1. PcbOK(in.pcb) /\ InputEffect(pcb[h], s, in.pcb) /\ \A m \in in.segs : IsReset(m)
    BY <1>1, InputLemma
  <2> HIDE DEF w, in
  <2>2. NetType /\ Fewer(h) /\ OnlyResets(Peer(h))
    BY <1>4, <1>5, <2>1
  <2>3. pcb' = [pcb EXCEPT ![h] = in.pcb]
    BY <1>5 DEF SetPcb
  <2> DEFINE q == in.pcb
  <2> HIDE DEF q
  <2>4. PcbOK(q) /\ InputEffect(pcb[h], s, q) /\ pcb' = [pcb EXCEPT ![h] = q]
    BY <2>1, <2>3 DEF q
  <2>5. InputStep(h, s)
    BY <1>5, <2>2, <2>4 DEF InputStep
  <2> QED
    BY <1>1, <1>3, <2>2, <2>5
<1>6. CASE /\ pcb[h].state \notin Active
           /\ net' = Put(w, Peer(h), Reset(s)) /\ UNCHANGED <<pcb, app>>
  <2>1. \A m \in Reset(s) : IsReset(m)
    BY <1>1, ResetLemma
  <2> HIDE DEF w
  <2>2. NetType /\ Fewer(h) /\ OnlyResets(Peer(h))
    BY <1>4, <1>6, <2>1
  <2> QED
    BY <1>1, <1>3, <1>6, <2>2 DEF DropStep
<1>7. CASE /\ ~Refused(h, s) /\ net' = w
           /\ IF s.flags = {"SYN"}
              THEN /\ SetPcb(h, PassiveOpen(h, s))
                   /\ app' = [app EXCEPT ![h].opens = @ + 1]
              ELSE UNCHANGED <<pcb, app>>
  <2>1. NetType /\ Fewer(h) /\ Fewer(Peer(h))
    BY <1>2, <1>7 DEF NetType, Fewer
  <2>2. OnlyResets(Peer(h))
    BY <2>1 DEF Fewer, OnlyResets
  <2>3. CASE s.flags = {"SYN"}
    <3>1. h = "server" /\ MayOpen(h)
      BY <1>7, <2>3 DEF Refused, Listening
    <3> QED
      BY <1>1, <1>3, <1>7, <2>1, <2>3, <3>1 DEF OpenStep, SetPcb
  <2>4. CASE s.flags # {"SYN"}
    BY <1>1, <1>3, <1>7, <2>1, <2>2, <2>4 DEF DropStep
  <2> QED
    BY <2>3, <2>4
<1> QED
  BY <1>5, <1>6, <1>7 DEF Receive

(* The step of tcp_output() for the control block p of a host (Transmit). *)
LEMMA TransmitLemma ==
  ASSUME TypeInv, NEW h \in Host, NEW p, PcbOK(p), Quiet(p), Transmit(h, p)
  PROVE  LET o == tcp_output(p).pcb
             q == [o EXCEPT !.needoutput = FALSE]
         IN  /\ NetType /\ Fewer(h) /\ OnlySent(Peer(h), p, OFF_MOD + MAXSEG)
             /\ \A m \in net'[Peer(h)] : m \in net[Peer(h)] \/ m \in tcp_output(p).segs
             /\ pcb' = [pcb EXCEPT ![h] = q]
             /\ PcbOK(o) /\ Kept(p, o) /\ PcbOK(q) /\ ~q.needoutput
             /\ q.state = o.state /\ SendSame(o, q) /\ RecvSame(o, q) /\ q.snd_wnd = o.snd_wnd
             /\ q.sentfin = o.sentfin /\ q.delack = o.delack /\ q.blocked = o.blocked
<1> DEFINE r == tcp_output(p)
           o == r.pcb
           q == [o EXCEPT !.needoutput = FALSE]
           B == OFF_MOD + MAXSEG
<1>1. PcbOK(o) /\ Kept(p, o) /\ \A m \in r.segs : SentBy(p, B, m)
  BY OutputLemma
<1>2. pcb' = [pcb EXCEPT ![h] = q] /\ net' = Put(net, Peer(h), r.segs)
  BY DEF Transmit, SetPcb
<1> HIDE DEF r, B
<1>3. r.segs \in SUBSET SegRec
  BY <1>1 DEF SentBy, SegOK
<1>4. /\ net' \in [Host -> SUBSET SegRec] /\ net'[h] = net[h]
      /\ \A m \in net'[Peer(h)] : m \in net[Peer(h)] \/ m \in r.segs
  <2>1. net \in [Host -> SUBSET SegRec] /\ Peer(h) \in Host /\ Peer(Peer(h)) = h
    BY PeerLemma DEF TypeInv
  <2> QED
    BY <1>2, <1>3, <2>1, PutLemma
<1>5. NetType /\ Fewer(h) /\ OnlySent(Peer(h), p, B)
  BY <1>1, <1>4 DEF NetType, Fewer, OnlySent
<1>6. /\ q \in PcbRec /\ q.needoutput = FALSE
      /\ q.state = o.state /\ SendSame(o, q) /\ RecvSame(o, q) /\ q.snd_wnd = o.snd_wnd
      /\ q.sentfin = o.sentfin /\ q.delack = o.delack /\ q.blocked = o.blocked
  <2> HIDE DEF o
  <2> QED
    BY <1>1 DEF PcbOK, PcbRec, SendSame, RecvSame
<1> HIDE DEF o, q
<1>7. PcbOK(q)
  BY <1>1, <1>6 DEF PcbOK, SendSame, RecvSame
<1> QED
  BY <1>1, <1>2, <1>4, <1>5, <1>6, <1>7 DEF r, o, q, B

(* What the delayed ACK timer changes (tcp_fast_tmr). *)
LEMMA FastTmrLemma ==
  ASSUME NEW p, PcbOK(p)
  PROVE  LET x == FastTmr(p)
         IN  /\ PcbOK(x) /\ x.state = p.state /\ SendSame(p, x) /\ RecvSame(p, x)
             /\ x.snd_wnd = p.snd_wnd /\ x.sentfin = p.sentfin /\ x.blocked = p.blocked
             /\ (x = p /\ ~p.delack) \/ (p.delack /\ x.needoutput)
<1> DEFINE x == [p EXCEPT !.delack = FALSE, !.acknow = TRUE, !.needoutput = TRUE]
<1>1. p \in PcbRec /\ p.delack \in BOOLEAN
  BY PcbFields DEF PcbOK
<1>2. FastTmr(p) = IF p.delack THEN x ELSE p
  BY DEF FastTmr, Sched
<1>3. /\ x \in PcbRec /\ x.state = p.state /\ SendSame(p, x) /\ RecvSame(p, x)
      /\ x.snd_wnd = p.snd_wnd /\ x.sentfin = p.sentfin /\ x.blocked = p.blocked
      /\ x.needoutput
  BY <1>1 DEF PcbRec, SendSame, RecvSame
<1> HIDE DEF x
<1>4. PcbOK(x)
  BY <1>3 DEF PcbOK, SendSame, RecvSame
<1>5. SendSame(p, p) /\ RecvSame(p, p)
  BY DEF SendSame, RecvSame
<1> QED
  BY <1>2, <1>3, <1>4, <1>5

(* What the retransmission timer changes (tcp_rxmt_tmr). *)
LEMMA RxmtTmrLemma ==
  ASSUME NEW p, PcbOK(p)
  PROVE  LET x == RxmtTmr(p)
         IN  /\ PcbOK(x) /\ x.state = p.state /\ RecvSame(p, x)
             /\ x.snd_seq = p.snd_seq /\ x.snd_q = p.snd_q /\ x.snd_max = p.snd_max
             /\ x.snd_wnd = p.snd_wnd /\ x.delack = p.delack /\ x.blocked = p.blocked
             /\ x.rxmt_cnt = p.rxmt_cnt + 1
             /\ \/ /\ x.rxmt_cnt > MAXRXMTS /\ x.snd_off = p.snd_off
                   /\ x.sentfin = p.sentfin /\ x.needoutput = p.needoutput
                \/ /\ x.rxmt_cnt <= MAXRXMTS /\ x.snd_off = 0 /\ x.rxmt_tmr = p.rxmt_tmr
                   /\ ~x.sentfin /\ x.needoutput
<1> DEFINE c == p.rxmt_cnt + 1
           x == [p EXCEPT !.rxmt_cnt = c, !.rxmt_tmr = FALSE]
           y == [p EXCEPT !.rxmt_cnt = c, !.snd_off = 0, !.sentfin = FALSE, !.needoutput = TRUE]
<1>1. p \in PcbRec /\ p.rxmt_cnt \in Nat /\ 0 \in Offs /\ MAXRXMTS \in Nat
  BY PcbFields, SeqMod, TCPAssumption, SMTT(30) DEF PcbOK, Offs
<1>2. RxmtTmr(p) = IF c > MAXRXMTS THEN x ELSE y
  BY DEF RxmtTmr, Sched
<1>3. c \in Nat /\ (c > MAXRXMTS \/ c <= MAXRXMTS) /\ (c <= MAXRXMTS => ~(c > MAXRXMTS))
  BY <1>1
<1>4. c = p.rxmt_cnt + 1
  OBVIOUS
<1> HIDE DEF c
<1>5. /\ x \in PcbRec /\ x.state = p.state /\ RecvSame(p, x)
      /\ x.snd_seq = p.snd_seq /\ x.snd_q = p.snd_q /\ x.snd_max = p.snd_max
      /\ x.snd_wnd = p.snd_wnd /\ x.delack = p.delack /\ x.blocked = p.blocked
      /\ x.rxmt_cnt = c /\ x.snd_off = p.snd_off
      /\ x.sentfin = p.sentfin /\ x.needoutput = p.needoutput
  BY <1>1, <1>3 DEF PcbRec, RecvSame
<1>6. /\ y \in PcbRec /\ y.state = p.state /\ RecvSame(p, y)
      /\ y.snd_seq = p.snd_seq /\ y.snd_q = p.snd_q /\ y.snd_max = p.snd_max
      /\ y.snd_wnd = p.snd_wnd /\ y.delack = p.delack /\ y.blocked = p.blocked
      /\ y.rxmt_cnt = c /\ y.snd_off = 0 /\ y.rxmt_tmr = p.rxmt_tmr
      /\ y.sentfin = FALSE /\ y.needoutput = TRUE
  BY <1>1, <1>3 DEF PcbRec, RecvSame
<1> HIDE DEF x, y
<1>7. PcbOK(x) /\ PcbOK(y)
  BY <1>5, <1>6 DEF PcbOK, RecvSame
<1> QED
  BY <1>2, <1>3, <1>4, <1>5, <1>6, <1>7

(* What the idle timer changes (tcp_idle_tmr). *)
LEMMA IdleTmrLemma ==
  ASSUME NEW p, PcbOK(p)
  PROVE  LET x == IdleTmr(p)
         IN  /\ PcbOK(x)
             /\ p.state \in {"SYN_SENT", "SYN_RCVD"} => Gone(x) /\ x.state = "CLOSED" /\ x.needoutput
             /\ p.state = "FIN_WAIT_2" =>
                  /\ x.state = "TIME_WAIT" /\ RecvSame(p, x) /\ x.snd_q = p.snd_q
                  /\ x.blocked = p.blocked /\ x.snd_wnd = p.snd_wnd
             /\ p.state = "TIME_WAIT" => x = FreePcb
<1> DEFINE c == Close(p)
           y == [c EXCEPT !.needoutput = TRUE]
           st == "TIME_WAIT"
           z == [p EXCEPT !.state = st, !.rxmt_tmr = FALSE]
<1>1. p \in PcbRec /\ st \in TCPS /\ PcbOK(c) /\ Gone(c) /\ c.state = "CLOSED" /\ c \in PcbRec
  BY CloseLemma DEF PcbOK, TCPS
<1>2. /\ p.state \in {"SYN_SENT", "SYN_RCVD"} => IdleTmr(p) = y
      /\ p.state = "FIN_WAIT_2" => IdleTmr(p) = z
      /\ p.state = "TIME_WAIT" => IdleTmr(p) = FreePcb
      /\ p.state \notin {"SYN_SENT", "SYN_RCVD", "FIN_WAIT_2", "TIME_WAIT"} => IdleTmr(p) = p
  BY DEF IdleTmr, Sched
<1> HIDE DEF c, st
<1>3. /\ y \in PcbRec /\ y.state = c.state /\ y.snd_q = c.snd_q /\ y.rcv_q = c.rcv_q
      /\ y.blocked = c.blocked /\ y.needoutput
  BY <1>1 DEF PcbRec
<1>4. /\ z \in PcbRec /\ z.state = st /\ RecvSame(p, z) /\ z.snd_q = p.snd_q
      /\ z.blocked = p.blocked /\ z.snd_wnd = p.snd_wnd
  BY <1>1 DEF PcbRec, RecvSame
<1> HIDE DEF y, z
<1>5. PcbOK(y) /\ Gone(y) /\ y.state = "CLOSED" /\ PcbOK(z)
  BY <1>1, <1>3, <1>4 DEF PcbOK, Gone, RecvSame
<1>6. PcbOK(IdleTmr(p))
  BY <1>2, <1>5, FreePcbOK
<1>7. p.state \in {"SYN_SENT", "SYN_RCVD"} =>
        Gone(IdleTmr(p)) /\ IdleTmr(p).state = "CLOSED" /\ IdleTmr(p).needoutput
  BY <1>2, <1>3, <1>5
<1>8. p.state = "FIN_WAIT_2" =>
        /\ IdleTmr(p).state = "TIME_WAIT" /\ RecvSame(p, IdleTmr(p)) /\ IdleTmr(p).snd_q = p.snd_q
        /\ IdleTmr(p).blocked = p.blocked /\ IdleTmr(p).snd_wnd = p.snd_wnd
  BY <1>2, <1>4 DEF st
<1> QED
  BY <1>2, <1>6, <1>7, <1>8

(* A step that gives one host a new control block keeps the types. *)
LEMMA TypeStep ==
  ASSUME TypeInv, NEW h \in Host, NEW q, BlockOK(q), pcb' = [pcb EXCEPT ![h] = q],
         NetType, \A g \in Host : \A m \in net'[g] : SegOK(m),
         app' \in [Host -> AppRec], faults' \in Nat
  PROVE  TypeInv' /\ pcb'[h] = q /\ \A g \in Host \ {h} : pcb'[g] = pcb[g]
<1>1. q \in PcbRec
  BY DEF BlockOK, PcbOK
<1>2. pcb' \in [Host -> PcbRec] /\ pcb'[h] = q /\ \A g \in Host \ {h} : pcb'[g] = pcb[g]
  BY <1>1 DEF TypeInv
<1>3. \A g \in Host : BlockOK(pcb'[g])
  BY <1>2 DEF TypeInv
<1>4. net' \in [Host -> SUBSET SegRec]
  BY DEF NetType
<1> QED
  BY <1>2, <1>3, <1>4 DEF TypeInv

(* What is left in the network, resets and sent segments are segments. *)
LEMMA NetStep ==
  ASSUME TypeInv, NEW h \in Host, Fewer(h),
         \/ Fewer(Peer(h)) \/ OnlyResets(Peer(h))
         \/ \E p, end : OnlySent(Peer(h), p, end)
  PROVE  \A g \in Host : \A m \in net'[g] : SegOK(m)
<1>1. \A g \in Host : \A m \in net[g] : SegOK(m)
  BY DEF TypeInv
<1>2. Peer(h) \in Host /\ Host = {h, Peer(h)}
  BY PeerLemma
<1>3. \A m \in net'[h] : SegOK(m)
  BY <1>1 DEF Fewer
<1>4. \A m \in net'[Peer(h)] : SegOK(m)
  <2>1. CASE Fewer(Peer(h))
    BY <1>1, <1>2, <2>1 DEF Fewer
  <2>2. CASE OnlyResets(Peer(h))
    BY <1>1, <1>2, <2>2 DEF OnlyResets, IsReset
  <2>3. CASE \E p, end : OnlySent(Peer(h), p, end)
    BY <1>1, <1>2, <2>3 DEF OnlySent, SentBy
  <2> QED
    BY <2>1, <2>2, <2>3
<1> QED
  BY <1>2, <1>3, <1>4

(* A segment leaves a control block that may stay (tcp_input). *)
LEMMA InputBlock ==
  ASSUME NEW p, BlockOK(p), p.state \in Active, NEW s, NEW q, PcbOK(q), InputEffect(p, s, q)
  PROVE  BlockOK(q)
<1>1. Quiet(p) /\ p.state \notin {"FREE", "CLOSED"}
  BY DEF BlockOK, Active
<1>2. CASE Gone(q)
  BY <1>2 DEF Gone, BlockOK, Quiet
<1>3. CASE Opened(p, s, q)
  BY <1>3 DEF Opened, BlockOK, Quiet, Early
<1>4. CASE Held(p, s, q)
  BY <1>1, <1>4 DEF Held, BlockOK, Quiet, SendSame, RecvSame
<1>5. CASE Through(p, s, q)
  <2>1. PICK m, t : Taken(p, s, m, t, q)
    BY <1>5 DEF Through
  <2>2. p.state # "SYN_SENT"
    BY <1>5 DEF Through
  <2>3. m.state \notin Early
    <3>1. p.state \notin Early \/ p.state = "SYN_RCVD"
      BY <1>1, <2>2 DEF Early
    <3> QED
      BY <2>1, <3>1 DEF Taken, AckMid, Untouched, NewlyAcked, StateAcked, Early
  <2>4. q.state \notin Early
    BY <2>1, <2>3 DEF Taken, Step6Effect, FinEffect, Early
  <2> QED
    BY <2>4 DEF BlockOK, Quiet, Early
<1> QED
  BY <1>2, <1>3, <1>4, <1>5 DEF InputEffect

(* The control block of a passive open (tcp_passive_open). *)
LEMMA PassiveOpenLemma ==
  ASSUME TypeInv, NEW h \in Host, NEW s, SegOK(s)
  PROVE  LET q == PassiveOpen(h, s)
         IN  /\ BlockOK(q) /\ q.state = "SYN_RCVD" /\ q.snd_q = <<>> /\ q.rcv_q = <<>>
             /\ q.blocked = "none" /\ q.snd_off = 0 /\ q.snd_max = 0 /\ q.snd_wnd = s.win
             /\ q.snd_seq = Seq32((app[h].opens + 1) * ISS_STEP) /\ q.rcv_nxt = Seq32(s.seq + 1)
             /\ ~q.delack /\ ~q.sentfin /\ ~q.rxmt_tmr
<1> DEFINE k  == (app[h].opens + 1) * ISS_STEP
           i  == Seq32(k)
           rn == Seq32(s.seq + 1)
           w  == s.win
           st == "SYN_RCVD"
           q  == [NewPcb EXCEPT !.state = st, !.rcv_nxt = rn, !.snd_seq = i, !.snd_wnd = w,
                                !.acknow = TRUE, !.needoutput = TRUE]
<1>1. PassiveOpen(h, s) = q
  BY DEF PassiveOpen, Sched, iss
<1>2. k \in Int /\ s.seq \in Int /\ w \in 0 .. MAXRCV /\ st \in TCPS
  <2>1. app[h].opens \in Nat
    BY DEF TypeInv, AppRec
  <2>2. ISS_STEP \in Nat
    BY TCPAssumption
  <2>3. k \in Int
    BY <2>1, <2>2
  <2>4. s.seq \in Seqs /\ w \in 0 .. MAXRCV
    BY SegFields
  <2>5. s.seq \in Int
    BY <2>4, SeqMod DEF Seqs
  <2>6. st \in TCPS
    BY DEF TCPS
  <2> QED
    BY <2>3, <2>4, <2>5, <2>6
<1>3. i \in Seqs /\ rn \in Seqs
  <2> HIDE DEF k
  <2> QED BY <1>2, Seq32Type
<1>4. /\ NewPcb \in PcbRec /\ NewPcb.snd_q = <<>> /\ NewPcb.rcv_q = <<>> /\ NewPcb.blocked = "none"
      /\ NewPcb.snd_off = 0 /\ NewPcb.snd_max = 0
      /\ ~NewPcb.delack /\ ~NewPcb.sentfin /\ ~NewPcb.rxmt_tmr
  BY NewPcbOK DEF PcbOK, NewPcb
<1>5. i = Seq32((app[h].opens + 1) * ISS_STEP) /\ rn = Seq32(s.seq + 1) /\ w = s.win /\ st = "SYN_RCVD"
  OBVIOUS
<1> HIDE DEF i, rn, w, st
<1>6. /\ q \in PcbRec /\ q.state = st /\ q.snd_q = <<>> /\ q.rcv_q = <<>>
      /\ q.blocked = "none" /\ q.snd_off = 0 /\ q.snd_max = 0 /\ q.snd_wnd = w
      /\ q.snd_seq = i /\ q.rcv_nxt = rn
      /\ ~q.delack /\ ~q.sentfin /\ ~q.rxmt_tmr
  BY <1>2, <1>3, <1>4 DEF PcbRec
<1> HIDE DEF q
<1>7. BlockOK(q)
  BY <1>5, <1>6, EmptyQueue DEF BlockOK, PcbOK, Quiet
<1> QED
  BY <1>1, <1>5, <1>6, <1>7

(* The record of what an application has done keeps its type. *)
LEMMA AppType ==
  ASSUME app \in [Host -> AppRec], NEW h \in Host
  PROVE  /\ \A n \in Nat : [app EXCEPT ![h].opens = n] \in [Host -> AppRec]
         /\ \A n \in Nat : [app EXCEPT ![h].sent = n] \in [Host -> AppRec]
         /\ \A g \in Seq(Nat) : [app EXCEPT ![h].got = g] \in [Host -> AppRec]
         /\ [app EXCEPT ![h].eof = TRUE] \in [Host -> AppRec]
         /\ \A f \in Phases : [app EXCEPT ![h].phase = f] \in [Host -> AppRec]
         /\ app[h].opens + 1 \in Nat /\ app[h].sent + 1 \in Nat
<1> DEFINE a == app[h]
<1>1. a \in AppRec
  OBVIOUS
<1>2. \A b \in AppRec : [app EXCEPT ![h] = b] \in [Host -> AppRec]
  OBVIOUS
<1> HIDE DEF a
<1>3. a.opens + 1 \in Nat /\ a.sent + 1 \in Nat
  BY <1>1 DEF AppRec
<1>4. \A n \in Nat : [a EXCEPT !.opens = n] \in AppRec
  BY <1>1 DEF AppRec
<1>5. \A n \in Nat : [a EXCEPT !.sent = n] \in AppRec
  BY <1>1 DEF AppRec
<1>6. \A g \in Seq(Nat) : [a EXCEPT !.got = g] \in AppRec
  BY <1>1 DEF AppRec
<1>7. [a EXCEPT !.eof = TRUE] \in AppRec
  BY <1>1 DEF AppRec
<1>8. \A f \in Phases : [a EXCEPT !.phase = f] \in AppRec
  BY <1>1 DEF AppRec
<1> QED
  BY <1>2, <1>3, <1>4, <1>5, <1>6, <1>7, <1>8 DEF a

(* Receive keeps the types. *)
LEMMA ReceiveType ==
  ASSUME TypeInv, NEW h \in Host, NEW s \in net[h], Receive(h, s)
  PROVE  TypeInv'
<1>1. /\ NetType /\ faults' = faults /\ SegOK(s)
      /\ InputStep(h, s) \/ DropStep(h) \/ OpenStep(h, s)
  BY ReceiveLemma
<1>2. faults' \in Nat /\ BlockOK(pcb[h]) /\ pcb = [pcb EXCEPT ![h] = pcb[h]]
      /\ app \in [Host -> AppRec]
  BY <1>1 DEF TypeInv
<1>3. CASE InputStep(h, s)
  <2>1. PICK q : PcbOK(q) /\ InputEffect(pcb[h], s, q) /\ pcb' = [pcb EXCEPT ![h] = q]
    BY <1>3 DEF InputStep
  <2>2. BlockOK(q)
    BY <1>2, <1>3, <2>1, InputBlock DEF InputStep
  <2>3. \A g \in Host : \A m \in net'[g] : SegOK(m)
    BY <1>3, NetStep DEF InputStep
  <2>4. app' \in [Host -> AppRec]
    BY <1>2, <1>3 DEF InputStep
  <2> QED
    BY <1>1, <1>2, <2>1, <2>2, <2>3, <2>4, TypeStep
<1>4. CASE DropStep(h)
  <2>1. \A g \in Host : \A m \in net'[g] : SegOK(m)
    BY <1>4, NetStep DEF DropStep
  <2>2. pcb' = [pcb EXCEPT ![h] = pcb[h]] /\ app' \in [Host -> AppRec]
    BY <1>2, <1>4 DEF DropStep
  <2> QED
    BY <1>1, <1>2, <2>1, <2>2, TypeStep
<1>5. CASE OpenStep(h, s)
  <2>1. \A g \in Host : \A m \in net'[g] : SegOK(m)
    BY <1>5, NetStep DEF OpenStep
  <2>2. app' \in [Host -> AppRec]
    BY <1>2, <1>5, AppType DEF OpenStep
  <2>3. BlockOK(PassiveOpen(h, s)) /\ pcb' = [pcb EXCEPT ![h] = PassiveOpen(h, s)]
    BY <1>1, <1>5, PassiveOpenLemma DEF OpenStep
  <2> QED
    BY <1>1, <1>2, <2>1, <2>2, <2>3, TypeStep
<1> QED
  BY <1>1, <1>3, <1>4, <1>5

(* A turn of tcp_tmr_task() with the control block x keeps the types. *)
LEMMA TimerTurnLemma ==
  ASSUME TypeInv, NEW h \in Host, NEW x, BlockOK(x), TimerTurn(h, x), faults' \in Nat
  PROVE  /\ TypeInv' /\ app' = app /\ Fewer(h)
         /\ \/ x.needoutput /\ Transmit(h, x)
            \/ ~x.needoutput /\ pcb' = [pcb EXCEPT ![h] = x] /\ net' = net
<1>1. app' = app /\ app' \in [Host -> AppRec]
  BY DEF TimerTurn, TypeInv
<1>2. CASE x.needoutput
  <2> DEFINE o == tcp_output(x).pcb
             q == [o EXCEPT !.needoutput = FALSE]
  <2>1. Transmit(h, x)
    BY <1>2 DEF TimerTurn
  <2>2. /\ NetType /\ Fewer(h) /\ OnlySent(Peer(h), x, OFF_MOD + MAXSEG)
        /\ pcb' = [pcb EXCEPT ![h] = q]
        /\ Kept(x, o) /\ PcbOK(q) /\ ~q.needoutput
        /\ q.state = o.state /\ SendSame(o, q) /\ RecvSame(o, q)
    BY <2>1, TransmitLemma DEF BlockOK
  <2> HIDE DEF o, q
  <2>3. BlockOK(q)
    BY <2>2 DEF BlockOK, Quiet, Kept, SendSame, RecvSame
  <2>4. \A g \in Host : \A m \in net'[g] : SegOK(m)
    BY <2>2, NetStep
  <2>5. TypeInv'
    BY <1>1, <2>2, <2>3, <2>4, TypeStep
  <2> QED
    BY <1>1, <1>2, <2>1, <2>2, <2>5
<1>3. CASE ~x.needoutput
  <2>1. pcb' = [pcb EXCEPT ![h] = x] /\ net' = net
    BY <1>3 DEF TimerTurn, SetPcb
  <2>2. NetType /\ Fewer(h) /\ \A g \in Host : \A m \in net'[g] : SegOK(m)
    BY <2>1 DEF TypeInv, NetType, Fewer
  <2> QED
    BY <1>1, <1>3, <2>1, <2>2, TypeStep
<1> QED
  BY <1>2, <1>3

(* The control block after each of the timers may stay. *)
LEMMA TimerBlocks ==
  ASSUME NEW p, BlockOK(p)
  PROVE  /\ p.state \in Active => BlockOK(FastTmr(p))
         /\ p.state \in Active => BlockOK(RxmtTmr(FastTmr(p)))
         /\ p.state \in {"SYN_SENT", "SYN_RCVD", "FIN_WAIT_2", "TIME_WAIT"} =>
              BlockOK(IdleTmr(FastTmr(p)))
<1> DEFINE f == FastTmr(p)
           r == RxmtTmr(f)
           i == IdleTmr(f)
<1>1. PcbOK(f) /\ f.state = p.state /\ SendSame(p, f) /\ RecvSame(p, f)
  BY FastTmrLemma DEF BlockOK
<1> HIDE DEF f
<1>2. PcbOK(r) /\ r.state = f.state /\ r.snd_q = f.snd_q /\ RecvSame(f, r)
  BY <1>1, RxmtTmrLemma
<1>3. /\ PcbOK(i)
      /\ f.state \in {"SYN_SENT", "SYN_RCVD"} => Gone(i) /\ i.state = "CLOSED"
      /\ f.state = "FIN_WAIT_2" => i.state = "TIME_WAIT"
      /\ f.state = "TIME_WAIT" => i = FreePcb
  BY <1>1, IdleTmrLemma
<1> HIDE DEF r, i
<1>4. p.state \in Active => p.state # "FREE"
  BY DEF Active
<1>5. p.state \in Active => BlockOK(f)
  BY <1>1, <1>4 DEF BlockOK, Quiet, SendSame, RecvSame
<1>6. p.state \in Active => BlockOK(r)
  BY <1>1, <1>2, <1>4 DEF BlockOK, Quiet, SendSame, RecvSame
<1>7. p.state \in {"SYN_SENT", "SYN_RCVD"} => BlockOK(i)
  BY <1>1, <1>3 DEF BlockOK, Quiet, Gone
<1>8. p.state = "FIN_WAIT_2" => BlockOK(i)
  BY <1>1, <1>3 DEF BlockOK, Quiet, Early
<1>9. p.state = "TIME_WAIT" => BlockOK(i)
  BY <1>1, <1>3, FreePcbOK DEF BlockOK, Quiet, Gone
<1> QED
  BY <1>5, <1>6, <1>7, <1>8, <1>9 DEF f, r, i

(* The three timer actions keep the types. *)
LEMMA TimersType ==
  ASSUME TypeInv, NEW h \in Host, FastTimeout(h) \/ RxmtTimeout(h) \/ IdleTimeout(h)
  PROVE  TypeInv'
<1>1. BlockOK(pcb[h]) /\ faults \in Nat
  BY DEF TypeInv
<1>2. CASE FastTimeout(h)
  <2>1. pcb[h].state \in Active /\ TimerTurn(h, FastTmr(pcb[h])) /\ faults' = faults
    BY <1>2 DEF FastTimeout
  <2> QED
    BY <1>1, <2>1, TimerBlocks, TimerTurnLemma
<1>3. CASE RxmtTimeout(h)
  <2>1. /\ pcb[h].state \in Active /\ TimerTurn(h, RxmtTmr(FastTmr(pcb[h])))
        /\ (faults' = faults \/ faults' = faults + 1)
    BY <1>3 DEF RxmtTimeout, Fault
  <2>2. faults' \in Nat
    BY <1>1, <2>1
  <2> QED
    BY <1>1, <2>1, <2>2, TimerBlocks, TimerTurnLemma
<1>4. CASE IdleTimeout(h)
  <2>1. /\ pcb[h].state \in {"SYN_SENT", "SYN_RCVD", "FIN_WAIT_2", "TIME_WAIT"}
        /\ TimerTurn(h, IdleTmr(FastTmr(pcb[h]))) /\ faults' = faults + 1
    BY <1>4 DEF IdleTimeout, Fault
  <2>2. faults' \in Nat
    BY <1>1, <2>1
  <2> QED
    BY <1>1, <2>1, <2>2, TimerBlocks, TimerTurnLemma
<1> QED
  BY <1>2, <1>3, <1>4

(* Output keeps the types, failed or not. *)
LEMMA OutputType ==
  ASSUME TypeInv, NEW h \in Host, Output(h)
  PROVE  TypeInv'
<1> DEFINE p == pcb[h]
           o == tcp_output(p).pcb
           q == [o EXCEPT !.needoutput = FALSE]
<1>1. BlockOK(p) /\ faults' \in Nat /\ app' \in [Host -> AppRec] /\ Transmit(h, p)
  BY DEF TypeInv, Output
<1>2. /\ NetType /\ Fewer(h) /\ OnlySent(Peer(h), p, OFF_MOD + MAXSEG)
      /\ pcb' = [pcb EXCEPT ![h] = q]
      /\ Kept(p, o) /\ PcbOK(q) /\ ~q.needoutput
      /\ q.state = o.state /\ SendSame(o, q) /\ RecvSame(o, q)
  BY <1>1, TransmitLemma DEF BlockOK
<1> HIDE DEF o, q, p
<1>3. BlockOK(q)
  BY <1>1, <1>2 DEF BlockOK, Quiet, Kept, SendSame, RecvSame
<1>4. \A g \in Host : \A m \in net'[g] : SegOK(m)
  BY <1>2, NetStep
<1> QED
  BY <1>1, <1>2, <1>3, <1>4, TypeStep

(* A failed output leaves the block as if the segment had been sent. *)
LEMMA OutputFailsLemma ==
  ASSUME TypeInv, NEW h \in Host, OutputFails(h)
  PROVE  LET p == pcb[h]
             x == WindowShut(p)
             q == Sent(x, SegLen(x), SegFlags(x))
         IN  /\ TypeInv' /\ p.needoutput /\ Due(x, x.snd_max = 0)
             /\ pcb' = [pcb EXCEPT ![h] = q]
             /\ PcbOK(x) /\ Kept(p, x) /\ PcbOK(q) /\ Kept(p, q)
             /\ app' = app /\ net' = net /\ faults < FAULTS_MAX /\ faults' = faults + 1
<1> DEFINE p == pcb[h]
           x == WindowShut(p)
           q == Sent(x, SegLen(x), SegFlags(x))
<1>1. /\ BlockOK(p) /\ p.needoutput /\ Due(x, x.snd_max = 0) /\ pcb' = [pcb EXCEPT ![h] = q]
      /\ app' = app /\ net' = net /\ faults < FAULTS_MAX /\ faults' = faults + 1
  BY DEF TypeInv, OutputFails, SetPcb, Fault
<1>2. PcbOK(x) /\ Kept(p, x)
  BY <1>1, WindowShutLemma DEF BlockOK
<1> HIDE DEF x
<1>3. SegLen(x) \in Nat /\ SegFlags(x) \in FlagsOf(x)
  BY <1>2, SegLenLemma, SegFlagsLemma
<1>4. PcbOK(q) /\ Kept(x, q)
  BY <1>2, <1>3, SentLemma
<1> HIDE DEF q, p
<1>5. Kept(p, q)
  BY <1>2, <1>4, KeptLemma
<1>6. BlockOK(q)
  BY <1>1, <1>4, <1>5 DEF BlockOK, Quiet, Kept, RecvSame
<1>7. /\ NetType /\ \A g \in Host : \A m \in net'[g] : SegOK(m)
      /\ app' \in [Host -> AppRec] /\ faults' \in Nat
  BY <1>1 DEF TypeInv, NetType
<1>8. TypeInv'
  BY <1>1, <1>6, <1>7, TypeStep
<1> QED
  BY <1>1, <1>2, <1>4, <1>5, <1>8 DEF p, x, q

(* The caller waits; nothing else but the need for output may change. *)
Waits(p, q, call) ==
  /\ q.state = p.state /\ SendSame(p, q) /\ RecvSame(p, q)
  /\ q.snd_wnd = p.snd_wnd /\ q.sentfin = p.sentfin /\ q.delack = p.delack
  /\ q.blocked = call
  /\ p.needoutput => q.needoutput

(* A block is queued, for output now or with the delayed ACK. *)
Queued(p, q, b) ==
  /\ q.state = p.state /\ q.snd_q = Append(p.snd_q, b)
  /\ q.snd_seq = p.snd_seq /\ q.snd_off = p.snd_off /\ q.snd_max = p.snd_max
  /\ q.rxmt_tmr = p.rxmt_tmr /\ q.rxmt_cnt = p.rxmt_cnt
  /\ RecvSame(p, q) /\ q.snd_wnd = p.snd_wnd /\ q.sentfin = p.sentfin
  /\ q.blocked = p.blocked
  /\ q.needoutput \/ q.delack

(* The edits of a control block that the calls are made of. *)
LEMMA CallUpdate ==
  ASSUME NEW p, PcbOK(p)
  PROVE  /\ \A c \in Calls :
              LET q == [p EXCEPT !.blocked = c] IN PcbOK(q) /\ Waits(p, q, c)
         /\ \A c \in Calls :
              LET q == Sched([p EXCEPT !.acknow = TRUE, !.blocked = c])
              IN  PcbOK(q) /\ Waits(p, q, c)
<1>1. p \in PcbRec
  BY DEF PcbOK
<1>2. ASSUME NEW c \in Calls
      PROVE  LET q == [p EXCEPT !.blocked = c] IN PcbOK(q) /\ Waits(p, q, c)
  <2> DEFINE q == [p EXCEPT !.blocked = c]
  <2>1. q \in PcbRec /\ Waits(p, q, c)
    BY <1>1 DEF PcbRec, Waits, SendSame, RecvSame
  <2> HIDE DEF q
  <2> QED
    BY <2>1 DEF PcbOK, Waits, SendSame, RecvSame, q
<1>3. ASSUME NEW c \in Calls
      PROVE  LET q == Sched([p EXCEPT !.acknow = TRUE, !.blocked = c])
             IN  PcbOK(q) /\ Waits(p, q, c)
  <2> DEFINE q == [p EXCEPT !.acknow = TRUE, !.blocked = c, !.needoutput = TRUE]
  <2>1. Sched([p EXCEPT !.acknow = TRUE, !.blocked = c]) = q
    BY DEF Sched
  <2>2. q \in PcbRec /\ Waits(p, q, c)
    BY <1>1 DEF PcbRec, Waits, SendSame, RecvSame
  <2> HIDE DEF q
  <2> QED
    BY <2>1, <2>2 DEF PcbOK, Waits, SendSame, RecvSame
<1> QED
  BY <1>2, <1>3

(* The three ways out of tcp_send(). *)
LEMMA SendLemma ==
  ASSUME TypeInv, NEW h \in Host, Send(h)
  PROVE  LET p == pcb[h]
         IN  /\ Uses(h) /\ net' = net /\ faults' = faults /\ app[h].sent < app[h].sends
             /\ \E q :
                  /\ PcbOK(q) /\ pcb' = [pcb EXCEPT ![h] = q]
                  /\ \/ /\ p.state = "SYN_RCVD" \/ (p.state = "ESTABLISHED" /\ Len(p.snd_q) >= MAXSND)
                        /\ Waits(p, q, "send") /\ app' = app
                     \/ /\ p.state = "ESTABLISHED" /\ Len(p.snd_q) < MAXSND
                        /\ Queued(p, q, app[h].sent + 1)
                        /\ app' = [app EXCEPT ![h].sent = @ + 1]
<1> DEFINE p == pcb[h]
           b == app[h].sent + 1
           s == Append(p.snd_q, b)
           c == "send"
<1>1. /\ PcbOK(p) /\ p \in PcbRec /\ p.snd_q \in Seq(Nat) /\ Len(p.snd_q) \in Nat /\ b \in Nat
      /\ MAXSND \in Nat /\ c \in Calls
  <2>1. app \in [Host -> AppRec] /\ PcbOK(p)
    BY DEF TypeInv, BlockOK
  <2>2. b \in Nat
    BY <2>1, AppType
  <2>3. c \in Calls /\ MAXSND \in Nat
    BY TCPAssumption DEF Calls
  <2>4. p \in PcbRec
    BY <2>1 DEF PcbOK
  <2> HIDE DEF b, c, p
  <2> QED
    BY <2>1, <2>2, <2>3, <2>4, PcbFields
<1>2. Uses(h) /\ net' = net /\ faults' = faults /\ app[h].sent < app[h].sends
  BY DEF Send
<1>3. CASE p.state = "SYN_RCVD" /\ SetPcb(h, [p EXCEPT !.blocked = "send"]) /\ UNCHANGED app
  <2> DEFINE q == [p EXCEPT !.blocked = c]
  <2> HIDE DEF c
  <2>1. PcbOK(q) /\ Waits(p, q, c)
    BY <1>1, CallUpdate
  <2>2. pcb' = [pcb EXCEPT ![h] = q] /\ app' = app
    BY <1>3 DEF SetPcb, c
  <2> HIDE DEF q
  <2> QED
    BY <1>2, <1>3, <2>1, <2>2 DEF c
<1>4. CASE /\ p.state = "ESTABLISHED" /\ Len(p.snd_q) >= MAXSND
           /\ SetPcb(h, Sched([p EXCEPT !.acknow = TRUE, !.blocked = "send"])) /\ UNCHANGED app
  <2> DEFINE q == Sched([p EXCEPT !.acknow = TRUE, !.blocked = c])
  <2> HIDE DEF c
  <2>1. PcbOK(q) /\ Waits(p, q, c)
    BY <1>1, CallUpdate
  <2>2. pcb' = [pcb EXCEPT ![h] = q] /\ app' = app
    BY <1>4 DEF SetPcb, c
  <2> HIDE DEF q
  <2> QED
    BY <1>2, <1>4, <2>1, <2>2 DEF c
<1>5. CASE /\ p.state = "ESTABLISHED" /\ Len(p.snd_q) < MAXSND
           /\ app' = [app EXCEPT ![h].sent = @ + 1]
           /\ \/ SetPcb(h, Sched([p EXCEPT !.snd_q = s]))
              \/ SetPcb(h, [p EXCEPT !.snd_q = s, !.delack = TRUE])
  <2> DEFINE x == [p EXCEPT !.snd_q = s, !.needoutput = TRUE]
             y == [p EXCEPT !.snd_q = s, !.delack = TRUE]
  <2>1. pcb' = [pcb EXCEPT ![h] = x] \/ pcb' = [pcb EXCEPT ![h] = y]
    BY <1>5 DEF SetPcb, Sched
  <2>2. s \in Seq(Nat) /\ Len(s) = Len(p.snd_q) + 1
    BY <1>1, AppendProperties
  <2>3. s = Append(p.snd_q, b)
    OBVIOUS
  <2> HIDE DEF s
  <2>4. Len(s) <= MAXSND
    <3> DEFINE m == Len(s)
               n == Len(p.snd_q)
    <3>1. m = n + 1 /\ n < MAXSND /\ n \in Nat /\ MAXSND \in Nat
      BY <1>1, <1>5, <2>2
    <3> HIDE DEF m, n
    <3>2. m <= MAXSND
      BY <3>1
    <3> QED BY <3>2 DEF m
  <2> HIDE DEF b, p
  <2>5. x \in PcbRec /\ Queued(p, x, b) /\ x.rcv_q = p.rcv_q /\ x.snd_q = s
    BY <1>1, <2>2, <2>3 DEF PcbRec, Queued, RecvSame
  <2>6. y \in PcbRec /\ Queued(p, y, b) /\ y.rcv_q = p.rcv_q /\ y.snd_q = s
    BY <1>1, <2>2, <2>3 DEF PcbRec, Queued, RecvSame
  <2> HIDE DEF x, y
  <2>7. PcbOK(x) /\ PcbOK(y)
    BY <1>1, <2>4, <2>5, <2>6 DEF PcbOK
  <2> QED
    BY <1>2, <1>5, <2>1, <2>5, <2>6, <2>7 DEF b, p
<1> QED
  BY <1>3, <1>4, <1>5 DEF Send

(* Some of the receive queue is read. *)
Reads(p, q, n) ==
  /\ q.state = p.state /\ SendSame(p, q) /\ q.rcv_nxt = p.rcv_nxt
  /\ q.rcv_q = Part(p.rcv_q, n, Len(p.rcv_q))
  /\ q.snd_wnd = p.snd_wnd /\ q.sentfin = p.sentfin /\ q.delack = p.delack
  /\ q.blocked = p.blocked
  /\ p.needoutput => q.needoutput

(* The three ways out of tcp_recv(). *)
LEMMA RecvLemma ==
  ASSUME TypeInv, NEW h \in Host, NEW n \in 1 .. MAXRCV, Recv(h, n)
  PROVE  LET p == pcb[h]
         IN  /\ Uses(h) /\ net' = net /\ faults' = faults
             /\ \E q :
                  /\ PcbOK(q) /\ pcb' = [pcb EXCEPT ![h] = q]
                  /\ \/ /\ p.rcv_q # <<>> /\ Reads(p, q, n)
                        /\ app' = [app EXCEPT ![h].got = @ \o Part(p.rcv_q, 0, n)]
                     \/ /\ p.rcv_q = <<>> /\ p.state = "CLOSE_WAIT" /\ q = p
                        /\ app' = [app EXCEPT ![h].eof = TRUE]
                     \/ /\ p.rcv_q = <<>> /\ p.state \in {"SYN_RCVD", "ESTABLISHED"}
                        /\ Waits(p, q, "recv") /\ app' = app
<1> DEFINE p == pcb[h]
           l == Part(p.rcv_q, n, Len(p.rcv_q))
           c == "recv"
<1>1. /\ PcbOK(p) /\ p \in PcbRec /\ p.rcv_q \in Seq(Nat) /\ Len(p.rcv_q) \in Nat
      /\ Len(p.rcv_q) <= MAXRCV /\ MAXRCV \in Nat /\ c \in Calls /\ n \in Nat
      /\ pcb = [pcb EXCEPT ![h] = p] /\ p.acknow \in BOOLEAN /\ p.delack \in BOOLEAN
  <2>1. pcb \in [Host -> PcbRec] /\ PcbOK(p)
    BY DEF TypeInv, BlockOK
  <2> QED
    BY <2>1, PcbFields, TCPAssumption DEF PcbOK, Calls
<1>2. Uses(h) /\ net' = net /\ faults' = faults
  BY DEF Recv
<1>3. CASE /\ p.rcv_q # <<>> /\ app' = [app EXCEPT ![h].got = @ \o Part(p.rcv_q, 0, n)]
           /\ SetPcb(h, IF l # <<>> THEN [p EXCEPT !.rcv_q = l]
                        ELSE Sched([p EXCEPT !.rcv_q = l, !.acknow = @ \/ p.delack]))
  <2> DEFINE a == p.acknow \/ p.delack
             x == [p EXCEPT !.rcv_q = l]
             y == [p EXCEPT !.rcv_q = l, !.acknow = a, !.needoutput = TRUE]
  <2>1. pcb' = [pcb EXCEPT ![h] = x] \/ pcb' = [pcb EXCEPT ![h] = y]
    BY <1>3 DEF SetPcb, Sched
  <2>2. l \in Seq(Nat) /\ Len(l) \in Nat /\ Len(l) <= Len(p.rcv_q) /\ a \in BOOLEAN
    BY <1>1, DropLemma
  <2>3. l = Part(p.rcv_q, n, Len(p.rcv_q))
    OBVIOUS
  <2> HIDE DEF l, a
  <2>4. Len(l) <= MAXRCV
    <3> DEFINE i == Len(l)
               j == Len(p.rcv_q)
    <3>1. i \in Nat /\ j \in Nat /\ i <= j /\ j <= MAXRCV /\ MAXRCV \in Nat
      BY <1>1, <2>2
    <3> HIDE DEF i, j
    <3>2. i <= MAXRCV
      BY <3>1
    <3> QED BY <3>2 DEF i
  <2> HIDE DEF p
  <2>5. x \in PcbRec /\ Reads(p, x, n) /\ x.rcv_q = l /\ x.snd_q = p.snd_q
    BY <1>1, <2>2, <2>3 DEF PcbRec, Reads, SendSame
  <2>6. y \in PcbRec /\ Reads(p, y, n) /\ y.rcv_q = l /\ y.snd_q = p.snd_q
    BY <1>1, <2>2, <2>3 DEF PcbRec, Reads, SendSame
  <2> HIDE DEF x, y
  <2>7. PcbOK(x) /\ PcbOK(y)
    BY <1>1, <2>4, <2>5, <2>6 DEF PcbOK
  <2> QED
    BY <1>2, <1>3, <2>1, <2>5, <2>6, <2>7 DEF p
<1>4. CASE /\ p.rcv_q = <<>> /\ p.state = "CLOSE_WAIT"
           /\ app' = [app EXCEPT ![h].eof = TRUE] /\ UNCHANGED pcb
  <2>1. pcb' = [pcb EXCEPT ![h] = p]
    BY <1>1, <1>4
  <2> QED
    BY <1>1, <1>2, <1>4, <2>1
<1>5. CASE /\ p.rcv_q = <<>> /\ p.state \in {"SYN_RCVD", "ESTABLISHED"}
           /\ SetPcb(h, [p EXCEPT !.blocked = "recv"]) /\ UNCHANGED app
  <2> DEFINE q == [p EXCEPT !.blocked = c]
  <2> HIDE DEF c
  <2>1. PcbOK(q) /\ Waits(p, q, c)
    BY <1>1, CallUpdate
  <2>2. pcb' = [pcb EXCEPT ![h] = q] /\ app' = app
    BY <1>5 DEF SetPcb, c
  <2> HIDE DEF q
  <2> QED
    BY <1>2, <1>5, <2>1, <2>2 DEF c
<1> QED
  BY <1>3, <1>4, <1>5 DEF Recv

(* The control block of an active open (tcp_connect). *)
LEMMA ConnectLemma ==
  ASSUME TypeInv, Connect
  PROVE  LET h == "client"
         IN  /\ app[h].phase = "start" /\ net' = net /\ faults' = faults
             /\ app' = [app EXCEPT ![h].phase = "open", ![h].opens = @ + 1]
             /\ \E q :
                  /\ BlockOK(q) /\ pcb' = [pcb EXCEPT ![h] = q]
                  /\ q.state = "SYN_SENT" /\ q.blocked = "connect" /\ q.snd_wnd = 1
                  /\ q.snd_seq = Seq32((app[h].opens + 1) * ISS_STEP)
                  /\ q.snd_off = 0 /\ q.snd_max = 0 /\ q.snd_q = <<>> /\ q.rcv_q = <<>>
                  /\ ~q.delack /\ ~q.sentfin /\ ~q.rxmt_tmr
<1> DEFINE h  == "client"
           k  == (app[h].opens + 1) * ISS_STEP
           i  == Seq32(k)
           w  == 1
           st == "SYN_SENT"
           c  == "connect"
           q  == [NewPcb EXCEPT !.state = st, !.snd_wnd = w, !.snd_seq = i, !.blocked = c,
                                !.needoutput = TRUE]
<1>1. /\ app[h].phase = "start" /\ net' = net /\ faults' = faults
      /\ app' = [app EXCEPT ![h].phase = "open", ![h].opens = @ + 1]
      /\ pcb' = [pcb EXCEPT ![h] = q]
  BY DEF Connect, SetPcb, Sched, iss
<1>2. k \in Int /\ w \in 0 .. MAXRCV /\ st \in TCPS /\ c \in Calls
  <2>1. app[h].opens \in Nat
    BY DEF TypeInv, AppRec, Host
  <2> QED
    BY <2>1, TCPAssumption DEF TCPS, Calls
<1>3. i \in Seqs
  <2> HIDE DEF k
  <2> QED BY <1>2, Seq32Type
<1>4. /\ NewPcb \in PcbRec /\ NewPcb.snd_q = <<>> /\ NewPcb.rcv_q = <<>>
      /\ NewPcb.snd_off = 0 /\ NewPcb.snd_max = 0
      /\ ~NewPcb.delack /\ ~NewPcb.sentfin /\ ~NewPcb.rxmt_tmr
  BY NewPcbOK DEF PcbOK, NewPcb
<1>5. i = Seq32((app[h].opens + 1) * ISS_STEP) /\ st = "SYN_SENT" /\ w = 1 /\ c = "connect"
  OBVIOUS
<1> HIDE DEF i, w, st, c
<1>6. /\ q \in PcbRec /\ q.state = st /\ q.snd_q = <<>> /\ q.rcv_q = <<>>
      /\ q.blocked = c /\ q.snd_off = 0 /\ q.snd_max = 0 /\ q.snd_wnd = w
      /\ q.snd_seq = i
      /\ ~q.delack /\ ~q.sentfin /\ ~q.rxmt_tmr
  BY <1>2, <1>3, <1>4 DEF PcbRec
<1> HIDE DEF q
<1>7. BlockOK(q)
  BY <1>5, <1>6, EmptyQueue DEF BlockOK, PcbOK, Quiet
<1> QED
  BY <1>1, <1>5, <1>6, <1>7

(* The three ways of tcp_close(). *)
LEMMA CloseCallLemma ==
  ASSUME TypeInv, NEW h \in Host, CloseCall(h)
  PROVE  LET p == pcb[h]
         IN  /\ Uses(h) /\ net' = net /\ faults' = faults
             /\ app' = [app EXCEPT ![h].phase = "done"]
             /\ \E q :
                  /\ PcbOK(q) /\ pcb' = [pcb EXCEPT ![h] = q]
                  /\ \/ p.state = "CLOSED" /\ q = FreePcb
                     \/ /\ p.state \in {"SYN_RCVD", "ESTABLISHED"} /\ q.state = "FIN_WAIT_1"
                        /\ SendSame(p, q) /\ RecvSame(p, q) /\ q.snd_wnd = p.snd_wnd
                        /\ q.sentfin = p.sentfin /\ q.delack = p.delack /\ q.blocked = p.blocked
                     \/ /\ p.state = "CLOSE_WAIT" /\ q.state = "LAST_ACK"
                        /\ q.snd_q = <<>> /\ q.rcv_q = <<>> /\ q.snd_wnd = p.snd_wnd
                        /\ q.snd_seq = p.snd_seq /\ q.rcv_nxt = p.rcv_nxt /\ q.blocked = p.blocked
<1> DEFINE p == pcb[h]
           n == Len(p.snd_q)
           o == Off16(p.snd_off - n)
           m == Off16(p.snd_max - n)
           s1 == "FIN_WAIT_1"
           s2 == "LAST_ACK"
           x == [p EXCEPT !.state = s1, !.acknow = TRUE, !.needoutput = TRUE]
           y == [p EXCEPT !.state = s2, !.acknow = TRUE, !.snd_off = o, !.snd_max = m,
                          !.snd_q = <<>>, !.rcv_q = <<>>, !.needoutput = TRUE]
<1>1. PcbOK(p) /\ p \in PcbRec /\ p.snd_off \in Int /\ p.snd_max \in Int /\ n \in Int
      /\ s1 \in TCPS /\ s2 \in TCPS
  <2>1. PcbOK(p)
    BY DEF TypeInv, BlockOK
  <2>2. p \in PcbRec /\ s1 \in TCPS /\ s2 \in TCPS
    BY <2>1 DEF PcbOK, TCPS
  <2> HIDE DEF p, s1, s2
  <2>3. p.snd_off \in Int /\ p.snd_max \in Int /\ n \in Int
    BY <2>1, PcbFields DEF Offs
  <2> QED
    BY <2>1, <2>2, <2>3
<1>2. o \in Offs /\ m \in Offs
  <2> HIDE DEF n, p
  <2>1. p.snd_off - n \in Int /\ p.snd_max - n \in Int
    BY <1>1
  <2> QED BY <2>1, Off16Type
<1>3. Uses(h) /\ net' = net /\ faults' = faults /\ app' = [app EXCEPT ![h].phase = "done"]
  BY DEF CloseCall
<1>4. \/ p.state = "CLOSED" /\ pcb' = [pcb EXCEPT ![h] = FreePcb]
      \/ p.state \in {"SYN_RCVD", "ESTABLISHED"} /\ pcb' = [pcb EXCEPT ![h] = x]
      \/ p.state = "CLOSE_WAIT" /\ pcb' = [pcb EXCEPT ![h] = y]
  BY DEF CloseCall, SetPcb, Sched
<1> HIDE DEF o, m, n
<1>5. /\ x \in PcbRec /\ x.state = "FIN_WAIT_1"
      /\ SendSame(p, x) /\ RecvSame(p, x) /\ x.snd_wnd = p.snd_wnd
      /\ x.sentfin = p.sentfin /\ x.delack = p.delack /\ x.blocked = p.blocked
  <2>1. s1 = "FIN_WAIT_1"
    OBVIOUS
  <2> HIDE DEF p, s1
  <2> QED BY <1>1, <2>1 DEF PcbRec, SendSame, RecvSame
<1>6. /\ y \in PcbRec /\ y.state = "LAST_ACK"
      /\ y.snd_q = <<>> /\ y.rcv_q = <<>> /\ y.snd_wnd = p.snd_wnd
      /\ y.snd_seq = p.snd_seq /\ y.rcv_nxt = p.rcv_nxt /\ y.blocked = p.blocked
  <2>1. s2 = "LAST_ACK"
    OBVIOUS
  <2> HIDE DEF p, s2
  <2> QED BY <1>1, <1>2, <2>1, EmptyQueue DEF PcbRec
<1> HIDE DEF x, y
<1>7. PcbOK(x) /\ PcbOK(y)
  BY <1>1, <1>5, <1>6, EmptyQueue DEF PcbOK, SendSame, RecvSame
<1> QED
  BY <1>3, <1>4, <1>5, <1>6, <1>7, FreePcbOK

(* The calls of the application keep the types. *)
LEMMA CallsType ==
  ASSUME TypeInv,
         Connect \/ Accept \/ \E h \in Host : Send(h) \/ CloseCall(h) \/ \E n \in 1 .. MAXRCV : Recv(h, n)
  PROVE  TypeInv'
<1>1. /\ app \in [Host -> AppRec] /\ faults \in Nat
      /\ \A h \in Host : BlockOK(pcb[h]) /\ pcb = [pcb EXCEPT ![h] = pcb[h]]
  BY DEF TypeInv
<1>2. net' = net => NetType /\ \A g \in Host : \A m \in net'[g] : SegOK(m)
  BY DEF TypeInv, NetType
<1>3. "start" \in Phases /\ "open" \in Phases /\ "done" \in Phases /\ "client" \in Host /\ "server" \in Host
  BY DEF Phases, Host
<1>4. CASE Connect
  <2> DEFINE h == "client"
             n == app[h].opens + 1
             f == "open"
  <2>1. /\ net' = net /\ faults' = faults
        /\ app' = [[app EXCEPT ![h].phase = f] EXCEPT ![h].opens = n]
    <3>1. net' = net /\ faults' = faults /\ app' = [app EXCEPT ![h].phase = "open", ![h].opens = @ + 1]
      BY <1>4 DEF Connect
    <3>2. app[h] \in AppRec /\ h \in DOMAIN app
      BY <1>1, <1>3
    <3>3. [app EXCEPT ![h].phase = "open"][h].opens = app[h].opens
      BY <3>2 DEF AppRec
    <3> QED BY <3>1, <3>3
  <2>2. PICK q : BlockOK(q) /\ pcb' = [pcb EXCEPT ![h] = q]
    BY <1>4, ConnectLemma
  <2>3. app' \in [Host -> AppRec]
    <3>1. n \in Nat /\ f \in Phases /\ h \in Host
      BY <1>1, <1>3, AppType
    <3> HIDE DEF n, f, h
    <3> DEFINE a == app[h]
               b == [a EXCEPT !.phase = f, !.opens = n]
    <3>2. a \in AppRec
      BY <1>1, <3>1
    <3>3. app' = [app EXCEPT ![h] = b]
      BY <1>1, <2>1, <3>1
    <3> HIDE DEF a
    <3>4. b \in AppRec
      BY <3>1, <3>2 DEF AppRec
    <3> HIDE DEF b
    <3> QED BY <1>1, <3>1, <3>3, <3>4
  <2> QED
    BY <1>1, <1>2, <1>3, <2>1, <2>2, <2>3, TypeStep
<1>5. CASE Accept
  <2> DEFINE h == "server"
             f == "open"
  <2>1. app' = [app EXCEPT ![h].phase = f] /\ pcb' = pcb /\ net' = net /\ faults' = faults
    BY <1>5 DEF Accept
  <2>2. f \in Phases /\ h \in Host
    BY <1>3
  <2> HIDE DEF f, h
  <2>3. app' \in [Host -> AppRec]
    BY <1>1, <2>1, <2>2, AppType
  <2>4. pcb' = [pcb EXCEPT ![h] = pcb[h]] /\ BlockOK(pcb[h])
    BY <1>1, <2>1, <2>2
  <2> QED
    BY <1>1, <1>2, <2>1, <2>2, <2>3, <2>4, TypeStep
<1>6. ASSUME NEW h \in Host, Send(h)
      PROVE  TypeInv'
  <2> DEFINE p == pcb[h]
  <2>1. net' = net /\ faults' = faults
    BY <1>6, SendLemma
  <2>2. PICK q : /\ PcbOK(q) /\ pcb' = [pcb EXCEPT ![h] = q]
                 /\ \/ Waits(p, q, "send") /\ app' = app
                    \/ /\ p.state = "ESTABLISHED" /\ Queued(p, q, app[h].sent + 1)
                       /\ app' = [app EXCEPT ![h].sent = @ + 1]
    BY <1>6, SendLemma
  <2>3. BlockOK(q)
    <3>1. BlockOK(p)
      BY <1>1
    <3>2. CASE Waits(p, q, "send")
      <4>1. p.state # "FREE"
        BY <1>6 DEF Send
      <4> HIDE DEF p
      <4> QED BY <2>2, <3>1, <3>2, <4>1 DEF BlockOK, Quiet, Waits, SendSame, RecvSame
    <3>3. CASE p.state = "ESTABLISHED" /\ Queued(p, q, app[h].sent + 1)
      <4> HIDE DEF p
      <4> QED BY <2>2, <3>3 DEF BlockOK, Quiet, Queued, Early
    <3> QED BY <2>2, <3>2, <3>3
  <2>4. app' \in [Host -> AppRec]
    <3> DEFINE b == app[h].sent + 1
    <3>1. app' = app \/ app' = [app EXCEPT ![h].sent = b]
      BY <2>2
    <3>2. b \in Nat
      BY <1>1, AppType
    <3> HIDE DEF b
    <3>3. [app EXCEPT ![h].sent = b] \in [Host -> AppRec]
      BY <1>1, <3>2, AppType
    <3> QED BY <1>1, <3>1, <3>3
  <2> QED
    BY <1>1, <1>2, <2>1, <2>2, <2>3, <2>4, TypeStep
<1>7. ASSUME NEW h \in Host, CloseCall(h)
      PROVE  TypeInv'
  <2> DEFINE p == pcb[h]
             f == "done"
  <2>1. net' = net /\ faults' = faults /\ app' = [app EXCEPT ![h].phase = f]
    BY <1>7, CloseCallLemma
  <2>2. PICK q : /\ PcbOK(q) /\ pcb' = [pcb EXCEPT ![h] = q]
                 /\ q = FreePcb \/ q.state \in {"FIN_WAIT_1", "LAST_ACK"}
    BY <1>7, CloseCallLemma
  <2>3. BlockOK(q)
    BY <2>2, FreePcbOK DEF BlockOK, Quiet, Gone, Early
  <2>4. app' \in [Host -> AppRec]
    <3>1. f \in Phases
      BY <1>3
    <3> HIDE DEF f
    <3> QED BY <1>1, <2>1, <3>1, AppType
  <2> QED
    BY <1>1, <1>2, <2>1, <2>2, <2>3, <2>4, TypeStep
<1>8. ASSUME NEW h \in Host, NEW n \in 1 .. MAXRCV, Recv(h, n)
      PROVE  TypeInv'
  <2> DEFINE p == pcb[h]
             g == app[h].got \o Part(p.rcv_q, 0, n)
  <2>1. net' = net /\ faults' = faults
    BY <1>8, RecvLemma
  <2>2. PICK q : /\ PcbOK(q) /\ pcb' = [pcb EXCEPT ![h] = q]
                 /\ \/ p.rcv_q # <<>> /\ Reads(p, q, n) /\ app' = [app EXCEPT ![h].got = g]
                    \/ q = p /\ app' = [app EXCEPT ![h].eof = TRUE]
                    \/ /\ p.state \in {"SYN_RCVD", "ESTABLISHED"} /\ Waits(p, q, "recv")
                       /\ app' = app
    BY <1>8, RecvLemma
  <2>3. BlockOK(q)
    <3>1. BlockOK(p)
      BY <1>1
    <3> HIDE DEF p
    <3>2. CASE p.rcv_q # <<>> /\ Reads(p, q, n)
      BY <2>2, <3>1, <3>2 DEF BlockOK, Quiet, Reads, Early
    <3>3. CASE p.state \in {"SYN_RCVD", "ESTABLISHED"} /\ Waits(p, q, "recv")
      BY <2>2, <3>1, <3>3 DEF BlockOK, Quiet, Waits, SendSame, RecvSame
    <3> QED BY <2>2, <3>1, <3>2, <3>3
  <2>4. app' \in [Host -> AppRec]
    <3>1. g \in Seq(Nat)
      <4>1. app[h].got \in Seq(Nat)
        BY <1>1 DEF AppRec
      <4>2. p.rcv_q \in Seq(Nat) /\ n \in Nat
        <5>1. PcbOK(p)
          BY <1>1 DEF BlockOK
        <5> HIDE DEF p
        <5> QED BY <5>1, PcbFields, TCPAssumption
      <4>3. Part(p.rcv_q, 0, n) \in Seq(Nat)
        BY <4>2, TakeLemma
      <4> QED BY <4>1, <4>3, ConcatProperties
    <3>2. \/ app' = app \/ app' = [app EXCEPT ![h].eof = TRUE]
          \/ app' = [app EXCEPT ![h].got = g]
      BY <2>2
    <3> HIDE DEF g
    <3>3. /\ [app EXCEPT ![h].eof = TRUE] \in [Host -> AppRec]
          /\ [app EXCEPT ![h].got = g] \in [Host -> AppRec]
      BY <1>1, <3>1, AppType
    <3> QED BY <1>1, <3>2, <3>3
  <2> QED
    BY <1>1, <1>2, <2>1, <2>2, <2>3, <2>4, TypeStep
<1> QED
  BY <1>4, <1>5, <1>6, <1>7, <1>8

(* The first state has the types. *)
LEMMA InitType == Init => TypeInv
<1> SUFFICES ASSUME Init PROVE TypeInv
  OBVIOUS
<1>1. BlockOK(FreePcb) /\ FreePcb \in PcbRec
  BY FreePcbOK DEF BlockOK, Quiet, Gone, PcbOK
<1>2. pcb \in [Host -> PcbRec] /\ \A h \in Host : BlockOK(pcb[h])
  BY <1>1 DEF Init
<1>3. net \in [Host -> SUBSET SegRec] /\ (\A h \in Host : \A m \in net[h] : SegOK(m)) /\ faults \in Nat
  BY DEF Init
<1>4. app \in [Host -> AppRec]
  <2>1. PICK sends \in SENDS :
          app = [h \in Host |-> [phase |-> "start", opens |-> 0, sends |-> sends[h],
                                 sent |-> 0, got |-> <<>>, eof |-> FALSE]]
    BY DEF Init
  <2>2. \A h \in Host : sends[h] \in Nat
    BY TCPAssumption
  <2>3. <<>> \in Seq(Nat) /\ "start" \in Phases
    BY EmptyQueue DEF Phases
  <2> QED
    BY <2>1, <2>2, <2>3 DEF AppRec
<1> QED
  BY <1>2, <1>3, <1>4 DEF TypeInv

(* A lost segment is one for nobody. *)
LEMMA LoseLemma ==
  ASSUME TypeInv, NEW h \in Host, NEW s \in net[h], Lose(h, s)
  PROVE  NetType /\ DropStep(h) /\ Fewer(Peer(h)) /\ faults' = faults
<1>1. /\ pcb' = pcb /\ app' = app /\ faults' = faults /\ net' = Without(h, s)
      /\ Peer(h) \in Host
  BY PeerLemma DEF Lose
<1> QED
  BY <1>1, WithoutLemma DEF NetType, DropStep, Fewer, OnlyResets

(* Every step keeps the types. *)
LEMMA NextType == TypeInv /\ [Next]_vars => TypeInv'
<1> SUFFICES ASSUME TypeInv, [Next]_vars PROVE TypeInv'
  OBVIOUS
<1>1. CASE UNCHANGED vars
  BY <1>1 DEF vars, TypeInv
<1>2. CASE Connect \/ Accept \/ \E h \in Host : Send(h) \/ CloseCall(h) \/ \E n \in 1 .. MAXRCV : Recv(h, n)
  BY <1>2, CallsType
<1>3. ASSUME NEW h \in Host, Output(h) PROVE TypeInv'
  BY <1>3, OutputType
<1>4. ASSUME NEW h \in Host, OutputFails(h) PROVE TypeInv'
  BY <1>4, OutputFailsLemma
<1>5. ASSUME NEW h \in Host, FastTimeout(h) \/ RxmtTimeout(h) \/ IdleTimeout(h) PROVE TypeInv'
  BY <1>5, TimersType
<1>6. ASSUME NEW h \in Host, NEW s \in net[h], Receive(h, s) PROVE TypeInv'
  BY <1>6, ReceiveType
<1>7. ASSUME NEW h \in Host, NEW s \in net[h], Lose(h, s) PROVE TypeInv'
  <2>1. NetType /\ DropStep(h) /\ faults' = faults
    BY <1>7, LoseLemma
  <2>2. \A g \in Host : \A m \in net'[g] : SegOK(m)
    BY <2>1, NetStep DEF DropStep
  <2>3. /\ pcb' = [pcb EXCEPT ![h] = pcb[h]] /\ app' \in [Host -> AppRec] /\ faults' \in Nat
        /\ BlockOK(pcb[h])
    BY <2>1 DEF DropStep, TypeInv
  <2> QED
    BY <2>1, <2>2, <2>3, TypeStep
<1> QED
  BY <1>1, <1>2, <1>3, <1>4, <1>5, <1>6, <1>7 DEF Next

(***************************************************************************)
(* Every step of tcp_input(), tcp_output(), the timers and the calls keeps *)
(* the state, the sequence numbers and both queues in range: the receive   *)
(* queue never holds more than tcp_maxrcv, whatever the peer sends.        *)
(***************************************************************************)
THEOREM TypesHold == Spec => []TypeOK
<1>1. Init => TypeInv
  BY InitType
<1>2. TypeInv /\ [Next]_vars => TypeInv'
  BY NextType
<1>3. TypeInv => TypeOK
  <2> SUFFICES ASSUME TypeInv, NEW h \in Host
               PROVE  /\ pcb[h].state \in TCPS
                      /\ {pcb[h].snd_seq, pcb[h].rcv_nxt} \subseteq 0 .. SEQ_MOD - 1
                      /\ Len(pcb[h].snd_q) <= MAXSND
                      /\ Len(pcb[h].rcv_q) <= MAXRCV
    BY DEF TypeOK
  <2> DEFINE p == pcb[h]
  <2>1. PcbOK(p)
    BY DEF TypeInv, BlockOK
  <2> HIDE DEF p
  <2>2. p.state \in TCPS /\ p.snd_seq \in Seqs /\ p.rcv_nxt \in Seqs
    BY <2>1, PcbFields
  <2>3. Len(p.snd_q) <= MAXSND /\ Len(p.rcv_q) <= MAXRCV
    BY <2>1 DEF PcbOK
  <2> QED
    BY <2>2, <2>3 DEF p, Seqs
<1> QED
  BY <1>1, <1>2, <1>3, PTL DEF Spec

--------------------------------------------------------------------------------
(* A connection that is being opened or open. *)
Opening == {"SYN_SENT", "SYN_RCVD", "ESTABLISHED"}

(* What was sent and not acknowledged will be sent again, or the code has given up. *)
TimerOK(p) ==
  /\ p.snd_off <= p.snd_max
  /\ p.snd_max > 0 => p.rxmt_tmr \/ p.rxmt_cnt > MAXRXMTS

(* The control block's part of DataIsDue. *)
DueOK(p) ==
  /\ p.state \in Active => p.snd_wnd >= 1
  /\ p.state \in Opening => TimerOK(p)
  /\ p.state = "ESTABLISHED" /\ p.snd_q # <<>> =>
       p.needoutput \/ p.delack \/ p.rxmt_tmr \/ p.rxmt_cnt > MAXRXMTS

(* A segment of an opening or open connection sets the timer (Sent). *)
LEMMA SentTimer ==
  ASSUME NEW x, PcbOK(x), Quiet(x), x.state \in Opening, TimerOK(x)
  PROVE  LET r == Sent(x, SegLen(x), SegFlags(x))
         IN  /\ PcbOK(r) /\ Kept(x, r) /\ TimerOK(r)
             /\ x.state = "ESTABLISHED" => r.snd_max >= x.snd_max
             /\ SegLen(x) > 0 => r.rxmt_tmr
             /\ x.state = "SYN_SENT" /\ x.snd_off + 1 < OFF_MOD =>
                  r.snd_off = x.snd_off + 1 /\ r.snd_max = MaxOf(x.snd_off + 1, x.snd_max)
<1> DEFINE len == SegLen(x)
           fl  == SegFlags(x)
           r   == Sent(x, len, fl)
           e   == SentEnd(x, len, fl)
           n   == Len(x.snd_q)
           k   == Counted(fl)
           M   == MaxOf(e, x.snd_max)
<1>1. /\ x.snd_off \in Offs /\ x.snd_max \in Offs /\ n \in Nat /\ n <= MAXSND /\ x.state \in TCPS
      /\ x.rxmt_tmr \in BOOLEAN /\ x.rxmt_cnt \in Nat
  BY PcbFields, TCPAssumption DEF PcbOK
<1>2. MAXSND \in Nat /\ OFF_MOD \in Nat /\ MAXSND < OFF_MOD
  BY TCPAssumption
<1>3. len \in Nat /\ fl \in FlagsOf(x) /\ (len > 0 => x.snd_off + len <= n)
  <2>1. len \in 0 .. MAXSEG /\ Limit(x) \in 0 .. n /\ (len > 0 => x.snd_off + len <= Limit(x))
    BY SegLenLemma
  <2>2. MAXSEG \in Nat /\ x.snd_off \in Nat
    BY <1>1, TCPAssumption DEF Offs
  <2> HIDE DEF len, n
  <2>3. len \in Nat /\ (len > 0 => x.snd_off + len <= n)
    BY <1>1, <2>1, <2>2
  <2> QED
    BY <2>3, SegFlagsLemma
<1>4. "FIN" \notin fl
  BY <1>1, <1>3, FlagsLemma DEF FlagsOf, Opening
<1>5. k \in 0 .. 1 /\ (x.state = "ESTABLISHED" => k = 0) /\ (x.state = "SYN_SENT" => k = 1)
  <2>1. "SYN" \in fl <=> x.state \in {"SYN_SENT", "SYN_RCVD"}
    BY <1>1, <1>3, FlagsLemma DEF FlagsOf
  <2>2. "SYN" \notin fl => {"SYN", "FIN"} \cap fl = {}
    BY <1>4
  <2> QED
    BY <1>3, <2>1, <2>2, CountedLemma
<1>6. x.state # "ESTABLISHED" => n = 0
  BY DEF Quiet, Early, Opening
<1> HIDE DEF len, n
<1>7. /\ e \in Nat /\ e = x.snd_off + k + len
      /\ PcbOK(r) /\ Kept(x, r)
      /\ r.snd_off = Off16(e) /\ r.snd_max = Off16(M)
      /\ r.rxmt_tmr = (x.rxmt_tmr \/ e # 0)
      /\ x.rxmt_tmr \/ e = 0 => r.rxmt_cnt = x.rxmt_cnt
  BY <1>3, <1>4, SentLemma
<1> DEFINE o == x.snd_off
           w == x.snd_max
<1>8. o \in Nat /\ o < OFF_MOD /\ w \in Nat /\ w < OFF_MOD /\ o <= w
  BY <1>1, <1>2 DEF Offs, TimerOK
<1>9. r.rxmt_tmr \in BOOLEAN /\ r.snd_max \in Nat
  BY <1>7, PcbFields DEF Offs
<1> HIDE DEF fl, r, e, k, o, w, M
<1>10. e = o + k + len /\ M = MaxOf(e, w)
  BY <1>7 DEF o, w, M
<1>11. len > 0 => o + len <= n
  BY <1>3 DEF o
<1>12. x.state # "ESTABLISHED" => len = 0
  BY <1>3, <1>6, <1>8, <1>11
<1>13. e <= OFF_MOD /\ (x.state = "ESTABLISHED" => e < OFF_MOD)
  BY <1>1, <1>2, <1>3, <1>5, <1>8, <1>10, <1>11, <1>12
<1>14. M \in Nat /\ M >= e /\ M >= w /\ (M = e \/ M = w)
  BY <1>7, <1>8, <1>10 DEF MaxOf
<1>15. e < OFF_MOD => r.snd_off = e /\ r.snd_max = M
  <2> HAVE e < OFF_MOD
  <2>1. e \in Offs /\ M \in Offs
    BY <1>2, <1>7, <1>8, <1>14 DEF Offs
  <2> QED
    BY <1>7, <2>1, Off16Small
<1>16. e = OFF_MOD => r.snd_off = 0
  <2>1. OFF_MOD % OFF_MOD = 0
    <3>1. OFF_MOD \in Nat \ {0} /\ 0 \in 0 .. OFF_MOD - 1 /\ OFF_MOD * 1 + 0 = OFF_MOD
      BY SeqMod
    <3>2. (OFF_MOD * 1 + 0) % OFF_MOD = 0
      BY <3>1, ModUnique
    <3> QED BY <3>1, <3>2
  <2> QED
    BY <1>7, <2>1 DEF Off16
<1>17. r.snd_off <= r.snd_max
  BY <1>2, <1>7, <1>9, <1>13, <1>14, <1>15, <1>16
<1>18. r.snd_max > 0 => r.rxmt_tmr \/ r.rxmt_cnt > MAXRXMTS
  <2>1. CASE e # 0
    BY <1>7, <2>1
  <2>2. CASE e = 0
    <3>1. r.snd_max = w /\ r.rxmt_cnt = x.rxmt_cnt /\ r.rxmt_tmr = x.rxmt_tmr
      BY <1>1, <1>2, <1>7, <1>8, <1>14, <1>15, <2>2
    <3> QED
      BY <3>1 DEF TimerOK, w
  <2> QED BY <2>1, <2>2
<1>19. x.state = "ESTABLISHED" => r.snd_max >= w
  BY <1>13, <1>14, <1>15
<1>20. len > 0 => r.rxmt_tmr
  <2>1. len > 0 => e # 0
    BY <1>3, <1>5, <1>8, <1>10
  <2> QED BY <1>7, <2>1
<1>21. x.state = "SYN_SENT" /\ o + 1 < OFF_MOD => r.snd_off = o + 1 /\ r.snd_max = MaxOf(o + 1, w)
  <2>1. x.state = "SYN_SENT" => e = o + 1
    BY <1>5, <1>8, <1>10, <1>12
  <2> QED
    BY <1>10, <1>15, <2>1
<1> QED
  BY <1>7, <1>17, <1>18, <1>19, <1>20, <1>21 DEF TimerOK, len, fl, r, o, w

(* Output leaves nothing behind that no timer looks after (tcp_output). *)
LEMMA OutputDue ==
  ASSUME NEW p, BlockOK(p), DueOK(p)
  PROVE  LET o == tcp_output(p).pcb
         IN  /\ o.state \in Active => o.snd_wnd >= 1
             /\ o.state \in Opening => TimerOK(o)
             /\ o.state = "ESTABLISHED" /\ o.snd_q # <<>> => o.rxmt_tmr \/ o.rxmt_cnt > MAXRXMTS
             /\ p.state = "SYN_SENT" /\ p.snd_off + 1 < OFF_MOD =>
                  /\ o.snd_off = p.snd_off + 1 /\ o.snd_max = MaxOf(p.snd_off + 1, p.snd_max)
                  /\ ~o.delack
<1> DEFINE o == tcp_output(p).pcb
           x == Last(p)
           r == Sent(x, SegLen(x), SegFlags(x))
           a == Acked(r)
<1>1. /\ PcbOK(p) /\ Quiet(p) /\ PcbOK(x) /\ Kept(p, x) /\ Kept(p, o)
      /\ \/ ~Due(x, p.snd_max = 0) /\ o = x
         \/ Due(x, p.snd_max = 0) /\ o = a
  BY OutputLemma DEF BlockOK
<1>2. o.state \in Active => o.snd_wnd >= 1
  BY <1>1 DEF Kept, DueOK
<1>3. CASE p.state \notin Opening
  <2>1. p.state # "SYN_SENT" /\ p.state # "ESTABLISHED"
    BY <1>3 DEF Opening
  <2> HIDE DEF o
  <2> QED BY <1>1, <1>2, <1>3, <2>1 DEF Kept, o
<1>4. CASE p.state \in Opening
  <2>1. p.snd_wnd >= 1 /\ TimerOK(p)
    BY <1>4 DEF DueOK, Opening, Active, TCPS
  <2>2. x = AfterFull(p)
    <3>1. p.snd_wnd # 0
      BY <1>1, <2>1, PcbFields
    <3> QED BY <1>1, <3>1, WindowShutLemma DEF Last
  <2> HIDE DEF x
  <2>3. /\ p.snd_off \in Nat /\ p.snd_max \in Nat /\ MAXSEG \in Nat /\ MAXSEG > 0
        /\ Limit(p) \in Nat /\ p.snd_wnd \in Nat /\ Len(p.snd_q) \in Nat
    BY <1>1, PcbFields, SegLenLemma, TCPAssumption DEF Offs
  <2>4. Room(p) \in Int /\ Room(p) = Limit(p) - p.snd_off
    BY <2>3 DEF Room
  <2>5. /\ Room(p) <= MAXSEG => x = p
        /\ Room(p) > MAXSEG =>
             /\ FullEnd(p) \in Nat /\ FullEnd(p) >= p.snd_off + MAXSEG
             /\ x.snd_off = FullEnd(p) /\ x.snd_max = MaxOf(FullEnd(p), p.snd_max) /\ x.rxmt_tmr
    BY <1>1, <2>2, AfterFullLemma
  <2>6. TimerOK(x) /\ x.snd_max >= p.snd_max /\ (Room(p) > MAXSEG => x.rxmt_tmr)
    <3>1. CASE Room(p) <= MAXSEG
      BY <2>1, <2>3, <2>4, <2>5, <3>1
    <3>2. CASE Room(p) > MAXSEG
      <4> DEFINE z == FullEnd(p)
      <4>1. /\ z \in Nat /\ x.snd_off = z /\ x.snd_max = MaxOf(z, p.snd_max) /\ x.rxmt_tmr
        BY <2>5, <3>2
      <4> HIDE DEF z
      <4>2. x.snd_max >= p.snd_max /\ x.snd_off <= x.snd_max
        BY <2>3, <4>1 DEF MaxOf
      <4> QED BY <4>1, <4>2 DEF TimerOK
    <3> QED BY <2>3, <2>4, <3>1, <3>2
  <2>7. Quiet(x) /\ x.state = p.state /\ x.state \in Opening
    BY <1>1, <1>4 DEF Kept, Quiet, RecvSame
  <2>8. /\ PcbOK(r) /\ Kept(x, r) /\ TimerOK(r)
        /\ x.state = "ESTABLISHED" => r.snd_max >= x.snd_max
        /\ SegLen(x) > 0 => r.rxmt_tmr
        /\ x.state = "SYN_SENT" /\ x.snd_off + 1 < OFF_MOD =>
             r.snd_off = x.snd_off + 1 /\ r.snd_max = MaxOf(x.snd_off + 1, x.snd_max)
    BY <1>1, <2>6, <2>7, SentTimer
  <2> HIDE DEF r
  <2>9. SendSame(r, a) /\ ~a.delack /\ PcbOK(a)
    BY <2>8, AckedFields
  <2> HIDE DEF a, o
  <2>10. TimerOK(a) /\ a.rxmt_tmr = r.rxmt_tmr /\ a.snd_max = r.snd_max /\ a.snd_off = r.snd_off
    BY <2>8, <2>9 DEF TimerOK, SendSame
  <2>11. TimerOK(o)
    BY <1>1, <2>6, <2>10
  <2>12. ASSUME p.state = "ESTABLISHED", p.snd_q # <<>>
         PROVE  o.rxmt_tmr \/ o.rxmt_cnt > MAXRXMTS
    <3>1. CASE p.snd_max > 0
      <4>1. o.snd_max \in Nat /\ x.snd_max \in Nat /\ r.snd_max \in Nat
        BY <1>1, <2>8, <2>9, PcbFields DEF Offs
      <4>2. o.snd_max = x.snd_max \/ o.snd_max = r.snd_max
        BY <1>1, <2>10
      <4>3. x.snd_max >= p.snd_max /\ r.snd_max >= x.snd_max
        BY <2>6, <2>7, <2>8, <2>12
      <4>4. o.snd_max > 0
        BY <2>3, <3>1, <4>1, <4>2, <4>3
      <4> QED BY <2>11, <4>4 DEF TimerOK
    <3>2. CASE p.snd_max = 0 /\ Room(p) > MAXSEG
      <4>1. x.rxmt_tmr
        BY <2>6, <3>2
      <4>2. r.rxmt_tmr
        <5>1. x.rxmt_tmr \in BOOLEAN /\ SegLen(x) \in Nat /\ SegFlags(x) \in FlagsOf(x)
          BY <1>1, PcbFields, SegLenLemma, SegFlagsLemma
        <5>2. r.rxmt_tmr = (x.rxmt_tmr \/ SentEnd(x, SegLen(x), SegFlags(x)) # 0)
          BY <1>1, <5>1, SentLemma DEF r
        <5> QED BY <4>1, <5>2
      <4> QED BY <1>1, <2>10, <4>1, <4>2
    <3>3. CASE p.snd_max = 0 /\ Room(p) <= MAXSEG
      <4> DEFINE n == Len(p.snd_q)
                 l == SegLen(p)
      <4>1. x = p /\ p.snd_off = 0
        BY <2>1, <2>3, <2>5, <3>3 DEF TimerOK
      <4>2. n > 0
        <5>1. p.snd_q \in Seq(Nat)
          BY <1>1, PcbFields
        <5> QED BY <2>3, <2>12, <5>1, EmptySeq
      <4>3. /\ l \in 0 .. MAXSEG /\ (Limit(p) = n \/ Limit(p) = p.snd_wnd)
            /\ (l = 0 => Limit(p) <= p.snd_off) /\ (l > 0 => p.snd_off + l = Limit(p))
        BY <1>1, <3>3, SegLenLemma
      <4> HIDE DEF n, l
      <4>4. n \in Nat /\ p.snd_wnd \in Nat
        BY <2>3 DEF n
      <4>5. l > 0 /\ l = Limit(p)
        BY <2>1, <2>3, <4>1, <4>2, <4>3, <4>4
      <4>6. l + p.snd_off >= n \/ l >= p.snd_wnd \div 2
        <5>1. p.snd_wnd \div 2 <= p.snd_wnd
          BY <4>4
        <5> QED BY <2>3, <4>1, <4>3, <4>4, <4>5, <5>1
      <4>7. Due(x, p.snd_max = 0)
        <5>1. WorthSending(p, l, SegFlags(p), p.snd_max = 0)
          BY <3>3, <4>5, <4>6 DEF WorthSending, n
        <5> QED BY <4>1, <5>1 DEF Due, l
      <4>8. o = a /\ r.rxmt_tmr
        BY <1>1, <2>8, <4>1, <4>5, <4>7 DEF l
      <4> QED BY <2>10, <4>8
    <3> QED BY <2>3, <2>4, <3>1, <3>2, <3>3
  <2>13. ASSUME p.state = "SYN_SENT", p.snd_off + 1 < OFF_MOD
         PROVE  /\ o.snd_off = p.snd_off + 1 /\ o.snd_max = MaxOf(p.snd_off + 1, p.snd_max)
                /\ ~o.delack
    <3>1. Limit(p) = 0
      <4>1. p.snd_q = <<>>
        BY <1>1, <2>13 DEF Quiet, Early
      <4>2. Len(p.snd_q) = 0 /\ Limit(p) \in 0 .. Len(p.snd_q)
        BY <1>1, <4>1, SegLenLemma
      <4> QED BY <4>2
    <3>2. x = p
      BY <2>3, <2>4, <2>5, <3>1
    <3>3. Due(x, p.snd_max = 0)
      <4>1. SegFlags(p) \in FlagsOf(p) /\ p.state \in TCPS
        BY <1>1, SegFlagsLemma, PcbFields
      <4>2. "SYN" \in SegFlags(p)
        BY <2>13, <4>1, FlagsLemma DEF FlagsOf
      <4> QED BY <3>2, <4>2 DEF Due, WorthSending
    <3> QED BY <1>1, <2>8, <2>9, <2>10, <2>13, <3>2, <3>3
  <2> QED
    BY <1>1, <1>2, <2>11, <2>12, <2>13 DEF Kept, o
<1> QED
  BY <1>3, <1>4

--------------------------------------------------------------------------------
(* This side has closed. *)
Ended == {"FIN_WAIT_1"} \cup AfterFinWait1

(* tcp_send() waits for room, and has not missed that the peer has closed, *)
(* unless received data is unread.                                         *)
FullQueue(p) ==
  /\ Len(p.snd_q) >= MAXSND
  /\ p.state = "ESTABLISHED" \/ (p.state = "CLOSE_WAIT" /\ p.rcv_q # <<>>)

(* The control block's part of NoLostWakeup; nobody waits after tcp_close(). *)
WakeOK(p) ==
  /\ p.blocked = "connect" => p.state = "SYN_SENT"
  /\ p.blocked = "recv" => p.state \in {"SYN_RCVD", "ESTABLISHED"} /\ p.rcv_q = <<>>
  /\ p.blocked = "send" => p.state = "SYN_RCVD" \/ FullQueue(p)
  /\ p.state \in Ended => p.blocked = "none"

(* Without a segment from the peer, the handshake does not advance. *)
LocalStep(p, q) ==
  /\ q.state = "SYN_SENT" => p.state = "SYN_SENT"
  /\ q.state = "SYN_RCVD" => p.state = "SYN_RCVD" /\ q.snd_seq = p.snd_seq
  /\ q.state \notin Early => p.state \notin {"FREE", "CLOSED", "SYN_SENT"} /\ q.rcv_nxt = p.rcv_nxt
  /\ p.state = "FREE" => q.state = "FREE"
  /\ WakeOK(p) => WakeOK(q)
  /\ DueOK(p) => DueOK(q)

(* Neither the state nor the queues nor the caller changes. *)
Alike(p, q) ==
  /\ q.state = p.state /\ q.snd_seq = p.snd_seq /\ q.snd_q = p.snd_q
  /\ RecvSame(p, q) /\ q.blocked = p.blocked

(* Output, and the timers but the idle timer, leave alone what LocalStep is about. *)
LEMMA AlikeLemma ==
  /\ \A p, q : Kept(p, q) => Alike(p, q)
  /\ \A p, q : Alike(p, q) /\ (DueOK(p) => DueOK(q)) => LocalStep(p, q)
  /\ \A p, x, q : LocalStep(p, x) /\ Alike(x, q) /\ (DueOK(x) => DueOK(q)) => LocalStep(p, q)
  /\ \A p : Alike(p, p)
  BY DEF Kept, Alike, LocalStep, WakeOK, FullQueue, RecvSame, Early

(* What a host sends: resets, and segments of its own connection. *)
NewSegs(h, p) ==
  \A m \in net'[Peer(h)] :
    \/ m \in net[Peer(h)]
    \/ IsReset(m) /\ net[h] # {}
    \/ \E x : /\ BlockOK(x) /\ x.state # "FREE" /\ LocalStep(p, x)
              /\ x.state = pcb'[h].state
              /\ SentBy(x, OFF_MOD + MAXSEG, m)

(* At most one fault is counted in a step. *)
FaultStep == faults' = faults \/ (faults < FAULTS_MAX /\ faults' = faults + 1)

(* An active open before it is answered, about to send, and after it has sent. *)
SynPending(p, n) ==
  p.snd_max <= n + 1 /\ (p.needoutput => p.snd_off <= n) /\ ~p.delack

(* The SYN of an active open is counted once it may have been sent. *)
SynOK(p, n) == SynPending(p, n) /\ (p.snd_max > 0 => p.snd_off > 0)

(* What is in the network has been counted in snd_off, while that does not wrap. *)
SynStep(h, q) ==
  /\ q.state = "SYN_SENT" /\ DueOK(pcb[h]) /\ SynOK(pcb[h], faults)
  /\ faults <= FAULTS_MAX /\ FAULTS_MAX + 1 < OFF_MOD
  => /\ SynOK(q, faults')
     /\ pcb[h].snd_off > 0 => q.snd_off > 0
     /\ q.snd_off > 0 \/ Fewer(Peer(h))

(* A step of one host in which no segment gets to its control block. *)
QuietStep(h) ==
  /\ \E q : LocalStep(pcb[h], q) /\ SynStep(h, q) /\ pcb' = [pcb EXCEPT ![h] = q]
  /\ FaultStep
  /\ Fewer(h) /\ NewSegs(h, pcb[h])
  /\ \A g \in Host : app'[g].opens = app[g].opens /\ (app'[g].phase = "start" => app[g].phase = "start")

(* The block of an active open on its way to the output. *)
TurnSyn(p, n, x, k) ==
  x.state = "SYN_SENT" /\ SynOK(p, n) =>
    /\ SynPending(x, k)
    /\ ~x.needoutput => x.snd_off = p.snd_off /\ x.snd_max = p.snd_max

(* A turn of tcp_tmr_task() is such a step. *)
LEMMA TurnQuiet ==
  ASSUME TypeInv, NEW h \in Host, NEW x, BlockOK(x), LocalStep(pcb[h], x), app' = app,
         FaultStep, TurnSyn(pcb[h], faults, x, faults'),
         \/ x.needoutput /\ Transmit(h, x)
         \/ ~x.needoutput /\ pcb' = [pcb EXCEPT ![h] = x] /\ net' = net
  PROVE  QuietStep(h)
<1>1. CASE x.needoutput /\ Transmit(h, x)
  <2> DEFINE o == tcp_output(x).pcb
             q == [o EXCEPT !.needoutput = FALSE]
  <2>1. /\ Fewer(h) /\ OnlySent(Peer(h), x, OFF_MOD + MAXSEG)
        /\ pcb' = [pcb EXCEPT ![h] = q] /\ ~q.needoutput
        /\ Kept(x, o) /\ q.state = o.state /\ SendSame(o, q) /\ RecvSame(o, q) /\ q.blocked = o.blocked
        /\ q.snd_wnd = o.snd_wnd /\ q.delack = o.delack
    BY <1>1, TransmitLemma DEF BlockOK
  <2>2. DueOK(x) =>
          /\ o.state \in Active => o.snd_wnd >= 1
          /\ o.state \in Opening => TimerOK(o)
          /\ o.state = "ESTABLISHED" /\ o.snd_q # <<>> => o.rxmt_tmr \/ o.rxmt_cnt > MAXRXMTS
          /\ x.state = "SYN_SENT" /\ x.snd_off + 1 < OFF_MOD =>
               /\ o.snd_off = x.snd_off + 1 /\ o.snd_max = MaxOf(x.snd_off + 1, x.snd_max)
               /\ ~o.delack
    BY OutputDue
  <2> HIDE DEF o, q
  <2>3. Alike(x, q)
    BY <2>1 DEF Alike, Kept, SendSame, RecvSame
  <2>4. DueOK(x) => DueOK(q)
    BY <2>1, <2>2 DEF DueOK, SendSame, TimerOK
  <2>5. LocalStep(pcb[h], q)
    BY <2>3, <2>4, AlikeLemma
  <2>6. BlockOK(x) /\ x.state # "FREE" /\ x.state = pcb'[h].state
    <3>1. pcb'[h] = q
      BY <2>1 DEF TypeInv
    <3> QED BY <1>1, <2>3, <3>1 DEF BlockOK, Alike
  <2>7. NewSegs(h, pcb[h])
    BY <2>1, <2>6 DEF NewSegs, OnlySent
  <2>8. SynStep(h, q)
    <3> SUFFICES ASSUME q.state = "SYN_SENT", DueOK(pcb[h]), SynOK(pcb[h], faults),
                        faults <= FAULTS_MAX, FAULTS_MAX + 1 < OFF_MOD
                 PROVE  SynOK(q, faults') /\ q.snd_off > 0
      BY DEF SynStep
    <3>1. x.state = "SYN_SENT" /\ DueOK(x)
      BY <2>3 DEF Alike, LocalStep
    <3>2. x.snd_max <= faults' + 1 /\ x.snd_off <= faults'
      BY <1>1, <3>1 DEF TurnSyn, SynPending
    <3>3. faults \in Nat /\ FAULTS_MAX \in Nat /\ OFF_MOD \in Nat
      BY TCPAssumption DEF TypeInv
    <3>4. x.snd_off \in Nat /\ x.snd_max \in Nat
      BY PcbFields DEF BlockOK, Offs
    <3>5. faults' \in Nat /\ faults' <= FAULTS_MAX
      BY <3>3 DEF FaultStep
    <3>6. x.snd_off + 1 < OFF_MOD
      BY <3>2, <3>3, <3>4, <3>5
    <3>7. q.snd_off = x.snd_off + 1 /\ q.snd_max = MaxOf(x.snd_off + 1, x.snd_max) /\ ~q.delack
      BY <2>1, <2>2, <3>1, <3>6 DEF SendSame
    <3>8. q.snd_off > 0 /\ q.snd_max <= faults' + 1
      BY <3>2, <3>4, <3>5, <3>7 DEF MaxOf
    <3> QED BY <2>1, <3>7, <3>8 DEF SynOK, SynPending
  <2> QED
    BY <2>1, <2>5, <2>7, <2>8 DEF QuietStep
<1>2. CASE ~x.needoutput /\ pcb' = [pcb EXCEPT ![h] = x] /\ net' = net
  <2>1. SynStep(h, x)
    BY <1>2 DEF SynStep, TurnSyn, SynOK, SynPending, Fewer
  <2> QED BY <1>2, <2>1 DEF QuietStep, NewSegs, Fewer
<1> QED
  BY <1>1, <1>2

(* The control blocks of the timers. *)
LEMMA TimerLocal ==
  ASSUME NEW p, PcbOK(p)
  PROVE  /\ LocalStep(p, FastTmr(p))
         /\ LocalStep(p, RxmtTmr(FastTmr(p)))
         /\ p.state \in {"SYN_SENT", "SYN_RCVD", "FIN_WAIT_2", "TIME_WAIT"} =>
              LocalStep(p, IdleTmr(FastTmr(p))) /\ IdleTmr(FastTmr(p)).state # "SYN_SENT"
         /\ \A n, k \in Nat : n <= k => /\ TurnSyn(p, n, FastTmr(p), k)
                                       /\ TurnSyn(p, n, RxmtTmr(FastTmr(p)), k)
<1> DEFINE f == FastTmr(p)
           r == RxmtTmr(f)
           i == IdleTmr(f)
<1>1. /\ PcbOK(f) /\ f.state = p.state /\ SendSame(p, f) /\ RecvSame(p, f) /\ f.blocked = p.blocked
      /\ f.snd_wnd = p.snd_wnd /\ ((f = p /\ ~p.delack) \/ (p.delack /\ f.needoutput))
  BY FastTmrLemma
<1> HIDE DEF f
<1>2. /\ r.state = f.state /\ r.snd_q = f.snd_q /\ RecvSame(f, r) /\ r.blocked = f.blocked
      /\ r.snd_seq = f.snd_seq /\ r.snd_max = f.snd_max /\ r.snd_wnd = f.snd_wnd
      /\ r.delack = f.delack /\ r.rxmt_cnt = f.rxmt_cnt + 1
      /\ \/ r.rxmt_cnt > MAXRXMTS /\ r.snd_off = f.snd_off /\ r.needoutput = f.needoutput
         \/ r.snd_off = 0 /\ r.rxmt_tmr = f.rxmt_tmr /\ r.needoutput
  BY <1>1, RxmtTmrLemma
<1>3. /\ f.state \in {"SYN_SENT", "SYN_RCVD"} => Gone(i) /\ i.state = "CLOSED"
      /\ f.state = "FIN_WAIT_2" =>
           i.state = "TIME_WAIT" /\ RecvSame(f, i) /\ i.blocked = f.blocked /\ i.snd_wnd = f.snd_wnd
      /\ f.state = "TIME_WAIT" => Gone(i) /\ i.state = "FREE"
  BY <1>1, IdleTmrLemma, FreePcbOK
<1> HIDE DEF r, i
<1>4. Alike(p, f) /\ Alike(f, r)
  BY <1>1, <1>2 DEF Alike, SendSame
<1>5. DueOK(p) => DueOK(f)
  BY <1>1 DEF DueOK, TimerOK, SendSame
<1>6. DueOK(f) => DueOK(r)
  <2>1. f.snd_max \in Nat /\ f.rxmt_cnt \in Nat /\ MAXRXMTS \in Nat
    BY <1>1, PcbFields, TCPAssumption DEF Offs
  <2>2. r.rxmt_cnt \in Nat /\ (f.rxmt_cnt > MAXRXMTS => r.rxmt_cnt > MAXRXMTS)
    BY <1>2, <2>1
  <2>3. TimerOK(f) => TimerOK(r)
    BY <1>2, <2>1, <2>2 DEF TimerOK
  <2> QED BY <1>2, <2>2, <2>3 DEF DueOK
<1>7. p.state \in {"SYN_SENT", "SYN_RCVD"} => LocalStep(p, i)
  BY <1>1, <1>3 DEF LocalStep, Gone, WakeOK, FullQueue, Early, Ended, AfterFinWait1, DueOK, Active, Opening
<1>8. p.state = "FIN_WAIT_2" => LocalStep(p, i)
  BY <1>1, <1>3 DEF LocalStep, WakeOK, FullQueue, Early, Ended, AfterFinWait1, RecvSame, DueOK, Active,
                    Opening, TCPS
<1>9. p.state = "TIME_WAIT" => LocalStep(p, i)
  BY <1>1, <1>3 DEF LocalStep, Gone, WakeOK, FullQueue, Early, Ended, AfterFinWait1, DueOK, Active, Opening
<1>10. ASSUME NEW n \in Nat, NEW k \in Nat, n <= k
       PROVE  TurnSyn(p, n, f, k) /\ TurnSyn(p, n, r, k)
  <2> SUFFICES ASSUME p.state = "SYN_SENT", SynOK(p, n)
               PROVE  /\ SynPending(f, k) /\ SynPending(r, k)
                      /\ ~f.needoutput => f.snd_off = p.snd_off /\ f.snd_max = p.snd_max
                      /\ ~r.needoutput => r.snd_off = p.snd_off /\ r.snd_max = p.snd_max
    BY <1>1, <1>2 DEF TurnSyn
  <2>1. f = p /\ ~p.delack /\ p.snd_max <= n + 1 /\ (p.needoutput => p.snd_off <= n)
    BY <1>1 DEF SynOK, SynPending
  <2>2. p.snd_max \in Nat /\ p.snd_off \in Nat
    BY PcbFields DEF Offs
  <2>3. p.snd_max <= k + 1 /\ (p.needoutput => p.snd_off <= k) /\ 0 <= k
    BY <1>10, <2>1, <2>2
  <2> QED BY <1>2, <2>1, <2>3 DEF SynPending
<1>11. p.state \in {"SYN_SENT", "SYN_RCVD", "FIN_WAIT_2", "TIME_WAIT"} => i.state # "SYN_SENT"
  BY <1>1, <1>3
<1> QED
  BY <1>4, <1>5, <1>6, <1>7, <1>8, <1>9, <1>10, <1>11, AlikeLemma DEF f, r, i

(* The edits of that record leave its other fields alone. *)
LEMMA AppSame ==
  ASSUME app \in [Host -> AppRec], NEW h \in Host, NEW v, NEW new,
         \/ new = [app EXCEPT ![h].sent = v] \/ new = [app EXCEPT ![h].got = v]
         \/ new = [app EXCEPT ![h].eof = v]
  PROVE  \A g \in Host : new[g].opens = app[g].opens /\ new[g].phase = app[g].phase
<1> SUFFICES ASSUME NEW g \in Host
             PROVE  new[g].opens = app[g].opens /\ new[g].phase = app[g].phase
  OBVIOUS
<1> DEFINE a == app[h]
           r == [a EXCEPT !.sent = v]
           s == [a EXCEPT !.got = v]
           t == [a EXCEPT !.eof = v]
<1>1. a \in AppRec
  OBVIOUS
<1>2. new = [app EXCEPT ![h] = r] \/ new = [app EXCEPT ![h] = s] \/ new = [app EXCEPT ![h] = t]
  OBVIOUS
<1> HIDE DEF a
<1>3. /\ r.opens = a.opens /\ r.phase = a.phase /\ s.opens = a.opens /\ s.phase = a.phase
      /\ t.opens = a.opens /\ t.phase = a.phase
  BY <1>1 DEF AppRec
<1> HIDE DEF r, s, t
<1>4. CASE g = h
  BY <1>2, <1>3, <1>4 DEF a
<1>5. CASE g # h
  BY <1>2, <1>5
<1> QED
  BY <1>4, <1>5

(* The calls but tcp_connect() are such steps, too. *)
LEMMA CallQuiet ==
  ASSUME TypeInv, NEW h \in Host,
         Send(h) \/ CloseCall(h) \/ (\E n \in 1 .. MAXRCV : Recv(h, n)) \/ (h = "server" /\ Accept)
  PROVE  QuietStep(h)
<1>1. /\ PcbOK(pcb[h]) /\ Quiet(pcb[h])
      /\ app \in [Host -> AppRec] /\ pcb = [pcb EXCEPT ![h] = pcb[h]]
  BY DEF TypeInv, BlockOK
<1>2. ASSUME NEW q, LocalStep(pcb[h], q), pcb' = [pcb EXCEPT ![h] = q], net' = net, faults' = faults,
             q = pcb[h] \/ q.state # "SYN_SENT",
             \A g \in Host : /\ app'[g].opens = app[g].opens
                             /\ app'[g].phase = "start" => app[g].phase = "start"
      PROVE  QuietStep(h)
  BY <1>2 DEF QuietStep, Fewer, NewSegs, FaultStep, SynStep
<1>3. \A g \in Host : app[g] \in AppRec
  BY <1>1
<1>4. CASE Send(h)
  <2> DEFINE p == pcb[h]
             b == app[h].sent + 1
  <2>1. net' = net /\ faults' = faults /\ p.blocked = "none"
    BY <1>4, SendLemma DEF Uses
  <2>2. PICK q : /\ pcb' = [pcb EXCEPT ![h] = q]
                 /\ \/ /\ p.state = "SYN_RCVD" \/ (p.state = "ESTABLISHED" /\ Len(p.snd_q) >= MAXSND)
                       /\ Waits(p, q, "send") /\ app' = app
                    \/ /\ p.state = "ESTABLISHED" /\ Queued(p, q, b)
                       /\ app' = [app EXCEPT ![h].sent = b]
    BY <1>4, SendLemma
  <2>3. app' = app \/ app' = [app EXCEPT ![h].sent = b]
    BY <2>2
  <2> HIDE DEF p
  <2>4. LocalStep(p, q)
    BY <2>1, <2>2 DEF LocalStep, WakeOK, FullQueue, Waits, Queued, SendSame, RecvSame, Ended, AfterFinWait1, Early,
      DueOK, TimerOK
  <2>6. q.state # "SYN_SENT"
    BY <2>2 DEF Waits, Queued
  <2> HIDE DEF b
  <2>5. \A g \in Host : app'[g].opens = app[g].opens /\ app'[g].phase = app[g].phase
    BY <1>1, <2>3, AppSame
  <2> QED
    BY <1>2, <2>1, <2>2, <2>4, <2>5, <2>6 DEF p
<1>5. CASE CloseCall(h)
  <2> DEFINE p == pcb[h]
             f == "done"
  <2>1. net' = net /\ faults' = faults /\ p.blocked = "none" /\ app' = [app EXCEPT ![h].phase = f]
    BY <1>5, CloseCallLemma DEF Uses
  <2>2. PICK q : /\ pcb' = [pcb EXCEPT ![h] = q]
                 /\ \/ p.state = "CLOSED" /\ q = FreePcb
                    \/ /\ p.state \in {"SYN_RCVD", "ESTABLISHED"} /\ q.state = "FIN_WAIT_1"
                       /\ RecvSame(p, q) /\ q.blocked = p.blocked /\ q.snd_wnd = p.snd_wnd
                    \/ /\ p.state = "CLOSE_WAIT" /\ q.state = "LAST_ACK"
                       /\ q.rcv_nxt = p.rcv_nxt /\ q.blocked = p.blocked /\ q.snd_wnd = p.snd_wnd
    BY <1>5, CloseCallLemma
  <2> HIDE DEF p
  <2>3. LocalStep(p, q)
    <3>1. CASE q = FreePcb
      BY <3>1, FreePcbOK DEF LocalStep, Gone, WakeOK, FullQueue, Early, Ended, AfterFinWait1, DueOK,
                             Active, Opening
    <3>2. CASE p.state \in {"SYN_RCVD", "ESTABLISHED", "CLOSE_WAIT"} /\ q.state \in {"FIN_WAIT_1", "LAST_ACK"}
                /\ q.rcv_nxt = p.rcv_nxt /\ q.blocked = p.blocked /\ q.snd_wnd = p.snd_wnd
      BY <2>1, <3>2 DEF LocalStep, WakeOK, FullQueue, Early, Ended, AfterFinWait1, DueOK, Active,
                        Opening, TCPS
    <3> QED BY <2>2, <3>1, <3>2 DEF RecvSame
  <2>4. \A g \in Host : app'[g].opens = app[g].opens /\ (app'[g].phase = app[g].phase \/ app'[g].phase = f)
    <3> HIDE DEF f
    <3> QED BY <1>1, <1>3, <2>1 DEF AppRec
  <2>5. q.state # "SYN_SENT"
    BY <2>2, FreePcbOK
  <2> QED
    BY <1>2, <2>1, <2>2, <2>3, <2>4, <2>5 DEF p
<1>6. ASSUME NEW n \in 1 .. MAXRCV, Recv(h, n)
      PROVE  QuietStep(h)
  <2> DEFINE p == pcb[h]
             c == app[h].got \o Part(p.rcv_q, 0, n)
  <2>1. net' = net /\ faults' = faults /\ p.blocked = "none"
    BY <1>6, RecvLemma DEF Uses
  <2>2. PICK q : /\ pcb' = [pcb EXCEPT ![h] = q]
                 /\ \/ p.rcv_q # <<>> /\ Reads(p, q, n) /\ app' = [app EXCEPT ![h].got = c]
                    \/ q = p /\ app' = [app EXCEPT ![h].eof = TRUE]
                    \/ /\ p.rcv_q = <<>> /\ p.state \in {"SYN_RCVD", "ESTABLISHED"}
                       /\ Waits(p, q, "recv") /\ app' = app
    BY <1>6, RecvLemma
  <2>3. app' = app \/ app' = [app EXCEPT ![h].got = c] \/ app' = [app EXCEPT ![h].eof = TRUE]
    BY <2>2
  <2> HIDE DEF c
  <2>4. \A g \in Host : app'[g].opens = app[g].opens /\ app'[g].phase = app[g].phase
    BY <1>1, <2>3, AppSame
  <2> HIDE DEF p
  <2>5. LocalStep(p, q)
    BY <2>1, <2>2 DEF LocalStep, WakeOK, FullQueue, Waits, Reads, SendSame, RecvSame, Ended, AfterFinWait1, Early,
      DueOK, TimerOK
  <2>6. Quiet(p)
    BY <1>1 DEF p
  <2>7. q = p \/ q.state # "SYN_SENT"
    BY <2>2, <2>6 DEF Waits, Reads, Quiet, Early
  <2> QED
    BY <1>2, <2>1, <2>2, <2>4, <2>5, <2>7 DEF p
<1>7. CASE h = "server" /\ Accept
  <2> DEFINE f == "open"
  <2>1. net' = net /\ faults' = faults /\ pcb' = pcb /\ app' = [app EXCEPT ![h].phase = f] /\ h \in Host
    BY <1>7 DEF Accept
  <2>2. \A g \in Host : app'[g].opens = app[g].opens /\ (app'[g].phase = app[g].phase \/ app'[g].phase = f)
    <3> HIDE DEF f
    <3> QED BY <1>1, <1>3, <2>1 DEF AppRec
  <2>3. LocalStep(pcb[h], pcb[h])
    BY AlikeLemma
  <2> QED
    BY <1>1, <1>2, <2>1, <2>2, <2>3
<1> QED
  BY <1>4, <1>5, <1>6, <1>7

(* Every step is quiet, takes a segment, or is an open. *)
LEMMA StepKinds ==
  ASSUME TypeInv, [Next]_vars
  PROVE  \/ Connect
         \/ \E h \in Host : QuietStep(h)
         \/ \E h \in Host : \E s \in net[h] :
              SegOK(s) /\ faults' = faults /\ (InputStep(h, s) \/ OpenStep(h, s))
<1>1. \A h \in Host : BlockOK(pcb[h]) /\ PcbOK(pcb[h]) /\ pcb = [pcb EXCEPT ![h] = pcb[h]]
                      /\ LocalStep(pcb[h], pcb[h]) /\ TurnSyn(pcb[h], faults, pcb[h], faults)
  BY AlikeLemma DEF TypeInv, BlockOK, TurnSyn, SynOK
<1>2. "server" \in Host /\ faults \in Nat
  BY DEF Host, TypeInv
<1>3. CASE UNCHANGED vars
  <2>1. QuietStep("server")
    BY <1>1, <1>2, <1>3 DEF vars, QuietStep, Fewer, NewSegs, FaultStep, SynStep
  <2> QED BY <1>2, <2>1
<1>4. ASSUME NEW h \in Host, Output(h)
      PROVE  QuietStep(h)
  <2>1. pcb[h].needoutput /\ Transmit(h, pcb[h]) /\ app' = app /\ faults' = faults /\ FaultStep
    BY <1>4 DEF Output, FaultStep
  <2> QED BY <1>1, <2>1, TurnQuiet
<1>5. ASSUME NEW h \in Host, OutputFails(h)
      PROVE  QuietStep(h)
  <2> DEFINE p == pcb[h]
             x == WindowShut(p)
             q == Sent(x, SegLen(x), SegFlags(x))
  <2>1. /\ pcb' = [pcb EXCEPT ![h] = q] /\ Kept(p, q) /\ app' = app /\ net' = net
        /\ p.needoutput /\ faults < FAULTS_MAX /\ faults' = faults + 1
    BY <1>5, OutputFailsLemma
  <2>2. PcbOK(p) /\ Quiet(p) /\ SegLen(x) \in Nat /\ SegFlags(x) \in FlagsOf(x) /\ PcbOK(x)
    <3>1. PcbOK(p) /\ Quiet(p) /\ PcbOK(x)
      BY <1>1, <1>5, OutputFailsLemma DEF BlockOK
    <3> QED BY <3>1, SegLenLemma, SegFlagsLemma
  <2>3. q.delack = x.delack
    BY <2>2, SentLemma
  <2> HIDE DEF p
  <2>4. ASSUME DueOK(p), p.state \in Opening
        PROVE  /\ TimerOK(q) /\ q.delack = p.delack
               /\ p.state = "SYN_SENT" /\ p.snd_off + 1 < OFF_MOD =>
                    q.snd_off = p.snd_off + 1 /\ q.snd_max = MaxOf(p.snd_off + 1, p.snd_max)
    <3>1. p.snd_wnd >= 1 /\ TimerOK(p)
      BY <2>4 DEF DueOK, Opening, Active, TCPS
    <3>2. x = p
      <4>1. p.snd_wnd # 0
        BY <2>2, <3>1, PcbFields
      <4> QED BY <2>2, <4>1, WindowShutLemma
    <3> HIDE DEF x
    <3> QED BY <2>2, <2>3, <2>4, <3>1, <3>2, SentTimer
  <2> HIDE DEF q, x
  <2>5. DueOK(p) => DueOK(q)
    BY <2>1, <2>4 DEF DueOK, Kept
  <2>6. LocalStep(p, q)
    BY <2>1, <2>5, AlikeLemma
  <2>7. SynStep(h, q)
    <3> SUFFICES ASSUME q.state = "SYN_SENT", DueOK(p), SynOK(p, faults),
                        faults <= FAULTS_MAX, FAULTS_MAX + 1 < OFF_MOD
                 PROVE  SynOK(q, faults') /\ q.snd_off > 0
      BY DEF SynStep, p
    <3>1. p.state = "SYN_SENT" /\ p.snd_max <= faults + 1 /\ p.snd_off <= faults /\ ~p.delack
      BY <2>1 DEF Kept, SynOK, SynPending
    <3>2. FAULTS_MAX \in Nat /\ OFF_MOD \in Nat /\ p.snd_off \in Nat /\ p.snd_max \in Nat
      BY <2>2, TCPAssumption, PcbFields DEF Offs
    <3>3. p.snd_off + 1 < OFF_MOD
      BY <1>2, <3>1, <3>2
    <3>4. q.snd_off = p.snd_off + 1 /\ q.snd_max = MaxOf(p.snd_off + 1, p.snd_max) /\ ~q.delack
      BY <2>4, <3>1, <3>3 DEF Opening
    <3>5. q.snd_off > 0 /\ q.snd_max <= faults' + 1 /\ q.snd_off <= faults'
      BY <1>2, <2>1, <3>1, <3>2, <3>4 DEF MaxOf
    <3> QED BY <3>4, <3>5 DEF SynOK, SynPending
  <2> QED BY <2>1, <2>6, <2>7 DEF QuietStep, Fewer, NewSegs, FaultStep, p
<1>6. ASSUME NEW h \in Host, FastTimeout(h) \/ RxmtTimeout(h) \/ IdleTimeout(h)
      PROVE  QuietStep(h)
  <2>1. FaultStep
    BY <1>6 DEF FastTimeout, RxmtTimeout, IdleTimeout, Fault, FaultStep
  <2>2. faults' \in Nat /\ faults <= faults'
    BY <1>2, <2>1 DEF FaultStep
  <2>3. ASSUME NEW x, BlockOK(x), LocalStep(pcb[h], x), TimerTurn(h, x),
               TurnSyn(pcb[h], faults, x, faults')
        PROVE  QuietStep(h)
    <3>1. /\ app' = app
          /\ \/ x.needoutput /\ Transmit(h, x)
             \/ ~x.needoutput /\ pcb' = [pcb EXCEPT ![h] = x] /\ net' = net
      BY <2>2, <2>3, TimerTurnLemma
    <3> QED BY <2>1, <2>3, <3>1, TurnQuiet
  <2>4. CASE FastTimeout(h)
    BY <1>1, <1>2, <2>2, <2>3, <2>4, TimerBlocks, TimerLocal DEF FastTimeout
  <2>5. CASE RxmtTimeout(h)
    BY <1>1, <1>2, <2>2, <2>3, <2>5, TimerBlocks, TimerLocal DEF RxmtTimeout
  <2>6. CASE IdleTimeout(h)
    <3>1. pcb[h].state \in {"SYN_SENT", "SYN_RCVD", "FIN_WAIT_2", "TIME_WAIT"}
          /\ TimerTurn(h, IdleTmr(FastTmr(pcb[h])))
      BY <2>6 DEF IdleTimeout
    <3>2. TurnSyn(pcb[h], faults, IdleTmr(FastTmr(pcb[h])), faults')
      BY <1>1, <3>1, TimerLocal DEF TurnSyn
    <3> QED BY <1>1, <2>3, <3>1, <3>2, TimerBlocks, TimerLocal
  <2> QED BY <1>6, <2>4, <2>5, <2>6
<1>7. ASSUME NEW h \in Host, DropStep(h), faults' = faults
      PROVE  QuietStep(h)
  <2>1. SynStep(h, pcb[h]) /\ FaultStep
    BY <1>7 DEF DropStep, SynStep, FaultStep, Active, TCPS
  <2>2. NewSegs(h, pcb[h])
    BY <1>7 DEF DropStep, NewSegs, OnlyResets, Fewer
  <2> QED BY <1>1, <1>7, <2>1, <2>2 DEF DropStep, QuietStep
<1>8. ASSUME NEW h \in Host, NEW s \in net[h], Receive(h, s)
      PROVE  QuietStep(h) \/ (SegOK(s) /\ faults' = faults /\ (InputStep(h, s) \/ OpenStep(h, s)))
  BY <1>7, <1>8, ReceiveLemma
<1>9. ASSUME NEW h \in Host, NEW s \in net[h], Lose(h, s)
      PROVE  QuietStep(h)
  BY <1>7, <1>9, LoseLemma
<1>10. CASE Accept
  BY <1>2, <1>10, CallQuiet
<1>11. ASSUME NEW h \in Host, Send(h) \/ CloseCall(h) \/ (\E n \in 1 .. MAXRCV : Recv(h, n))
       PROVE  QuietStep(h)
  BY <1>11, CallQuiet
<1> QED
  BY <1>3, <1>4, <1>5, <1>6, <1>8, <1>9, <1>10, <1>11 DEF Next

(* A segment without data and FIN leaves the receiving side alone. *)
LEMMA NoData ==
  ASSUME NEW m, PcbOK(m), NEW s, SegOK(s), NEW t, SegOK(t), t.flags \subseteq s.flags, Slice(s, t),
         "SYN" \in s.flags, s.data = <<>>, NEW q, Step6Effect(m, t, q)
  PROVE  q.state = m.state /\ q.rcv_nxt = m.rcv_nxt
<1>1. "FIN" \notin t.flags
  BY DEF SegOK
<1>2. t.data = <<>>
  <2> SUFFICES ASSUME t.data # <<>> PROVE FALSE
    OBVIOUS
  <2>1. PICK d \in Nat : d + Len(t.data) <= Len(s.data)
    BY DEF Slice
  <2>2. t.data \in Seq(Nat) /\ Len(s.data) = 0
    BY SegFields
  <2>3. Len(t.data) \in Nat /\ Len(t.data) # 0
    BY <2>2, EmptySeq
  <2> QED
    BY <2>1, <2>2, <2>3
<1>3. m.rcv_nxt \in Seqs
  BY PcbFields
<1>4. Seq32(m.rcv_nxt + 0) = m.rcv_nxt
  BY <1>3, Seq32Small DEF Seqs
<1>5. q.state = m.state /\ DataEffect(m, t, q)
  BY <1>1 DEF Step6Effect
<1>6. Len(t.data) = 0
  BY <1>2
<1> QED
  BY <1>4, <1>5, <1>6 DEF DataEffect, RecvSame

(* What a segment does to the handshake, and to a call that waits. *)
InputLocal(p, s, q) ==
  /\ q.state # "SYN_SENT"
  /\ q.state = "SYN_RCVD" => p.state = "SYN_RCVD" /\ q.snd_seq = p.snd_seq
  /\ p.state = "SYN_SENT" => q.state \in {"FREE", "CLOSED"} \/ (AckSeg(s) /\ q.rcv_nxt = Seq32(s.seq + 1))
  /\ /\ q.state \notin Early /\ p.state \notin Early
     /\ AckSeg(s) => "SYN" \in s.flags /\ s.data = <<>>
     => q.rcv_nxt = p.rcv_nxt
  /\ /\ WakeOK(p)
     /\ p.state = "SYN_RCVD" /\ AckSeg(s) => SeqDiff(s.ack, p.snd_seq) # 0
     => WakeOK(q)

(* What a segment does to the handshake and to a call that waits (tcp_input). *)
LEMMA InputLocalLemma ==
  ASSUME NEW p, BlockOK(p), p.state \in Active, NEW s, SegOK(s), NEW q, InputEffect(p, s, q)
  PROVE  InputLocal(p, s, q)
<1>1. PcbOK(p) /\ p.state \in TCPS /\ Quiet(p)
  BY PcbFields DEF BlockOK
<1>2. CASE Gone(q)
  BY <1>2 DEF Gone, InputLocal, WakeOK, FullQueue, Ended, AfterFinWait1, Early
<1>3. CASE Opened(p, s, q)
  BY <1>3 DEF Opened, InputLocal, WakeOK, FullQueue, Ended, AfterFinWait1, Early, AckSeg
<1>4. CASE Held(p, s, q)
  BY <1>4 DEF Held, InputLocal, WakeOK, FullQueue, RecvSame, SendSame
<1>5. CASE Through(p, s, q)
  <2>1. PICK m, t : Taken(p, s, m, t, q)
    BY <1>5 DEF Through
  <2>2. AckSeg(s) /\ p.state # "SYN_SENT"
    BY <1>5 DEF Through
  <2> DEFINE d == SeqDiff(s.ack, p.snd_seq)
  <2>3. /\ PcbOK(m) /\ SegOK(t) /\ t.flags \subseteq s.flags /\ Slice(s, t)
        /\ AckMid(p, m, d) /\ Step6Effect(m, t, q)
    BY <2>1 DEF Taken
  <2> HIDE DEF d
  <2>4. m.state # "SYN_SENT" /\ m.state # "SYN_RCVD" /\ m.rcv_nxt = p.rcv_nxt
    BY <2>2, <2>3 DEF AckMid, Untouched, NewlyAcked, StateAcked, RecvSame
  <2>5. q.state # "SYN_SENT" /\ q.state # "SYN_RCVD"
    BY <2>3, <2>4 DEF Step6Effect, FinEffect
  <2>6. "SYN" \in s.flags /\ s.data = <<>> => q.rcv_nxt = p.rcv_nxt
    BY <2>3, <2>4, NoData
  <2>7. ASSUME WakeOK(p), p.state = "SYN_RCVD" => d # 0
        PROVE  WakeOK(q)
    <3>1. CASE m.blocked = "none"
      BY <2>3, <3>1 DEF WakeOK, FullQueue, Step6Effect, DataEffect, FinEffect
    <3>2. CASE Untouched(p, m) /\ p.state # "SYN_RCVD"
      <4>1. WakeOK(m)
        BY <2>7, <3>2 DEF WakeOK, FullQueue, Untouched, SendSame, RecvSame
      <4>2. CASE q.state = m.state /\ SendSame(m, q) /\ DataEffect(m, t, q)
        BY <4>1, <4>2 DEF WakeOK, FullQueue, SendSame, DataEffect, RecvSame
      <4>3. CASE FinEffect(m, t, q)
        <5>1. m.state # "SYN_RCVD" /\ m.state # "SYN_SENT"
          BY <2>4
        <5>2. m.blocked = "send" => Len(m.snd_q) >= MAXSND
          BY <4>1, <5>1 DEF WakeOK, FullQueue
        <5>3. CASE m.state \in {"SYN_RCVD", "ESTABLISHED"}
          <6>1. q.state = "CLOSE_WAIT" /\ SendSame(m, q)
            BY <4>3, <5>3 DEF FinEffect
          <6>2. q.blocked = "none" \/ (q.rcv_q # <<>> /\ m.rcv_q # <<>> /\ q.blocked = m.blocked)
            BY <4>3, <5>3 DEF FinEffect
          <6> QED BY <4>1, <5>1, <5>2, <6>1, <6>2 DEF WakeOK, FullQueue, SendSame, Ended, AfterFinWait1
        <5>4. CASE m.state \notin {"SYN_RCVD", "ESTABLISHED"}
          <6>1. q.blocked = m.blocked
            BY <4>3, <5>4 DEF FinEffect
          <6>2. CASE SendSame(m, q) /\ q.rcv_q = m.rcv_q /\ q.state = m.state
            BY <4>1, <6>1, <6>2 DEF WakeOK, FullQueue, SendSame
          <6>3. CASE m.state \in {"FIN_WAIT_1", "FIN_WAIT_2"}
            BY <4>1, <6>1, <6>3 DEF WakeOK, FullQueue, Ended, AfterFinWait1
          <6> QED BY <4>3, <5>4, <6>2, <6>3 DEF FinEffect
        <5> QED BY <5>3, <5>4
      <4> QED BY <2>3, <4>2, <4>3 DEF Step6Effect
    <3> QED BY <2>3, <2>7, <3>1, <3>2 DEF AckMid
  <2> QED
    BY <2>2, <2>5, <2>6, <2>7 DEF InputLocal, d
<1> QED
  BY <1>2, <1>3, <1>4, <1>5 DEF InputEffect

--------------------------------------------------------------------------------
(* The sequence number after the SYN of a first passive open, however often sent. *)
Reached(n) == \E k \in 1 .. OFF_MOD : n = Seq32(ISS_STEP + k)

(* No segment acknowledges anything. *)
NoAcks(h) == \A m \in net[h] : ~AckSeg(m)

(* The answer to a SYN. *)
SynAck(m) == "SYN" \in m.flags /\ m.data = <<>> /\ Reached(Seq32(m.seq + 1))

(* Before the server has opened, nobody has anything to acknowledge. *)
BeforeOpen ==
  /\ app["server"].opens = 0 =>
       /\ pcb["client"].state \in {"FREE", "SYN_SENT", "CLOSED"} /\ pcb["server"].state = "FREE"
       /\ NoAcks("client") /\ NoAcks("server")
  /\ pcb["client"].state = "SYN_SENT" => NoAcks("server")
  /\ app["client"].phase = "start" => pcb["client"].state = "FREE" /\ NoAcks("server")

(* While the server waits for the ACK of its SYN, every ACK is one of that SYN. *)
WhileOpening ==
  pcb["server"].state = "SYN_RCVD" =>
    /\ pcb["server"].snd_seq = Seq32(ISS_STEP)
    /\ \A m \in net["client"] : AckSeg(m) => SynAck(m)
    /\ \A m \in net["server"] : AckSeg(m) => Reached(m.ack)
    /\ pcb["client"].state \notin Early => Reached(pcb["client"].rcv_nxt)

(* What the three-way handshake guarantees while it lasts. *)
Hand ==
  /\ pcb["client"].state # "SYN_RCVD" /\ pcb["server"].state # "SYN_SENT"
  /\ BeforeOpen /\ WhileOpening

(* Who waits has something to wait for; the inductive form of NoLostWakeup. *)
WakeInv == \A h \in Host : WakeOK(pcb[h])

(* The ACK of the SYN never acknowledges nothing: 2^32 is more than 2^16. *)
LEMMA ReachedNotStart ==
  ASSUME NEW n, Reached(n)
  PROVE  SeqDiff(n, Seq32(ISS_STEP)) # 0
<1> SUFFICES ASSUME SeqDiff(n, Seq32(ISS_STEP)) = 0 PROVE FALSE
  OBVIOUS
<1>1. PICK k \in 1 .. OFF_MOD : n = Seq32(ISS_STEP + k)
  BY DEF Reached
<1>2. ISS_STEP \in Int /\ k \in Int /\ OFF_MOD \in Nat /\ SEQ_MOD \in Nat \ {0} /\ OFF_MOD < SEQ_MOD
  BY TCPAssumption
<1>3. Seq32(ISS_STEP) \in Seqs /\ n \in Seqs /\ ISS_STEP + k \in Int
  BY <1>1, <1>2, Seq32Type
<1>4. Seq32(ISS_STEP) \in Int
  BY <1>3 DEF Seqs
<1>5. Seq32(Seq32(ISS_STEP) + 0) = n
  BY <1>3, <1>4, SeqDiffBack
<1>6. Seq32(ISS_STEP) = Seq32(ISS_STEP + k)
  <2>1. Seq32(Seq32(ISS_STEP) + 0) = Seq32(ISS_STEP)
    BY <1>3, <1>4, Seq32Small
  <2> QED BY <1>1, <1>5, <2>1
<1>7. ISS_STEP = SEQ_MOD * (ISS_STEP \div SEQ_MOD) + Seq32(ISS_STEP) /\ ISS_STEP \div SEQ_MOD \in Int
  BY <1>2, ModDef DEF Seq32
<1>8. ISS_STEP + k = SEQ_MOD * ((ISS_STEP + k) \div SEQ_MOD) + Seq32(ISS_STEP + k)
      /\ (ISS_STEP + k) \div SEQ_MOD \in Int
  BY <1>2, <1>3, ModDef DEF Seq32
<1> DEFINE a == ISS_STEP \div SEQ_MOD
           b == (ISS_STEP + k) \div SEQ_MOD
           r == Seq32(ISS_STEP)
<1>9. ISS_STEP = SEQ_MOD * a + r /\ ISS_STEP + k = SEQ_MOD * b + r /\ a \in Int /\ b \in Int /\ r \in Int
  BY <1>4, <1>6, <1>7, <1>8
<1> HIDE DEF a, b, r
<1> DEFINE e == b - a
<1>10. k = SEQ_MOD * e /\ e \in Int
  BY <1>2, <1>9
<1> HIDE DEF e
<1>11. k > 0 /\ k < SEQ_MOD /\ SEQ_MOD > 0
  BY <1>2
<1>12. e <= 0 => SEQ_MOD * e <= 0
  BY <1>2, <1>10, <1>11
<1>13. e >= 1 => SEQ_MOD * e >= SEQ_MOD
  BY <1>2, <1>10, <1>11
<1> QED
  BY <1>2, <1>10, <1>11, <1>12, <1>13

(* Only a connection whose handshake has begun sends an ACK. *)
LEMMA SentAck ==
  ASSUME NEW x, PcbOK(x), x.state # "FREE", NEW end, NEW m, SentBy(x, end, m), AckSeg(m)
  PROVE  /\ x.state \notin {"FREE", "CLOSED", "SYN_SENT"} /\ m.ack = x.rcv_nxt
         /\ x.state = "SYN_RCVD" /\ x.snd_seq = Seq32(ISS_STEP) => SynAck(m)
<1>1. x.state \in TCPS /\ m.flags \in {outflags(x.state), outflags(x.state) \ {"FIN"}}
  BY PcbFields DEF SentBy, FlagsOf
<1>2. x.state \notin {"FREE", "CLOSED", "SYN_SENT"} /\ m.ack = x.rcv_nxt
  BY <1>1, FlagsLemma DEF AckSeg, SentBy
<1>3. ASSUME x.state = "SYN_RCVD", x.snd_seq = Seq32(ISS_STEP)
      PROVE  SynAck(m)
  <2>1. "SYN" \in m.flags
    BY <1>1, <1>3, FlagsLemma
  <2>2. m.data = <<>> /\ \E off \in Offs : m.seq = Seq32(x.snd_seq + off)
    BY <2>1 DEF SentBy
  <2>3. PICK off \in Offs : m.seq = Seq32(x.snd_seq + off)
    BY <2>2
  <2>4. off \in Int /\ off + 1 \in 1 .. OFF_MOD /\ ISS_STEP \in Int
    BY TCPAssumption DEF Offs
  <2>5. Seq32(m.seq + 1) = Seq32(ISS_STEP + (off + 1))
    <3>1. m.seq = Seq32(ISS_STEP + off)
      BY <1>3, <2>3, <2>4, Seq32Add
    <3>2. Seq32(Seq32(ISS_STEP + off) + 1) = Seq32((ISS_STEP + off) + 1)
      BY <2>4, Seq32Add
    <3>3. (ISS_STEP + off) + 1 = ISS_STEP + (off + 1)
      BY <2>4
    <3> QED BY <3>1, <3>2, <3>3
  <2> QED BY <2>1, <2>2, <2>4, <2>5 DEF SynAck, Reached
<1> QED
  BY <1>2, <1>3

(* A quiet step of the client keeps the handshake in order. *)
LEMMA HandQuietClient ==
  ASSUME TypeInv, Hand, QuietStep("client")
  PROVE  Hand'
<1> DEFINE c == pcb["client"]
           s == pcb["server"]
           d == pcb'["client"]
<1>1. "client" \in Host /\ "server" \in Host /\ Peer("client") = "server" /\ PcbOK(c)
  BY DEF Host, Peer, TypeInv, BlockOK
<1>2. LocalStep(c, d) /\ pcb'["server"] = s
  <2>1. PICK q : LocalStep(c, q) /\ pcb' = [pcb EXCEPT !["client"] = q]
    BY DEF QuietStep
  <2>2. pcb \in [Host -> PcbRec]
    BY DEF TypeInv
  <2> QED
    BY <1>1, <2>1, <2>2
<1>3. /\ net'["client"] \subseteq net["client"]
      /\ app'["server"].opens = app["server"].opens
      /\ app'["client"].phase = "start" => app["client"].phase = "start"
  BY <1>1 DEF QuietStep, Fewer
<1>4. c.state # "SYN_RCVD" /\ s.state # "SYN_SENT"
  BY DEF Hand
<1> HIDE DEF c, s, d
<1>5. ASSUME NEW m \in net'["server"], AckSeg(m)
      PROVE  m \in net["server"] \/ (c.state \notin Early /\ m.ack = c.rcv_nxt)
  <2>1. CASE IsReset(m)
    BY <1>5, <2>1 DEF IsReset, AckSeg
  <2>2. ASSUME NEW x, PcbOK(x), x.state # "FREE", LocalStep(c, x), SentBy(x, OFF_MOD + MAXSEG, m)
        PROVE  c.state \notin Early /\ m.ack = c.rcv_nxt
    <3>1. x.state \notin {"FREE", "CLOSED", "SYN_SENT"} /\ m.ack = x.rcv_nxt
      BY <1>5, <2>2, SentAck
    <3>2. x.state \notin Early
      BY <1>4, <2>2, <3>1 DEF LocalStep, Early
    <3> QED BY <1>4, <2>2, <3>1, <3>2 DEF LocalStep, Early
  <2>3. m \in net["server"] \/ IsReset(m)
        \/ \E x : PcbOK(x) /\ x.state # "FREE" /\ LocalStep(c, x) /\ SentBy(x, OFF_MOD + MAXSEG, m)
    BY <1>1, <1>5 DEF QuietStep, NewSegs, BlockOK, c
  <2> QED BY <2>1, <2>2, <2>3
<1>6. d.state # "SYN_RCVD" /\ (d.state = "SYN_SENT" => c.state = "SYN_SENT")
      /\ (c.state \in {"FREE", "SYN_SENT", "CLOSED"} => d.state \in {"FREE", "SYN_SENT", "CLOSED"})
      /\ (c.state = "FREE" => d.state = "FREE")
      /\ (d.state \notin Early => c.state \notin Early /\ d.rcv_nxt = c.rcv_nxt)
  BY <1>2, <1>4 DEF LocalStep, Early
<1>7. BeforeOpen'
  <2>1. ASSUME app["server"].opens = 0
        PROVE  /\ d.state \in {"FREE", "SYN_SENT", "CLOSED"} /\ s.state = "FREE"
               /\ NoAcks("client")' /\ NoAcks("server")'
    <3>1. c.state \in {"FREE", "SYN_SENT", "CLOSED"} /\ s.state = "FREE" /\ NoAcks("client") /\ NoAcks("server")
      BY <2>1 DEF Hand, BeforeOpen, c, s
    <3> QED BY <1>3, <1>5, <1>6, <3>1 DEF NoAcks, Early
  <2>2. ASSUME d.state = "SYN_SENT"
        PROVE  NoAcks("server")'
    <3>1. NoAcks("server") /\ c.state = "SYN_SENT"
      BY <1>6, <2>2 DEF Hand, BeforeOpen, c
    <3> QED BY <1>5, <3>1 DEF NoAcks, Early
  <2>3. ASSUME app["client"].phase = "start"
        PROVE  d.state = "FREE" /\ NoAcks("server")'
    <3>1. c.state = "FREE" /\ NoAcks("server")
      BY <2>3 DEF Hand, BeforeOpen, c
    <3> QED BY <1>5, <1>6, <3>1 DEF NoAcks, Early
  <2> QED
    BY <1>2, <1>3, <2>1, <2>2, <2>3 DEF BeforeOpen, d, s
<1>8. WhileOpening'
  <2> SUFFICES ASSUME s.state = "SYN_RCVD"
               PROVE  /\ s.snd_seq = Seq32(ISS_STEP)
                      /\ \A m \in net'["client"] : AckSeg(m) => SynAck(m)
                      /\ \A m \in net'["server"] : AckSeg(m) => Reached(m.ack)
                      /\ d.state \notin Early => Reached(d.rcv_nxt)
    BY <1>2 DEF WhileOpening, d, s
  <2>1. /\ s.snd_seq = Seq32(ISS_STEP)
        /\ \A m \in net["client"] : AckSeg(m) => SynAck(m)
        /\ \A m \in net["server"] : AckSeg(m) => Reached(m.ack)
        /\ c.state \notin Early => Reached(c.rcv_nxt)
    BY DEF Hand, WhileOpening, c, s
  <2> QED
    BY <1>3, <1>5, <1>6, <2>1
<1> QED
  BY <1>2, <1>4, <1>6, <1>7, <1>8 DEF Hand, d, s

(* A quiet step of the server keeps the handshake in order. *)
LEMMA HandQuietServer ==
  ASSUME TypeInv, Hand, QuietStep("server")
  PROVE  Hand'
<1> DEFINE c == pcb["client"]
           s == pcb["server"]
           d == pcb'["server"]
<1>1. "client" \in Host /\ "server" \in Host /\ Peer("server") = "client" /\ PcbOK(s)
  BY DEF Host, Peer, TypeInv, BlockOK
<1>2. LocalStep(s, d) /\ pcb'["client"] = c
  <2>1. PICK q : LocalStep(s, q) /\ pcb' = [pcb EXCEPT !["server"] = q]
    BY DEF QuietStep
  <2>2. pcb \in [Host -> PcbRec]
    BY DEF TypeInv
  <2> QED
    BY <1>1, <2>1, <2>2
<1>3. /\ net'["server"] \subseteq net["server"]
      /\ app'["server"].opens = app["server"].opens
      /\ app'["client"].phase = "start" => app["client"].phase = "start"
  BY <1>1 DEF QuietStep, Fewer
<1>4. c.state # "SYN_RCVD" /\ s.state # "SYN_SENT"
  BY DEF Hand
<1>5. ASSUME NEW m \in net'["client"]
      PROVE  m \in net["client"] \/ IsReset(m)
             \/ \E x : PcbOK(x) /\ x.state # "FREE" /\ LocalStep(s, x)
                      /\ x.state = d.state /\ SentBy(x, OFF_MOD + MAXSEG, m)
  BY <1>1, <1>5 DEF QuietStep, NewSegs, BlockOK
<1> HIDE DEF c, s, d
<1>6. d.state # "SYN_SENT" /\ (s.state = "FREE" => d.state = "FREE")
      /\ (d.state = "SYN_RCVD" => s.state = "SYN_RCVD" /\ d.snd_seq = s.snd_seq)
  BY <1>2, <1>4 DEF LocalStep
<1>7. ASSUME NEW m, IsReset(m)
      PROVE  ~AckSeg(m)
  BY <1>7 DEF IsReset, AckSeg
<1>8. BeforeOpen'
  <2>1. ASSUME app["server"].opens = 0
        PROVE  /\ c.state \in {"FREE", "SYN_SENT", "CLOSED"} /\ d.state = "FREE"
               /\ NoAcks("client")' /\ NoAcks("server")'
    <3>1. c.state \in {"FREE", "SYN_SENT", "CLOSED"} /\ s.state = "FREE" /\ NoAcks("client") /\ NoAcks("server")
      BY <2>1 DEF Hand, BeforeOpen, c, s
    <3>2. \A x : LocalStep(s, x) => x.state = "FREE"
      BY <3>1 DEF LocalStep
    <3> QED BY <1>3, <1>5, <1>6, <1>7, <3>1, <3>2 DEF NoAcks
  <2>2. NoAcks("server") => NoAcks("server")'
    BY <1>3 DEF NoAcks
  <2>3. /\ c.state = "SYN_SENT" => NoAcks("server")
        /\ app["client"].phase = "start" => c.state = "FREE" /\ NoAcks("server")
    BY DEF Hand, BeforeOpen, c
  <2> QED
    BY <1>2, <1>3, <2>1, <2>2, <2>3 DEF BeforeOpen, d, c
<1>9. WhileOpening'
  <2> SUFFICES ASSUME d.state = "SYN_RCVD"
               PROVE  /\ d.snd_seq = Seq32(ISS_STEP)
                      /\ \A m \in net'["client"] : AckSeg(m) => SynAck(m)
                      /\ \A m \in net'["server"] : AckSeg(m) => Reached(m.ack)
                      /\ c.state \notin Early => Reached(c.rcv_nxt)
    BY <1>2 DEF WhileOpening, d, c
  <2>1. s.state = "SYN_RCVD" /\ d.snd_seq = s.snd_seq
    BY <1>6
  <2>2. /\ s.snd_seq = Seq32(ISS_STEP)
        /\ \A m \in net["client"] : AckSeg(m) => SynAck(m)
        /\ \A m \in net["server"] : AckSeg(m) => Reached(m.ack)
        /\ c.state \notin Early => Reached(c.rcv_nxt)
    BY <2>1 DEF Hand, WhileOpening, c, s
  <2>3. ASSUME NEW m \in net'["client"], AckSeg(m)
        PROVE  SynAck(m)
    <3>1. ASSUME NEW x, PcbOK(x), x.state # "FREE", LocalStep(s, x), x.state = d.state,
                 SentBy(x, OFF_MOD + MAXSEG, m)
          PROVE  SynAck(m)
      <4>1. x.state = "SYN_RCVD" /\ x.snd_seq = Seq32(ISS_STEP)
        BY <2>2, <3>1 DEF LocalStep
      <4> QED BY <2>3, <3>1, <4>1, SentAck
    <3> QED BY <1>5, <1>7, <2>2, <2>3, <3>1
  <2> QED
    BY <1>3, <2>1, <2>2, <2>3
<1> QED
  BY <1>2, <1>4, <1>6, <1>8, <1>9 DEF Hand, d, c

(* A segment that gets to the control block of the client keeps it in order. *)
LEMMA HandInputClient ==
  ASSUME TypeInv, Hand, NEW s \in net["client"], SegOK(s), InputStep("client", s)
  PROVE  Hand'
<1> DEFINE c == pcb["client"]
           v == pcb["server"]
           d == pcb'["client"]
<1>1. "client" \in Host /\ "server" \in Host /\ Peer("client") = "server" /\ BlockOK(c)
  BY DEF Host, Peer, TypeInv
<1>2. InputLocal(c, s, d) /\ pcb'["server"] = v /\ c.state \in Active
  <2>1. PICK q : InputEffect(c, s, q) /\ pcb' = [pcb EXCEPT !["client"] = q]
    BY DEF InputStep
  <2>2. pcb \in [Host -> PcbRec] /\ c.state \in Active
    BY DEF TypeInv, InputStep
  <2>3. InputLocal(c, s, q)
    BY <1>1, <2>1, <2>2, InputLocalLemma
  <2> QED
    BY <1>1, <2>1, <2>2, <2>3
<1>3. /\ net'["client"] \subseteq net["client"] /\ app' = app
      /\ \A m \in net'["server"] : m \in net["server"] \/ ~AckSeg(m)
  BY <1>1 DEF InputStep, Fewer, OnlyResets, IsReset, AckSeg
<1>4. c.state # "SYN_RCVD" /\ v.state # "SYN_SENT"
  BY DEF Hand
<1>5. c.state # "FREE" /\ c.state # "CLOSED"
  BY <1>2 DEF Active
<1>6. app["server"].opens = 0 => c.state = "SYN_SENT" /\ v.state = "FREE" /\ NoAcks("client") /\ NoAcks("server")
  BY <1>5 DEF Hand, BeforeOpen
<1>7. app["client"].phase # "start"
  BY <1>5 DEF Hand, BeforeOpen
<1>8. v.state = "SYN_RCVD" =>
        /\ v.snd_seq = Seq32(ISS_STEP)
        /\ \A m \in net["client"] : AckSeg(m) => SynAck(m)
        /\ \A m \in net["server"] : AckSeg(m) => Reached(m.ack)
        /\ c.state \notin Early => Reached(c.rcv_nxt)
  BY DEF Hand, WhileOpening
<1> HIDE DEF c, v, d
<1>9. BeforeOpen'
  <2>1. app["server"].opens = 0 => ~AckSeg(s)
    BY <1>6 DEF NoAcks
  <2>2. app["server"].opens = 0 => d.state \in {"FREE", "SYN_SENT", "CLOSED"}
    BY <1>2, <1>6, <2>1 DEF InputLocal
  <2>3. d.state # "SYN_SENT"
    BY <1>2 DEF InputLocal
  <2>4. app["server"].opens = 0 => NoAcks("client")' /\ NoAcks("server")'
    BY <1>3, <1>6 DEF NoAcks
  <2> QED
    BY <1>2, <1>3, <1>6, <1>7, <2>2, <2>3, <2>4 DEF BeforeOpen, d, v
<1>10. WhileOpening'
  <2> SUFFICES ASSUME v.state = "SYN_RCVD"
               PROVE  /\ v.snd_seq = Seq32(ISS_STEP)
                      /\ \A m \in net'["client"] : AckSeg(m) => SynAck(m)
                      /\ \A m \in net'["server"] : AckSeg(m) => Reached(m.ack)
                      /\ d.state \notin Early => Reached(d.rcv_nxt)
    BY <1>2 DEF WhileOpening, d, v
  <2>1. d.state \notin Early /\ c.state = "SYN_SENT" => Reached(d.rcv_nxt)
    BY <1>2, <1>8 DEF InputLocal, Early, SynAck
  <2>2. d.state \notin Early /\ c.state \notin Early => Reached(d.rcv_nxt)
    BY <1>2, <1>8 DEF InputLocal, SynAck
  <2>3. c.state = "SYN_SENT" \/ c.state \notin Early
    BY <1>4, <1>5 DEF Early
  <2> QED
    BY <1>3, <1>8, <2>1, <2>2, <2>3
<1> QED
  BY <1>2, <1>4, <1>9, <1>10 DEF Hand, InputLocal, d, v

(* The same for the server. *)
LEMMA HandInputServer ==
  ASSUME TypeInv, Hand, NEW s \in net["server"], SegOK(s), InputStep("server", s)
  PROVE  Hand'
<1> DEFINE c == pcb["client"]
           v == pcb["server"]
           d == pcb'["server"]
<1>1. "client" \in Host /\ "server" \in Host /\ Peer("server") = "client" /\ BlockOK(v)
  BY DEF Host, Peer, TypeInv
<1>2. InputLocal(v, s, d) /\ pcb'["client"] = c /\ v.state \in Active
  <2>1. PICK q : InputEffect(v, s, q) /\ pcb' = [pcb EXCEPT !["server"] = q]
    BY DEF InputStep
  <2>2. pcb \in [Host -> PcbRec] /\ v.state \in Active
    BY DEF TypeInv, InputStep
  <2>3. InputLocal(v, s, q)
    BY <1>1, <2>1, <2>2, InputLocalLemma
  <2> QED
    BY <1>1, <2>1, <2>2, <2>3
<1>3. /\ net'["server"] \subseteq net["server"] /\ app' = app
      /\ \A m \in net'["client"] : m \in net["client"] \/ ~AckSeg(m)
  BY <1>1 DEF InputStep, Fewer, OnlyResets, IsReset, AckSeg
<1>4. c.state # "SYN_RCVD" /\ d.state # "SYN_SENT"
  BY <1>2 DEF Hand, InputLocal
<1>5. v.state # "FREE"
  BY <1>2 DEF Active
<1>6. app["server"].opens # 0
  BY <1>5 DEF Hand, BeforeOpen
<1>7. /\ c.state = "SYN_SENT" => NoAcks("server")
      /\ app["client"].phase = "start" => c.state = "FREE" /\ NoAcks("server")
  BY DEF Hand, BeforeOpen
<1>8. v.state = "SYN_RCVD" =>
        /\ v.snd_seq = Seq32(ISS_STEP)
        /\ \A m \in net["client"] : AckSeg(m) => SynAck(m)
        /\ \A m \in net["server"] : AckSeg(m) => Reached(m.ack)
        /\ c.state \notin Early => Reached(c.rcv_nxt)
  BY DEF Hand, WhileOpening
<1> HIDE DEF c, v, d
<1>9. BeforeOpen'
  <2>1. NoAcks("server") => NoAcks("server")'
    BY <1>3 DEF NoAcks
  <2> QED
    BY <1>2, <1>3, <1>6, <1>7, <2>1 DEF BeforeOpen, d, c
<1>10. WhileOpening'
  <2> SUFFICES ASSUME d.state = "SYN_RCVD"
               PROVE  /\ d.snd_seq = Seq32(ISS_STEP)
                      /\ \A m \in net'["client"] : AckSeg(m) => SynAck(m)
                      /\ \A m \in net'["server"] : AckSeg(m) => Reached(m.ack)
                      /\ c.state \notin Early => Reached(c.rcv_nxt)
    BY <1>2 DEF WhileOpening, d, c
  <2>1. v.state = "SYN_RCVD" /\ d.snd_seq = v.snd_seq
    BY <1>2 DEF InputLocal
  <2> QED
    BY <1>3, <1>8, <2>1
<1> QED
  BY <1>2, <1>4, <1>9, <1>10 DEF Hand, d, c

(* The passive open finds a network without ACKs, if it is the first. *)
LEMMA HandOpen ==
  ASSUME TypeInv, Hand, OPENS_MAX <= 1, NEW h \in Host, NEW s \in net[h], SegOK(s), OpenStep(h, s)
  PROVE  Hand' /\ (WakeInv => WakeInv')
<1> DEFINE c == pcb["client"]
           d == PassiveOpen(h, s)
<1>1. "client" \in Host /\ "server" \in Host /\ Peer("server") = "client" /\ h = "server"
  BY DEF Host, Peer, OpenStep
<1>2. /\ pcb' = [pcb EXCEPT !["server"] = d] /\ app' = [app EXCEPT !["server"].opens = @ + 1]
      /\ net'["client"] \subseteq net["client"] /\ net'["server"] \subseteq net["server"]
      /\ app["server"].opens < OPENS_MAX
  BY <1>1 DEF OpenStep, Fewer, MayOpen
<1>3. app["server"].opens = 0
  <2>1. app["server"].opens \in Nat /\ OPENS_MAX \in Nat
    BY <1>1, TCPAssumption DEF TypeInv, AppRec
  <2> QED BY <1>2, <2>1
<1>4. /\ d.state = "SYN_RCVD" /\ d.blocked = "none"
      /\ d.snd_seq = Seq32((app["server"].opens + 1) * ISS_STEP)
  BY <1>1, PassiveOpenLemma
<1>5. d.snd_seq = Seq32(ISS_STEP)
  <2>1. (0 + 1) * ISS_STEP = ISS_STEP
    BY TCPAssumption
  <2> QED BY <1>3, <1>4, <2>1
<1>6. /\ c.state \in {"FREE", "SYN_SENT", "CLOSED"} /\ NoAcks("client") /\ NoAcks("server")
      /\ app["client"].phase = "start" => c.state = "FREE"
  BY <1>3 DEF Hand, BeforeOpen
<1>7. NoAcks("client")' /\ NoAcks("server")'
  BY <1>2, <1>6 DEF NoAcks
<1>8. pcb'["client"] = c /\ pcb'["server"] = d
  BY <1>1, <1>2 DEF TypeInv
<1>9. app'["server"].opens # 0 /\ app'["client"].phase = app["client"].phase
  <2>1. app \in [Host -> AppRec] /\ app["server"] \in AppRec
    BY <1>1 DEF TypeInv
  <2>2. app'["client"] = app["client"]
    BY <1>1, <1>2, <2>1
  <2>3. app'["server"].opens = app["server"].opens + 1
    BY <1>1, <1>2, <2>1 DEF AppRec
  <2> QED BY <1>3, <2>2, <2>3
<1> HIDE DEF c, d
<1>10. BeforeOpen'
  BY <1>6, <1>7, <1>8, <1>9 DEF BeforeOpen
<1>11. WhileOpening'
  BY <1>5, <1>6, <1>7, <1>8 DEF WhileOpening, NoAcks, Early
<1>12. WakeInv => WakeInv'
  <2>1. WakeOK(d)
    BY <1>4 DEF WakeOK, FullQueue, Ended, AfterFinWait1
  <2> QED BY <1>8, <2>1 DEF WakeInv, Host, c
<1> QED
  BY <1>4, <1>6, <1>8, <1>10, <1>11, <1>12 DEF Hand

(* And so does the active open. *)
LEMMA HandConnect ==
  ASSUME TypeInv, Hand, Connect
  PROVE  Hand' /\ (WakeInv => WakeInv')
<1> DEFINE v == pcb["server"]
<1>1. "client" \in Host /\ "server" \in Host
  BY DEF Host
<1>2. app["client"].phase = "start" /\ net' = net
      /\ app' = [app EXCEPT !["client"].phase = "open", !["client"].opens = @ + 1]
  BY ConnectLemma
<1>3. PICK q : pcb' = [pcb EXCEPT !["client"] = q] /\ q.state = "SYN_SENT" /\ q.blocked = "connect"
  BY ConnectLemma
<1>4. pcb'["client"] = q /\ pcb'["server"] = v
  BY <1>1, <1>3 DEF TypeInv
<1>5. app'["server"] = app["server"] /\ app'["client"].phase = "open"
  <2>1. app \in [Host -> AppRec] /\ app["client"] \in AppRec
    BY <1>1 DEF TypeInv
  <2>2. app'["server"] = app["server"]
    BY <1>1, <1>2, <2>1
  <2>3. app'["client"].phase = "open"
    BY <1>1, <1>2, <2>1 DEF AppRec
  <2> QED BY <2>2, <2>3
<1>6. NoAcks("server") /\ pcb["client"].state = "FREE"
  BY <1>2 DEF Hand, BeforeOpen
<1> HIDE DEF v
<1>7. BeforeOpen'
  <2>1. app["server"].opens = 0 => v.state = "FREE" /\ NoAcks("client") /\ NoAcks("server")
    BY DEF Hand, BeforeOpen, v
  <2>2. NoAcks("client") => NoAcks("client")'
    BY <1>2 DEF NoAcks
  <2>3. NoAcks("server")'
    BY <1>2, <1>6 DEF NoAcks
  <2> QED BY <1>3, <1>4, <1>5, <2>1, <2>2, <2>3 DEF BeforeOpen
<1>8. WhileOpening'
  BY <1>2, <1>3, <1>4 DEF Hand, WhileOpening, Early, v
<1>9. WakeInv => WakeInv'
  <2>1. WakeOK(q)
    BY <1>3 DEF WakeOK, FullQueue, Ended, AfterFinWait1
  <2> QED BY <1>4, <2>1 DEF WakeInv, Host, v
<1>10. v.state # "SYN_SENT"
  BY DEF Hand, v
<1> QED
  BY <1>3, <1>4, <1>7, <1>8, <1>9, <1>10 DEF Hand

(* A call that waits is woken up in the step that ends its wait. *)
LEMMA WakeStep ==
  ASSUME TypeInv, Hand, WakeInv, NEW h \in Host,
         QuietStep(h) \/ \E s \in net[h] : SegOK(s) /\ InputStep(h, s)
  PROVE  WakeInv'
<1>1. BlockOK(pcb[h]) /\ WakeOK(pcb[h]) /\ pcb \in [Host -> PcbRec]
  BY DEF TypeInv, WakeInv
<1>2. ASSUME NEW q, WakeOK(q), pcb' = [pcb EXCEPT ![h] = q]
      PROVE  WakeInv'
  <2>1. \A g \in Host : pcb'[g] = q \/ pcb'[g] = pcb[g]
    BY <1>1, <1>2
  <2> QED BY <1>2, <2>1 DEF WakeInv
<1>3. CASE QuietStep(h)
  BY <1>1, <1>2, <1>3 DEF QuietStep, LocalStep
<1>4. ASSUME NEW s \in net[h], SegOK(s), InputStep(h, s)
      PROVE  WakeInv'
  <2>1. PICK q : InputEffect(pcb[h], s, q) /\ pcb' = [pcb EXCEPT ![h] = q]
    BY <1>4 DEF InputStep
  <2>2. pcb[h].state \in Active
    BY <1>4 DEF InputStep
  <2>3. InputLocal(pcb[h], s, q)
    BY <1>1, <1>4, <2>1, <2>2, InputLocalLemma
  <2>4. pcb[h].state = "SYN_RCVD" /\ AckSeg(s) => SeqDiff(s.ack, pcb[h].snd_seq) # 0
    <3> SUFFICES ASSUME pcb[h].state = "SYN_RCVD", AckSeg(s)
                 PROVE  SeqDiff(s.ack, pcb[h].snd_seq) # 0
      OBVIOUS
    <3>1. h = "server"
      BY DEF Hand, Host
    <3>2. pcb[h].snd_seq = Seq32(ISS_STEP) /\ Reached(s.ack)
      BY <1>4, <3>1 DEF Hand, WhileOpening
    <3> QED BY <3>2, ReachedNotStart
  <2>5. WakeOK(q)
    BY <1>1, <2>3, <2>4 DEF InputLocal
  <2> QED BY <1>2, <2>1, <2>5
<1> QED
  BY <1>3, <1>4

(* Every step keeps the handshake in order, and nobody waits in vain. *)
LEMMA HandNext ==
  ASSUME TypeInv, Hand, OPENS_MAX <= 1, [Next]_vars
  PROVE  Hand' /\ (WakeInv => WakeInv')
<1>1. CASE Connect
  BY <1>1, HandConnect
<1>2. ASSUME NEW h \in Host, QuietStep(h)
      PROVE  Hand' /\ (WakeInv => WakeInv')
  BY <1>2, HandQuietClient, HandQuietServer, WakeStep DEF Host
<1>3. ASSUME NEW h \in Host, NEW s \in net[h], SegOK(s), InputStep(h, s)
      PROVE  Hand' /\ (WakeInv => WakeInv')
  <2>1. WakeInv => WakeInv'
    BY <1>3, WakeStep
  <2>2. Hand'
    BY <1>3, HandInputClient, HandInputServer DEF Host
  <2> QED BY <2>1, <2>2
<1>4. ASSUME NEW h \in Host, NEW s \in net[h], SegOK(s), OpenStep(h, s)
      PROVE  Hand' /\ (WakeInv => WakeInv')
  BY <1>4, HandOpen
<1> QED
  BY <1>1, <1>2, <1>3, <1>4, StepKinds

(* In the first state there is no connection and no call. *)
LEMMA HandInit == Init => Hand /\ WakeInv
<1> SUFFICES ASSUME Init PROVE Hand /\ WakeInv
  OBVIOUS
<1>1. \A h \in Host : pcb[h] = FreePcb /\ net[h] = {}
  BY DEF Init
<1>2. FreePcb.state = "FREE" /\ FreePcb.blocked = "none"
  BY FreePcbOK DEF Gone
<1>3. "client" \in Host /\ "server" \in Host
  BY DEF Host
<1>4. WakeInv
  BY <1>1, <1>2 DEF WakeInv, WakeOK, FullQueue, Ended, AfterFinWait1
<1>5. Hand
  BY <1>1, <1>2, <1>3 DEF Hand, BeforeOpen, WhileOpening, NoAcks
<1> QED
  BY <1>4, <1>5

(***************************************************************************)
(* A call that waits has something to wait for: whatever makes             *)
(* tcp_connect(), tcp_recv() or tcp_send() return, with a result or        *)
(* because the state is no longer one to wait in (an ACK, data, a FIN, a   *)
(* reset, a timer), also wakes up the caller, for every size of the        *)
(* queues. The one exception is the one NoLostWakeup names: a FIN that     *)
(* leads to CLOSE_WAIT while received data is unread need not wake up a    *)
(* sender. So a caller of tcp_connect() or tcp_recv() never misses its     *)
(* wake-up, and a caller of tcp_send() that does has data left to read.    *)
(***************************************************************************)
THEOREM NobodyWaitsInVain ==
  ASSUME OPENS_MAX <= 1
  PROVE  Spec => []NoLostWakeup
<1> DEFINE I == TypeInv /\ Hand /\ WakeInv
<1>1. Init => I
  BY InitType, HandInit
<1>2. I /\ [Next]_vars => I'
  BY NextType, HandNext
<1>3. I => NoLostWakeup
  BY DEF WakeInv, WakeOK, FullQueue, NoLostWakeup
<1> HIDE DEF I
<1> QED
  BY <1>1, <1>2, <1>3, PTL DEF Spec

--------------------------------------------------------------------------------
(* A segment leaves nothing behind that no timer looks after (tcp_input). *)
LEMMA InputDue ==
  ASSUME NEW p, BlockOK(p), DueOK(p), p.state \in Active, NEW s, SegOK(s), NEW q, PcbOK(q),
         InputEffect(p, s, q), "SYN" \in s.flags => s.win >= 1,
         p.state = "SYN_SENT" /\ AckSeg(s) => p.snd_off > 0 /\ p.snd_max > 0,
         p.state = "SYN_RCVD" /\ AckSeg(s) => SeqDiff(s.ack, p.snd_seq) # 0
  PROVE  DueOK(q)
<1>1. /\ PcbOK(p) /\ Quiet(p) /\ p.snd_off \in Offs /\ p.snd_max \in Offs /\ p.snd_wnd \in Nat
      /\ p.snd_wnd >= 1 /\ q.snd_wnd \in Nat
  BY PcbFields, TCPAssumption DEF BlockOK, DueOK
<1>2. CASE Gone(q)
  BY <1>2 DEF Gone, DueOK, Active, Opening
<1>3. CASE Opened(p, s, q)
  <2>1. p.snd_off > 0 /\ p.snd_max > 0 /\ s.win >= 1
    BY <1>3 DEF Opened, AckSeg
  <2>2. p.snd_off - 1 \in Offs /\ p.snd_max - 1 \in Offs
    BY <1>1, <2>1, TCPAssumption DEF Offs
  <2>3. q.snd_off = p.snd_off - 1 /\ q.snd_max = p.snd_max - 1
    BY <1>3, <2>2, Off16Small DEF Opened
  <2>4. TimerOK(p)
    BY <1>3 DEF DueOK, Opened, Opening
  <2>5. p.snd_off \in Nat /\ p.snd_max \in Nat
    BY <1>1, TCPAssumption DEF Offs
  <2>6. q.snd_off <= q.snd_max /\ q.rxmt_tmr = p.rxmt_tmr /\ q.rxmt_cnt = p.rxmt_cnt
    BY <1>3, <2>3, <2>4, <2>5 DEF TimerOK, Opened
  <2>7. TimerOK(q)
    BY <2>1, <2>4, <2>6 DEF TimerOK
  <2>8. q.snd_q = <<>> /\ q.snd_wnd >= 1
    BY <1>1, <1>3, <2>1 DEF Opened, Quiet, Early
  <2> QED BY <2>7, <2>8 DEF DueOK
<1>4. CASE Held(p, s, q)
  BY <1>4 DEF Held, DueOK, TimerOK, SendSame
<1>5. CASE Through(p, s, q)
  <2>1. PICK m, t : Taken(p, s, m, t, q)
    BY <1>5 DEF Through
  <2> DEFINE d == SeqDiff(s.ack, p.snd_seq)
  <2>2. p.state # "SYN_SENT" /\ (p.state = "SYN_RCVD" => d # 0)
    BY <1>5 DEF Through
  <2>3. /\ PcbOK(m) /\ AckMid(p, m, d) /\ Step6Effect(m, t, q)
        /\ d >= 1 /\ d = p.snd_max /\ q.snd_q # <<>> /\ q.state = "ESTABLISHED" => q.needoutput
    BY <2>1 DEF Taken
  <2> HIDE DEF d
  <2>4. CASE Untouched(p, m)
    <3>1. DueOK(m)
      BY <2>4 DEF DueOK, Untouched, SendSame, TimerOK
    <3>2. m.state # "SYN_SENT" /\ m.snd_wnd >= 1 /\ m.snd_wnd \in Nat
      BY <1>1, <2>2, <2>4 DEF Untouched
    <3>3. q.snd_wnd >= 1
      BY <1>1, <2>3, <3>2 DEF Step6Effect
    <3>4. CASE q.state = m.state /\ SendSame(m, q)
      BY <2>3, <3>1, <3>3, <3>4 DEF Step6Effect, SendSame, DueOK, TimerOK
    <3>5. CASE FinEffect(m, t, q)
      <4>1. q.state \notin Opening \/ (q.state = m.state /\ SendSame(m, q))
        BY <3>5 DEF FinEffect, Opening
      <4>2. CASE q.state \notin Opening
        BY <3>3, <4>2 DEF DueOK, Opening
      <4> QED BY <3>4, <4>1, <4>2
    <3> QED BY <2>3, <3>4, <3>5 DEF Step6Effect
  <2>5. CASE d \in 1 .. p.snd_max /\ NewlyAcked(p, m, d) /\ RestSame(p, m)
    <3>1. m.snd_wnd >= 1 /\ m.snd_wnd \in Nat
      BY <1>1, <2>5 DEF RestSame
    <3>2. q.snd_wnd >= 1
      BY <1>1, <2>3, <3>1 DEF Step6Effect
    <3>3. ASSUME q.state \in Opening
          PROVE  q.state = m.state /\ SendSame(m, q)
      BY <2>3, <3>3 DEF Step6Effect, FinEffect, Opening
    <3>4. ASSUME q.state \in Opening
          PROVE  TimerOK(q) /\ (q.state = "ESTABLISHED" /\ q.snd_q # <<>> => q.needoutput \/ q.rxmt_tmr)
      <4>1. m.state \in Opening /\ SendSame(m, q)
        BY <3>3, <3>4
      <4>2. AckedBy(p, m, d) /\ p.state \in Opening
        BY <2>5, <4>1 DEF NewlyAcked, StateAcked, Opening
      <4>3. TimerOK(p)
        BY <4>2 DEF DueOK
      <4>4. /\ d \in 1 .. p.snd_max /\ m.snd_off = MaxOf(p.snd_off, d) - d
            /\ m.snd_max = p.snd_max - d /\ m.rxmt_tmr = (d # p.snd_max)
        BY <4>2 DEF AckedBy
      <4>5. p.snd_off \in Nat /\ p.snd_max \in Nat /\ d \in Nat /\ p.snd_off <= p.snd_max
        BY <1>1, <4>3, <4>4, TCPAssumption DEF Offs, TimerOK
      <4>6. m.snd_off <= m.snd_max /\ (m.snd_max > 0 => d # p.snd_max)
        BY <4>4, <4>5 DEF MaxOf
      <4>7. TimerOK(q)
        BY <4>1, <4>4, <4>6 DEF TimerOK, SendSame
      <4>8. d # p.snd_max => q.rxmt_tmr
        BY <4>1, <4>4 DEF SendSame
      <4>9. d >= 1
        BY <4>4, <4>5
      <4> QED BY <2>3, <4>7, <4>8, <4>9
    <3> QED BY <3>2, <3>4 DEF DueOK, Opening
  <2> QED BY <2>2, <2>3, <2>4, <2>5 DEF AckMid
<1> QED
  BY <1>2, <1>3, <1>4, <1>5 DEF InputEffect

(* A SYN advertises a window: nothing has been received yet. *)
LEMMA SynWindow ==
  ASSUME NEW x, BlockOK(x), NEW end, NEW m, SentBy(x, end, m), "SYN" \in m.flags
  PROVE  m.win >= 1
<1>1. x.state \in TCPS /\ PcbOK(x) /\ Quiet(x)
  BY PcbFields DEF BlockOK
<1>2. x.state \in {"SYN_SENT", "SYN_RCVD"}
  BY <1>1, FlagsLemma DEF SentBy, FlagsOf
<1>3. Len(x.rcv_q) = 0
  BY <1>1, <1>2 DEF Quiet, Early
<1>4. MAXRCV \in Nat /\ MAXRCV > 0 /\ MAXWIN \in Nat /\ MAXWIN > 0 /\ MAXRCV - 0 = MAXRCV
  BY TCPAssumption
<1>5. ~(MAXRCV < MAXRCV \div 4)
  BY <1>4
<1>6. Advertised(x) = MinOf(MAXRCV, MAXWIN)
  BY <1>3, <1>4, <1>5 DEF Advertised
<1>7. MinOf(MAXRCV, MAXWIN) >= 1
  BY <1>4 DEF MinOf
<1> QED
  BY <1>6, <1>7 DEF SentBy

(* Before tcp_connect() is called nothing has happened at all. *)
NothingYet ==
  app["client"].phase = "start" =>
    /\ pcb["client"].state = "FREE" /\ pcb["server"].state = "FREE"
    /\ net["client"] = {} /\ net["server"] = {} /\ app["server"].opens = 0

(* Whatever the server may have got from an active open is counted there. *)
SynCounted ==
  pcb["client"].state = "SYN_SENT" =>
    /\ SynOK(pcb["client"], faults)
    /\ net["server"] # {} \/ app["server"].opens # 0 => pcb["client"].snd_off > 0

(* A SYN never closes the window. *)
WindowsOpen == \A h \in Host : \A m \in net[h] : "SYN" \in m.flags => m.win >= 1

(* The inductive form of DataIsDue. *)
DueInv ==
  /\ faults <= FAULTS_MAX
  /\ \A h \in Host : DueOK(pcb[h])
  /\ NothingYet /\ SynCounted /\ WindowsOpen

(* The windows stay open. *)
LEMMA WindowsStep ==
  ASSUME TypeInv, WindowsOpen, NEW h \in Host, Fewer(h),
         Fewer(Peer(h)) \/ OnlyResets(Peer(h)) \/ NewSegs(h, pcb[h])
  PROVE  WindowsOpen'
<1>1. Peer(h) \in Host /\ Host = {h, Peer(h)}
  BY PeerLemma
<1>2. \A m \in net'[h] : "SYN" \in m.flags => m.win >= 1
  BY DEF WindowsOpen, Fewer
<1>3. \A m : IsReset(m) => "SYN" \notin m.flags
  BY DEF IsReset
<1>4. \A m \in net'[Peer(h)] : "SYN" \in m.flags => m.win >= 1
  <2> TAKE m \in net'[Peer(h)]
  <2> HAVE "SYN" \in m.flags
  <2>1. CASE m \in net[Peer(h)]
    BY <1>1, <2>1 DEF WindowsOpen
  <2>2. CASE \E x : BlockOK(x) /\ SentBy(x, OFF_MOD + MAXSEG, m)
    BY <2>2, SynWindow
  <2> QED BY <1>3, <2>1, <2>2 DEF Fewer, OnlyResets, NewSegs
<1> QED
  BY <1>1, <1>2, <1>4 DEF WindowsOpen

(* A quiet step. *)
LEMMA DueQuiet ==
  ASSUME TypeInv, DueInv, FAULTS_MAX + 1 < OFF_MOD, NEW h \in Host, QuietStep(h)
  PROVE  DueInv'
<1> DEFINE p == pcb[h]
<1>1. PICK q : LocalStep(p, q) /\ SynStep(h, q) /\ pcb' = [pcb EXCEPT ![h] = q]
  BY DEF QuietStep
<1>2. /\ pcb'[h] = q /\ (\A g \in Host \ {h} : pcb'[g] = pcb[g])
      /\ faults \in Nat /\ FAULTS_MAX \in Nat /\ "client" \in Host /\ "server" \in Host
  BY <1>1, TCPAssumption DEF TypeInv, Host
<1>3. faults' <= FAULTS_MAX /\ faults <= faults' /\ faults' \in Nat
  BY <1>2 DEF QuietStep, FaultStep, DueInv
<1>4. \A g \in Host : DueOK(pcb'[g])
  <2>1. DueOK(q)
    BY <1>1 DEF LocalStep, DueInv
  <2> QED BY <1>2, <2>1 DEF DueInv
<1>5. WindowsOpen'
  BY WindowsStep DEF DueInv, QuietStep
<1>6. /\ app'["server"].opens = app["server"].opens
      /\ app'["client"].phase = "start" => app["client"].phase = "start"
  BY <1>2 DEF QuietStep
<1>7. Fewer(h) /\ NewSegs(h, p) /\ Peer(h) \in Host /\ Host = {h, Peer(h)}
  BY PeerLemma DEF QuietStep
<1>8. NothingYet'
  <2> SUFFICES ASSUME app["client"].phase = "start"
               PROVE  /\ pcb'["client"].state = "FREE" /\ pcb'["server"].state = "FREE"
                      /\ net'["client"] = {} /\ net'["server"] = {} /\ app["server"].opens = 0
    BY <1>6 DEF NothingYet
  <2>1. (\A g \in Host : pcb[g].state = "FREE" /\ net[g] = {}) /\ app["server"].opens = 0
    BY DEF DueInv, NothingYet, Host
  <2>2. \A x : LocalStep(p, x) => x.state = "FREE"
    BY <2>1 DEF LocalStep
  <2>3. net'[h] = {} /\ net'[Peer(h)] = {}
    BY <1>7, <2>1, <2>2 DEF Fewer, NewSegs
  <2>4. \A g \in Host : net'[g] = {}
    BY <1>7, <2>3
  <2> QED BY <1>1, <1>2, <2>1, <2>2, <2>4
<1>9. SynCounted'
  <2> SUFFICES ASSUME pcb'["client"].state = "SYN_SENT"
               PROVE  /\ SynOK(pcb'["client"], faults')
                      /\ net'["server"] # {} \/ app["server"].opens # 0 => pcb'["client"].snd_off > 0
    BY <1>6 DEF SynCounted
  <2>1. CASE h = "client"
    <3>1. q.state = "SYN_SENT" /\ p.state = "SYN_SENT" /\ Peer(h) = "server" /\ pcb'["client"] = q
      BY <1>1, <1>2, <2>1 DEF LocalStep, Peer
    <3>2. SynOK(p, faults) /\ (net["server"] # {} \/ app["server"].opens # 0 => p.snd_off > 0)
      BY <2>1, <3>1 DEF DueInv, SynCounted
    <3>3. DueOK(p) /\ faults <= FAULTS_MAX
      BY DEF DueInv
    <3>4. SynOK(q, faults') /\ (p.snd_off > 0 => q.snd_off > 0) /\ (q.snd_off > 0 \/ Fewer("server"))
      BY <1>1, <3>1, <3>2, <3>3 DEF SynStep
    <3> QED BY <3>1, <3>2, <3>4 DEF Fewer
  <2>2. CASE h = "server"
    <3> DEFINE c == pcb["client"]
    <3>1. pcb'["client"] = c /\ net'["server"] \subseteq net["server"]
      BY <1>2, <1>7, <2>2 DEF Fewer
    <3>2. SynOK(c, faults) /\ (net["server"] # {} \/ app["server"].opens # 0 => c.snd_off > 0)
      BY <3>1 DEF DueInv, SynCounted
    <3>3. c.snd_max \in Nat /\ c.snd_off \in Nat
      BY <1>2, PcbFields DEF TypeInv, BlockOK, Offs
    <3> HIDE DEF c
    <3>4. SynOK(c, faults')
      BY <1>2, <1>3, <3>2, <3>3 DEF SynOK, SynPending
    <3> QED BY <3>1, <3>2, <3>4
  <2> QED BY <2>1, <2>2 DEF Host
<1> QED
  BY <1>3, <1>4, <1>5, <1>8, <1>9 DEF DueInv

(* A segment that gets to a control block. *)
LEMMA DueInput ==
  ASSUME TypeInv, Hand, DueInv, faults' = faults,
         NEW h \in Host, NEW s \in net[h], SegOK(s), InputStep(h, s)
  PROVE  DueInv'
<1> DEFINE p == pcb[h]
<1>1. PICK q : PcbOK(q) /\ InputEffect(p, s, q) /\ pcb' = [pcb EXCEPT ![h] = q]
  BY DEF InputStep
<1>2. /\ pcb'[h] = q /\ (\A g \in Host \ {h} : pcb'[g] = pcb[g]) /\ BlockOK(p) /\ DueOK(p)
      /\ "client" \in Host /\ "server" \in Host /\ Peer(h) \in Host
  BY <1>1, PeerLemma DEF TypeInv, Host, DueInv
<1>3. p.state \in Active /\ app' = app /\ Fewer(h) /\ OnlyResets(Peer(h))
  BY DEF InputStep
<1>4. p.state \in {"SYN_SENT", "SYN_RCVD"} =>
        h = IF p.state = "SYN_SENT" THEN "client" ELSE "server"
  BY DEF Hand, Host
<1>5. ASSUME p.state = "SYN_SENT", AckSeg(s)
      PROVE  p.snd_off > 0 /\ p.snd_max > 0
  <2>1. h = "client"
    BY <1>4, <1>5
  <2>2. app["server"].opens # 0
    BY <1>5, <2>1 DEF Hand, BeforeOpen, NoAcks
  <2>3. p.snd_off > 0
    BY <1>5, <2>1, <2>2 DEF DueInv, SynCounted
  <2>4. p.snd_off <= p.snd_max
    BY <1>2, <1>5 DEF DueOK, TimerOK, Opening
  <2>5. p.snd_off \in Nat /\ p.snd_max \in Nat
    BY <1>2, PcbFields DEF BlockOK, Offs
  <2> QED BY <2>3, <2>4, <2>5
<1>6. ASSUME p.state = "SYN_RCVD", AckSeg(s)
      PROVE  SeqDiff(s.ack, p.snd_seq) # 0
  <2>1. h = "server"
    BY <1>4, <1>6
  <2>2. p.snd_seq = Seq32(ISS_STEP) /\ Reached(s.ack)
    BY <1>6, <2>1 DEF Hand, WhileOpening
  <2> QED BY <2>2, ReachedNotStart
<1>7. "SYN" \in s.flags => s.win >= 1
  BY DEF DueInv, WindowsOpen
<1>8. DueOK(q) /\ InputLocal(p, s, q)
  BY <1>1, <1>2, <1>3, <1>5, <1>6, <1>7, InputDue, InputLocalLemma
<1>9. \A g \in Host : DueOK(pcb'[g])
  BY <1>2, <1>8 DEF DueInv
<1>10. WindowsOpen'
  BY <1>3, WindowsStep DEF DueInv
<1>11. NothingYet'
  <2>1. app["client"].phase # "start"
    BY <1>2 DEF DueInv, NothingYet, Host
  <2> QED BY <1>3, <2>1 DEF NothingYet
<1>12. SynCounted'
  <2>1. CASE h = "client"
    BY <1>2, <1>8, <2>1 DEF InputLocal, SynCounted
  <2>2. CASE h = "server"
    <3>1. pcb'["client"] = pcb["client"] /\ net'["server"] \subseteq net["server"]
      BY <1>2, <1>3, <2>2 DEF Fewer
    <3> QED BY <1>3, <3>1 DEF DueInv, SynCounted
  <2> QED BY <2>1, <2>2 DEF Host
<1> QED
  BY <1>9, <1>10, <1>11, <1>12 DEF DueInv

(* The passive open. *)
LEMMA DueOpen ==
  ASSUME TypeInv, DueInv, faults' = faults,
         NEW h \in Host, NEW s \in net[h], SegOK(s), OpenStep(h, s)
  PROVE  DueInv'
<1> DEFINE d == PassiveOpen(h, s)
           c == pcb["client"]
<1>1. /\ h = "server" /\ "client" \in Host /\ "server" \in Host /\ s \in net["server"]
      /\ pcb' = [pcb EXCEPT !["server"] = d] /\ Fewer(h) /\ Fewer(Peer(h)) /\ s.flags = {"SYN"}
      /\ app' = [app EXCEPT !["server"].opens = @ + 1]
  BY DEF OpenStep, Host
<1>2. pcb'["server"] = d /\ pcb'["client"] = c /\ app'["client"] = app["client"]
  BY <1>1 DEF TypeInv
<1>3. d.state = "SYN_RCVD" /\ d.snd_off = 0 /\ d.snd_max = 0 /\ d.snd_wnd = s.win
  BY <1>1, PassiveOpenLemma
<1>4. s.win >= 1
  BY <1>1 DEF DueInv, WindowsOpen
<1> HIDE DEF c, d
<1>5. DueOK(d)
  BY <1>3, <1>4 DEF DueOK, TimerOK
<1>6. \A g \in Host : DueOK(pcb'[g])
  BY <1>2, <1>5 DEF DueInv, Host, c
<1>7. WindowsOpen'
  BY <1>1, WindowsStep DEF DueInv
<1>8. NothingYet'
  <2>1. app["client"].phase # "start"
    BY <1>1 DEF DueInv, NothingYet
  <2> QED BY <1>2, <2>1 DEF NothingYet
<1>9. SynCounted'
  <2>1. c.state = "SYN_SENT" => SynOK(c, faults) /\ c.snd_off > 0
    BY <1>1 DEF DueInv, SynCounted, c
  <2> QED BY <1>2, <2>1 DEF SynCounted
<1> QED
  BY <1>6, <1>7, <1>8, <1>9 DEF DueInv

(* The active open. *)
LEMMA DueConnect ==
  ASSUME TypeInv, DueInv, Connect
  PROVE  DueInv'
<1>1. "client" \in Host /\ "server" \in Host /\ faults \in Nat
  BY DEF Host, TypeInv
<1>2. app["client"].phase = "start" /\ net' = net /\ faults' = faults
      /\ app' = [app EXCEPT !["client"].phase = "open", !["client"].opens = @ + 1]
  BY ConnectLemma
<1>3. PICK q : /\ pcb' = [pcb EXCEPT !["client"] = q] /\ q.state = "SYN_SENT" /\ q.snd_wnd = 1
               /\ q.snd_off = 0 /\ q.snd_max = 0 /\ ~q.delack
  BY ConnectLemma
<1>4. pcb'["client"] = q /\ pcb'["server"] = pcb["server"]
  BY <1>1, <1>3 DEF TypeInv
<1>5. app'["server"] = app["server"] /\ app'["client"].phase = "open"
  <2>1. app \in [Host -> AppRec] /\ app["client"] \in AppRec
    BY <1>1 DEF TypeInv
  <2>2. app'["server"] = app["server"]
    BY <1>1, <1>2, <2>1
  <2>3. app'["client"].phase = "open"
    BY <1>1, <1>2, <2>1 DEF AppRec
  <2> QED BY <2>2, <2>3
<1>6. net["server"] = {} /\ app["server"].opens = 0
  BY <1>2 DEF DueInv, NothingYet
<1>7. DueOK(q)
  BY <1>3 DEF DueOK, TimerOK
<1>8. \A g \in Host : DueOK(pcb'[g])
  BY <1>4, <1>7 DEF DueInv, Host
<1>9. NothingYet' /\ WindowsOpen'
  BY <1>2, <1>5 DEF NothingYet, WindowsOpen, DueInv
<1>10. SynOK(q, faults)
  BY <1>1, <1>3 DEF SynOK, SynPending
<1>11. SynCounted'
  BY <1>2, <1>4, <1>5, <1>6, <1>10 DEF SynCounted
<1> QED
  BY <1>2, <1>8, <1>9, <1>11 DEF DueInv

(* Every step keeps what DataIsDue rests on. *)
LEMMA DueNext ==
  ASSUME TypeInv, Hand, DueInv, FAULTS_MAX + 1 < OFF_MOD, [Next]_vars
  PROVE  DueInv'
<1>1. CASE Connect
  BY <1>1, DueConnect
<1>2. ASSUME NEW h \in Host, QuietStep(h)
      PROVE  DueInv'
  BY <1>2, DueQuiet
<1>3. ASSUME NEW h \in Host, NEW s \in net[h], SegOK(s), faults' = faults, InputStep(h, s)
      PROVE  DueInv'
  BY <1>3, DueInput
<1>4. ASSUME NEW h \in Host, NEW s \in net[h], SegOK(s), faults' = faults, OpenStep(h, s)
      PROVE  DueInv'
  BY <1>4, DueOpen
<1> QED
  BY <1>1, <1>2, <1>3, <1>4, StepKinds

(* In the first state there is nothing to send. *)
LEMMA DueInit == Init => DueInv
<1> SUFFICES ASSUME Init PROVE DueInv
  OBVIOUS
<1>1. \A h \in Host : pcb[h] = FreePcb /\ net[h] = {}
  BY DEF Init
<1>2. FreePcb.state = "FREE"
  BY FreePcbOK
<1>3. "client" \in Host /\ "server" \in Host /\ faults = 0 /\ FAULTS_MAX \in Nat
  BY TCPAssumption DEF Host, Init
<1>4. app["server"].opens = 0
  BY <1>3 DEF Init
<1>5. \A h \in Host : DueOK(pcb[h])
  BY <1>1, <1>2 DEF DueOK, Active, Opening
<1>6. NothingYet /\ SynCounted /\ WindowsOpen
  BY <1>1, <1>2, <1>3, <1>4 DEF NothingYet, SynCounted, WindowsOpen
<1> QED
  BY <1>3, <1>5, <1>6 DEF DueInv

(***************************************************************************)
(* Data in the send queue of an open connection is never forgotten: after  *)
(* every call, segment and timer output is due, one of the two timers will *)
(* make it due, or tcp_rxmt_tmr() has given up.                            *)
(***************************************************************************)
THEOREM DataIsNeverForgotten ==
  ASSUME OPENS_MAX <= 1, FAULTS_MAX + 1 < OFF_MOD
  PROVE  Spec => []DataIsDue
<1> DEFINE I == TypeInv /\ Hand /\ DueInv
<1>1. Init => I
  BY InitType, HandInit, DueInit
<1>2. I /\ [Next]_vars => I'
  BY NextType, HandNext, DueNext
<1>3. I => DataIsDue
  BY DEF DueInv, DueOK, DataIsDue
<1> HIDE DEF I
<1> QED
  BY <1>1, <1>2, <1>3, PTL DEF Spec

================================================================================
