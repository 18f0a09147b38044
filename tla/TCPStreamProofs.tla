---------------------------- MODULE TCPStreamProofs ----------------------------
(***************************************************************************)
(* Proofs about TCP: the two streams of data. A control block that sends   *)
(* has its offsets in order (FinInv); a FIN comes only from a host that    *)
(* closed (EndInv); before the handshake is over there is no data          *)
(* (HandData); and while a receiver takes data there is a number b, that   *)
(* of the first block, by which its own state, the sender's and every      *)
(* segment on its way count the same blocks (StreamInv). From these follow *)
(* StreamIntact and WindowAgrees.                                          *)
(***************************************************************************)
EXTENDS TCPProofs

(* The sender still has data whose numbers matter: the connection is open, or    *)
(* closed by this side before all was acknowledged.                              *)
Numbered(p) == p.state = "ESTABLISHED" \/ (p.state = "FIN_WAIT_1" /\ p.snd_q # <<>>)

(* The offsets of such a sender are in order, and a FIN that was sent is counted. *)
Counts(p) ==
  /\ p.snd_off <= p.snd_max
  /\ p.sentfin => p.snd_max > Len(p.snd_q)
  /\ ~p.sentfin => p.snd_off + 1 < OFF_MOD

(* A FIN is sent only when the connection is being closed. *)
FinOK(p) ==
  /\ p.state \in Opening => ~p.sentfin
  /\ Numbered(p) => Counts(p)

(* The last segment, with or without FIN, keeps the offsets in order (Sent). *)
LEMMA SentCounts ==
  ASSUME NEW x, PcbOK(x), Numbered(x), FinOK(x)
  PROVE  LET r == Sent(x, SegLen(x), SegFlags(x))
         IN  /\ PcbOK(r) /\ Kept(x, r) /\ FinOK(r)
             /\ r.snd_max >= x.snd_max /\ r.snd_max >= x.snd_off + SegLen(x)
<1> DEFINE len == SegLen(x)
           fl  == SegFlags(x)
           r   == Sent(x, len, fl)
           e   == SentEnd(x, len, fl)
           n   == Len(x.snd_q)
           k   == Counted(fl)
           o   == x.snd_off
           w   == x.snd_max
           M   == MaxOf(e, w)
           fin == "FIN" \in fl
<1>1. /\ o \in Nat /\ o < OFF_MOD /\ w \in Nat /\ w < OFF_MOD /\ n \in Nat /\ n <= MAXSND
      /\ x.state \in {"ESTABLISHED", "FIN_WAIT_1"} /\ x.state \in TCPS /\ x.sentfin \in BOOLEAN
      /\ MAXSND \in Nat /\ OFF_MOD \in Nat /\ MAXSND + 1 < OFF_MOD
  <2>1. o \in Offs /\ w \in Offs /\ n \in 0 .. MAXSND /\ x.state \in TCPS /\ x.sentfin \in BOOLEAN
    BY PcbFields
  <2>2. MAXSND \in Nat /\ OFF_MOD \in Nat /\ MAXSND + 1 < OFF_MOD
    BY TCPAssumption
  <2>3. x.state \in {"ESTABLISHED", "FIN_WAIT_1"}
    BY DEF Numbered
  <2> HIDE DEF o, w, n
  <2> QED
    BY <2>1, <2>2, <2>3 DEF Offs
<1>2. len \in Nat /\ fl \in FlagsOf(x) /\ (len > 0 => o + len <= n)
  <2>1. len \in 0 .. MAXSEG /\ Limit(x) \in 0 .. n /\ (len > 0 => o + len <= Limit(x))
    BY SegLenLemma
  <2>2. MAXSEG \in Nat
    BY TCPAssumption
  <2> HIDE DEF len, n, o
  <2>3. len \in Nat /\ (len > 0 => o + len <= n)
    BY <1>1, <2>1, <2>2
  <2> QED
    BY <2>3, SegFlagsLemma
<1>3. fin => x.state = "FIN_WAIT_1" /\ o + len >= n
  <2>1. fin => x.state = "FIN_WAIT_1"
    BY <1>1, <1>2, FlagsLemma DEF FlagsOf
  <2>2. o + len < n => ~fin
    BY DEF SegFlags
  <2> HIDE DEF len, n, o, fin
  <2>3. o + len < n \/ o + len >= n
    BY <1>1, <1>2
  <2> QED
    BY <2>1, <2>2, <2>3
<1>4. k = IF fin THEN 1 ELSE 0
  <2>1. "SYN" \notin fl
    BY <1>1, <1>2, FlagsLemma DEF FlagsOf
  <2>2. ~fin => {"SYN", "FIN"} \cap fl = {}
    BY <2>1
  <2> QED
    BY <1>2, <2>2, CountedLemma
<1>5. SegOff(x, fl) = IF fin /\ x.sentfin /\ o = w THEN o - 1 ELSE o
  BY DEF SegOff
<1>6. /\ e = SegOff(x, fl) + k + len /\ e \in Nat
      /\ PcbOK(r) /\ Kept(x, r) /\ r.sentfin = (x.sentfin \/ fin)
      /\ r.snd_off = Off16(e) /\ r.snd_max = Off16(M)
  BY <1>2, SentLemma DEF SentEnd
<1>7. /\ o <= w /\ (x.sentfin => w > n) /\ (~x.sentfin => o + 1 < OFF_MOD)
      /\ x.state = "ESTABLISHED" => ~x.sentfin
  BY DEF FinOK, Counts, Opening
<1> HIDE DEF len, fl, r, e, n, k, o, w, M, fin
<1>8. e < OFF_MOD /\ e >= o + len /\ (fin => e > n \/ x.sentfin) /\ (~fin /\ ~x.sentfin => e + 1 < OFF_MOD)
  <2>1. CASE ~fin
    <3>1. e = o + len
      BY <1>1, <1>2, <1>4, <1>5, <1>6, <2>1
    <3>2. CASE len > 0
      BY <1>1, <1>2, <3>1, <3>2, <2>1
    <3>3. CASE len = 0
      BY <1>1, <1>7, <3>1, <3>3, <2>1
    <3> QED BY <1>2, <3>2, <3>3
  <2>2. CASE fin /\ x.sentfin /\ o = w
    <3>1. len = 0
      BY <1>1, <1>2, <1>7, <2>2
    <3>2. e = o
      BY <1>1, <1>4, <1>5, <1>6, <2>2, <3>1
    <3> QED BY <1>1, <2>2, <3>1, <3>2
  <2>3. CASE fin /\ ~(x.sentfin /\ o = w)
    <3>1. e = o + 1 + len
      BY <1>1, <1>2, <1>4, <1>5, <1>6, <2>3
    <3>2. e < OFF_MOD
      BY <1>1, <1>2, <1>7, <2>3, <3>1
    <3> QED BY <1>1, <1>2, <1>3, <2>3, <3>1, <3>2
  <2> QED BY <2>1, <2>2, <2>3
<1>9. M \in Nat /\ M < OFF_MOD /\ M >= e /\ M >= w
  BY <1>1, <1>6, <1>8 DEF M, MaxOf
<1>10. r.snd_off = e /\ r.snd_max = M
  <2>1. e \in Offs /\ M \in Offs
    BY <1>1, <1>6, <1>8, <1>9 DEF Offs
  <2> QED
    BY <1>6, <2>1, Off16Small
<1>11. M >= o + len
  BY <1>1, <1>2, <1>6, <1>8, <1>9
<1>12. r.state = x.state /\ Len(r.snd_q) = n
  BY <1>6 DEF Kept, n
<1>13. r.state \in Opening => ~r.sentfin
  BY <1>1, <1>3, <1>6, <1>7, <1>12 DEF Opening
<1>14. r.sentfin => M > n
  BY <1>1, <1>6, <1>7, <1>8, <1>9
<1>15. Counts(r)
  BY <1>6, <1>8, <1>9, <1>10, <1>12, <1>14 DEF Counts
<1> QED
  BY <1>6, <1>9, <1>10, <1>11, <1>13, <1>15 DEF FinOK, len, fl, r, o, w

(* A closed window and the full segments keep the offsets in order as well. *)
LEMMA LastCounts ==
  ASSUME NEW p, PcbOK(p), FinOK(p)
  PROVE  LET f == WindowShut(p)
             x == Last(p)
         IN  /\ PcbOK(f) /\ Kept(p, f) /\ FinOK(f) /\ f.snd_max = p.snd_max
             /\ PcbOK(x) /\ Kept(p, x) /\ FinOK(x)
             /\ Numbered(p) =>
                  /\ x.snd_max >= p.snd_max
                  /\ \A off \in FullOffsets(f) : off + MAXSEG <= x.snd_max
<1> DEFINE f == WindowShut(p)
           x == Last(p)
           n == Len(p.snd_q)
<1>1. PcbOK(f) /\ Kept(p, f) /\ f.sentfin = p.sentfin /\ f.snd_max = p.snd_max
  BY WindowShutLemma
<1>2. f = p \/ f.snd_off = 0
  <2>1. f = p \/ f = [p EXCEPT !.rxmt_tmr = FALSE, !.snd_off = 0]
    BY DEF WindowShut
  <2>2. p \in PcbRec
    BY DEF PcbOK
  <2> QED BY <2>1, <2>2 DEF PcbRec
<1>3. x = AfterFull(f)
  BY DEF Last
<1>4. /\ n \in Nat /\ n <= MAXSND /\ MAXSND \in Nat /\ OFF_MOD \in Nat /\ MAXSND + 1 < OFF_MOD
      /\ MAXSEG \in Nat /\ p.snd_max \in Nat
  BY PcbFields, TCPAssumption DEF Offs
<1> HIDE DEF f, x
<1>5. f.state = p.state /\ f.snd_q = p.snd_q /\ Len(f.snd_q) = n
  BY <1>1 DEF Kept
<1>6. FinOK(f)
  <2>1. Counts(p) => Counts(f)
    BY <1>1, <1>2, <1>4, <1>5 DEF Counts
  <2> QED
    BY <1>1, <1>5, <2>1 DEF FinOK, Numbered
<1>7. /\ PcbOK(x) /\ Kept(f, x) /\ x.sentfin = f.sentfin
      /\ Room(f) <= MAXSEG => x = f
      /\ Room(f) > MAXSEG =>
           /\ FullEnd(f) \in Nat /\ FullEnd(f) < Limit(f)
           /\ x.snd_off = FullEnd(f) /\ x.snd_max = MaxOf(FullEnd(f), f.snd_max)
  BY <1>1, <1>3, AfterFullLemma
<1>8. Kept(p, x)
  BY <1>1, <1>7, KeptLemma
<1>9. Limit(f) \in 0 .. n /\ Room(f) \in Int
  <2>1. Limit(f) \in 0 .. n /\ f.snd_off \in Int
    BY <1>1, <1>5, SegLenLemma, PcbFields DEF Offs
  <2> QED BY <1>4, <2>1 DEF Room
<1>10. CASE Room(f) <= MAXSEG
  <2>1. x = f
    BY <1>7, <1>10
  <2>2. FullOffsets(f) = {}
    <3> SUFFICES ASSUME NEW off \in FullOffsets(f) PROVE FALSE
      OBVIOUS
    <3>1. off \in Nat /\ off >= f.snd_off /\ off + MAXSEG < Limit(f) /\ f.snd_off \in Nat
      BY <1>1, PcbFields DEF FullOffsets, Offs
    <3> QED BY <1>4, <1>9, <1>10, <3>1 DEF Room
  <2> QED
    BY <1>1, <1>4, <1>6, <1>8, <2>1, <2>2 DEF f, x
<1>11. CASE Room(f) > MAXSEG
  <2> DEFINE e == FullEnd(f)
             w == f.snd_max
  <2>1. e \in Nat /\ e < n /\ w \in Nat /\ w = p.snd_max /\ x.snd_off = e /\ x.snd_max = MaxOf(e, w)
    BY <1>1, <1>4, <1>7, <1>9, <1>11
  <2>2. /\ \A off \in FullOffsets(f) : off \in Nat /\ off + MAXSEG <= e
    BY <1>1, <1>11, FullOffsetsLemma
  <2> HIDE DEF e, w, n
  <2>3. x.snd_max \in Nat /\ x.snd_max >= e /\ x.snd_max >= w /\ e + 1 < OFF_MOD
    BY <1>4, <2>1 DEF MaxOf
  <2>4. \A off \in FullOffsets(f) : off + MAXSEG <= x.snd_max
    BY <1>4, <2>1, <2>2, <2>3
  <2>5. x.state = f.state /\ x.snd_q = f.snd_q /\ Len(x.snd_q) = n
    BY <1>5, <1>7 DEF Kept
  <2>6. Numbered(x) => Counts(x)
    <3> HAVE Numbered(x)
    <3>1. Numbered(f)
      BY <2>5 DEF Numbered
    <3>2. f.sentfin => w > n
      BY <1>5, <1>6, <3>1 DEF FinOK, Counts, w
    <3>3. x.sentfin => x.snd_max > n
      BY <1>4, <1>7, <2>1, <2>3, <3>2
    <3> QED BY <2>1, <2>3, <2>5, <3>3 DEF Counts
  <2>7. FinOK(x)
    BY <1>6, <1>7, <2>5, <2>6 DEF FinOK
  <2> QED
    BY <1>1, <1>6, <1>7, <1>8, <2>1, <2>3, <2>4, <2>7 DEF f, x
<1> QED
  BY <1>4, <1>9, <1>10, <1>11

(* Output keeps the offsets in order, and snd_max covers what it sends (tcp_output). *)
LEMMA OutputFin ==
  ASSUME NEW p, BlockOK(p), FinOK(p)
  PROVE  LET r == tcp_output(p)
             o == r.pcb
         IN  /\ PcbOK(o) /\ Kept(p, o) /\ FinOK(o)
             /\ Numbered(p) =>
                  o.snd_max >= p.snd_max /\ \A m \in r.segs : SentBy(p, o.snd_max, m)
<1> DEFINE r == tcp_output(p)
           o == r.pcb
           f == WindowShut(p)
           x == Last(p)
           len == SegLen(x)
           fl  == SegFlags(x)
           s == Sent(x, len, fl)
           z == OutSegment(x, len, fl)
<1>1. PcbOK(p) /\ Quiet(p)
  BY DEF BlockOK
<1>2. /\ PcbOK(o) /\ Kept(p, o)
      /\ \/ ~Due(x, p.snd_max = 0) /\ o = x
         \/ Due(x, p.snd_max = 0) /\ o = Acked(s)
  BY <1>1, OutputLemma
<1>3. \/ Due(x, p.snd_max = 0) /\ r.segs = FullSegments(f) \cup {z}
      \/ ~Due(x, p.snd_max = 0) /\ r.segs = FullSegments(f)
  BY DEF tcp_output, Last
<1>4. /\ PcbOK(f) /\ Kept(p, f) /\ FinOK(f) /\ f.snd_max = p.snd_max
      /\ PcbOK(x) /\ Kept(p, x) /\ FinOK(x) /\ x.sentfin = p.sentfin /\ f.sentfin = p.sentfin
      /\ Numbered(p) =>
           /\ x.snd_max >= p.snd_max
           /\ \A off \in FullOffsets(f) : off + MAXSEG <= x.snd_max
  BY <1>1, LastCounts, OutputLemma, WindowShutLemma
<1>5. len \in Nat /\ fl \in FlagsOf(x)
  BY <1>4, SegLenLemma, SegFlagsLemma
<1>6. PcbOK(s) /\ Kept(x, s) /\ s.sentfin = (x.sentfin \/ "FIN" \in fl)
  BY <1>4, <1>5, SentLemma
<1>7. PcbOK(Acked(s)) /\ Kept(s, Acked(s)) /\ SendSame(s, Acked(s)) /\ Acked(s).sentfin = s.sentfin
  <2> HIDE DEF s
  <2> QED BY <1>6, AckedFields
<1>8. Quiet(f) /\ Quiet(x) /\ f.state = p.state /\ x.state = p.state
      /\ f.snd_q = p.snd_q /\ x.snd_q = p.snd_q /\ p.state \in TCPS
  BY <1>1, <1>4, PcbFields DEF Quiet, Kept, RecvSame
<1>9. Numbered(p) =>
        /\ FinOK(s) /\ s.snd_max >= x.snd_max /\ s.snd_max >= x.snd_off + len
  <2> HAVE Numbered(p)
  <2>1. Numbered(x)
    BY <1>8 DEF Numbered
  <2> QED BY <1>4, <2>1, SentCounts
<1>10. ~Numbered(p) => FinOK(s)
  <2> HAVE ~Numbered(p)
  <2>1. s.state = p.state /\ s.snd_q = p.snd_q
    BY <1>6, <1>8 DEF Kept
  <2>2. s.state \in Opening => "FIN" \notin fl
    BY <1>5, <1>8, <2>1, FlagsLemma DEF FlagsOf, Opening
  <2>3. s.state \in Opening => ~s.sentfin
    BY <1>4, <1>6, <1>8, <2>1, <2>2 DEF FinOK
  <2> HIDE DEF s
  <2> QED BY <2>1, <2>3 DEF FinOK, Numbered
<1> HIDE DEF r, f, x, len, fl, s, z
<1>11. FinOK(o)
  <2>1. FinOK(s) => FinOK(Acked(s))
    BY <1>7 DEF FinOK, Numbered, Counts, Kept, SendSame
  <2> QED BY <1>2, <1>4, <1>9, <1>10, <2>1
<1>12. ASSUME Numbered(p)
       PROVE  o.snd_max >= p.snd_max /\ \A m \in r.segs : SentBy(p, o.snd_max, m)
  <2>0. /\ p.snd_max \in Nat /\ x.snd_max \in Nat /\ o.snd_max \in Nat /\ s.snd_max \in Nat
        /\ x.snd_off \in Nat /\ len \in Nat /\ MAXSEG \in Nat
    BY <1>1, <1>2, <1>4, <1>5, <1>6, PcbFields, TCPAssumption DEF Offs
  <2>1. o.snd_max >= x.snd_max /\ (Due(x, p.snd_max = 0) => o.snd_max >= x.snd_off + len)
    <3>1. Acked(s).snd_max = s.snd_max
      BY <1>7 DEF SendSame
    <3> HIDE DEF o
    <3> QED BY <1>2, <1>9, <1>12, <2>0, <3>1
  <2>2. o.snd_max >= p.snd_max
    BY <1>4, <1>12, <2>0, <2>1
  <2>3. \A m \in FullSegments(f) : SentBy(p, o.snd_max, m)
    <3>1. \A off \in FullOffsets(f) : off + MAXSEG <= o.snd_max
      <4> TAKE off \in FullOffsets(f)
      <4>1. off \in Nat /\ off + MAXSEG <= x.snd_max
        BY <1>4, <1>12, FullOffsetsLemma
      <4> HIDE DEF o
      <4> QED BY <2>0, <2>1, <4>1
    <3>2. \A m \in FullSegments(f) : SentBy(f, o.snd_max, m)
      BY <1>4, <1>8, <2>0, <3>1, FullSegmentsLemma
    <3>3. p.snd_max > Len(p.snd_q) => f.snd_max > Len(f.snd_q)
      BY <1>4, <1>8
    <3> QED
      BY <1>4, <3>2, <3>3, SentByKept
  <2>4. Due(x, p.snd_max = 0) => SentBy(p, o.snd_max, z)
    <3> HAVE Due(x, p.snd_max = 0)
    <3>1. x.snd_off + SegLen(x) <= o.snd_max
      <4>1. x.snd_off + len <= o.snd_max
        <5> HIDE DEF o
        <5> QED BY <2>0, <2>1
      <4> QED BY <4>1 DEF len
    <3>2. SentBy(x, o.snd_max, z)
      BY <1>4, <1>8, <2>0, <3>1, LastSegmentLemma DEF z, len, fl
    <3>3. p.snd_max > Len(p.snd_q) => x.snd_max > Len(x.snd_q)
      <4> DEFINE n == Len(p.snd_q)
      <4>1. n \in Nat /\ Len(x.snd_q) = n
        BY <1>1, <1>8, PcbFields, TCPAssumption
      <4> HIDE DEF n
      <4>2. p.snd_max > n => x.snd_max > n
        BY <1>4, <1>12, <2>0, <4>1
      <4> QED BY <4>1, <4>2 DEF n
    <3> QED
      BY <1>4, <3>2, <3>3, SentByKept
  <2> QED
    BY <1>3, <2>2, <2>3, <2>4
<1> QED
  BY <1>2, <1>11, <1>12 DEF r

--------------------------------------------------------------------------------
(* A receiver that still takes data. *)
Accepting == {"SYN_RCVD", "ESTABLISHED"}

(* What no step but the receipt of a segment and tcp_send() does to a control block. *)
WorkBlock(p, q) ==
  /\ q.state \in Opening => q.state = p.state
  /\ q.state = "FIN_WAIT_1" => p.state \in {"SYN_RCVD", "ESTABLISHED", "FIN_WAIT_1"}
  /\ q.state \in {"CLOSE_WAIT", "CLOSING"} => p.state = q.state
  /\ q.state = "LAST_ACK" => p.state \in {"CLOSE_WAIT", "LAST_ACK"}
  /\ q.state \in {"FIN_WAIT_2", "TIME_WAIT"} => p.state \in {"FIN_WAIT_2", "TIME_WAIT"}
  /\ q.state \in Opening \cup {"FIN_WAIT_1"} =>
       q.snd_seq = p.snd_seq /\ q.snd_q = p.snd_q /\ q.rcv_nxt = p.rcv_nxt
  /\ p.snd_q = <<>> => q.snd_q = <<>>
  /\ p.rcv_q = <<>> => q.rcv_q = <<>>
  /\ q.state = "ESTABLISHED" => q.snd_max >= p.snd_max

(* The same, of a turn of tcp_tmr_task() before its output. *)
TurnBlock(p, x) ==
  /\ WorkBlock(p, x)
  /\ FinOK(p) => FinOK(x)
  /\ x.state \in Ended => p.state \in Ended
  /\ x.rcv_q = p.rcv_q \/ (x.rcv_q = <<>> /\ x.state \notin Opening)

(* The application of the host: a before, b after the step. *)
AppStep(a, b, p, q) ==
  /\ b.sent = a.sent /\ b.opens = a.opens
  /\ b.phase = "start" => a.phase = "start" /\ b.got = a.got
  /\ a.phase = "start" /\ b.phase # "start" => p.state # "FREE"
  /\ a.phase = "done" => b.phase = "done"
  /\ q.state \in Ended => p.state \in Ended \/ b.phase = "done"
  /\ q.state \in Opening => (b.phase = "done" => a.phase = "done")
  /\ \/ b.got \o q.rcv_q = a.got \o p.rcv_q
     \/ q.rcv_q = <<>> /\ b.got = a.got /\ q.state \notin Opening

(* A segment that the host sends, with its control block q after the step. *)
Made(q, m) ==
  /\ SegOK(m)
  /\ AckSeg(m) /\ q.state \in Accepting => m.ack = q.rcv_nxt
  /\ "FIN" \in m.flags => q.state \in Ended
  /\ q.snd_q = <<>> => m.data = <<>>
  /\ Numbered(q) /\ m.data # <<>> =>
       \E off \in Nat : DataFrom(q, m, off) /\ off + Len(m.data) <= q.snd_max

(* A step of one host in which no segment gets to its control block, and none is queued. *)
StreamStep(h) ==
  /\ \E q : /\ pcb' = [pcb EXCEPT ![h] = q] /\ BlockOK(q) /\ FinOK(q)
            /\ WorkBlock(pcb[h], q)
            /\ AppStep(app[h], app'[h], pcb[h], q)
            /\ \A m \in net'[Peer(h)] : m \in net[Peer(h)] \/ IsReset(m) \/ Made(q, m)
  /\ app'[Peer(h)] = app[Peer(h)]
  /\ Fewer(h)

(* Output and the flags it looks at leave alone what WorkBlock is about. *)
LEMMA WorkKept ==
  /\ \A p, q : Kept(p, q) /\ q.snd_max >= p.snd_max => WorkBlock(p, q)
  /\ \A p, x, q : /\ WorkBlock(p, x) /\ Kept(x, q)
                  /\ q.state = "ESTABLISHED" => q.snd_max >= p.snd_max
                  => WorkBlock(p, q)
<1>1. \A p, q : Kept(p, q) /\ q.snd_max >= p.snd_max => WorkBlock(p, q)
  BY DEF WorkBlock, Kept, RecvSame
<1>2. \A p, x, q : /\ WorkBlock(p, x) /\ Kept(x, q)
                   /\ q.state = "ESTABLISHED" => q.snd_max >= p.snd_max
                   => WorkBlock(p, q)
  BY DEF WorkBlock, Kept, RecvSame
<1> QED BY <1>1, <1>2

(* Nothing happens to the application in a turn. *)
LEMMA AppStill ==
  ASSUME NEW a, NEW p, NEW q, q.state \in Ended => p.state \in Ended,
         q.rcv_q = p.rcv_q \/ (q.rcv_q = <<>> /\ q.state \notin Opening)
  PROVE  AppStep(a, a, p, q)
  BY DEF AppStep

(* A turn of tcp_tmr_task() is a step of the stream (TimerTurn, Transmit). *)
LEMMA TurnStream ==
  ASSUME TypeInv, NEW h \in Host, NEW x, BlockOK(x), TurnBlock(pcb[h], x), FinOK(x), app' = app,
         \/ x.needoutput /\ Transmit(h, x)
         \/ ~x.needoutput /\ pcb' = [pcb EXCEPT ![h] = x] /\ net' = net
  PROVE  StreamStep(h)
<1>0. Peer(h) \in Host /\ PcbOK(pcb[h]) /\ PcbOK(x) /\ Quiet(x) /\ x.state \in TCPS
  BY PeerLemma, PcbFields DEF TypeInv, BlockOK
<1>1. CASE x.needoutput /\ Transmit(h, x)
  <2> DEFINE o == tcp_output(x).pcb
             q == [o EXCEPT !.needoutput = FALSE]
  <2>1. /\ Fewer(h) /\ OnlySent(Peer(h), x, OFF_MOD + MAXSEG)
        /\ \A m \in net'[Peer(h)] : m \in net[Peer(h)] \/ m \in tcp_output(x).segs
        /\ pcb' = [pcb EXCEPT ![h] = q] /\ ~q.needoutput /\ PcbOK(o) /\ PcbOK(q)
        /\ Kept(x, o) /\ q.state = o.state /\ SendSame(o, q) /\ RecvSame(o, q) /\ q.blocked = o.blocked
        /\ q.snd_wnd = o.snd_wnd /\ q.sentfin = o.sentfin
    BY <1>0, <1>1, TransmitLemma
  <2>2. /\ FinOK(o)
        /\ Numbered(x) =>
             o.snd_max >= x.snd_max /\ \A m \in tcp_output(x).segs : SentBy(x, o.snd_max, m)
    BY OutputFin
  <2> DEFINE S == tcp_output(x).segs
  <2>3. \A m \in net'[Peer(h)] : m \in net[Peer(h)] \/ (m \in S /\ SentBy(x, OFF_MOD + MAXSEG, m))
    BY <2>1 DEF OnlySent
  <2> HIDE DEF o, q, S
  <2>4. /\ q.state = x.state /\ q.snd_seq = x.snd_seq /\ q.snd_q = x.snd_q /\ q.snd_wnd = x.snd_wnd
        /\ q.rcv_nxt = x.rcv_nxt /\ q.rcv_q = x.rcv_q /\ q.snd_max = o.snd_max
    BY <2>1 DEF Kept, SendSame, RecvSame
  <2>5. BlockOK(q)
    BY <1>0, <1>1, <2>1, <2>4 DEF BlockOK, Quiet
  <2>6. FinOK(q)
    BY <2>1, <2>2 DEF FinOK, Numbered, Counts, SendSame
  <2>7. q.state = "ESTABLISHED" => q.snd_max >= pcb[h].snd_max
    <3> HAVE q.state = "ESTABLISHED"
    <3>1. Numbered(x) /\ x.snd_max >= pcb[h].snd_max
      BY <2>4 DEF Numbered, TurnBlock, WorkBlock
    <3>2. q.snd_max \in Nat /\ x.snd_max \in Nat /\ pcb[h].snd_max \in Nat
      BY <1>0, <2>1, PcbFields DEF Offs
    <3> QED BY <2>2, <2>4, <3>1, <3>2
  <2>8. WorkBlock(pcb[h], q)
    BY <2>4, <2>7 DEF TurnBlock, WorkBlock
  <2>9. AppStep(app[h], app'[h], pcb[h], q)
    BY <2>4, AppStill DEF TurnBlock
  <2>10. ASSUME NEW m \in S, SentBy(x, OFF_MOD + MAXSEG, m)
         PROVE  Made(q, m)
    <3>1. SegOK(m) /\ m.ack = x.rcv_nxt /\ m.flags \in FlagsOf(x) /\ (x.snd_q = <<>> => m.data = <<>>)
      BY <2>10 DEF SentBy
    <3>2. "FIN" \in m.flags => x.state \in Ended
      BY <1>0, <3>1, FlagsLemma DEF FlagsOf, Ended, AfterFinWait1
    <3>3. ASSUME Numbered(q), m.data # <<>>
          PROVE  \E off \in Nat : DataFrom(q, m, off) /\ off + Len(m.data) <= q.snd_max
      <4>1. Numbered(x)
        BY <2>4, <3>3 DEF Numbered
      <4>2. SentBy(x, o.snd_max, m)
        BY <2>2, <2>10, <4>1 DEF S
      <4>3. x.sentfin => x.snd_max > Len(x.snd_q)
        BY <4>1 DEF FinOK, Counts
      <4>4. PICK off \in Nat : DataFrom(x, m, off) /\ off + Len(m.data) <= o.snd_max
        BY <3>3, <4>2, <4>3 DEF SentBy
      <4>5. DataFrom(q, m, off)
        BY <2>4, <4>4 DEF DataFrom
      <4> QED BY <2>4, <4>4, <4>5
    <3> QED BY <2>4, <3>1, <3>2, <3>3 DEF Made
  <2>11. \A m \in net'[Peer(h)] : m \in net[Peer(h)] \/ IsReset(m) \/ Made(q, m)
    BY <2>3, <2>10
  <2> QED
    BY <1>0, <2>1, <2>5, <2>6, <2>8, <2>9, <2>11 DEF StreamStep
<1>2. CASE ~x.needoutput /\ pcb' = [pcb EXCEPT ![h] = x] /\ net' = net
  <2>1. AppStep(app[h], app'[h], pcb[h], x)
    BY AppStill DEF TurnBlock
  <2> QED BY <1>0, <1>2, <2>1 DEF StreamStep, Fewer, TurnBlock
<1> QED
  BY <1>1, <1>2

(* The timers (tcp_fast_tmr, tcp_rxmt_tmr, tcp_idle_tmr). *)
LEMMA TimerWork ==
  ASSUME NEW p, PcbOK(p)
  PROVE  /\ TurnBlock(p, FastTmr(p))
         /\ TurnBlock(p, RxmtTmr(FastTmr(p)))
         /\ p.state \in {"SYN_SENT", "SYN_RCVD", "FIN_WAIT_2", "TIME_WAIT"} =>
              TurnBlock(p, IdleTmr(FastTmr(p)))
<1> DEFINE f == FastTmr(p)
           r == RxmtTmr(f)
           i == IdleTmr(f)
<1>1. /\ PcbOK(f) /\ f.state = p.state /\ SendSame(p, f) /\ RecvSame(p, f) /\ f.sentfin = p.sentfin
  BY FastTmrLemma
<1>2. p.snd_max \in Nat /\ OFF_MOD \in Nat /\ 1 < OFF_MOD
  BY PcbFields, TCPAssumption DEF Offs
<1> HIDE DEF f
<1>3. /\ r.state = f.state /\ r.snd_q = f.snd_q /\ RecvSame(f, r)
      /\ r.snd_seq = f.snd_seq /\ r.snd_max = f.snd_max
      /\ \/ r.snd_off = f.snd_off /\ r.sentfin = f.sentfin
         \/ r.snd_off = 0 /\ ~r.sentfin
  BY <1>1, RxmtTmrLemma
<1>4. /\ f.state \in {"SYN_SENT", "SYN_RCVD"} => Gone(i) /\ i.state = "CLOSED"
      /\ f.state = "FIN_WAIT_2" => i.state = "TIME_WAIT" /\ RecvSame(f, i) /\ i.snd_q = f.snd_q
      /\ f.state = "TIME_WAIT" => Gone(i) /\ i.state = "FREE"
  BY <1>1, IdleTmrLemma, FreePcbOK
<1> HIDE DEF r, i
<1>5. FinOK(p) => FinOK(f)
  BY <1>1 DEF FinOK, Numbered, Counts, SendSame
<1>6. FinOK(p) => FinOK(r)
  <2>1. Counts(p) => Counts(r)
    BY <1>1, <1>2, <1>3 DEF Counts, SendSame
  <2> QED BY <1>1, <1>3, <2>1 DEF FinOK, Numbered, SendSame
<1>7. WorkBlock(p, f) /\ WorkBlock(p, r)
  <2>1. f.snd_max = p.snd_max /\ r.snd_max = p.snd_max
    BY <1>1, <1>3 DEF SendSame
  <2>2. f.snd_max >= p.snd_max /\ r.snd_max >= p.snd_max
    BY <1>2, <2>1
  <2> QED BY <1>1, <1>3, <2>2 DEF WorkBlock, SendSame, RecvSame
<1>8. TurnBlock(p, f) /\ TurnBlock(p, r)
  BY <1>1, <1>3, <1>5, <1>6, <1>7 DEF TurnBlock, RecvSame
<1>9. p.state \in {"SYN_SENT", "SYN_RCVD", "TIME_WAIT"} => TurnBlock(p, i)
  <2> HAVE p.state \in {"SYN_SENT", "SYN_RCVD", "TIME_WAIT"}
  <2>1. i.state \in {"CLOSED", "FREE"} /\ i.snd_q = <<>> /\ i.rcv_q = <<>>
    BY <1>1, <1>4 DEF Gone
  <2> QED
    BY <2>1 DEF TurnBlock, WorkBlock, FinOK, Numbered, Opening, Ended, AfterFinWait1
<1>10. p.state = "FIN_WAIT_2" => TurnBlock(p, i)
  <2> HAVE p.state = "FIN_WAIT_2"
  <2>1. i.state = "TIME_WAIT" /\ i.snd_q = p.snd_q /\ i.rcv_q = p.rcv_q
    BY <1>1, <1>4 DEF SendSame, RecvSame
  <2> QED
    BY <2>1 DEF TurnBlock, WorkBlock, FinOK, Numbered, Opening, Ended, AfterFinWait1
<1> QED
  BY <1>8, <1>9, <1>10 DEF f, r, i

(* A segment that ip_output() does not take leaves the same control block (Sent). *)
LEMMA FailedFin ==
  ASSUME TypeInv, NEW h \in Host, OutputFails(h), FinOK(pcb[h])
  PROVE  StreamStep(h)
<1> DEFINE p == pcb[h]
           x == WindowShut(p)
           len == SegLen(x)
           fl  == SegFlags(x)
           q == Sent(x, len, fl)
<1>1. /\ pcb' = [pcb EXCEPT ![h] = q] /\ PcbOK(x) /\ Kept(p, x) /\ PcbOK(q) /\ Kept(p, q)
      /\ app' = app /\ net' = net
  BY OutputFailsLemma
<1>2. PcbOK(p) /\ Quiet(p) /\ (p.state = "FREE" => ~p.needoutput) /\ Peer(h) \in Host /\ p.state \in TCPS
  BY PeerLemma, PcbFields DEF TypeInv, BlockOK
<1>3. FinOK(x) /\ x.snd_max = p.snd_max
  BY <1>2, LastCounts
<1>4. len \in Nat /\ fl \in FlagsOf(x)
  BY <1>1, SegLenLemma, SegFlagsLemma
<1>5. q.sentfin = (x.sentfin \/ "FIN" \in fl)
  BY <1>1, <1>4, SentLemma
<1>6. Numbered(x) => FinOK(q) /\ q.snd_max >= x.snd_max
  BY <1>1, <1>3, SentCounts
<1> HIDE DEF p, x, len, fl, q
<1>7. x.state = p.state /\ q.state = p.state /\ q.snd_q = p.snd_q /\ x.snd_q = p.snd_q
      /\ q.snd_seq = p.snd_seq /\ RecvSame(p, q) /\ q.needoutput = p.needoutput
  BY <1>1 DEF Kept
<1>8. FinOK(q)
  <2>1. CASE Numbered(x)
    BY <1>6, <2>1
  <2>2. CASE ~Numbered(x)
    <3>1. q.state \in Opening => "FIN" \notin fl
      BY <1>2, <1>4, <1>7, FlagsLemma DEF FlagsOf, Opening
    <3>2. q.state \in Opening => ~q.sentfin
      BY <1>3, <1>5, <1>7, <3>1 DEF FinOK
    <3> QED BY <1>7, <2>2, <3>2 DEF FinOK, Numbered
  <2> QED BY <2>1, <2>2
<1>9. WorkBlock(p, q)
  <2>1. q.state = "ESTABLISHED" => q.snd_max >= p.snd_max
    BY <1>3, <1>6, <1>7 DEF Numbered
  <2> QED BY <1>7, <2>1 DEF WorkBlock, RecvSame
<1>10. AppStep(app[h], app'[h], p, q)
  BY <1>1, <1>7, AppStill DEF RecvSame
<1>11. BlockOK(q)
  BY <1>1, <1>2, <1>7 DEF BlockOK, Quiet, RecvSame
<1> QED
  BY <1>1, <1>2, <1>8, <1>9, <1>10, <1>11 DEF StreamStep, Fewer, p

--------------------------------------------------------------------------------
(* A queue is its first n blocks and the rest (Part). *)
LEMMA PartSplit ==
  ASSUME NEW q \in Seq(Nat), NEW n \in Nat
  PROVE  Part(q, 0, n) \o Part(q, n, Len(q)) = q
<1> DEFINE k == Len(q)
<1>1. k \in Nat
  OBVIOUS
<1>2. Part(q, 0, n) = SubSeq(q, 0 + 1, MinOf(0 + n, k)) /\ Part(q, n, k) = SubSeq(q, n + 1, MinOf(n + k, k))
  BY DEF Part
<1> HIDE DEF k
<1>3. 0 + 1 = 1 /\ 0 + n = n /\ MinOf(n + k, k) = k
  BY <1>1 DEF MinOf
<1>4. Part(q, 0, n) = SubSeq(q, 1, MinOf(n, k)) /\ Part(q, n, k) = SubSeq(q, n + 1, k)
  BY <1>2, <1>3
<1>5. SubSeq(q, 1, k) = q
  BY SubSeqFull DEF k
<1>6. CASE n <= k
  <2>1. MinOf(n, k) = n
    BY <1>1, <1>6 DEF MinOf
  <2>2. 1 \in 1 .. k + 1 /\ n \in 1 - 1 .. k /\ k \in n .. k
    BY <1>1, <1>6
  <2>3. SubSeq(q, 1, n) \o SubSeq(q, n + 1, k) = SubSeq(q, 1, k)
    BY <2>2, ConcatAdjacentSubSeq DEF k
  <2> QED
    BY <1>4, <1>5, <2>1, <2>3 DEF k
<1>7. CASE n > k
  <2>1. MinOf(n, k) = k /\ k < n + 1
    BY <1>1, <1>7 DEF MinOf
  <2>2. SubSeq(q, n + 1, k) = <<>>
    BY <1>1, <2>1, SubSeqEmpty
  <2>3. q \o <<>> = q
    BY ConcatEmptySeq
  <2> QED
    BY <1>4, <1>5, <2>1, <2>2, <2>3 DEF k
<1> QED
  BY <1>1, <1>6, <1>7

(* tcp_send() queues the next block of an open connection. *)
QueueStep(h) ==
  /\ \E q : /\ pcb' = [pcb EXCEPT ![h] = q] /\ BlockOK(q) /\ FinOK(q)
            /\ pcb[h].state = "ESTABLISHED" /\ Queued(pcb[h], q, app[h].sent + 1)
  /\ app[h].phase = "open" /\ app[h].sent < app[h].sends
  /\ app' = [app EXCEPT ![h].sent = @ + 1] /\ net' = net

(* tcp_send() waits or queues a block. *)
LEMMA SendStream ==
  ASSUME TypeInv, NEW h \in Host, Send(h), FinOK(pcb[h])
  PROVE  StreamStep(h) \/ QueueStep(h)
<1> DEFINE p == pcb[h]
           b == app[h].sent + 1
<1>1. net' = net /\ app[h].phase = "open" /\ app[h].sent < app[h].sends
  BY SendLemma DEF Uses
<1>2. PICK q : /\ PcbOK(q) /\ pcb' = [pcb EXCEPT ![h] = q]
               /\ \/ /\ p.state = "SYN_RCVD" \/ (p.state = "ESTABLISHED" /\ Len(p.snd_q) >= MAXSND)
                     /\ Waits(p, q, "send") /\ app' = app
                  \/ /\ p.state = "ESTABLISHED" /\ Queued(p, q, b)
                     /\ app' = [app EXCEPT ![h].sent = @ + 1]
  BY SendLemma
<1>3. PcbOK(p) /\ Quiet(p) /\ p.snd_max \in Nat /\ Peer(h) \in Host
  BY PeerLemma, PcbFields DEF TypeInv, BlockOK, Offs
<1> HIDE DEF p, b
<1>4. CASE Waits(p, q, "send") /\ app' = app /\ p.state \in Accepting
  <2>1. /\ q.state = p.state /\ SendSame(p, q) /\ RecvSame(p, q) /\ q.sentfin = p.sentfin
    BY <1>4 DEF Waits
  <2>2. WorkBlock(p, q) /\ FinOK(q)
    <3>1. q.snd_max >= p.snd_max
      BY <1>3, <2>1 DEF SendSame
    <3>2. FinOK(p)
      BY DEF p
    <3> QED BY <2>1, <3>1, <3>2 DEF WorkBlock, SendSame, RecvSame, FinOK, Numbered, Counts
  <2>3. AppStep(app[h], app'[h], p, q)
    BY <1>4, <2>1, AppStill DEF RecvSame
  <2>4. BlockOK(q)
    BY <1>2, <1>3, <1>4, <2>1 DEF BlockOK, Quiet, SendSame, RecvSame, Accepting
  <2> QED
    BY <1>1, <1>2, <1>3, <1>4, <2>2, <2>3, <2>4 DEF StreamStep, Fewer, p
<1>5. CASE p.state = "ESTABLISHED" /\ Queued(p, q, b) /\ app' = [app EXCEPT ![h].sent = @ + 1]
  <2>1. q.state = "ESTABLISHED" /\ q.snd_off = p.snd_off /\ q.snd_max = p.snd_max /\ q.sentfin = p.sentfin
    BY <1>5 DEF Queued
  <2>2. BlockOK(q)
    BY <1>2, <2>1 DEF BlockOK, Quiet, Early
  <2>3. FinOK(q)
    <3>1. FinOK(p)
      BY DEF p
    <3> QED BY <1>5, <2>1, <3>1 DEF FinOK, Numbered, Counts, Opening
  <2> QED
    BY <1>1, <1>2, <1>5, <2>2, <2>3 DEF QueueStep, p, b
<1> QED
  BY <1>2, <1>4, <1>5 DEF Accepting

(* One field of the record of an application changes (got). *)
LEMMA AppGot ==
  ASSUME app \in [Host -> AppRec], NEW h \in Host, NEW v, NEW new, new = [app EXCEPT ![h].got = v]
  PROVE  /\ new[Peer(h)] = app[Peer(h)]
         /\ new[h].got = v /\ new[h].sent = app[h].sent /\ new[h].opens = app[h].opens
         /\ new[h].phase = app[h].phase /\ new[h].sends = app[h].sends
<1>1. app[h] \in AppRec /\ Peer(h) \in Host /\ Peer(h) # h
  BY PeerLemma
<1> QED
  BY <1>1 DEF AppRec

(* One field of the record of an application changes (eof). *)
LEMMA AppEof ==
  ASSUME app \in [Host -> AppRec], NEW h \in Host, NEW v, NEW new, new = [app EXCEPT ![h].eof = v]
  PROVE  /\ new[Peer(h)] = app[Peer(h)]
         /\ new[h].got = app[h].got /\ new[h].sent = app[h].sent /\ new[h].opens = app[h].opens
         /\ new[h].phase = app[h].phase /\ new[h].sends = app[h].sends
<1>1. app[h] \in AppRec /\ Peer(h) \in Host /\ Peer(h) # h
  BY PeerLemma
<1> QED
  BY <1>1 DEF AppRec

(* One field of the record of an application changes (phase). *)
LEMMA AppPhase ==
  ASSUME app \in [Host -> AppRec], NEW h \in Host, NEW v, NEW new, new = [app EXCEPT ![h].phase = v]
  PROVE  /\ new[Peer(h)] = app[Peer(h)]
         /\ new[h].got = app[h].got /\ new[h].sent = app[h].sent /\ new[h].opens = app[h].opens
         /\ new[h].phase = v /\ new[h].sends = app[h].sends
<1>1. app[h] \in AppRec /\ Peer(h) \in Host /\ Peer(h) # h
  BY PeerLemma
<1> QED
  BY <1>1 DEF AppRec

(* One field of the record of an application changes (sent). *)
LEMMA AppSent ==
  ASSUME app \in [Host -> AppRec], NEW h \in Host, NEW v, NEW new, new = [app EXCEPT ![h].sent = v]
  PROVE  /\ new[Peer(h)] = app[Peer(h)]
         /\ new[h].got = app[h].got /\ new[h].sent = v /\ new[h].opens = app[h].opens
         /\ new[h].phase = app[h].phase /\ new[h].sends = app[h].sends
<1>1. app[h] \in AppRec /\ Peer(h) \in Host /\ Peer(h) # h
  BY PeerLemma
<1> QED
  BY <1>1 DEF AppRec

(* tcp_recv() reads, finds the end, or waits. *)
LEMMA RecvStream ==
  ASSUME TypeInv, NEW h \in Host, NEW n \in 1 .. MAXRCV, Recv(h, n), FinOK(pcb[h])
  PROVE  StreamStep(h)
<1> DEFINE p == pcb[h]
           c == app[h].got \o Part(p.rcv_q, 0, n)
<1>1. net' = net /\ app[h].phase = "open" /\ app \in [Host -> AppRec] /\ FinOK(p)
  BY RecvLemma DEF Uses, TypeInv
<1>2. PICK q : /\ PcbOK(q) /\ pcb' = [pcb EXCEPT ![h] = q]
               /\ \/ p.rcv_q # <<>> /\ Reads(p, q, n) /\ app' = [app EXCEPT ![h].got = c]
                  \/ q = p /\ app' = [app EXCEPT ![h].eof = TRUE]
                  \/ /\ p.state \in {"SYN_RCVD", "ESTABLISHED"}
                     /\ Waits(p, q, "recv") /\ app' = app
  BY RecvLemma
<1>3. BlockOK(p) /\ PcbOK(p) /\ Quiet(p) /\ p.snd_max \in Nat /\ Peer(h) \in Host /\ p.rcv_q \in Seq(Nat)
      /\ app[h].got \in Seq(Nat) /\ n \in Nat /\ Len(p.rcv_q) \in Nat
  BY PeerLemma, PcbFields DEF TypeInv, BlockOK, Offs, AppRec
<1>4. app'[Peer(h)] = app[Peer(h)]
  <2> HIDE DEF c
  <2>1. CASE app' = [app EXCEPT ![h].got = c]
    BY <1>1, <2>1, AppGot
  <2>2. CASE app' = [app EXCEPT ![h].eof = TRUE]
    BY <1>1, <2>2, AppEof
  <2> QED BY <1>2, <2>1, <2>2
<1>5. q.state = p.state /\ SendSame(p, q) /\ q.rcv_nxt = p.rcv_nxt /\ q.sentfin = p.sentfin
  BY <1>2 DEF Reads, Waits, SendSame, RecvSame
<1>6. p.rcv_q = <<>> => q.rcv_q = <<>>
  BY <1>2 DEF Waits, RecvSame
<1>7. AppStep(app[h], app'[h], p, q)
  <2>1. CASE Reads(p, q, n) /\ app' = [app EXCEPT ![h].got = c]
    <3>1. /\ app'[h].got = c /\ app'[h].sent = app[h].sent /\ app'[h].opens = app[h].opens
          /\ app'[h].phase = app[h].phase
      <4> HIDE DEF c
      <4> QED BY <1>1, <2>1, AppGot
    <3> DEFINE l == Part(p.rcv_q, 0, n)
               r == Part(p.rcv_q, n, Len(p.rcv_q))
    <3>2. l \in Seq(Nat) /\ r \in Seq(Nat)
      <4> DEFINE y == p.rcv_q
                 k == Len(y)
      <4>1. y \in Seq(Nat) /\ k \in Nat /\ k \in Int /\ n \in Nat /\ n \in Int /\ 0 \in Nat
        BY <1>3
      <4>2. MinOf(0 + n, k) \in Int /\ MinOf(n + k, k) \in Int
        <5> HIDE DEF k
        <5> QED BY <4>1 DEF MinOf
      <4> HIDE DEF y
      <4>3. Part(y, 0, n) \in Seq(Nat)
        BY <4>1, <4>2, PartLemma
      <4>4. Part(y, n, k) \in Seq(Nat)
        BY <4>1, <4>2, PartLemma
      <4> QED BY <4>3, <4>4 DEF y
    <3>3. l \o r = p.rcv_q
      BY <1>3, PartSplit
    <3>4. q.rcv_q = r
      BY <2>1 DEF Reads
    <3> HIDE DEF l, r
    <3>5. (app[h].got \o l) \o r = app[h].got \o (l \o r)
      <4> DEFINE g == app[h].got
      <4>1. g \in Seq(Nat)
        BY <1>3
      <4> HIDE DEF g
      <4>2. (g \o l) \o r = g \o (l \o r)
        BY <3>2, <4>1, ConcatAssociative
      <4> QED BY <4>2 DEF g
    <3>6. c \o q.rcv_q = app[h].got \o p.rcv_q
      BY <3>3, <3>4, <3>5 DEF l
    <3> QED
      BY <1>1, <1>5, <3>1, <3>6 DEF AppStep
  <2>2. CASE q = p /\ app' = [app EXCEPT ![h].eof = TRUE]
    <3>1. /\ app'[h].got = app[h].got /\ app'[h].sent = app[h].sent /\ app'[h].opens = app[h].opens
          /\ app'[h].phase = app[h].phase
      BY <1>1, <2>2, AppEof
    <3> QED
      BY <1>1, <2>2, <3>1 DEF AppStep
  <2>3. CASE Waits(p, q, "recv") /\ app' = app
    BY <1>5, <2>3, AppStill DEF Waits, RecvSame
  <2> QED BY <1>2, <2>1, <2>2, <2>3
<1> HIDE DEF p, c
<1>8. WorkBlock(p, q) /\ FinOK(q)
  <2>1. q.snd_max >= p.snd_max
    BY <1>3, <1>5 DEF SendSame
  <2> QED BY <1>1, <1>5, <1>6, <2>1 DEF WorkBlock, SendSame, FinOK, Numbered, Counts
<1>9. BlockOK(q)
  <2>1. p.state # "FREE" \/ q = p
    BY <1>2, <1>3 DEF Quiet, Early
  <2> QED BY <1>2, <1>3, <1>5, <1>6, <2>1 DEF BlockOK, Quiet, SendSame
<1> QED
  BY <1>1, <1>2, <1>3, <1>4, <1>7, <1>8, <1>9 DEF StreamStep, Fewer, p

(* tcp_close() and tcp_accept(). *)
LEMMA CloseStream ==
  ASSUME TypeInv, NEW h \in Host, FinOK(pcb[h]), DueOK(pcb[h]), CloseCall(h) \/ (h = "server" /\ Accept)
  PROVE  StreamStep(h)
<1> DEFINE p == pcb[h]
<1>1. /\ BlockOK(p) /\ PcbOK(p) /\ Quiet(p) /\ p.snd_max \in Nat /\ Peer(h) \in Host
      /\ app \in [Host -> AppRec] /\ FinOK(p) /\ DueOK(p) /\ p \in PcbRec
      /\ p.rcv_q \in Seq(Nat) /\ app[h].got \in Seq(Nat)
  BY PeerLemma, PcbFields DEF TypeInv, BlockOK, Offs, AppRec, PcbOK
<1>2. CASE CloseCall(h)
  <2>1. net' = net /\ app[h].phase = "open" /\ app' = [app EXCEPT ![h].phase = "done"]
    BY <1>2, CloseCallLemma DEF Uses
  <2>2. PICK q : /\ PcbOK(q) /\ pcb' = [pcb EXCEPT ![h] = q]
                 /\ \/ p.state = "CLOSED" /\ q = FreePcb
                    \/ /\ p.state \in {"SYN_RCVD", "ESTABLISHED"} /\ q.state = "FIN_WAIT_1"
                       /\ SendSame(p, q) /\ RecvSame(p, q) /\ q.sentfin = p.sentfin
                    \/ /\ p.state = "CLOSE_WAIT" /\ q.state = "LAST_ACK"
                       /\ q.snd_q = <<>> /\ q.rcv_q = <<>>
    BY <1>2, CloseCallLemma
  <2>3. /\ app'[Peer(h)] = app[Peer(h)] /\ app'[h].got = app[h].got /\ app'[h].phase = "done"
        /\ app'[h].sent = app[h].sent /\ app'[h].opens = app[h].opens
    <3> DEFINE v == "done"
    <3>1. app' = [app EXCEPT ![h].phase = v]
      BY <2>1
    <3>0. app \in [Host -> AppRec]
      BY <1>1
    <3> HIDE DEF v, p
    <3>2. /\ app'[Peer(h)] = app[Peer(h)] /\ app'[h].got = app[h].got /\ app'[h].phase = v
          /\ app'[h].sent = app[h].sent /\ app'[h].opens = app[h].opens
      BY <3>0, <3>1, AppPhase
    <3> QED BY <3>2 DEF v
  <2>4. q = FreePcb => q.state = "FREE" /\ q.snd_q = <<>> /\ q.rcv_q = <<>> /\ ~q.needoutput
    BY FreePcbOK DEF Gone
  <2> HIDE DEF p
  <2>5. WorkBlock(p, q)
    BY <2>2, <2>4 DEF WorkBlock, Opening, SendSame, RecvSame
  <2>6. FinOK(q)
    <3>1. CASE q.state = "FIN_WAIT_1" /\ p.state = "ESTABLISHED" /\ SendSame(p, q) /\ q.sentfin = p.sentfin
      BY <1>1, <3>1 DEF FinOK, Numbered, Counts, SendSame, Opening
    <3>2. CASE q.state = "FIN_WAIT_1" /\ p.state = "SYN_RCVD" /\ SendSame(p, q)
      BY <1>1, <3>2 DEF FinOK, Numbered, SendSame, Opening, Quiet, Early
    <3> QED BY <2>2, <2>4, <3>1, <3>2 DEF FinOK, Numbered, Opening
  <2>7. BlockOK(q)
    BY <2>2, <2>4 DEF BlockOK, Quiet, Early
  <2>8. AppStep(app[h], app'[h], p, q)
    BY <2>1, <2>2, <2>3, <2>4 DEF AppStep, RecvSame, Opening
  <2> QED
    BY <1>1, <2>1, <2>2, <2>3, <2>5, <2>6, <2>7, <2>8 DEF StreamStep, Fewer, p
<1>3. CASE h = "server" /\ Accept
  <2>1. /\ net' = net /\ pcb' = pcb /\ app' = [app EXCEPT ![h].phase = "open"]
        /\ app[h].phase = "start" /\ p.state # "FREE"
    BY <1>3 DEF Accept
  <2>2. /\ app'[Peer(h)] = app[Peer(h)] /\ app'[h].got = app[h].got /\ app'[h].phase = "open"
        /\ app'[h].sent = app[h].sent /\ app'[h].opens = app[h].opens
    <3> DEFINE v == "open"
    <3>1. app' = [app EXCEPT ![h].phase = v]
      BY <2>1
    <3>0. app \in [Host -> AppRec]
      BY <1>1
    <3> HIDE DEF v, p
    <3>2. /\ app'[Peer(h)] = app[Peer(h)] /\ app'[h].got = app[h].got /\ app'[h].phase = v
          /\ app'[h].sent = app[h].sent /\ app'[h].opens = app[h].opens
      BY <3>0, <3>1, AppPhase
    <3> QED BY <3>2 DEF v
  <2>3. AppStep(app[h], app'[h], p, p)
    BY <2>1, <2>2 DEF AppStep
  <2>4. WorkBlock(p, p)
    BY <1>1 DEF WorkBlock
  <2>5. pcb' = [pcb EXCEPT ![h] = p]
    BY <2>1 DEF TypeInv
  <2> QED
    BY <1>1, <2>1, <2>2, <2>3, <2>4, <2>5 DEF StreamStep, Fewer
<1> QED
  BY <1>2, <1>3

--------------------------------------------------------------------------------
(* The offsets of both hosts are in order. *)
FinInv == \A h \in Host : FinOK(pcb[h])

(* Every step is one of the stream, queues a block, takes a segment, or is an open. *)
LEMMA StreamKinds ==
  ASSUME TypeInv, FinInv, \A h \in Host : DueOK(pcb[h]), [Next]_vars
  PROVE  \/ Connect
         \/ \E h \in Host : StreamStep(h) \/ QueueStep(h)
         \/ \E h \in Host : \E s \in net[h] : SegOK(s) /\ (InputStep(h, s) \/ OpenStep(h, s))
<1>1. \A h \in Host : /\ BlockOK(pcb[h]) /\ PcbOK(pcb[h]) /\ pcb = [pcb EXCEPT ![h] = pcb[h]]
                      /\ FinOK(pcb[h]) /\ DueOK(pcb[h])
  BY DEF TypeInv, BlockOK, FinInv
<1>2. "server" \in Host /\ faults \in Nat
  BY DEF Host, TypeInv
<1>3. ASSUME NEW p, PcbOK(p)
      PROVE  WorkBlock(p, p) /\ TurnBlock(p, p) /\ \A a : AppStep(a, a, p, p)
  <2>1. p.snd_max >= p.snd_max
    BY <1>3, PcbFields DEF Offs
  <2> QED BY <2>1 DEF WorkBlock, TurnBlock, AppStep
<1>4. ASSUME NEW h \in Host, pcb' = pcb, app' = app, Fewer(h), Fewer(Peer(h)) \/ OnlyResets(Peer(h))
      PROVE  StreamStep(h)
  <2>1. Peer(h) \in Host
    BY PeerLemma
  <2>2. pcb' = [pcb EXCEPT ![h] = pcb[h]] /\ WorkBlock(pcb[h], pcb[h])
        /\ AppStep(app[h], app'[h], pcb[h], pcb[h])
    BY <1>1, <1>3, <1>4
  <2>3. \A m \in net'[Peer(h)] : m \in net[Peer(h)] \/ IsReset(m)
    BY <1>4 DEF Fewer, OnlyResets
  <2> QED BY <1>1, <1>4, <2>1, <2>2, <2>3 DEF StreamStep
<1>5. CASE UNCHANGED vars
  BY <1>2, <1>4, <1>5 DEF vars, Fewer
<1>6. ASSUME NEW h \in Host, Output(h)
      PROVE  StreamStep(h)
  <2>1. pcb[h].needoutput /\ Transmit(h, pcb[h]) /\ app' = app
    BY <1>6 DEF Output
  <2>2. TurnBlock(pcb[h], pcb[h])
    BY <1>1, <1>3
  <2> QED BY <1>1, <2>1, <2>2, TurnStream
<1>7. ASSUME NEW h \in Host, OutputFails(h)
      PROVE  StreamStep(h)
  BY <1>1, <1>7, FailedFin
<1>8. ASSUME NEW h \in Host, FastTimeout(h) \/ RxmtTimeout(h) \/ IdleTimeout(h)
      PROVE  StreamStep(h)
  <2>1. faults' \in Nat
    BY <1>2, <1>8 DEF FastTimeout, RxmtTimeout, IdleTimeout, Fault
  <2>2. ASSUME NEW x, BlockOK(x), TurnBlock(pcb[h], x), TimerTurn(h, x)
        PROVE  StreamStep(h)
    <3>1. /\ app' = app
          /\ \/ x.needoutput /\ Transmit(h, x)
             \/ ~x.needoutput /\ pcb' = [pcb EXCEPT ![h] = x] /\ net' = net
      BY <2>1, <2>2, TimerTurnLemma
    <3>2. FinOK(x)
      BY <1>1, <2>2 DEF TurnBlock
    <3> QED BY <2>2, <3>1, <3>2, TurnStream
  <2>3. CASE FastTimeout(h)
    BY <1>1, <2>2, <2>3, TimerBlocks, TimerWork DEF FastTimeout
  <2>4. CASE RxmtTimeout(h)
    BY <1>1, <2>2, <2>4, TimerBlocks, TimerWork DEF RxmtTimeout
  <2>5. CASE IdleTimeout(h)
    <3>1. pcb[h].state \in {"SYN_SENT", "SYN_RCVD", "FIN_WAIT_2", "TIME_WAIT"}
          /\ TimerTurn(h, IdleTmr(FastTmr(pcb[h])))
      BY <2>5 DEF IdleTimeout
    <3> QED BY <1>1, <2>2, <3>1, TimerBlocks, TimerWork
  <2> QED BY <1>8, <2>3, <2>4, <2>5
<1>9. ASSUME NEW h \in Host, DropStep(h)
      PROVE  StreamStep(h)
  BY <1>4, <1>9 DEF DropStep
<1>10. ASSUME NEW h \in Host, NEW s \in net[h], Receive(h, s)
       PROVE  StreamStep(h) \/ (SegOK(s) /\ (InputStep(h, s) \/ OpenStep(h, s)))
  BY <1>9, <1>10, ReceiveLemma
<1>11. ASSUME NEW h \in Host, NEW s \in net[h], Lose(h, s)
       PROVE  StreamStep(h)
  BY <1>9, <1>11, LoseLemma
<1>12. CASE Accept
  BY <1>1, <1>2, <1>12, CloseStream
<1>13. ASSUME NEW h \in Host, Send(h) \/ CloseCall(h) \/ (\E n \in 1 .. MAXRCV : Recv(h, n))
       PROVE  StreamStep(h) \/ QueueStep(h)
  BY <1>1, <1>13, SendStream, CloseStream, RecvStream
<1> QED
  BY <1>5, <1>6, <1>7, <1>8, <1>10, <1>11, <1>12, <1>13 DEF Next

(* What an application wants to send never changes, and bounds what it has sent. *)
SendsInv == \A h \in Host : app[h].sent <= app[h].sends /\ app[h].sends + OFF_MOD <= SEQ_MOD

(* It never changes (tcp_send). *)
LEMMA SendsNext ==
  ASSUME TypeInv, SendsInv, [Next]_vars
  PROVE  SendsInv'
<1>1. app \in [Host -> AppRec]
  BY DEF TypeInv
<1>2. ASSUME NEW h \in Host, app'[Peer(h)] = app[Peer(h)],
             app'[h].sends = app[h].sends, app'[h].sent = app[h].sent
      PROVE  SendsInv'
  <2>1. Host = {h, Peer(h)}
    BY PeerLemma
  <2> QED BY <1>2, <2>1 DEF SendsInv
<1>3. CASE app' = app
  BY <1>3 DEF SendsInv
<1>4. CASE Connect
  <2> DEFINE h == "client"
  <2>1. h \in Host /\ app[h] \in AppRec /\ Peer(h) # h /\ Peer(h) \in Host
    BY <1>1, PeerLemma DEF Host
  <2>2. app' = [app EXCEPT ![h].phase = "open", ![h].opens = @ + 1]
    BY <1>4 DEF Connect
  <2> HIDE DEF h
  <2>3. app'[Peer(h)] = app[Peer(h)] /\ app'[h].sends = app[h].sends /\ app'[h].sent = app[h].sent
    BY <1>1, <2>1, <2>2 DEF AppRec
  <2> QED BY <1>2, <2>1, <2>3
<1>5. CASE Accept
  <2> DEFINE h == "server"
             v == "open"
  <2>1. h \in Host
    BY DEF Host
  <2>2. app' = [app EXCEPT ![h].phase = v]
    BY <1>5 DEF Accept
  <2> HIDE DEF h, v
  <2> QED BY <1>1, <1>2, <2>1, <2>2, AppPhase
<1>6. ASSUME NEW h \in Host, CloseCall(h)
      PROVE  SendsInv'
  <2> DEFINE v == "done"
  <2>1. app' = [app EXCEPT ![h].phase = v]
    BY <1>6 DEF CloseCall
  <2> HIDE DEF v
  <2> QED BY <1>1, <1>2, <2>1, AppPhase
<1>7. ASSUME NEW h \in Host, NEW n \in 1 .. MAXRCV, Recv(h, n)
      PROVE  SendsInv'
  <2> DEFINE c == app[h].got \o Part(pcb[h].rcv_q, 0, n)
  <2>1. app' = [app EXCEPT ![h].got = c] \/ app' = [app EXCEPT ![h].eof = TRUE] \/ app' = app
    BY <1>7 DEF Recv
  <2> HIDE DEF c
  <2> QED BY <1>1, <1>2, <1>3, <2>1, AppGot, AppEof
<1>8. ASSUME NEW h \in Host, Send(h)
      PROVE  SendsInv'
  <2> DEFINE v == app[h].sent + 1
  <2>1. app[h].sent < app[h].sends /\ (app' = app \/ app' = [app EXCEPT ![h].sent = v])
    BY <1>8 DEF Send
  <2>2. v \in Nat /\ app[h].sends \in Nat /\ app[h].sent \in Nat /\ v = app[h].sent + 1
    BY <1>1 DEF AppRec
  <2> HIDE DEF v
  <2>3. CASE app' = [app EXCEPT ![h].sent = v]
    <3>1. app'[Peer(h)] = app[Peer(h)] /\ app'[h].sends = app[h].sends /\ app'[h].sent = v
      BY <1>1, <2>3, AppSent
    <3>2. v <= app[h].sends
      BY <2>1, <2>2
    <3>3. Host = {h, Peer(h)}
      BY PeerLemma
    <3> QED BY <3>1, <3>2, <3>3 DEF SendsInv
  <2> QED BY <1>3, <2>1, <2>3
<1>9. ASSUME NEW h \in Host, NEW s \in net[h], Receive(h, s)
      PROVE  SendsInv'
  <2>1. app' = app \/ app' = [app EXCEPT ![h].opens = @ + 1]
    BY <1>9 DEF Receive
  <2>2. CASE app' = [app EXCEPT ![h].opens = @ + 1]
    <3>1. app[h] \in AppRec /\ Peer(h) # h /\ Peer(h) \in Host
      BY <1>1, PeerLemma
    <3>2. app'[Peer(h)] = app[Peer(h)] /\ app'[h].sends = app[h].sends /\ app'[h].sent = app[h].sent
      BY <1>1, <2>2, <3>1 DEF AppRec
    <3> QED BY <1>2, <3>2
  <2> QED BY <1>3, <2>1, <2>2
<1>10. ASSUME NEW h \in Host,
              Output(h) \/ OutputFails(h) \/ FastTimeout(h) \/ RxmtTimeout(h) \/ IdleTimeout(h)
       PROVE  app' = app
  BY <1>10 DEF Output, OutputFails, FastTimeout, RxmtTimeout, IdleTimeout, TimerTurn
<1>11. ASSUME NEW h \in Host, NEW s \in net[h], Lose(h, s)
       PROVE  app' = app
  BY <1>11 DEF Lose
<1>12. UNCHANGED vars => app' = app
  BY DEF vars
<1> QED
  BY <1>3, <1>4, <1>5, <1>6, <1>7, <1>8, <1>9, <1>10, <1>11, <1>12 DEF Next

--------------------------------------------------------------------------------
(* What a segment that does not end or open the connection does to the sending side. *)
SendPart(p, s, q) ==
  \/ q.state = p.state /\ SendSame(p, q)
  \/ /\ AckSeg(s) /\ AckedBy(p, q, SeqDiff(s.ack, p.snd_seq))
     /\ q.state = IF p.state = "SYN_RCVD" THEN "ESTABLISHED" ELSE p.state
  \/ q.state \notin Opening \cup {"FIN_WAIT_1"}

(* And to the receiving side: nothing, t is taken, or it is given up. *)
TakePart(p, s, t, q) ==
  /\ SegOK(t) /\ Slice(s, t)
  /\ \/ q.rcv_q = p.rcv_q /\ (q.state \in Accepting => q.rcv_nxt = p.rcv_nxt)
     \/ q.rcv_q = <<>> /\ q.state \notin Opening
     \/ /\ AckSeg(s) /\ p.state \in Accepting
        /\ t.seq = p.rcv_nxt /\ q.rcv_q = p.rcv_q \o t.data
        /\ q.state \in Accepting => q.rcv_nxt = Seq32(p.rcv_nxt + Len(t.data))

(* The states that are about the end of the connection. *)
InputEnd(p, s, q) ==
  /\ q.state \in Ended => p.state \in Ended
  /\ q.state \in Opening => p.state \in Opening
  /\ q.state \in {"CLOSE_WAIT", "CLOSING", "LAST_ACK"} => q.state = p.state \/ "FIN" \in s.flags
  /\ q.state \in {"FIN_WAIT_2", "TIME_WAIT"} =>
       q.snd_q = <<>> \/ (p.state \in {"FIN_WAIT_2", "TIME_WAIT"} /\ p.snd_q # <<>>)
  /\ p.snd_q = <<>> => q.snd_q = <<>>

(* An ACK leaves an empty queue empty. *)
LEMMA MidQueue ==
  ASSUME NEW p, PcbOK(p), NEW m, NEW d, AckMid(p, m, d), p.snd_q = <<>>
  PROVE  m.snd_q = <<>>
<1>1. CASE Untouched(p, m)
  BY <1>1 DEF Untouched, SendSame
<1>2. CASE d \in 1 .. p.snd_max /\ NewlyAcked(p, m, d)
  <2>1. CASE AckedBy(p, m, d)
    <3>1. d \in Nat /\ p.snd_q \in Seq(Nat) /\ p.snd_max \in Nat
      BY <1>2, PcbFields DEF Offs
    <3>2. Len(p.snd_q) = 0 /\ d >= Len(p.snd_q)
      BY <3>1, EmptyQueue
    <3>3. Unacked(p.snd_q, d) = <<>>
      BY <3>1, <3>2, UnackedLemma
    <3> QED BY <2>1, <3>3 DEF AckedBy
  <2> QED BY <1>2, <2>1 DEF NewlyAcked
<1>3. CASE m.snd_q = p.snd_q
  BY <1>3
<1> QED
  BY <1>1, <1>2, <1>3 DEF AckMid

(* The effect of a segment, as far as the two streams see it (tcp_input). *)
LEMMA InputStream ==
  ASSUME NEW p, BlockOK(p), p.state \in Active, NEW s, SegOK(s), NEW q, PcbOK(q),
         InputEffect(p, s, q), p.state = "SYN_RCVD" /\ AckSeg(s) => SeqDiff(s.ack, p.snd_seq) # 0
  PROVE  \/ Gone(q) \/ Opened(p, s, q)
         \/ /\ p.state # "SYN_SENT" /\ q.sentfin = p.sentfin
            /\ SendPart(p, s, q) /\ InputEnd(p, s, q)
            /\ \E t : TakePart(p, s, t, q)
            /\ AckSeg(s) \/ (q.state = p.state /\ SendSame(p, q) /\ RecvSame(p, q))
<1> DEFINE d == SeqDiff(s.ack, p.snd_seq)
<1>0. PcbOK(p) /\ p.state \in TCPS
  BY PcbFields DEF BlockOK
<1>1. CASE Held(p, s, q)
  <2>1. /\ q.state = p.state /\ SendSame(p, q) /\ RecvSame(p, q) /\ q.sentfin = p.sentfin
        /\ p.state # "SYN_SENT"
    BY <1>1 DEF Held
  <2>2. InputEnd(p, s, q)
    BY <2>1 DEF InputEnd, SendSame
  <2>3. TakePart(p, s, s, q)
    BY <2>1, SliceSelf DEF TakePart, RecvSame
  <2> QED BY <2>1, <2>2, <2>3 DEF SendPart
<1>2. CASE Through(p, s, q)
  <2>1. p.state # "SYN_SENT" /\ AckSeg(s)
    BY <1>2 DEF Through
  <2>2. PICK m, t : Taken(p, s, m, t, q)
    BY <1>2 DEF Through
  <2>3. PcbOK(m) /\ SegOK(t) /\ t.flags \subseteq s.flags /\ Slice(s, t) /\ AckMid(p, m, d) /\ Step6Effect(m, t, q)
    BY <2>2 DEF Taken
  <2> HIDE DEF d
  <2>4. \/ Untouched(p, m) /\ p.state # "SYN_RCVD"
        \/ d \in 1 .. p.snd_max /\ NewlyAcked(p, m, d) /\ RestSame(p, m)
    BY <2>1, <2>3 DEF AckMid, d
  <2>5. m.sentfin = p.sentfin
    BY <2>4 DEF Untouched, RestSame
  <2>6. /\ m.rcv_nxt = p.rcv_nxt
        /\ m.rcv_q = p.rcv_q \/ (m.rcv_q = <<>> /\ m.state = "TIME_WAIT")
    BY <2>4 DEF Untouched, NewlyAcked, RecvSame
  <2>7. \/ m.state = p.state /\ SendSame(p, m)
        \/ AckedBy(p, m, d) /\ m.state = IF p.state = "SYN_RCVD" THEN "ESTABLISHED" ELSE p.state
        \/ m.state \in {"FIN_WAIT_2", "TIME_WAIT"} /\ p.state \in {"FIN_WAIT_1", "CLOSING"} /\ m.snd_q = <<>>
    BY <2>4 DEF Untouched, NewlyAcked, StateAcked
  <2>8. p.snd_q = <<>> => m.snd_q = <<>>
    BY <1>0, <2>3, MidQueue
  <2>9. /\ q.sentfin = m.sentfin
        /\ \/ q.state = m.state /\ SendSame(m, q) /\ DataEffect(m, t, q)
           \/ "FIN" \in s.flags /\ FinEffect(m, t, q)
    BY <2>3 DEF Step6Effect
  <2>10. m.state = p.state \/ (p.state = "SYN_RCVD" /\ m.state = "ESTABLISHED")
         \/ (m.state \in {"FIN_WAIT_2", "TIME_WAIT"} /\ p.state \in {"FIN_WAIT_1", "CLOSING"} /\ m.snd_q = <<>>)
    BY <2>7
  <2>11. SendPart(p, s, q)
    <3>1. CASE q.state = m.state /\ SendSame(m, q)
      BY <2>1, <2>7, <3>1 DEF SendPart, SendSame, AckedBy, d, Opening
    <3>2. CASE FinEffect(m, t, q)
      <4>1. CASE q.state \in {"CLOSE_WAIT", "CLOSING", "TIME_WAIT"}
        BY <4>1 DEF SendPart, Opening
      <4>2. CASE SendSame(m, q) /\ q.state = m.state
        BY <3>1, <4>2
      <4> QED BY <3>2, <4>1, <4>2 DEF FinEffect
    <3> QED BY <2>9, <3>1, <3>2
  <2>12. InputEnd(p, s, q)
    <3>1. CASE q.state = m.state /\ SendSame(m, q)
      <4>1. q.snd_q = m.snd_q
        BY <3>1 DEF SendSame
      <4> QED BY <2>8, <2>10, <3>1, <4>1 DEF InputEnd, Ended, AfterFinWait1, Opening
    <3>2. CASE "FIN" \in s.flags /\ FinEffect(m, t, q)
      <4>1. \/ m.state \in {"SYN_RCVD", "ESTABLISHED"} /\ q.state = "CLOSE_WAIT" /\ q.snd_q = m.snd_q
            \/ m.state = "FIN_WAIT_1" /\ q.state = "CLOSING" /\ q.snd_q = m.snd_q
            \/ m.state = "FIN_WAIT_2" /\ q.state = "TIME_WAIT" /\ q.snd_q = <<>>
            \/ q.state = m.state /\ SendSame(m, q)
        BY <3>2 DEF FinEffect, SendSame
      <4>2. CASE q.state = m.state /\ SendSame(m, q)
        BY <3>1, <4>2
      <4>3. CASE m.state = "FIN_WAIT_2" /\ q.state = "TIME_WAIT" /\ q.snd_q = <<>>
        BY <2>10, <4>3 DEF InputEnd, Ended, AfterFinWait1, Opening
      <4>4. CASE \/ m.state \in {"SYN_RCVD", "ESTABLISHED"} /\ q.state = "CLOSE_WAIT" /\ q.snd_q = m.snd_q
                 \/ m.state = "FIN_WAIT_1" /\ q.state = "CLOSING" /\ q.snd_q = m.snd_q
        BY <2>8, <2>10, <3>2, <4>4 DEF InputEnd, Ended, AfterFinWait1, Opening
      <4> QED BY <4>1, <4>2, <4>3, <4>4
    <3> QED BY <2>9, <3>1, <3>2
  <2>13. TakePart(p, s, t, q)
    <3>0. m.state = "ESTABLISHED" => p.state \in Accepting
      BY <2>10 DEF Accepting
    <3>1. CASE q.state = m.state /\ RecvSame(m, q)
      BY <2>3, <2>6, <3>1 DEF TakePart, RecvSame, Opening, Accepting
    <3>2. CASE /\ m.state = "ESTABLISHED" /\ t.seq = m.rcv_nxt /\ q.rcv_q = m.rcv_q \o t.data
               /\ q.state \in Accepting => q.rcv_nxt = Seq32(m.rcv_nxt + Len(t.data))
      <4>1. m.rcv_q = p.rcv_q
        BY <2>6, <3>2
      <4> QED BY <2>1, <2>3, <2>6, <3>0, <3>2, <4>1 DEF TakePart
    <3>3. CASE q.state \notin Opening /\ (q.rcv_q = m.rcv_q \/ q.rcv_q = <<>>)
      BY <2>3, <2>6, <3>3 DEF TakePart, Accepting, Opening
    <3>4. DataEffect(m, t, q) /\ q.state = m.state => TakePart(p, s, t, q)
      BY <3>1, <3>2 DEF DataEffect
    <3>5. FinEffect(m, t, q) => TakePart(p, s, t, q)
      <4> HAVE FinEffect(m, t, q)
      <4>1. \/ q.state = "CLOSE_WAIT" /\ q.rcv_q = m.rcv_q
            \/ q.state = "CLOSE_WAIT" /\ m.state = "ESTABLISHED" /\ t.seq = m.rcv_nxt /\ q.rcv_q = m.rcv_q \o t.data
            \/ q.state \in {"CLOSING", "TIME_WAIT"} /\ (q.rcv_q = m.rcv_q \/ q.rcv_q = <<>>)
            \/ q.state = m.state /\ m.state \notin {"SYN_RCVD", "ESTABLISHED"} /\ q.rcv_q = m.rcv_q
        BY DEF FinEffect
      <4>2. m.state # "SYN_SENT"
        BY <2>1, <2>10
      <4> QED BY <3>2, <3>3, <4>1, <4>2 DEF Opening, Accepting
    <3> QED BY <2>9, <3>4, <3>5
  <2> QED BY <2>1, <2>5, <2>9, <2>11, <2>12, <2>13
<1> QED
  BY <1>1, <1>2 DEF InputEffect

(* An ACK keeps the offsets in order. *)
LEMMA AckedCounts ==
  ASSUME NEW p, PcbOK(p), NEW q, PcbOK(q), NEW d, AckedBy(p, q, d), q.sentfin = p.sentfin,
         p.snd_off <= p.snd_max, Numbered(q), q.state = "ESTABLISHED" => ~q.sentfin,
         p.sentfin => p.snd_max > Len(p.snd_q)
  PROVE  Counts(q)
<1> DEFINE o == p.snd_off
           w == p.snd_max
           n == Len(p.snd_q)
           k == Len(q.snd_q)
<1>1. /\ o \in Nat /\ w \in Nat /\ n \in Nat /\ k \in Nat /\ o < OFF_MOD /\ w < OFF_MOD
      /\ OFF_MOD \in Nat /\ 1 < OFF_MOD
  BY PcbFields, TCPAssumption DEF Offs
<1>2. d \in 1 .. w /\ q.snd_off = MaxOf(o, d) - d /\ q.snd_max = w - d /\ q.snd_q = Unacked(p.snd_q, d)
  BY DEF AckedBy
<1>3. (d <= n => k = n - d) /\ (d >= n => q.snd_q = <<>>)
  <2>1. p.snd_q \in Seq(Nat) /\ d \in Nat
    BY <1>1, <1>2, PcbFields
  <2> QED BY <1>2, <2>1, UnackedLemma
<1>4. o <= w /\ (p.sentfin => w > n)
  OBVIOUS
<1>5. q.sentfin => q.snd_q # <<>>
  BY DEF Numbered
<1> HIDE DEF o, w, n, k
<1>6. q.snd_off <= q.snd_max /\ q.snd_off + 1 < OFF_MOD
  BY <1>1, <1>2, <1>4 DEF MaxOf
<1>7. q.sentfin => q.snd_max > k
  BY <1>1, <1>2, <1>3, <1>4, <1>5
<1> QED
  BY <1>6, <1>7 DEF Counts, k

(* A segment keeps the offsets of the sender in order (tcp_input). *)
LEMMA InputFin ==
  ASSUME NEW p, BlockOK(p), FinOK(p), DueOK(p), p.state \in Active, NEW s, SegOK(s),
         NEW q, PcbOK(q), InputEffect(p, s, q),
         p.state = "SYN_SENT" /\ AckSeg(s) => p.snd_off > 0,
         p.state = "SYN_RCVD" /\ AckSeg(s) => SeqDiff(s.ack, p.snd_seq) # 0
  PROVE  FinOK(q)
<1>0. PcbOK(p) /\ p.state \in TCPS
  BY PcbFields DEF BlockOK
<1>1. CASE Gone(q)
  BY <1>1 DEF Gone, FinOK, Numbered, Opening
<1>2. CASE Opened(p, s, q)
  <2>1. /\ p.state = "SYN_SENT" /\ q.state = "ESTABLISHED" /\ q.sentfin = p.sentfin /\ AckSeg(s)
        /\ q.snd_off = Off16(p.snd_off - 1) /\ q.snd_max = Off16(p.snd_max - 1)
    BY <1>2 DEF Opened, AckSeg
  <2>2. ~q.sentfin /\ p.snd_off <= p.snd_max /\ p.snd_off > 0
    BY <2>1 DEF FinOK, DueOK, TimerOK, Opening
  <2> DEFINE o == p.snd_off
             w == p.snd_max
  <2>3. o \in Nat /\ w \in Nat /\ o < OFF_MOD /\ w < OFF_MOD /\ OFF_MOD \in Nat
    BY <1>0, PcbFields, TCPAssumption DEF Offs
  <2>4. o <= w /\ o > 0
    BY <2>2
  <2> HIDE DEF o, w
  <2>5. o - 1 \in Offs /\ w - 1 \in Offs
    BY <2>3, <2>4 DEF Offs
  <2>6. q.snd_off = o - 1 /\ q.snd_max = w - 1
    BY <2>1, <2>5, Off16Small DEF o, w
  <2>7. q.snd_off <= q.snd_max /\ q.snd_off + 1 < OFF_MOD
    BY <2>3, <2>4, <2>6
  <2> QED BY <2>2, <2>7 DEF FinOK, Counts
<1>3. CASE q.sentfin = p.sentfin /\ SendPart(p, s, q) /\ InputEnd(p, s, q)
  <2>1. CASE q.state = p.state /\ SendSame(p, q)
    BY <1>3, <2>1 DEF FinOK, Numbered, Counts, SendSame
  <2>2. CASE q.state \notin Opening \cup {"FIN_WAIT_1"}
    BY <2>2 DEF FinOK, Numbered, Opening
  <2>3. CASE /\ AckSeg(s) /\ AckedBy(p, q, SeqDiff(s.ack, p.snd_seq))
             /\ q.state = IF p.state = "SYN_RCVD" THEN "ESTABLISHED" ELSE p.state
    <3> DEFINE d == SeqDiff(s.ack, p.snd_seq)
    <3>1. q.state \in Opening => ~q.sentfin
      BY <1>3, <2>3 DEF FinOK, Opening, InputEnd
    <3>2. Numbered(q) => Counts(q)
      <4> HAVE Numbered(q)
      <4>1. CASE p.state = "SYN_RCVD"
        <5>1. p.snd_off <= p.snd_max /\ ~p.sentfin
          BY <4>1 DEF DueOK, TimerOK, Opening, FinOK
        <5> HIDE DEF d
        <5> QED BY <1>0, <1>3, <2>3, <3>1, <5>1, AckedCounts DEF Opening, d
      <4>2. CASE p.state # "SYN_RCVD"
        <5>1. q.state = p.state
          BY <2>3, <4>2
        <5>2. Numbered(p)
          BY <1>3, <5>1 DEF Numbered, InputEnd
        <5>3. p.snd_off <= p.snd_max /\ (p.sentfin => p.snd_max > Len(p.snd_q))
          BY <5>2 DEF FinOK, Counts
        <5> HIDE DEF d
        <5> QED BY <1>0, <1>3, <2>3, <3>1, <5>3, AckedCounts DEF Opening, d
      <4> QED BY <4>1, <4>2
    <3> QED BY <3>1, <3>2 DEF FinOK
  <2> QED BY <1>3, <2>1, <2>2, <2>3 DEF SendPart
<1> QED
  BY <1>1, <1>2, <1>3, InputStream

(* The step of a segment, as far as the two streams see it. *)
StreamInput(h, s) ==
  /\ pcb[h].state \in Active
  /\ \E q :
       /\ pcb' = [pcb EXCEPT ![h] = q] /\ BlockOK(q) /\ FinOK(q)
       /\ \/ Gone(q)
          \/ /\ Opened(pcb[h], s, q)
             /\ pcb[h].snd_off > 0 /\ pcb[h].snd_off <= pcb[h].snd_max
          \/ /\ pcb[h].state # "SYN_SENT" /\ q.sentfin = pcb[h].sentfin
             /\ SendPart(pcb[h], s, q) /\ InputEnd(pcb[h], s, q)
             /\ \E t : TakePart(pcb[h], s, t, q)
             /\ AckSeg(s) \/ (q.state = pcb[h].state /\ SendSame(pcb[h], q) /\ RecvSame(pcb[h], q))
  /\ app' = app /\ Fewer(h) /\ OnlyResets(Peer(h))

(* The handshake rules out what would confuse the streams (Hand, SynCounted). *)
LEMMA InputKinds ==
  ASSUME TypeInv, Hand, DueInv, FinInv, NEW h \in Host, NEW s \in net[h], SegOK(s), InputStep(h, s)
  PROVE  StreamInput(h, s)
<1> DEFINE p == pcb[h]
<1>1. BlockOK(p) /\ PcbOK(p) /\ FinOK(p) /\ DueOK(p) /\ p.state \in Active /\ p.snd_off \in Nat
      /\ app["server"].opens \in Nat
  BY PcbFields DEF TypeInv, BlockOK, FinInv, DueInv, InputStep, Offs, Host, AppRec
<1>2. p.state = "SYN_SENT" => h = "client"
  BY DEF Hand, Host
<1>3. p.state = "SYN_RCVD" => h = "server"
  BY DEF Hand, Host
<1>4. p.state = "SYN_SENT" /\ AckSeg(s) => p.snd_off > 0
  BY <1>2 DEF Hand, BeforeOpen, NoAcks, DueInv, SynCounted
<1>5. p.state = "SYN_RCVD" /\ AckSeg(s) => SeqDiff(s.ack, p.snd_seq) # 0
  <2> HAVE p.state = "SYN_RCVD" /\ AckSeg(s)
  <2>1. p.snd_seq = Seq32(ISS_STEP) /\ Reached(s.ack)
    BY <1>3 DEF Hand, WhileOpening
  <2> DEFINE n == s.ack
  <2> HIDE DEF n
  <2>2. SeqDiff(n, Seq32(ISS_STEP)) # 0
    BY <2>1, ReachedNotStart DEF n
  <2> QED BY <2>1, <2>2 DEF n
<1>6. p.state = "SYN_SENT" => p.snd_off <= p.snd_max
  BY <1>1 DEF DueOK, TimerOK, Opening
<1>7. PICK q : PcbOK(q) /\ InputEffect(p, s, q) /\ pcb' = [pcb EXCEPT ![h] = q]
  BY DEF InputStep
<1> HIDE DEF p
<1>8. BlockOK(q)
  BY <1>1, <1>7, InputBlock
<1>9. FinOK(q)
  BY <1>1, <1>4, <1>5, <1>7, InputFin
<1>10. \/ Gone(q) \/ Opened(p, s, q)
       \/ /\ p.state # "SYN_SENT" /\ q.sentfin = p.sentfin
          /\ SendPart(p, s, q) /\ InputEnd(p, s, q)
          /\ \E t : TakePart(p, s, t, q)
          /\ AckSeg(s) \/ (q.state = p.state /\ SendSame(p, q) /\ RecvSame(p, q))
  BY <1>1, <1>5, <1>7, InputStream
<1>11. Opened(p, s, q) => p.snd_off > 0 /\ p.snd_off <= p.snd_max
  BY <1>4, <1>6 DEF Opened, AckSeg
<1>12. app' = app /\ Fewer(h) /\ OnlyResets(Peer(h))
  BY DEF InputStep
<1> QED
  BY <1>1, <1>7, <1>8, <1>9, <1>10, <1>11, <1>12 DEF StreamInput, p

(* The control blocks of the two opens are in order. *)
LEMMA OpenFin ==
  ASSUME TypeInv, FinInv,
         \/ Connect
         \/ \E h \in Host : StreamStep(h) \/ QueueStep(h)
         \/ \E h \in Host : \E s \in net[h] : SegOK(s) /\ (StreamInput(h, s) \/ OpenStep(h, s))
  PROVE  FinInv'
<1>1. ASSUME NEW h \in Host, NEW q, FinOK(q), pcb' = [pcb EXCEPT ![h] = q]
      PROVE  FinInv'
  <2>1. \A g \in Host : pcb'[g] = IF g = h THEN q ELSE pcb[g]
    BY <1>1 DEF TypeInv
  <2> QED BY <1>1, <2>1 DEF FinInv
<1>2. CASE Connect
  <2>1. "client" \in Host
    BY DEF Host
  <2>2. PICK q : pcb' = [pcb EXCEPT !["client"] = q] /\ q.state = "SYN_SENT" /\ ~q.sentfin
    BY <1>2, ConnectLemma
  <2>3. FinOK(q)
    BY <2>2 DEF FinOK, Numbered
  <2> QED BY <1>1, <2>1, <2>2, <2>3
<1>3. ASSUME NEW h \in Host, StreamStep(h) \/ QueueStep(h)
      PROVE  FinInv'
  BY <1>1, <1>3 DEF StreamStep, QueueStep
<1>4. ASSUME NEW h \in Host, NEW s \in net[h], StreamInput(h, s)
      PROVE  FinInv'
  BY <1>1, <1>4 DEF StreamInput
<1>5. ASSUME NEW h \in Host, NEW s \in net[h], SegOK(s), OpenStep(h, s)
      PROVE  FinInv'
  <2> DEFINE q == PassiveOpen(h, s)
  <2>1. pcb' = [pcb EXCEPT ![h] = q]
    BY <1>5 DEF OpenStep
  <2>2. q.state = "SYN_RCVD" /\ ~q.sentfin
    BY <1>5, PassiveOpenLemma
  <2> HIDE DEF q
  <2>3. FinOK(q)
    BY <2>2 DEF FinOK, Numbered
  <2> QED BY <1>1, <2>1, <2>3
<1> QED
  BY <1>2, <1>3, <1>4, <1>5

--------------------------------------------------------------------------------
(* The control block p of an application with the record a: who closed, and when. *)
EndSelf(p, a) ==
  /\ p.state \in Ended => a.phase = "done"
  /\ p.state \in Opening => a.phase # "done"
  /\ p.state \in {"FIN_WAIT_2", "TIME_WAIT"} => p.snd_q = <<>>
  /\ a.phase = "start" => a.sent = 0 /\ a.got = <<>>

(* Nobody takes a FIN, in the control block or the network, that the peer b did not send. *)
EndPeer(p, b, N) ==
  /\ p.state \in {"CLOSE_WAIT", "CLOSING", "LAST_ACK"} => b.phase = "done"
  /\ \A m \in N : "FIN" \in m.flags => b.phase = "done"

(* Who closed, and who knows of it. *)
EndInv ==
  /\ \A h \in Host : EndSelf(pcb[h], app[h]) /\ EndPeer(pcb[h], app[Peer(h)], net[h])
  /\ app["server"].opens = 0 => app["server"].phase = "start"

(* A step of the stream leaves the end of the connection in order. *)
LEMMA EndStream ==
  ASSUME TypeInv, Hand, EndInv, NEW h \in Host, StreamStep(h)
  PROVE  EndInv'
<1> DEFINE g == Peer(h)
           p == pcb[h]
           a == app[h]
           b == app'[h]
<1>1. g \in Host /\ g # h /\ Host = {h, g} /\ Peer(g) = h
  BY PeerLemma
<1>2. PICK q : /\ pcb' = [pcb EXCEPT ![h] = q] /\ WorkBlock(p, q) /\ AppStep(a, b, p, q)
               /\ \A m \in net'[g] : m \in net[g] \/ IsReset(m) \/ Made(q, m)
  BY DEF StreamStep
<1>3. pcb'[h] = q /\ pcb'[g] = pcb[g] /\ app'[g] = app[g] /\ net'[h] \subseteq net[h]
  BY <1>1, <1>2 DEF StreamStep, TypeInv, Fewer
<1>4. /\ EndSelf(p, a) /\ EndPeer(p, app[g], net[h])
      /\ EndSelf(pcb[g], app[g]) /\ EndPeer(pcb[g], a, net[g])
  BY <1>1 DEF EndInv
<1>5. (p.state = "FREE" /\ h = "server") \/ ~(h = "server" /\ a.opens = 0)
  BY DEF Hand, BeforeOpen
<1> HIDE DEF g, p, a, b
<1>6. /\ b.sent = a.sent /\ b.opens = a.opens
      /\ b.phase = "start" => a.phase = "start" /\ b.got = a.got
      /\ a.phase = "start" /\ b.phase # "start" => p.state # "FREE"
      /\ a.phase = "done" => b.phase = "done"
      /\ q.state \in Ended => p.state \in Ended \/ b.phase = "done"
      /\ q.state \in Opening => (b.phase = "done" => a.phase = "done")
  BY <1>2 DEF AppStep
<1>7. EndSelf(q, b)
  BY <1>2, <1>4, <1>6 DEF EndSelf, WorkBlock
<1>8. EndPeer(q, app[g], net'[h])
  <2>1. q.state \in {"CLOSE_WAIT", "CLOSING", "LAST_ACK"} => p.state \in {"CLOSE_WAIT", "CLOSING", "LAST_ACK"}
    BY <1>2 DEF WorkBlock
  <2> QED BY <1>3, <1>4, <2>1 DEF EndPeer
<1>9. EndPeer(pcb[g], b, net'[g])
  <2>1. \A m \in net'[g] : "FIN" \in m.flags => m \in net[g] \/ q.state \in Ended
    BY <1>2 DEF IsReset, Made
  <2>2. q.state \in Ended => b.phase = "done"
    BY <1>7 DEF EndSelf
  <2> QED BY <1>4, <1>6, <2>1, <2>2 DEF EndPeer
<1>10. /\ EndSelf(pcb'[h], app'[h]) /\ EndPeer(pcb'[h], app'[g], net'[h])
       /\ EndSelf(pcb'[g], app'[g]) /\ EndPeer(pcb'[g], app'[h], net'[g])
  BY <1>3, <1>4, <1>7, <1>8, <1>9 DEF b
<1>11. \A i \in Host : EndSelf(pcb'[i], app'[i]) /\ EndPeer(pcb'[i], app'[Peer(i)], net'[i])
  BY <1>1, <1>10 DEF g
<1>12. app'["server"].opens = 0 => app'["server"].phase = "start"
  <2>1. app["server"].opens = 0 => app["server"].phase = "start"
    BY DEF EndInv
  <2>2. CASE h = "server"
    BY <1>5, <1>6, <2>1, <2>2 DEF a, b, p
  <2>3. CASE h # "server"
    <3>1. g = "server"
      BY <1>1, <2>3 DEF Host
    <3> QED BY <1>3, <2>1, <3>1
  <2> QED BY <2>2, <2>3
<1> QED
  BY <1>11, <1>12 DEF EndInv

(* And so do a queued block, a segment, and the two opens. *)
LEMMA EndOther ==
  ASSUME TypeInv, Hand, EndInv, OPENS_MAX <= 1,
         \/ Connect
         \/ \E h \in Host : QueueStep(h)
         \/ \E h \in Host : \E s \in net[h] : SegOK(s) /\ (StreamInput(h, s) \/ OpenStep(h, s))
  PROVE  EndInv'
<1>0. app \in [Host -> AppRec] /\ "server" \in Host /\ "client" \in Host /\ Peer("client") = "server"
      /\ Peer("server") = "client" /\ OPENS_MAX \in Nat
  BY TCPAssumption DEF TypeInv, Host, Peer
<1>1. ASSUME NEW h \in Host, NEW q, pcb' = [pcb EXCEPT ![h] = q],
             EndSelf(q, app'[h]), EndPeer(q, app[Peer(h)], net[h]),
             app[h].phase = "done" => app'[h].phase = "done",
             app'[Peer(h)] = app[Peer(h)],
             Fewer(h), Fewer(Peer(h)) \/ OnlyResets(Peer(h)),
             h = "server" /\ app'[h].opens = 0 => app'[h].phase = "start"
      PROVE  EndInv'
  <2> DEFINE g == Peer(h)
  <2>1. g \in Host /\ g # h /\ Host = {h, g} /\ Peer(g) = h
    BY PeerLemma
  <2>2. pcb'[h] = q /\ pcb'[g] = pcb[g] /\ net'[h] \subseteq net[h]
    BY <1>1, <2>1 DEF TypeInv, Fewer
  <2>3. EndSelf(pcb[g], app[g]) /\ EndPeer(pcb[g], app[h], net[g])
    BY <2>1 DEF EndInv
  <2>4. \A m \in net'[g] : "FIN" \in m.flags => m \in net[g]
    BY <1>1 DEF Fewer, OnlyResets, IsReset
  <2> HIDE DEF g
  <2>5. EndPeer(pcb[g], app'[h], net'[g])
    BY <1>1, <2>3, <2>4 DEF EndPeer
  <2>6. EndPeer(q, app'[g], net'[h])
    BY <1>1, <2>2 DEF EndPeer, g
  <2>7. EndSelf(pcb[g], app'[g])
    BY <1>1, <2>3 DEF g
  <2>8. \A i \in Host : EndSelf(pcb'[i], app'[i]) /\ EndPeer(pcb'[i], app'[Peer(i)], net'[i])
    BY <1>1, <2>1, <2>2, <2>5, <2>6, <2>7 DEF g
  <2>9. app'["server"].opens = 0 => app'["server"].phase = "start"
    <3>1. app["server"].opens = 0 => app["server"].phase = "start"
      BY DEF EndInv
    <3>2. h = "server" \/ g = "server"
      BY <1>0, <2>1
    <3> QED BY <1>1, <3>1, <3>2 DEF g
  <2> QED BY <2>8, <2>9 DEF EndInv
<1>2. CASE Connect
  <2> DEFINE h == "client"
  <2>1. /\ app[h].phase = "start" /\ net' = net
        /\ app' = [app EXCEPT ![h].phase = "open", ![h].opens = @ + 1]
    BY <1>2, ConnectLemma
  <2>2. PICK q : pcb' = [pcb EXCEPT ![h] = q] /\ q.state = "SYN_SENT"
    BY <1>2, ConnectLemma
  <2>3. app[h] \in AppRec /\ h \in Host /\ Peer(h) \in Host /\ Peer(h) # h /\ h # "server"
    BY <1>0, PeerLemma
  <2> HIDE DEF h
  <2>4. app'[Peer(h)] = app[Peer(h)] /\ app'[h].phase = "open"
    BY <1>0, <2>1, <2>3 DEF AppRec
  <2>5. EndSelf(q, app'[h])
    BY <2>2, <2>4 DEF EndSelf, Ended, AfterFinWait1
  <2>6. EndPeer(pcb[h], app[Peer(h)], net[h])
    BY <2>3 DEF EndInv
  <2>7. EndPeer(q, app[Peer(h)], net[h])
    BY <2>2, <2>6 DEF EndPeer
  <2>8. Fewer(h) /\ Fewer(Peer(h))
    BY <2>1 DEF Fewer
  <2> QED BY <1>1, <2>1, <2>2, <2>3, <2>4, <2>5, <2>7, <2>8
<1>3. ASSUME NEW h \in Host, QueueStep(h)
      PROVE  EndInv'
  <2> DEFINE v == app[h].sent + 1
  <2>1. PICK q : pcb' = [pcb EXCEPT ![h] = q] /\ pcb[h].state = "ESTABLISHED" /\ Queued(pcb[h], q, v)
    BY <1>3 DEF QueueStep
  <2>2. app[h].phase = "open" /\ app' = [app EXCEPT ![h].sent = v] /\ net' = net
    BY <1>3 DEF QueueStep
  <2> HIDE DEF v
  <2>3. app'[Peer(h)] = app[Peer(h)] /\ app'[h].phase = app[h].phase /\ app'[h].opens = app[h].opens
    BY <1>0, <2>2, AppSent
  <2>4. q.state = "ESTABLISHED"
    BY <2>1 DEF Queued
  <2>5. EndSelf(q, app'[h])
    BY <2>2, <2>3, <2>4 DEF EndSelf, Ended, AfterFinWait1
  <2>6. EndPeer(pcb[h], app[Peer(h)], net[h])
    BY DEF EndInv
  <2>7. EndPeer(q, app[Peer(h)], net[h])
    BY <2>4, <2>6 DEF EndPeer
  <2>8. Fewer(h) /\ Fewer(Peer(h))
    BY <2>2 DEF Fewer
  <2>9. h = "server" /\ app'[h].opens = 0 => app'[h].phase = "start"
    BY <2>3 DEF EndInv
  <2> QED BY <1>1, <2>1, <2>3, <2>5, <2>7, <2>8, <2>9
<1>4. ASSUME NEW h \in Host, NEW s \in net[h], StreamInput(h, s)
      PROVE  EndInv'
  <2> DEFINE p == pcb[h]
  <2>1. PICK q : /\ pcb' = [pcb EXCEPT ![h] = q]
                 /\ Gone(q) \/ Opened(p, s, q) \/ InputEnd(p, s, q)
    BY <1>4 DEF StreamInput
  <2>2. app' = app /\ Fewer(h) /\ OnlyResets(Peer(h))
    BY <1>4 DEF StreamInput
  <2>3. EndSelf(p, app[h]) /\ EndPeer(p, app[Peer(h)], net[h])
    BY DEF EndInv
  <2> HIDE DEF p
  <2>4. CASE Gone(q)
    <3>1. EndSelf(q, app[h]) /\ EndPeer(q, app[Peer(h)], net[h])
      BY <2>3, <2>4 DEF EndSelf, EndPeer, Gone, Ended, AfterFinWait1, Opening
    <3> QED BY <1>1, <2>1, <2>2, <3>1 DEF EndInv
  <2>5. CASE Opened(p, s, q)
    <3>1. p.state = "SYN_SENT" /\ q.state = "ESTABLISHED"
      BY <2>5 DEF Opened
    <3>2. EndSelf(q, app[h]) /\ EndPeer(q, app[Peer(h)], net[h])
      BY <2>3, <3>1 DEF EndSelf, EndPeer, Ended, AfterFinWait1, Opening
    <3> QED BY <1>1, <2>1, <2>2, <3>2 DEF EndInv
  <2>6. CASE InputEnd(p, s, q)
    <3>1. EndSelf(q, app[h])
      BY <2>3, <2>6 DEF EndSelf, InputEnd
    <3>2. EndPeer(q, app[Peer(h)], net[h])
      BY <2>3, <2>6 DEF EndPeer, InputEnd
    <3> QED BY <1>1, <2>1, <2>2, <3>1, <3>2 DEF EndInv
  <2> QED BY <2>1, <2>4, <2>5, <2>6
<1>5. ASSUME NEW h \in Host, NEW s \in net[h], SegOK(s), OpenStep(h, s)
      PROVE  EndInv'
  <2> DEFINE q == PassiveOpen(h, s)
  <2>1. /\ pcb' = [pcb EXCEPT ![h] = q] /\ h = "server" /\ app[h].opens < OPENS_MAX
        /\ app' = [app EXCEPT ![h].opens = @ + 1] /\ Fewer(h) /\ Fewer(Peer(h))
    BY <1>5 DEF OpenStep, MayOpen
  <2>2. q.state = "SYN_RCVD"
    BY <1>5, PassiveOpenLemma
  <2>3. app[h] \in AppRec /\ Peer(h) \in Host /\ Peer(h) # h /\ app[h].opens \in Nat
    BY <1>0, PeerLemma DEF AppRec
  <2> HIDE DEF q
  <2>4. app[h].opens = 0
    BY <1>0, <2>1, <2>3
  <2>5. app[h].phase = "start"
    BY <2>1, <2>4 DEF EndInv
  <2>6. app'[Peer(h)] = app[Peer(h)] /\ app'[h].phase = app[h].phase
        /\ app'[h].sent = app[h].sent /\ app'[h].got = app[h].got
    BY <1>0, <2>1, <2>3 DEF AppRec
  <2>7. EndSelf(pcb[h], app[h]) /\ EndPeer(pcb[h], app[Peer(h)], net[h])
    BY DEF EndInv
  <2>8. EndSelf(q, app'[h])
    BY <2>2, <2>5, <2>6, <2>7 DEF EndSelf, Ended, AfterFinWait1
  <2>9. EndPeer(q, app[Peer(h)], net[h])
    BY <2>2, <2>7 DEF EndPeer
  <2> QED BY <1>1, <2>1, <2>5, <2>6, <2>8, <2>9
<1> QED
  BY <1>2, <1>3, <1>4, <1>5

--------------------------------------------------------------------------------
(* The active open is not answered: no data is anywhere. s, sa: the server.      *)
Unopened(s, ca, sa, N) ==
  /\ ca.sent = 0 /\ ca.got = <<>> /\ sa.sent = 0 /\ sa.got = <<>>
  /\ s.state # "ESTABLISHED" /\ s.snd_q = <<>> /\ s.rcv_q = <<>>
  /\ \A m \in N : m.data = <<>>
  /\ s.state = "SYN_RCVD" => \A m \in N : AckSeg(m) => m.ack = s.rcv_nxt

(* The passive open is not acknowledged: no data comes from the server. c, ca: the client. *)
HalfOpen(c, ca, sa, N) ==
  /\ sa.sent = 0 /\ sa.got = <<>>
  /\ c.state = "ESTABLISHED" =>
       ca.got = <<>> /\ c.rcv_q = <<>> /\ \A m \in N : AckSeg(m) => m.ack = c.rcv_nxt

(* Before the handshake is over there is no data. *)
HandData ==
  /\ pcb["client"].state = "SYN_SENT" =>
       Unopened(pcb["server"], app["client"], app["server"], net["client"])
  /\ pcb["server"].state = "SYN_RCVD" =>
       HalfOpen(pcb["client"], app["client"], app["server"], net["server"])

(* Nothing is what two empty sequences make. *)
LEMMA ConcatNothing ==
  ASSUME NEW a \in Seq(Nat), NEW b \in Seq(Nat), a \o b = <<>>
  PROVE  a = <<>> /\ b = <<>>
<1>1. Len(a \o b) = Len(a) + Len(b) /\ Len(a) \in Nat /\ Len(b) \in Nat
  BY ConcatProperties
<1>2. Len(a \o b) = 0
  BY EmptyQueue
<1>3. Len(a) = 0 /\ Len(b) = 0
  <2> DEFINE x == Len(a)
             y == Len(b)
  <2>1. x + y = 0 /\ x \in Nat /\ y \in Nat
    BY <1>1, <1>2
  <2> HIDE DEF x, y
  <2>2. x = 0 /\ y = 0
    BY <2>1
  <2> QED BY <2>2 DEF x, y
<1> QED
  BY <1>3, EmptySeq

(* Where nothing has arrived, nothing can be read. *)
LEMMA NothingRead ==
  ASSUME NEW a, NEW b, NEW p, NEW q, AppStep(a, b, p, q), b.got \in Seq(Nat), q.rcv_q \in Seq(Nat),
         a.got = <<>>, p.rcv_q = <<>>
  PROVE  b.got = <<>> /\ q.rcv_q = <<>>
<1> DEFINE x == b.got
           y == q.rcv_q
<1>1. <<>> \o <<>> = <<>>
  BY ConcatEmptySeq, EmptyQueue
<1>2. x \o y = <<>> \/ (x = <<>> /\ y = <<>>)
  BY <1>1 DEF AppStep
<1>3. x \in Seq(Nat) /\ y \in Seq(Nat)
  OBVIOUS
<1> HIDE DEF x, y
<1>4. x = <<>> /\ y = <<>>
  BY <1>2, <1>3, ConcatNothing
<1> QED BY <1>4 DEF x, y

(* A segment opens nothing by itself: the states before the connection is open. *)
LEMMA InputEarly ==
  ASSUME NEW p, NEW s, NEW q, SendPart(p, s, q), p.state # "SYN_SENT"
  PROVE  /\ q.state # "SYN_SENT"
         /\ q.state = "SYN_RCVD" => p.state = "SYN_RCVD" /\ SendSame(p, q)
  BY DEF SendPart, Opening

(* The types of what the proofs about the streams look at. *)
LEMMA StreamTypes ==
  ASSUME TypeInv
  PROVE  \A h \in Host :
           /\ BlockOK(pcb[h]) /\ PcbOK(pcb[h]) /\ Quiet(pcb[h]) /\ app[h] \in AppRec
           /\ app[h].got \in Seq(Nat) /\ app[h].sent \in Nat /\ app[h].opens \in Nat
           /\ pcb[h].rcv_q \in Seq(Nat) /\ pcb[h].snd_q \in Seq(Nat)
           /\ pcb[h].rcv_nxt \in Seqs /\ pcb[h].snd_seq \in Seqs /\ pcb[h].snd_max \in Nat
           /\ Len(pcb[h].snd_q) \in Nat
  BY PcbFields, TCPAssumption DEF TypeInv, BlockOK, AppRec, Offs

(* And after the step. *)
LEMMA NextTypes ==
  ASSUME TypeInv'
  PROVE  \A h \in Host :
           /\ PcbOK(pcb'[h]) /\ app'[h].got \in Seq(Nat) /\ pcb'[h].rcv_q \in Seq(Nat)
  BY PcbFields DEF TypeInv, BlockOK, AppRec

(* A step of the client keeps it. *)
LEMMA HandDataClient ==
  ASSUME TypeInv, TypeInv', HandData, StreamStep("client")
  PROVE  HandData'
<1> DEFINE c == pcb["client"]
           s == pcb["server"]
           a == app["client"]
           b == app'["client"]
           e == app["server"]
<1>0. "client" \in Host /\ "server" \in Host /\ Peer("client") = "server" /\ "client" # "server"
  BY DEF Host, Peer
<1>1. PICK q : /\ pcb' = [pcb EXCEPT !["client"] = q] /\ WorkBlock(c, q) /\ AppStep(a, b, c, q)
               /\ \A m \in net'["server"] : m \in net["server"] \/ IsReset(m) \/ Made(q, m)
  BY <1>0 DEF StreamStep
<1>2. pcb'["client"] = q /\ pcb'["server"] = s /\ app'["server"] = e /\ net'["client"] \subseteq net["client"]
  BY <1>0, <1>1 DEF StreamStep, TypeInv, Fewer
<1>3. b.got \in Seq(Nat) /\ q.rcv_q \in Seq(Nat) /\ Quiet(c)
  BY <1>0, <1>2, StreamTypes, NextTypes
<1>4. /\ c.state = "SYN_SENT" => Unopened(s, a, e, net["client"])
      /\ s.state = "SYN_RCVD" => HalfOpen(c, a, e, net["server"])
  BY DEF HandData
<1> HIDE DEF c, s, a, b, e
<1>5. a.got = <<>> /\ c.rcv_q = <<>> => b.got = <<>> /\ q.rcv_q = <<>>
  BY <1>1, <1>3, NothingRead
<1>6. q.state = "SYN_SENT" => Unopened(s, b, e, net'["client"])
  <2> HAVE q.state = "SYN_SENT"
  <2>1. c.state = "SYN_SENT" /\ b.sent = a.sent
    BY <1>1 DEF WorkBlock, AppStep, Opening
  <2>2. c.rcv_q = <<>>
    BY <1>3, <2>1 DEF Quiet, Early
  <2> QED BY <1>2, <1>4, <1>5, <2>1, <2>2 DEF Unopened
<1>7. s.state = "SYN_RCVD" => HalfOpen(q, b, e, net'["server"])
  <2> HAVE s.state = "SYN_RCVD"
  <2>1. HalfOpen(c, a, e, net["server"])
    BY <1>4
  <2>2. q.state = "ESTABLISHED" => /\ c.state = "ESTABLISHED" /\ q.rcv_nxt = c.rcv_nxt
                                   /\ \A m \in net'["server"] : AckSeg(m) => m.ack = q.rcv_nxt
    <3> HAVE q.state = "ESTABLISHED"
    <3>1. c.state = "ESTABLISHED" /\ q.rcv_nxt = c.rcv_nxt
      BY <1>1 DEF WorkBlock, Opening
    <3>2. \A m \in net["server"] : AckSeg(m) => m.ack = q.rcv_nxt
      BY <2>1, <3>1 DEF HalfOpen
    <3>3. ASSUME NEW m \in net'["server"], AckSeg(m)
          PROVE  m.ack = q.rcv_nxt
      <4>1. ~IsReset(m)
        BY <3>3 DEF IsReset, AckSeg
      <4>2. Made(q, m) => m.ack = q.rcv_nxt
        BY <3>3 DEF Made, Accepting
      <4> QED BY <1>1, <3>2, <3>3, <4>1, <4>2
    <3> QED BY <3>1, <3>3
  <2> QED BY <1>5, <2>1, <2>2 DEF HalfOpen
<1> QED
  BY <1>2, <1>6, <1>7 DEF HandData, b

(* A step of the server keeps it. *)
LEMMA HandDataServer ==
  ASSUME TypeInv, TypeInv', HandData, StreamStep("server")
  PROVE  HandData'
<1> DEFINE c == pcb["client"]
           s == pcb["server"]
           a == app["client"]
           e == app["server"]
           f == app'["server"]
<1>0. "client" \in Host /\ "server" \in Host /\ Peer("server") = "client" /\ "client" # "server"
  BY DEF Host, Peer
<1>1. PICK q : /\ pcb' = [pcb EXCEPT !["server"] = q] /\ WorkBlock(s, q) /\ AppStep(e, f, s, q)
               /\ \A m \in net'["client"] : m \in net["client"] \/ IsReset(m) \/ Made(q, m)
  BY <1>0 DEF StreamStep
<1>2. pcb'["server"] = q /\ pcb'["client"] = c /\ app'["client"] = a /\ net'["server"] \subseteq net["server"]
  BY <1>0, <1>1 DEF StreamStep, TypeInv, Fewer
<1>3. f.got \in Seq(Nat) /\ q.rcv_q \in Seq(Nat) /\ Quiet(s)
  BY <1>0, <1>2, StreamTypes, NextTypes
<1>4. /\ c.state = "SYN_SENT" => Unopened(s, a, e, net["client"])
      /\ s.state = "SYN_RCVD" => HalfOpen(c, a, e, net["server"])
  BY DEF HandData
<1> HIDE DEF c, s, a, e, f
<1>5. e.got = <<>> /\ s.rcv_q = <<>> => f.got = <<>> /\ q.rcv_q = <<>>
  BY <1>1, <1>3, NothingRead
<1>6. c.state = "SYN_SENT" => Unopened(q, a, f, net'["client"])
  <2> HAVE c.state = "SYN_SENT"
  <2>1. Unopened(s, a, e, net["client"])
    BY <1>4
  <2>2. f.sent = e.sent /\ f.got = <<>> /\ q.rcv_q = <<>> /\ q.snd_q = <<>> /\ q.state # "ESTABLISHED"
    BY <1>1, <1>5, <2>1 DEF Unopened, WorkBlock, AppStep, Opening
  <2>3. \A m \in net'["client"] : m.data = <<>>
    BY <1>1, <2>1, <2>2 DEF Unopened, IsReset, Made
  <2>4. q.state = "SYN_RCVD" => \A m \in net'["client"] : AckSeg(m) => m.ack = q.rcv_nxt
    <3> HAVE q.state = "SYN_RCVD"
    <3>1. s.state = "SYN_RCVD" /\ q.rcv_nxt = s.rcv_nxt
      BY <1>1 DEF WorkBlock, Opening
    <3>2. \A m \in net["client"] : AckSeg(m) => m.ack = q.rcv_nxt
      BY <2>1, <3>1 DEF Unopened
    <3>3. ASSUME NEW m \in net'["client"], AckSeg(m)
          PROVE  m.ack = q.rcv_nxt
      <4>1. ~IsReset(m)
        BY <3>3 DEF IsReset, AckSeg
      <4>2. Made(q, m) => m.ack = q.rcv_nxt
        BY <3>3 DEF Made, Accepting
      <4> QED BY <1>1, <3>2, <3>3, <4>1, <4>2
    <3> QED BY <3>3
  <2> QED BY <2>1, <2>2, <2>3, <2>4 DEF Unopened
<1>7. q.state = "SYN_RCVD" => HalfOpen(c, a, f, net'["server"])
  <2> HAVE q.state = "SYN_RCVD"
  <2>1. s.state = "SYN_RCVD" /\ f.sent = e.sent
    BY <1>1 DEF WorkBlock, Opening, AppStep
  <2>2. s.rcv_q = <<>>
    BY <1>3, <2>1 DEF Quiet, Early
  <2> QED BY <1>2, <1>4, <1>5, <2>1, <2>2 DEF HalfOpen
<1> QED
  BY <1>2, <1>6, <1>7 DEF HandData, f

(* The opens keep it: before them nothing has happened. *)
LEMMA HandDataOpen ==
  ASSUME TypeInv, Hand, DueInv, EndInv, HandData, OPENS_MAX <= 1,
         Connect \/ \E h \in Host : \E s \in net[h] : SegOK(s) /\ OpenStep(h, s)
  PROVE  HandData'
<1> DEFINE c == pcb["client"]
           s == pcb["server"]
           a == app["client"]
           e == app["server"]
<1>0. "client" \in Host /\ "server" \in Host /\ Peer("client") = "server" /\ "client" # "server"
      /\ Peer("server") = "client" /\ OPENS_MAX \in Nat
  BY TCPAssumption DEF Host, Peer
<1>1. Quiet(s) /\ app \in [Host -> AppRec] /\ a \in AppRec /\ e \in AppRec /\ e.opens \in Nat
  BY <1>0, StreamTypes DEF TypeInv
<1>2. /\ a.phase = "start" => a.sent = 0 /\ a.got = <<>>
      /\ e.phase = "start" => e.sent = 0 /\ e.got = <<>>
      /\ e.opens = 0 => e.phase = "start"
  BY <1>0 DEF EndInv, EndSelf
<1>3. /\ c.state = "SYN_SENT" => Unopened(s, a, e, net["client"])
      /\ s.state = "SYN_RCVD" => HalfOpen(c, a, e, net["server"])
  BY DEF HandData
<1>4. CASE Connect
  <2>1. a.phase = "start" /\ net' = net /\ app' = [app EXCEPT !["client"].phase = "open", !["client"].opens = @ + 1]
    BY <1>4, ConnectLemma
  <2>2. PICK q : pcb' = [pcb EXCEPT !["client"] = q] /\ q.state = "SYN_SENT"
    BY <1>4, ConnectLemma
  <2>3. s.state = "FREE" /\ net["client"] = {} /\ e.opens = 0
    BY <2>1 DEF DueInv, NothingYet
  <2>4. pcb'["client"] = q /\ pcb'["server"] = s
    BY <1>0, <2>2 DEF TypeInv
  <2>5. app'["server"] = e /\ app'["client"].sent = a.sent /\ app'["client"].got = a.got
    BY <1>0, <1>1, <2>1 DEF AppRec
  <2> DEFINE b == app'["client"]
  <2> HIDE DEF c, s, a, e, b
  <2>6. Unopened(s, b, e, {})
    BY <1>1, <1>2, <2>1, <2>3, <2>5 DEF Unopened, Quiet, Early, b
  <2>7. s.state # "SYN_RCVD"
    BY <2>3
  <2> QED BY <2>1, <2>3, <2>4, <2>5, <2>6, <2>7 DEF HandData, b
<1>5. ASSUME NEW h \in Host, NEW x \in net[h], SegOK(x), OpenStep(h, x)
      PROVE  HandData'
  <2> DEFINE q == PassiveOpen(h, x)
  <2>1. /\ pcb' = [pcb EXCEPT !["server"] = q] /\ h = "server" /\ e.opens < OPENS_MAX
        /\ app' = [app EXCEPT !["server"].opens = @ + 1] /\ net'["client"] \subseteq net["client"]
    BY <1>0, <1>5 DEF OpenStep, MayOpen, Fewer
  <2>2. q.state = "SYN_RCVD" /\ q.snd_q = <<>> /\ q.rcv_q = <<>>
    BY <1>5, PassiveOpenLemma
  <2>3. e.opens = 0
    <3> DEFINE n == e.opens
    <3>1. n \in Nat /\ n < OPENS_MAX
      BY <1>1, <2>1
    <3> HIDE DEF n
    <3>2. n = 0
      BY <1>0, <3>1
    <3> QED BY <3>2 DEF n
  <2>4. c.state # "ESTABLISHED" /\ \A m \in net["client"] : ~AckSeg(m)
    BY <2>3 DEF Hand, BeforeOpen, NoAcks
  <2>5. pcb'["server"] = q /\ pcb'["client"] = c
    BY <1>0, <2>1 DEF TypeInv
  <2>6. app'["client"] = a /\ app'["server"].sent = e.sent /\ app'["server"].got = e.got
    BY <1>0, <1>1, <2>1 DEF AppRec
  <2> DEFINE f == app'["server"]
  <2> HIDE DEF c, s, a, e, f, q
  <2>7. f.sent = 0 /\ f.got = <<>>
    BY <1>2, <2>3, <2>6 DEF f
  <2>8. HalfOpen(c, a, f, net'["server"])
    BY <2>4, <2>7 DEF HalfOpen
  <2>9. c.state = "SYN_SENT" => Unopened(q, a, f, net'["client"])
    BY <1>3, <2>1, <2>2, <2>4, <2>7 DEF Unopened
  <2> QED BY <2>5, <2>6, <2>8, <2>9 DEF HandData, f
<1> QED
  BY <1>4, <1>5

(* A block that is queued, and a segment that is taken, keep it. *)
LEMMA HandDataInput ==
  ASSUME TypeInv, Hand, HandData, NEW h \in Host,
         QueueStep(h) \/ \E s \in net[h] : SegOK(s) /\ StreamInput(h, s)
  PROVE  HandData'
<1> DEFINE c == pcb["client"]
           s == pcb["server"]
           a == app["client"]
           e == app["server"]
<1>0. "client" \in Host /\ "server" \in Host /\ Peer("client") = "server" /\ "client" # "server"
      /\ Peer("server") = "client"
  BY DEF Host, Peer
<1>1. Quiet(c) /\ Quiet(s) /\ app \in [Host -> AppRec] /\ c.rcv_nxt \in Seqs
  BY <1>0, StreamTypes DEF TypeInv
<1>2. /\ c.state = "SYN_SENT" => Unopened(s, a, e, net["client"])
      /\ s.state = "SYN_RCVD" => HalfOpen(c, a, e, net["server"])
      /\ c.state # "SYN_RCVD" /\ s.state # "SYN_SENT"
      /\ c.state = "SYN_SENT" => \A m \in net["server"] : ~AckSeg(m)
      /\ s.state = "SYN_RCVD" => \A m \in net["client"] : AckSeg(m) => m.data = <<>>
  BY DEF HandData, Hand, BeforeOpen, NoAcks, WhileOpening, SynAck
<1>3. CASE QueueStep("client")
  <2> DEFINE v == a.sent + 1
             b == app'["client"]
  <2>1. PICK q : pcb' = [pcb EXCEPT !["client"] = q] /\ c.state = "ESTABLISHED" /\ Queued(c, q, v)
    BY <1>3 DEF QueueStep
  <2>2. app' = [app EXCEPT !["client"].sent = v] /\ net' = net
    BY <1>3 DEF QueueStep
  <2>3. pcb'["client"] = q /\ pcb'["server"] = s
    BY <1>0, <2>1 DEF TypeInv
  <2>4. app'["server"] = e /\ b.got = a.got
    <3> DEFINE i == "client"
    <3>1. i \in Host /\ Peer(i) = "server" /\ app' = [app EXCEPT ![i].sent = v]
      BY <1>0, <2>2
    <3> HIDE DEF i, v
    <3>2. app'[Peer(i)] = app[Peer(i)] /\ app'[i].got = app[i].got
      BY <1>1, <3>1, AppSent
    <3> QED BY <3>1, <3>2 DEF i
  <2>5. q.state = "ESTABLISHED" /\ q.rcv_q = c.rcv_q /\ q.rcv_nxt = c.rcv_nxt
    BY <2>1 DEF Queued, RecvSame
  <2> HIDE DEF c, s, a, e, b
  <2>6. s.state = "SYN_RCVD" => HalfOpen(q, b, e, net["server"])
    BY <1>2, <2>1, <2>4, <2>5 DEF HalfOpen
  <2> QED BY <2>2, <2>3, <2>4, <2>5, <2>6 DEF HandData, b
<1>4. CASE QueueStep("server")
  <2>1. PICK q : pcb' = [pcb EXCEPT !["server"] = q] /\ s.state = "ESTABLISHED" /\ Queued(s, q, e.sent + 1)
    BY <1>4 DEF QueueStep
  <2>2. pcb'["server"] = q /\ pcb'["client"] = c
    BY <1>0, <2>1 DEF TypeInv
  <2>3. q.state = "ESTABLISHED"
    BY <2>1 DEF Queued
  <2>4. c.state # "SYN_SENT"
    BY <1>2, <2>1 DEF Unopened
  <2> QED BY <2>2, <2>3, <2>4 DEF HandData
<1>5. ASSUME NEW x \in net["client"], SegOK(x), StreamInput("client", x)
      PROVE  HandData'
  <2>1. PICK q : /\ pcb' = [pcb EXCEPT !["client"] = q]
                 /\ \/ Gone(q) \/ Opened(c, x, q)
                    \/ /\ c.state # "SYN_SENT" /\ SendPart(c, x, q) /\ InputEnd(c, x, q)
                       /\ \E t : TakePart(c, x, t, q)
    BY <1>5 DEF StreamInput
  <2>2. /\ pcb'["client"] = q /\ pcb'["server"] = s /\ app' = app
        /\ \A m \in net'["server"] : AckSeg(m) => m \in net["server"]
    <3>1. app' = app /\ OnlyResets("server")
      BY <1>0, <1>5 DEF StreamInput
    <3>2. \A m \in net'["server"] : AckSeg(m) => m \in net["server"]
      BY <3>1 DEF OnlyResets, IsReset, AckSeg
    <3>3. pcb'["client"] = q /\ pcb'["server"] = s
      BY <1>0, <2>1 DEF TypeInv
    <3> QED BY <3>1, <3>2, <3>3
  <2> HIDE DEF c, s, a, e
  <2>3. q.state # "SYN_SENT"
    BY <2>1, InputEarly DEF Gone, Opened
  <2>4. s.state = "SYN_RCVD" => HalfOpen(q, a, e, net'["server"])
    <3> HAVE s.state = "SYN_RCVD"
    <3>1. HalfOpen(c, a, e, net["server"])
      BY <1>2
    <3>2. CASE q.state # "ESTABLISHED"
      BY <3>1, <3>2 DEF HalfOpen
    <3>3. CASE Opened(c, x, q)
      <4>1. c.state = "SYN_SENT" /\ q.rcv_q = c.rcv_q
        BY <3>3 DEF Opened
      <4>2. c.rcv_q = <<>> /\ a.got = <<>>
        BY <1>1, <1>2, <4>1 DEF Quiet, Early, Unopened
      <4> QED BY <1>2, <2>2, <3>1, <4>1, <4>2 DEF HalfOpen
    <3>4. CASE /\ q.state = "ESTABLISHED" /\ c.state # "SYN_SENT" /\ InputEnd(c, x, q)
               /\ \E t : TakePart(c, x, t, q)
      <4>1. c.state = "ESTABLISHED"
        BY <1>2, <3>4 DEF InputEnd, Opening
      <4>2. a.got = <<>> /\ c.rcv_q = <<>> /\ \A m \in net["server"] : AckSeg(m) => m.ack = c.rcv_nxt
        BY <3>1, <4>1 DEF HalfOpen
      <4>3. PICK t : TakePart(c, x, t, q)
        BY <3>4
      <4>4. q.rcv_q = c.rcv_q /\ q.rcv_nxt = c.rcv_nxt
        <5>1. CASE /\ AckSeg(x) /\ q.rcv_q = c.rcv_q \o t.data
                   /\ q.state \in Accepting => q.rcv_nxt = Seq32(c.rcv_nxt + Len(t.data))
          <6>1. x.data = <<>> /\ SegOK(t) /\ Slice(x, t)
            BY <1>2, <4>3, <5>1 DEF TakePart
          <6>2. t.data \in Seq(Nat) /\ Len(t.data) \in Nat
            BY <6>1, SegFields, TCPAssumption
          <6>3. t.data = <<>>
            <7> SUFFICES ASSUME t.data # <<>> PROVE FALSE
              OBVIOUS
            <7>1. PICK d \in Nat : d + Len(t.data) <= Len(x.data)
              BY <6>1 DEF Slice
            <7> DEFINE n == Len(t.data)
            <7>2. n \in Nat /\ d + n <= 0
              BY <6>1, <6>2, <7>1, EmptyQueue
            <7>3. n # 0
              BY <6>2, EmptySeq
            <7> HIDE DEF n
            <7> QED BY <7>2, <7>3
          <6>4. c.rcv_q \o t.data = <<>>
            BY <4>2, <6>3, ConcatEmptySeq, EmptyQueue
          <6>5. Len(t.data) = 0 /\ c.rcv_nxt + 0 = c.rcv_nxt
            BY <1>1, <6>3, EmptyQueue DEF Seqs
          <6>6. Seq32(c.rcv_nxt + Len(t.data)) = c.rcv_nxt
            BY <1>1, <6>5, Seq32Small
          <6> QED BY <3>4, <4>2, <5>1, <6>4, <6>6 DEF Accepting
        <5>2. CASE q.rcv_q = c.rcv_q /\ (q.state \in Accepting => q.rcv_nxt = c.rcv_nxt)
          BY <3>4, <5>2 DEF Accepting
        <5> QED BY <3>4, <4>3, <5>1, <5>2 DEF TakePart, Opening
      <4> QED BY <2>2, <3>1, <4>2, <4>4 DEF HalfOpen
    <3> QED BY <2>1, <3>2, <3>3, <3>4 DEF Gone
  <2> QED BY <2>2, <2>3, <2>4 DEF HandData, a, e
<1>6. ASSUME NEW x \in net["server"], SegOK(x), StreamInput("server", x)
      PROVE  HandData'
  <2>1. PICK q : /\ pcb' = [pcb EXCEPT !["server"] = q]
                 /\ \/ Gone(q) \/ Opened(s, x, q)
                    \/ /\ s.state # "SYN_SENT" /\ SendPart(s, x, q)
                       /\ AckSeg(x) \/ (q.state = s.state /\ SendSame(s, q) /\ RecvSame(s, q))
    BY <1>6 DEF StreamInput
  <2>2. /\ pcb'["server"] = q /\ pcb'["client"] = c /\ app' = app
        /\ \A m \in net'["client"] : m \in net["client"] \/ IsReset(m)
        /\ net'["server"] \subseteq net["server"]
    BY <1>0, <1>6, <2>1 DEF StreamInput, OnlyResets, Fewer, TypeInv
  <2> HIDE DEF c, s, a, e
  <2>3. ~Opened(s, x, q)
    BY <1>2 DEF Opened
  <2>4. q.state = "SYN_RCVD" => HalfOpen(c, a, e, net'["server"])
    <3> HAVE q.state = "SYN_RCVD"
    <3>1. s.state = "SYN_RCVD"
      BY <2>1, <2>3, InputEarly DEF Gone
    <3> QED BY <1>2, <2>2, <3>1 DEF HalfOpen
  <2>5. c.state = "SYN_SENT" => Unopened(q, a, e, net'["client"])
    <3> HAVE c.state = "SYN_SENT"
    <3>1. Unopened(s, a, e, net["client"]) /\ ~AckSeg(x)
      BY <1>2
    <3>2. \A m \in net'["client"] : m.data = <<>> /\ (AckSeg(m) => m \in net["client"])
      BY <2>2, <3>1 DEF Unopened, IsReset, AckSeg
    <3>3. Gone(q) \/ (q.state = s.state /\ SendSame(s, q) /\ RecvSame(s, q))
      BY <2>1, <2>3, <3>1
    <3>4. q.snd_q = <<>> /\ q.rcv_q = <<>> /\ q.state # "ESTABLISHED"
      BY <3>1, <3>3 DEF Gone, SendSame, RecvSame, Unopened
    <3>5. q.state = "SYN_RCVD" => s.state = "SYN_RCVD" /\ q.rcv_nxt = s.rcv_nxt
      BY <3>3 DEF Gone, RecvSame
    <3> QED BY <3>1, <3>2, <3>4, <3>5 DEF Unopened
  <2> QED BY <2>2, <2>4, <2>5 DEF HandData, a, e
<1> QED
  BY <1>3, <1>4, <1>5, <1>6 DEF Host

--------------------------------------------------------------------------------
(***************************************************************************)
(* One direction of the connection. The first block has the number b; n    *)
(* blocks have arrived at the receiver r, and k have been given to the     *)
(* sender s, which keeps the last of them; D are the segments on their way *)
(* to the receiver, K those on their way back.                             *)
(***************************************************************************)
InOrder(m, b, i) ==
  m.seq = Seq32(b + i) /\ \A j \in 1 .. Len(m.data) : m.data[j] = i + j

(* The sender: a blocks are acknowledged. *)
Sender(b, a, n, k, s, K) ==
  /\ k = a + Len(s.snd_q) /\ a <= n
  /\ \A j \in 1 .. Len(s.snd_q) : s.snd_q[j] = a + j
  /\ s.snd_seq = Seq32(b + a)
  /\ s.state = "ESTABLISHED" => n <= a + s.snd_max
  /\ \A m \in K : AckSeg(m) => \E j \in Nat : j <= n /\ m.ack = Seq32(b + j)

(* The data on its way is data the sender had, and has counted while it is open. *)
OnItsWay(b, k, s, m) ==
  m.data # <<>> =>
    \E i \in Nat :
      /\ InOrder(m, b, i) /\ i + Len(m.data) <= k
      /\ s.state = "ESTABLISHED" => i + Len(m.data) <= k - Len(s.snd_q) + s.snd_max

(* The receiver, the segments and the sender count from b on. *)
Stream(b, n, k, r, s, D, K) ==
  /\ r.rcv_nxt = Seq32(b + n) /\ n <= k
  /\ \A m \in D : OnItsWay(b, k, s, m)
  /\ Numbered(s) => \E a \in Nat : Sender(b, a, n, k, s, K)

(* Numbers within the modulus from one start are told apart. *)
LEMMA Seq32Apart ==
  ASSUME NEW b \in Int, NEW x \in 0 .. SEQ_MOD - 1, NEW y \in 0 .. SEQ_MOD - 1,
         Seq32(b + x) = Seq32(b + y)
  PROVE  x = y
<1>1. SEQ_MOD \in Nat \ {0}
  BY SeqMod
<1>2. ASSUME NEW z \in 0 .. SEQ_MOD - 1
      PROVE  Seq32(Seq32(b + z) + (-b)) = z
  <2> DEFINE u == b + z
             v == -b
  <2>1. u \in Int /\ v \in Int /\ u + v = z
    BY <1>1
  <2> HIDE DEF u, v
  <2>2. Seq32(Seq32(u) + v) = Seq32(u + v)
    BY <2>1, Seq32Add
  <2>3. Seq32(z) = z
    BY Seq32Small DEF Seqs
  <2>4. Seq32(Seq32(u) + v) = z
    BY <2>1, <2>2, <2>3
  <2> QED BY <2>4 DEF u, v
<1> QED
  BY <1>2

(* The receiver works, and nothing arrives. *)
LEMMA StreamReceiver ==
  ASSUME NEW b \in Nat, NEW n \in Nat, NEW k \in Nat, NEW r, NEW q, NEW s, NEW D, NEW K, NEW E, NEW L,
         Stream(b, n, k, r, s, D, K), q.rcv_nxt = r.rcv_nxt, E \subseteq D,
         \A m \in L : AckSeg(m) => m \in K \/ m.ack = q.rcv_nxt
  PROVE  Stream(b, n, k, q, s, E, L)
<1>1. ASSUME NEW a \in Nat, Sender(b, a, n, k, s, K)
      PROVE  Sender(b, a, n, k, s, L)
  <2>1. ASSUME NEW m \in L, AckSeg(m)
        PROVE  \E j \in Nat : j <= n /\ m.ack = Seq32(b + j)
    <3>1. CASE m \in K
      BY <1>1, <2>1, <3>1 DEF Sender
    <3>2. CASE m.ack = q.rcv_nxt
      <4>1. m.ack = Seq32(b + n) /\ n <= n
        BY <3>2 DEF Stream
      <4> QED BY <4>1
    <3> QED BY <2>1, <3>1, <3>2
  <2> QED BY <1>1, <2>1 DEF Sender
<1> QED
  BY <1>1 DEF Stream

(* The sender works: it sends, sends again, or closes. *)
LEMMA StreamSender ==
  ASSUME NEW b \in Nat, NEW n \in Nat, NEW k \in Nat, NEW r, NEW q, NEW s, NEW D, NEW K, NEW E, NEW L,
         Stream(b, n, k, r, s, D, K), L \subseteq K,
         PcbOK(q), PcbOK(s), \A m \in D : SegOK(m),
         Numbered(q) => Numbered(s) /\ q.snd_seq = s.snd_seq /\ q.snd_q = s.snd_q,
         q.state = "ESTABLISHED" => s.state = "ESTABLISHED" /\ q.snd_max >= s.snd_max,
         \A m \in E : \/ m \in D \/ m.data = <<>>
                      \/ /\ Numbered(q) /\ SegOK(m)
                         /\ \E off \in Nat : DataFrom(q, m, off) /\ off + Len(m.data) <= q.snd_max
  PROVE  Stream(b, n, k, r, q, E, L)
<1>0. /\ s.snd_max \in Nat /\ q.snd_max \in Nat /\ Len(q.snd_q) \in Nat /\ Len(s.snd_q) \in Nat
      /\ s.snd_seq \in Int
  BY PcbFields, TCPAssumption DEF Offs, Seqs
<1>1. ASSUME NEW a \in Nat, Numbered(q), Sender(b, a, n, k, s, K)
      PROVE  Sender(b, a, n, k, q, L)
  <2>1. q.state = "ESTABLISHED" => n <= a + q.snd_max
    <3> HAVE q.state = "ESTABLISHED"
    <3>1. n <= a + s.snd_max /\ q.snd_max >= s.snd_max
      BY <1>1 DEF Sender
    <3> QED BY <1>0, <3>1
  <2> QED BY <1>1, <2>1 DEF Sender
<1>2. Numbered(q) => \E a \in Nat : Sender(b, a, n, k, q, L)
  BY <1>1 DEF Stream
<1>3. ASSUME NEW m \in D
      PROVE  OnItsWay(b, k, q, m)
  <2>1. OnItsWay(b, k, s, m) /\ Len(m.data) \in Nat
    BY SegFields, TCPAssumption DEF Stream
  <2>2. ASSUME NEW i \in Nat, q.state = "ESTABLISHED", NEW l \in Nat,
               s.state = "ESTABLISHED" => i + l <= k - Len(s.snd_q) + s.snd_max
        PROVE  i + l <= k - Len(q.snd_q) + q.snd_max
    <3>1. q.snd_q = s.snd_q
      BY <2>2 DEF Numbered
    <3> DEFINE x == Len(s.snd_q)
               y == s.snd_max
               z == q.snd_max
    <3>2. x \in Nat /\ y \in Nat /\ z \in Nat /\ z >= y /\ i + l <= k - x + y
      BY <1>0, <2>2
    <3> HIDE DEF x, y, z
    <3>3. i + l <= k - x + z
      BY <2>2, <3>2
    <3> QED BY <3>1, <3>3 DEF x, z
  <2> QED BY <2>1, <2>2 DEF OnItsWay
<1>4. ASSUME NEW m, SegOK(m), Numbered(q), NEW off \in Nat, DataFrom(q, m, off),
             off + Len(m.data) <= q.snd_max
      PROVE  OnItsWay(b, k, q, m)
  <2>1. PICK a \in Nat : Sender(b, a, n, k, q, L)
    BY <1>2, <1>4
  <2> DEFINE l == Len(m.data)
             z == Len(q.snd_q)
             w == q.snd_max
             sq == q.snd_seq
  <2>2. l \in Nat /\ z \in Nat /\ w \in Nat /\ off + l <= w /\ off + l <= z /\ k = a + z
        /\ m.seq = Seq32(sq + off) /\ sq = Seq32(b + a)
    BY <1>0, <1>4, <2>1, SegFields, TCPAssumption DEF DataFrom, Sender
  <2>3. \A j \in 1 .. l : m.data[j] = q.snd_q[off + j]
    BY <1>4 DEF DataFrom
  <2>4. \A j \in 1 .. z : q.snd_q[j] = a + j
    BY <2>1 DEF Sender
  <2> HIDE DEF l, z, w, sq
  <2>5. ASSUME NEW j \in 1 .. l
        PROVE  m.data[j] = (a + off) + j
    <3>1. off + j \in 1 .. z /\ a + (off + j) = (a + off) + j
      BY <2>2
    <3> QED BY <2>3, <2>4, <3>1
  <2>6. m.seq = Seq32(b + (a + off))
    <3>1. Seq32(Seq32(b + a) + off) = Seq32((b + a) + off)
      <4> DEFINE u == b + a
      <4>1. u \in Int
        OBVIOUS
      <4> HIDE DEF u
      <4>2. Seq32(Seq32(u) + off) = Seq32(u + off)
        BY <4>1, Seq32Add
      <4> QED BY <4>2 DEF u
    <3>2. (b + a) + off = b + (a + off)
      OBVIOUS
    <3> QED BY <2>2, <3>1, <3>2
  <2>7. a + off \in Nat /\ (a + off) + l <= k /\ (a + off) + l <= k - z + w
    BY <2>2
  <2> DEFINE i == a + off
  <2>8. InOrder(m, b, i)
    BY <2>5, <2>6 DEF InOrder, l
  <2>9. i \in Nat /\ i + l <= k /\ i + l <= k - z + w
    BY <2>7
  <2> HIDE DEF i
  <2> QED BY <2>8, <2>9 DEF OnItsWay, l, z, w
<1>5. \A m \in E : OnItsWay(b, k, q, m)
  <2> TAKE m \in E
  <2>1. m.data = <<>> => OnItsWay(b, k, q, m)
    BY DEF OnItsWay
  <2> QED BY <1>3, <1>4, <2>1
<1> QED
  BY <1>2, <1>5 DEF Stream

(* A block is queued (tcp_send). *)
LEMMA StreamQueue ==
  ASSUME NEW b \in Nat, NEW n \in Nat, NEW k \in Nat, NEW r, NEW q, NEW s, NEW D, NEW K,
         Stream(b, n, k, r, s, D, K), PcbOK(q), PcbOK(s), \A m \in D : SegOK(m),
         s.state = "ESTABLISHED", Queued(s, q, k + 1)
  PROVE  Stream(b, n, k + 1, r, q, D, K)
<1>1. /\ q.state = "ESTABLISHED" /\ q.snd_q = Append(s.snd_q, k + 1) /\ q.snd_seq = s.snd_seq
      /\ q.snd_max = s.snd_max
  BY DEF Queued
<1>2. s.snd_max \in Nat /\ s.snd_q \in Seq(Nat) /\ Len(s.snd_q) \in Nat
  BY PcbFields, TCPAssumption DEF Offs
<1> DEFINE z == Len(s.snd_q)
           w == s.snd_max
<1>3. Len(q.snd_q) = z + 1 /\ q.snd_q[z + 1] = k + 1 /\ \A j \in 1 .. z : q.snd_q[j] = s.snd_q[j]
  <2> DEFINE v == k + 1
             x == s.snd_q
  <2>1. v \in Nat /\ x \in Seq(Nat) /\ q.snd_q = Append(x, v)
    BY <1>1, <1>2
  <2> HIDE DEF v, x
  <2>2. Len(Append(x, v)) = Len(x) + 1 /\ Append(x, v)[Len(x) + 1] = v
        /\ \A j \in 1 .. Len(x) : Append(x, v)[j] = x[j]
    BY <2>1, AppendProperties
  <2> QED BY <2>1, <2>2 DEF v, x
<1>4. PICK a \in Nat : Sender(b, a, n, k, s, K)
  BY DEF Stream, Numbered
<1>5. /\ k = a + z /\ a <= n /\ (\A j \in 1 .. z : s.snd_q[j] = a + j) /\ s.snd_seq = Seq32(b + a)
      /\ n <= a + w /\ \A m \in K : AckSeg(m) => \E j \in Nat : j <= n /\ m.ack = Seq32(b + j)
  BY <1>4 DEF Sender
<1>6. z \in Nat /\ w \in Nat
  BY <1>2
<1> HIDE DEF z, w
<1>7. ASSUME NEW j \in 1 .. z + 1
      PROVE  q.snd_q[j] = a + j
  <2>1. j \in 1 .. z \/ j = z + 1
    BY <1>6
  <2>2. CASE j = z + 1
    <3>1. k + 1 = a + j
      BY <1>5, <1>6, <2>2
    <3> QED BY <1>3, <2>2, <3>1
  <2> QED BY <1>3, <1>5, <2>1, <2>2
<1>8. Sender(b, a, n, k + 1, q, K)
  <2>1. k + 1 = a + (z + 1)
    BY <1>5, <1>6
  <2> QED BY <1>1, <1>3, <1>5, <1>7, <2>1 DEF Sender, w
<1>9. ASSUME NEW m \in D
      PROVE  OnItsWay(b, k + 1, q, m)
  <2>1. OnItsWay(b, k, s, m) /\ Len(m.data) \in Nat
    BY <1>9, SegFields, TCPAssumption DEF Stream
  <2>2. ASSUME NEW i \in Nat, NEW l \in Nat, i + l <= k, i + l <= k - z + w
        PROVE  i + l <= k + 1 /\ i + l <= (k + 1) - (z + 1) + w
    BY <1>6, <2>2
  <2> QED BY <1>1, <1>3, <2>1, <2>2 DEF OnItsWay, z, w
<1>10. r.rcv_nxt = Seq32(b + n) /\ n <= k + 1
  BY DEF Stream
<1> QED
  BY <1>8, <1>9, <1>10 DEF Stream

(* A connection in which this side has sent nothing opens. *)
LEMMA StreamOpen ==
  ASSUME NEW b \in Nat, NEW r, NEW q, NEW D, NEW K,
         r.rcv_nxt = Seq32(b), PcbOK(q), q.snd_q = <<>>,
         \A m \in D : m.data = <<>>,
         Numbered(q) => /\ q.snd_seq = r.rcv_nxt
                        /\ \A m \in K : AckSeg(m) => m.ack = r.rcv_nxt
  PROVE  \A k \in Nat : (Numbered(q) => k = 0) => Stream(b, 0, k, r, q, D, K)
<1> TAKE k \in Nat
<1> HAVE Numbered(q) => k = 0
<1>1. b + 0 = b /\ 0 <= k /\ 0 \in Nat /\ 0 = 0 + 0
  OBVIOUS
<1>2. Len(q.snd_q) = 0 /\ q.snd_max \in Nat
  BY PcbFields, EmptyQueue DEF Offs
<1>3. \A m \in D : OnItsWay(b, k, q, m)
  BY DEF OnItsWay
<1>4. ASSUME Numbered(q)
      PROVE  Sender(b, 0, 0, k, q, K)
  <2>1. k = 0 + Len(q.snd_q) /\ 0 <= 0 /\ 0 <= 0 + q.snd_max
    BY <1>2, <1>4
  <2>2. q.snd_seq = Seq32(b + 0)
    BY <1>1, <1>4
  <2>3. \A j \in 1 .. Len(q.snd_q) : FALSE
    BY <1>2
  <2>4. \A m \in K : AckSeg(m) => 0 \in Nat /\ 0 <= 0 /\ m.ack = Seq32(b + 0)
    BY <1>1, <1>4
  <2> QED BY <2>1, <2>2, <2>3, <2>4 DEF Sender
<1> QED
  BY <1>1, <1>3, <1>4 DEF Stream

(* An ACK for d units acknowledges the next d blocks (tcp_input, AckedBy). *)
LEMMA StreamAck ==
  ASSUME NEW b \in Nat, NEW n \in Nat, NEW k \in Nat, NEW r, NEW q, NEW s, NEW D, NEW K, NEW L,
         Stream(b, n, k, r, s, D, K), PcbOK(q), PcbOK(s), \A m \in D : SegOK(m), L \subseteq K,
         k + OFF_MOD <= SEQ_MOD, Numbered(s), q.state = s.state,
         NEW x \in K, AckSeg(x), x.ack \in Seqs, AckedBy(s, q, SeqDiff(x.ack, s.snd_seq))
  PROVE  Stream(b, n, k, r, q, D, L)
<1> DEFINE d == SeqDiff(x.ack, s.snd_seq)
           z == Len(s.snd_q)
           w == s.snd_max
           sq == s.snd_seq
<1>1. /\ w \in Nat /\ w < OFF_MOD /\ s.snd_q \in Seq(Nat) /\ z \in Nat /\ sq \in Seqs /\ sq \in Int
      /\ OFF_MOD \in Nat /\ SEQ_MOD \in Nat /\ OFF_MOD < SEQ_MOD
  BY PcbFields, TCPAssumption DEF Offs, Seqs
<1>2. /\ d \in 1 .. w /\ q.snd_seq = Seq32(sq + d) /\ q.snd_q = Unacked(s.snd_q, d)
      /\ q.snd_max = w - d
  BY DEF AckedBy
<1>3. PICK a \in Nat : Sender(b, a, n, k, s, K)
  BY DEF Stream
<1>4. /\ k = a + z /\ a <= n /\ (\A j \in 1 .. z : s.snd_q[j] = a + j) /\ sq = Seq32(b + a)
      /\ s.state = "ESTABLISHED" => n <= a + w
      /\ \A m \in K : AckSeg(m) => \E j \in Nat : j <= n /\ m.ack = Seq32(b + j)
  BY <1>3 DEF Sender
<1>5. PICK j \in Nat : j <= n /\ x.ack = Seq32(b + j)
  BY <1>4
<1>6. r.rcv_nxt = Seq32(b + n) /\ n <= k
  BY DEF Stream
<1>7. Seq32(sq + d) = x.ack
  BY <1>1, SeqDiffBack
<1> HIDE DEF d, z, w, sq
<1>8. d \in Nat /\ d < OFF_MOD /\ a + d \in Nat
  BY <1>1, <1>2
<1>9. Seq32(sq + d) = Seq32(b + (a + d))
  <2> DEFINE u == b + a
  <2>1. u \in Int /\ u + d = b + (a + d)
    BY <1>8
  <2>2. sq = Seq32(u)
    BY <1>4
  <2> HIDE DEF u
  <2>3. Seq32(Seq32(u) + d) = Seq32(u + d)
    BY <1>8, <2>1, Seq32Add
  <2> QED BY <2>1, <2>2, <2>3
<1>10. a + d = j
  <2> DEFINE v == a + d
  <2>1. v \in 0 .. SEQ_MOD - 1 /\ j \in 0 .. SEQ_MOD - 1
    BY <1>1, <1>4, <1>5, <1>6, <1>8
  <2>2. Seq32(b + v) = Seq32(b + j) /\ b \in Int
    BY <1>5, <1>7, <1>9
  <2> HIDE DEF v
  <2>3. v = j
    BY <2>1, <2>2, Seq32Apart
  <2> QED BY <2>3 DEF v
<1>11. d <= z /\ a + d <= n
  BY <1>1, <1>4, <1>5, <1>6, <1>8, <1>10
<1>12. Len(q.snd_q) = z - d /\ \A i \in 1 .. z - d : q.snd_q[i] = s.snd_q[d + i]
  <2> DEFINE y == s.snd_q
  <2>1. y \in Seq(Nat) /\ d <= Len(y) /\ z = Len(y)
    BY <1>1, <1>11 DEF z
  <2> HIDE DEF y
  <2>2. Len(Unacked(y, d)) = Len(y) - d /\ \A i \in 1 .. Len(Unacked(y, d)) : Unacked(y, d)[i] = y[d + i]
    BY <1>8, <2>1, UnackedLemma
  <2> QED BY <1>2, <2>1, <2>2 DEF y
<1>13. Sender(b, a + d, n, k, q, L)
  <2>1. k = (a + d) + (z - d) /\ q.snd_seq = Seq32(b + (a + d))
    BY <1>1, <1>2, <1>4, <1>8, <1>9
  <2>2. ASSUME NEW i \in 1 .. z - d
        PROVE  q.snd_q[i] = (a + d) + i
    <3>1. d + i \in 1 .. z /\ a + (d + i) = (a + d) + i
      BY <1>1, <1>8, <1>11
    <3> QED BY <1>4, <1>12, <3>1
  <2>3. q.state = "ESTABLISHED" => n <= (a + d) + q.snd_max
    <3>1. n <= a + w => n <= (a + d) + (w - d)
      BY <1>1, <1>8
    <3> QED BY <1>2, <1>4, <3>1
  <2> QED BY <1>4, <1>11, <1>12, <2>1, <2>2, <2>3 DEF Sender
<1>14. ASSUME NEW m \in D
       PROVE  OnItsWay(b, k, q, m)
  <2>1. OnItsWay(b, k, s, m) /\ Len(m.data) \in Nat
    BY <1>14, SegFields, TCPAssumption DEF Stream
  <2>2. k - z + w = k - (z - d) + (w - d)
    BY <1>1, <1>8
  <2> QED BY <1>2, <1>12, <2>1, <2>2 DEF OnItsWay, z, w
<1> QED
  BY <1>6, <1>8, <1>13, <1>14 DEF Stream

(* The next data is taken (tcp_input, TakePart). *)
LEMMA StreamTake ==
  ASSUME NEW b \in Nat, NEW n \in Nat, NEW k \in Nat, NEW r, NEW q, NEW s, NEW D, NEW K,
         Stream(b, n, k, r, s, D, K), PcbOK(s), k < SEQ_MOD,
         NEW x \in D, SegOK(x), NEW t, SegOK(t), Slice(x, t), t.data # <<>>,
         t.seq = r.rcv_nxt, q.rcv_nxt = Seq32(r.rcv_nxt + Len(t.data))
  PROVE  /\ Stream(b, n + Len(t.data), k, q, s, D, K)
         /\ \A j \in 1 .. Len(t.data) : t.data[j] = n + j
         /\ n + Len(t.data) <= k
<1> DEFINE l == Len(t.data)
           c == Len(x.data)
           z == Len(s.snd_q)
           w == s.snd_max
<1>1. l \in Nat /\ c \in Nat /\ z \in Nat /\ w \in Nat /\ x.data \in Seq(Nat) /\ t.data \in Seq(Nat) /\ SEQ_MOD \in Nat
  BY PcbFields, SegFields, TCPAssumption DEF Offs
<1>2. l # 0
  BY <1>1, EmptySeq
<1>3. PICK d \in Nat : /\ t.seq = Seq32(x.seq + d) /\ d + l <= c
                       /\ \A i \in 1 .. l : t.data[i] = x.data[d + i]
  BY DEF Slice
<1>4. x.data # <<>>
  <2>1. c # 0
    <3> HIDE DEF l, c
    <3> QED BY <1>1, <1>2, <1>3
  <2> QED BY <2>1, EmptyQueue
<1>5. PICK i \in Nat : /\ InOrder(x, b, i) /\ i + c <= k
                       /\ s.state = "ESTABLISHED" => i + c <= k - z + w
  BY <1>4 DEF Stream, OnItsWay
<1>6. x.seq = Seq32(b + i) /\ \A j \in 1 .. c : x.data[j] = i + j
  BY <1>5 DEF InOrder
<1>7. r.rcv_nxt = Seq32(b + n) /\ n <= k
  BY DEF Stream
<1>8. q.rcv_nxt = Seq32(Seq32(b + n) + l)
  BY <1>7
<1> HIDE DEF l, c, z, w
<1>9. n = i + d
  <2> DEFINE u == b + i
             v == i + d
  <2>1. u \in Int /\ u + d = b + v /\ b \in Int
    OBVIOUS
  <2>2. v \in 0 .. SEQ_MOD - 1 /\ n \in 0 .. SEQ_MOD - 1
    BY <1>1, <1>3, <1>5, <1>7
  <2>3. t.seq = Seq32(Seq32(u) + d)
    BY <1>3, <1>6
  <2> HIDE DEF u, v
  <2>4. Seq32(Seq32(u) + d) = Seq32(u + d)
    BY <2>1, Seq32Add
  <2>5. Seq32(b + n) = Seq32(b + v)
    BY <1>7, <2>1, <2>3, <2>4
  <2>6. n = v
    BY <2>1, <2>2, <2>5, Seq32Apart
  <2> QED BY <2>6 DEF v
<1>10. ASSUME NEW j \in 1 .. l
       PROVE  t.data[j] = n + j
  <2>1. d + j \in 1 .. c /\ i + (d + j) = n + j
    BY <1>1, <1>3, <1>9
  <2> QED BY <1>3, <1>6, <2>1
<1>11. n + l <= k /\ n + l \in Nat /\ (s.state = "ESTABLISHED" => n + l <= k - z + w)
  BY <1>1, <1>3, <1>5, <1>9
<1>12. q.rcv_nxt = Seq32(b + (n + l))
  <2> DEFINE u == b + n
  <2>1. u \in Int /\ u + l = b + (n + l) /\ q.rcv_nxt = Seq32(Seq32(u) + l)
    BY <1>1, <1>8
  <2> HIDE DEF u
  <2>2. Seq32(Seq32(u) + l) = Seq32(u + l)
    BY <1>1, <2>1, Seq32Add
  <2> QED BY <2>1, <2>2
<1>13. ASSUME NEW a \in Nat, Sender(b, a, n, k, s, K)
       PROVE  Sender(b, a, n + l, k, s, K)
  <2>1. /\ k = a + z /\ a <= n /\ (\A j \in 1 .. z : s.snd_q[j] = a + j) /\ s.snd_seq = Seq32(b + a)
        /\ \A m \in K : AckSeg(m) => \E j \in Nat : j <= n /\ m.ack = Seq32(b + j)
    BY <1>13 DEF Sender, z
  <2>2. a <= n + l /\ (s.state = "ESTABLISHED" => n + l <= a + w)
    BY <1>1, <1>11, <2>1
  <2>3. \A j \in Nat : j <= n => j <= n + l
    BY <1>1
  <2>4. \A m \in K : AckSeg(m) => \E j \in Nat : j <= n + l /\ m.ack = Seq32(b + j)
    BY <2>1, <2>3
  <2> QED BY <2>1, <2>2, <2>4 DEF Sender, z, w
<1>14. Stream(b, n + l, k, q, s, D, K)
  BY <1>11, <1>12, <1>13 DEF Stream
<1> QED
  BY <1>10, <1>11, <1>14 DEF l

--------------------------------------------------------------------------------
(* The blocks 1, 2, 3, ... of which k exist. *)
Prefix(x, k) == \A i \in 1 .. Len(x) : x[i] = i /\ i <= k

(* The stream to the host h, while h takes data. *)
StreamOK(h) ==
  pcb[h].state \in Accepting =>
    \E b \in Nat : Stream(b, Len(Arrived(h)), app[Peer(h)].sent, pcb[h], pcb[Peer(h)],
                          net[h], net[Peer(h)])

(* What arrived at h is the beginning of what its peer sent. *)
PrefixOK(h) == Prefix(Arrived(h), app[Peer(h)].sent)

(* A concatenation is a sequence (Sequences). *)
LEMMA ConcatType ==
  ASSUME NEW a \in Seq(Nat), NEW b \in Seq(Nat)
  PROVE  a \o b \in Seq(Nat) /\ Len(a \o b) \in Nat /\ Len(a \o b) = Len(a) + Len(b)
<1>1. a \o b \in Seq(Nat) /\ Len(a \o b) = Len(a) + Len(b)
  BY ConcatProperties
<1>2. Len(a \o b) \in Nat
  BY <1>1, LenProperties
<1> QED BY <1>1, <1>2

(* What is left when the receive queue is given up is still the beginning of the stream. *)
LEMMA PrefixRead ==
  ASSUME NEW g \in Seq(Nat), NEW q \in Seq(Nat), NEW k \in Nat, Prefix(g \o q, k)
  PROVE  Prefix(g \o <<>>, k)
<1> DEFINE x == Len(g)
           y == Len(q)
<1>1. /\ Len(g \o q) = x + y /\ x \in Nat /\ y \in Nat
      /\ \A i \in 1 .. x + y : (g \o q)[i] = IF i <= x THEN g[i] ELSE q[i - x]
  BY ConcatProperties
<1>2. g \o <<>> = g
  BY ConcatEmptySeq
<1>3. \A i \in 1 .. x + y : (g \o q)[i] = i /\ i <= k
  BY <1>1 DEF Prefix
<1> HIDE DEF x, y
<1>4. ASSUME NEW i \in 1 .. x
      PROVE  g[i] = i /\ i <= k
  <2>1. i \in 1 .. x + y /\ i <= x
    BY <1>1
  <2> QED BY <1>1, <1>3, <2>1
<1> QED
  BY <1>2, <1>4 DEF Prefix, x

(* The next blocks follow. *)
LEMMA PrefixMore ==
  ASSUME NEW g \in Seq(Nat), NEW q \in Seq(Nat), NEW d \in Seq(Nat), NEW k \in Nat,
         Prefix(g \o q, k), Len(g \o q) + Len(d) <= k,
         \A j \in 1 .. Len(d) : d[j] = Len(g \o q) + j
  PROVE  Prefix(g \o (q \o d), k) /\ Len(g \o (q \o d)) = Len(g \o q) + Len(d)
<1> DEFINE v == g \o q
           x == Len(v)
           y == Len(d)
<1>1. v \in Seq(Nat) /\ g \o (q \o d) = v \o d
  <2>1. v \in Seq(Nat)
    BY ConcatType
  <2>2. (g \o q) \o d = g \o (q \o d)
    BY ConcatAssociative, SMTT(40)
  <2> QED BY <2>1, <2>2
<1>2. x + y <= k /\ (\A j \in 1 .. y : d[j] = x + j) /\ Prefix(v, k)
  OBVIOUS
<1> HIDE DEF v
<1>3. /\ Len(v \o d) = x + y /\ x \in Nat /\ y \in Nat
      /\ \A i \in 1 .. x + y : (v \o d)[i] = IF i <= x THEN v[i] ELSE d[i - x]
  BY <1>1, ConcatProperties
<1>4. \A i \in 1 .. x : v[i] = i /\ i <= k
  BY <1>2 DEF Prefix
<1> HIDE DEF x, y
<1>5. ASSUME NEW i \in 1 .. x + y
      PROVE  (v \o d)[i] = i /\ i <= k
  <2>1. CASE i <= x
    <3>1. i \in 1 .. x
      BY <1>3, <2>1
    <3> QED BY <1>3, <1>4, <2>1, <3>1
  <2>2. CASE ~(i <= x)
    <3>1. i - x \in 1 .. y /\ x + (i - x) = i /\ i <= k
      BY <1>2, <1>3, <2>2
    <3> QED BY <1>2, <1>3, <2>2, <3>1
  <2> QED BY <2>1, <2>2
<1>6. Prefix(v \o d, k)
  BY <1>3, <1>5 DEF Prefix
<1> QED
  BY <1>1, <1>3, <1>6 DEF v, x, y

(* A larger stream has the same beginnings. *)
LEMMA PrefixGrows ==
  ASSUME NEW x, NEW k \in Nat, NEW l \in Nat, k <= l, Prefix(x, k), Len(x) \in Nat
  PROVE  Prefix(x, l)
<1>1. ASSUME NEW i \in 1 .. Len(x)
      PROVE  x[i] = i /\ i <= l
  <2>1. x[i] = i /\ i <= k /\ i \in Int
    BY DEF Prefix
  <2> QED BY <2>1
<1> QED BY <1>1 DEF Prefix

(* A step of the receiver. *)
LEMMA WorkReceiver ==
  ASSUME TypeInv, TypeInv', NEW h \in Host, StreamOK(h), PrefixOK(h), StreamStep(h)
  PROVE  StreamOK(h)' /\ PrefixOK(h)'
<1> DEFINE g == Peer(h)
           p == pcb[h]
           a == app[h]
           b == app'[h]
           k == app[g].sent
           x == a.got \o p.rcv_q
           n == Len(x)
<1>1. g \in Host /\ g # h
  BY PeerLemma
<1>2. PICK q : /\ pcb' = [pcb EXCEPT ![h] = q] /\ WorkBlock(p, q) /\ AppStep(a, b, p, q)
               /\ \A m \in net'[g] : m \in net[g] \/ IsReset(m) \/ Made(q, m)
  BY DEF StreamStep
<1>3. pcb'[h] = q /\ pcb'[g] = pcb[g] /\ app'[g] = app[g] /\ net'[h] \subseteq net[h]
  BY <1>1, <1>2 DEF StreamStep, TypeInv, Fewer
<1>4. a.got \in Seq(Nat) /\ p.rcv_q \in Seq(Nat) /\ k \in Nat
  BY <1>1, StreamTypes
<1>5. x \in Seq(Nat) /\ n \in Nat
  BY <1>4, ConcatType
<1>6. Prefix(x, k)
  BY DEF PrefixOK, Arrived
<1>7. p.state \in Accepting => \E c \in Nat : Stream(c, n, k, p, pcb[g], net[h], net[g])
  BY DEF StreamOK, Arrived
<1> DEFINE y == b.got \o q.rcv_q
<1>8. y = x \/ (y = a.got \o <<>> /\ q.state \notin Opening)
  BY <1>2 DEF AppStep
<1>9. Prefix(y, k)
  <2>1. Prefix(a.got \o <<>>, k)
    BY <1>4, <1>6, PrefixRead
  <2> HIDE DEF x, y
  <2> QED BY <1>6, <1>8, <2>1
<1>10. PrefixOK(h)'
  BY <1>3, <1>9 DEF PrefixOK, Arrived
<1> HIDE DEF p, k, n, x, y
<1>11. ASSUME q.state \in Accepting
       PROVE  \E c \in Nat : Stream(c, Len(y), k, q, pcb[g], net'[h], net'[g])
  <2>1. p.state \in Accepting /\ q.rcv_nxt = p.rcv_nxt /\ y = x
    BY <1>2, <1>8, <1>11 DEF WorkBlock, Accepting, Opening
  <2>2. PICK c \in Nat : Stream(c, n, k, p, pcb[g], net[h], net[g])
    BY <1>7, <2>1
  <2>3. \A m \in net'[g] : AckSeg(m) => m \in net[g] \/ m.ack = q.rcv_nxt
    BY <1>2, <1>11 DEF IsReset, AckSeg, Made
  <2>4. Stream(c, n, k, q, pcb[g], net'[h], net'[g])
    BY <1>3, <1>4, <1>5, <2>1, <2>2, <2>3, StreamReceiver
  <2> QED BY <2>1, <2>4 DEF n
<1>12. StreamOK(h)'
  BY <1>3, <1>11 DEF StreamOK, Arrived, y, k, g
<1> QED BY <1>10, <1>12

(* A step of the sender. *)
LEMMA WorkSender ==
  ASSUME TypeInv, TypeInv', EndInv, NEW h \in Host, StreamStep(h),
         StreamOK(Peer(h)), PrefixOK(Peer(h))
  PROVE  StreamOK(Peer(h))' /\ PrefixOK(Peer(h))'
<1> DEFINE g == Peer(h)
           p == pcb[h]
           r == pcb[g]
           k == app[h].sent
           n == Len(Arrived(g))
<1>1. g \in Host /\ g # h /\ Peer(g) = h
  BY PeerLemma
<1>2. PICK q : /\ pcb' = [pcb EXCEPT ![h] = q] /\ WorkBlock(p, q) /\ AppStep(app[h], app'[h], p, q)
               /\ \A m \in net'[g] : m \in net[g] \/ IsReset(m) \/ Made(q, m)
  BY DEF StreamStep
<1>3. /\ pcb'[h] = q /\ pcb'[g] = r /\ app'[g] = app[g] /\ net'[h] \subseteq net[h]
      /\ app'[h].sent = k
  BY <1>1, <1>2 DEF StreamStep, TypeInv, Fewer, AppStep
<1>4. k \in Nat /\ Quiet(p) /\ PcbOK(p) /\ PcbOK(q) /\ app[g].got \in Seq(Nat) /\ r.rcv_q \in Seq(Nat)
  BY <1>1, <1>3, StreamTypes, NextTypes
<1>5. n \in Nat
  BY <1>4, ConcatType DEF Arrived
<1>6. Arrived(g)' = Arrived(g)
  BY <1>3 DEF Arrived
<1>7. PrefixOK(g)'
  BY <1>1, <1>3, <1>6 DEF PrefixOK
<1>8. r.state \in Accepting => \E c \in Nat : Stream(c, n, k, r, p, net[g], net[h])
  BY <1>1 DEF StreamOK
<1>9. EndSelf(r, app[g]) /\ EndPeer(p, app[g], net[h]) /\ EndSelf(p, app[h])
  BY <1>1 DEF EndInv
<1>10. \A m \in net[g] : SegOK(m)
  BY <1>1 DEF TypeInv
<1> HIDE DEF g, p, r, k, n
<1>11. ASSUME r.state \in Accepting
       PROVE  \E c \in Nat : Stream(c, n, k, r, q, net'[g], net'[h])
  <2>1. PICK c \in Nat : Stream(c, n, k, r, p, net[g], net[h])
    BY <1>8, <1>11
  <2>2. app[g].phase # "done"
    BY <1>9, <1>11 DEF EndSelf, Accepting, Opening
  <2>3. p.state \notin {"CLOSE_WAIT", "CLOSING", "LAST_ACK"}
    BY <1>9, <2>2 DEF EndPeer
  <2>4. Numbered(q) => Numbered(p) /\ q.snd_seq = p.snd_seq /\ q.snd_q = p.snd_q
    <3> HAVE Numbered(q)
    <3>1. q.state \in Opening \cup {"FIN_WAIT_1"}
      BY DEF Numbered, Opening
    <3>2. q.snd_seq = p.snd_seq /\ q.snd_q = p.snd_q
      BY <1>2, <3>1 DEF WorkBlock
    <3>3. CASE q.state = "ESTABLISHED"
      BY <1>2, <3>2, <3>3 DEF WorkBlock, Opening, Numbered
    <3>4. CASE q.state = "FIN_WAIT_1" /\ q.snd_q # <<>>
      <4>1. p.state \in {"SYN_RCVD", "ESTABLISHED", "FIN_WAIT_1"}
        BY <1>2, <3>4 DEF WorkBlock
      <4>2. p.state # "SYN_RCVD"
        BY <1>4, <3>2, <3>4 DEF Quiet, Early
      <4> QED BY <3>2, <3>4, <4>1, <4>2 DEF Numbered
    <3> QED BY <3>3, <3>4 DEF Numbered
  <2>5. q.state = "ESTABLISHED" => p.state = "ESTABLISHED" /\ q.snd_max >= p.snd_max
    BY <1>2 DEF WorkBlock, Opening
  <2>6. q.snd_q # <<>> => Numbered(q)
    <3> HAVE q.snd_q # <<>>
    <3>1. p.snd_q # <<>>
      BY <1>2 DEF WorkBlock
    <3>2. p.state \in {"ESTABLISHED", "FIN_WAIT_1"}
      BY <1>4, <1>9, <2>3, <3>1, PcbFields DEF Quiet, Early, EndSelf, TCPS
    <3>3. q.state \notin {"SYN_SENT", "SYN_RCVD", "CLOSE_WAIT", "CLOSING", "LAST_ACK", "FIN_WAIT_2", "TIME_WAIT"}
      BY <1>2, <3>2 DEF WorkBlock, Opening
    <3>4. q.state \notin {"FREE", "CLOSED"}
      <4>1. BlockOK(q)
        BY <1>1, <1>3 DEF TypeInv
      <4> QED BY <4>1 DEF BlockOK, Quiet, Early
    <3>5. q.state \in TCPS
      BY <1>4, PcbFields
    <3> QED BY <3>3, <3>4, <3>5 DEF TCPS, Numbered
  <2>7. \A m \in net'[g] : \/ m \in net[g] \/ m.data = <<>>
                           \/ /\ Numbered(q) /\ SegOK(m)
                              /\ \E off \in Nat : DataFrom(q, m, off) /\ off + Len(m.data) <= q.snd_max
    BY <1>2, <2>6 DEF IsReset, Made
  <2>8. Stream(c, n, k, r, q, net'[g], net'[h])
    BY <1>3, <1>4, <1>5, <1>10, <2>1, <2>4, <2>5, <2>7, StreamSender
  <2> QED BY <2>8
<1>12. StreamOK(g)'
  BY <1>1, <1>3, <1>6, <1>11 DEF StreamOK, n, k
<1> QED BY <1>7, <1>12 DEF g

(* The receiver is one of two hosts that queues a block, for the other direction. *)
LEMMA QueueReceiver ==
  ASSUME TypeInv, NEW h \in Host, StreamOK(h), PrefixOK(h), QueueStep(h)
  PROVE  StreamOK(h)' /\ PrefixOK(h)'
<1> DEFINE g == Peer(h)
           p == pcb[h]
           k == app[g].sent
           n == Len(Arrived(h))
           v == app[h].sent + 1
<1>1. g \in Host /\ g # h
  BY PeerLemma
<1>2. PICK q : pcb' = [pcb EXCEPT ![h] = q] /\ Queued(p, q, v)
  BY DEF QueueStep
<1>3. app' = [app EXCEPT ![h].sent = v] /\ net' = net /\ app \in [Host -> AppRec]
  BY DEF QueueStep, TypeInv
<1>4. pcb'[h] = q /\ pcb'[g] = pcb[g]
  BY <1>1, <1>2 DEF TypeInv
<1> HIDE DEF v
<1>5. app'[g] = app[g] /\ app'[h].got = app[h].got
  BY <1>3, AppSent
<1>6. q.state = p.state /\ q.rcv_q = p.rcv_q /\ q.rcv_nxt = p.rcv_nxt
  BY <1>2 DEF Queued, RecvSame
<1>7. Arrived(h)' = Arrived(h)
  BY <1>4, <1>5, <1>6 DEF Arrived
<1>8. PrefixOK(h)'
  BY <1>5, <1>7 DEF PrefixOK
<1>9. n \in Nat /\ k \in Nat
  <2>1. app[h].got \in Seq(Nat) /\ p.rcv_q \in Seq(Nat) /\ k \in Nat
    BY <1>1, StreamTypes
  <2> QED BY <2>1, ConcatType DEF Arrived
<1>10. p.state \in Accepting => \E c \in Nat : Stream(c, n, k, p, pcb[g], net[h], net[g])
  BY DEF StreamOK
<1> HIDE DEF p, k, n, g
<1>11. ASSUME q.state \in Accepting
       PROVE  \E c \in Nat : Stream(c, n, k, q, pcb[g], net[h], net[g])
  <2>1. PICK c \in Nat : Stream(c, n, k, p, pcb[g], net[h], net[g])
    BY <1>6, <1>10, <1>11
  <2>2. Stream(c, n, k, q, pcb[g], net[h], net[g])
    BY <1>6, <1>9, <2>1, StreamReceiver
  <2> QED BY <2>2
<1>12. StreamOK(h)'
  BY <1>3, <1>4, <1>5, <1>7, <1>11 DEF StreamOK, n, k, g
<1> QED BY <1>8, <1>12

(* The stream of the host that queues a block has one block more (tcp_send). *)
LEMMA QueueSender ==
  ASSUME TypeInv, TypeInv', NEW h \in Host, StreamOK(Peer(h)), PrefixOK(Peer(h)), QueueStep(h)
  PROVE  StreamOK(Peer(h))' /\ PrefixOK(Peer(h))'
<1> DEFINE g == Peer(h)
           p == pcb[h]
           r == pcb[g]
           k == app[h].sent
           v == k + 1
           n == Len(Arrived(g))
<1>1. g \in Host /\ g # h /\ Peer(g) = h
  BY PeerLemma
<1>2. PICK q : pcb' = [pcb EXCEPT ![h] = q] /\ Queued(p, q, v) /\ p.state = "ESTABLISHED"
  BY DEF QueueStep
<1>3. app' = [app EXCEPT ![h].sent = v] /\ net' = net /\ app \in [Host -> AppRec]
  BY DEF QueueStep, TypeInv
<1>4. pcb'[h] = q /\ pcb'[g] = r
  BY <1>1, <1>2 DEF TypeInv
<1>5. app'[g] = app[g] /\ app'[h].sent = v
  <2> HIDE DEF v
  <2> QED BY <1>3, AppSent
<1>6. Arrived(g)' = Arrived(g)
  BY <1>4, <1>5 DEF Arrived
<1>7. n \in Nat /\ k \in Nat /\ v \in Nat /\ k <= v
  <2>1. app[g].got \in Seq(Nat) /\ r.rcv_q \in Seq(Nat) /\ k \in Nat
    BY <1>1, StreamTypes
  <2>2. n \in Nat
    BY <2>1, ConcatType DEF Arrived
  <2> HIDE DEF k
  <2> QED BY <2>1, <2>2
<1>8. PcbOK(p) /\ PcbOK(q) /\ \A m \in net[g] : SegOK(m)
  BY <1>1, <1>4, StreamTypes, NextTypes DEF TypeInv
<1>9. Prefix(Arrived(g), k)
  BY <1>1 DEF PrefixOK
<1>10. r.state \in Accepting => \E c \in Nat : Stream(c, n, k, r, p, net[g], net[h])
  BY <1>1 DEF StreamOK
<1>11. PrefixOK(g)'
  <2> DEFINE a == Arrived(g)
  <2> HIDE DEF v, k, a
  <2>1. Prefix(a, v)
    BY <1>7, <1>9, PrefixGrows DEF n, a
  <2> QED BY <1>1, <1>5, <1>6, <2>1 DEF PrefixOK, a
<1> HIDE DEF p, k, n, g, r
<1>12. ASSUME r.state \in Accepting
       PROVE  \E c \in Nat : Stream(c, n, v, r, q, net[g], net[h])
  <2>1. PICK c \in Nat : Stream(c, n, k, r, p, net[g], net[h])
    BY <1>10, <1>12
  <2>2. Stream(c, n, v, r, q, net[g], net[h])
    BY <1>2, <1>7, <1>8, <2>1, StreamQueue
  <2> QED BY <2>2
<1> HIDE DEF v
<1>13. StreamOK(g)'
  BY <1>1, <1>3, <1>4, <1>5, <1>6, <1>12 DEF StreamOK, n
<1> QED BY <1>11, <1>13 DEF g

(* What a segment leaves of the receiving side of the control block p (TakePart). *)
LEMMA TakeReceiver ==
  ASSUME NEW g \in Seq(Nat), NEW k \in Nat, k < SEQ_MOD, NEW p, PcbOK(p), NEW q, NEW s, PcbOK(s),
         NEW D, NEW K, NEW E, NEW L, NEW x \in D, SegOK(x), NEW t, TakePart(p, x, t, q),
         q.state \in Opening => p.state \in Accepting,
         Prefix(g \o p.rcv_q, k), E \subseteq D, \A m \in L : AckSeg(m) => m \in K,
         p.state \in Accepting => \E b \in Nat : Stream(b, Len(g \o p.rcv_q), k, p, s, D, K)
  PROVE  /\ Prefix(g \o q.rcv_q, k)
         /\ q.state \in Accepting => \E b \in Nat : Stream(b, Len(g \o q.rcv_q), k, q, s, E, L)
<1> DEFINE u == p.rcv_q
           w == t.data
           n == Len(g \o u)
<1>1. u \in Seq(Nat) /\ p.rcv_nxt \in Seqs
  BY PcbFields
<1>2. SegOK(t) /\ Slice(x, t) /\ w \in Seq(Nat)
  BY SegFields DEF TakePart
<1>3. n \in Nat
  <2> HIDE DEF u
  <2> QED BY <1>1, ConcatType
<1>4. q.state \in Accepting => p.state \in Accepting
  BY DEF Accepting, Opening
<1>5. CASE q.rcv_q = u /\ (q.state \in Accepting => q.rcv_nxt = p.rcv_nxt)
  <2>1. ASSUME q.state \in Accepting
        PROVE  \E b \in Nat : Stream(b, n, k, q, s, E, L)
    <3>1. PICK b \in Nat : Stream(b, n, k, p, s, D, K)
      BY <1>4, <2>1
    <3>2. q.rcv_nxt = p.rcv_nxt
      BY <1>5, <2>1
    <3> HIDE DEF n
    <3>3. Stream(b, n, k, q, s, E, L)
      BY <1>3, <3>1, <3>2, StreamReceiver
    <3> QED BY <3>3
  <2> QED BY <1>5, <2>1
<1>6. CASE q.rcv_q = <<>> /\ q.state \notin Opening
  <2>1. Prefix(g \o <<>>, k)
    <3>1. Prefix(g \o u, k)
      OBVIOUS
    <3> HIDE DEF u
    <3> QED BY <1>1, <3>1, PrefixRead
  <2> QED BY <1>6, <2>1 DEF Accepting, Opening
<1>7. CASE /\ p.state \in Accepting /\ t.seq = p.rcv_nxt /\ q.rcv_q = u \o w
           /\ q.state \in Accepting => q.rcv_nxt = Seq32(p.rcv_nxt + Len(w))
  <2>1. PICK b \in Nat : Stream(b, n, k, p, s, D, K)
    BY <1>7
  <2>2. CASE w = <<>>
    <3>1. u \o w = u
      <4> HIDE DEF u
      <4> QED BY <1>1, <2>2, ConcatEmptySeq
    <3>2. Seq32(p.rcv_nxt + Len(w)) = p.rcv_nxt
      <4> DEFINE a == p.rcv_nxt
      <4>1. a \in Seqs /\ Len(w) = 0 /\ a \in Int
        BY <1>1, <2>2, EmptyQueue DEF Seqs
      <4> HIDE DEF a, w
      <4>2. a + Len(w) = a
        BY <4>1
      <4>3. Seq32(a) = a
        BY <4>1, Seq32Small
      <4> QED BY <4>2, <4>3 DEF a
    <3> QED BY <1>5, <1>7, <3>1, <3>2
  <2>3. CASE w # <<>>
    <3> DEFINE r == [rcv_nxt |-> Seq32(p.rcv_nxt + Len(w))]
    <3>1. r.rcv_nxt = Seq32(p.rcv_nxt + Len(w))
      OBVIOUS
    <3>2. t.data # <<>> /\ t.seq = p.rcv_nxt /\ r.rcv_nxt = Seq32(p.rcv_nxt + Len(t.data))
      BY <1>7, <2>3, <3>1
    <3> HIDE DEF r, n
    <3>3. /\ Stream(b, n + Len(t.data), k, r, s, D, K)
          /\ \A j \in 1 .. Len(t.data) : t.data[j] = n + j
          /\ n + Len(t.data) <= k
      <4> HIDE DEF u, w
      <4> QED BY <1>2, <1>3, <2>1, <3>2, StreamTake
    <3>4. Prefix(g \o u, k)
      OBVIOUS
    <3>5. /\ \A j \in 1 .. Len(w) : w[j] = Len(g \o u) + j
          /\ Len(g \o u) + Len(w) <= k
      BY <3>3 DEF n
    <3>6. n + Len(t.data) = Len(g \o u) + Len(w)
      BY DEF n
    <3>7. r.rcv_nxt = Seq32(p.rcv_nxt + Len(w)) /\ Stream(b, n + Len(w), k, r, s, D, K)
      BY <3>1, <3>3
    <3> HIDE DEF u, w
    <3>8. Prefix(g \o (u \o w), k) /\ Len(g \o (u \o w)) = Len(g \o u) + Len(w)
      BY <1>1, <1>2, <3>4, <3>5, PrefixMore
    <3>9. ASSUME q.state \in Accepting
          PROVE  Stream(b, n + Len(w), k, q, s, E, L)
      <4>1. q.rcv_nxt = r.rcv_nxt
        BY <1>7, <3>7, <3>9
      <4> DEFINE e == n + Len(w)
      <4>2. e \in Nat
        BY <1>2, <1>3, LenProperties
      <4>3. Stream(b, e, k, r, s, D, K)
        BY <3>7
      <4> HIDE DEF e
      <4>4. Stream(b, e, k, q, s, E, L)
        BY <4>1, <4>2, <4>3, StreamReceiver
      <4> QED BY <4>4 DEF e
    <3>10. Len(g \o (u \o w)) = n + Len(w)
      BY <3>8 DEF n
    <3> QED BY <1>7, <3>8, <3>9, <3>10
  <2> QED BY <2>2, <2>3
<1> QED
  BY <1>5, <1>6, <1>7 DEF TakePart

(* The active open is answered: the stream to the client begins (Opened). *)
LEMMA OpenedReceiver ==
  ASSUME TypeInv, Hand, HandData, NEW h \in Host, NEW x \in net[h], NEW q, PcbOK(q),
         Opened(pcb[h], x, q), NEW E, E \subseteq net[h], NEW L
  PROVE  LET y == app[h].got \o q.rcv_q
             k == app[Peer(h)].sent
         IN  Prefix(y, k) /\ \E b \in Nat : Stream(b, Len(y), k, q, pcb[Peer(h)], E, L)
<1> DEFINE s == pcb["server"]
           y == app[h].got \o q.rcv_q
           k == app["server"].sent
           b == q.rcv_nxt
<1>1. h = "client" /\ Peer(h) = "server"
  BY DEF Opened, Hand, Host, Peer
<1>2. "client" \in Host /\ "server" \in Host
  BY DEF Host
<1>3. Unopened(s, app["client"], app["server"], net["client"]) /\ Quiet(pcb["client"]) /\ PcbOK(s)
  BY <1>1, <1>2, StreamTypes DEF HandData, Opened
<1>4. y = <<>>
  <2>1. app[h].got = <<>> /\ q.rcv_q = <<>>
    BY <1>1, <1>3 DEF Unopened, Opened, Quiet, Early
  <2> QED BY <2>1, EmptyQueue, ConcatEmptySeq
<1>5. Len(y) = 0
  BY <1>4, EmptyQueue
<1>6. Prefix(y, k)
  BY <1>5 DEF Prefix
<1>7. b \in Nat /\ q.rcv_nxt = Seq32(b)
  BY PcbFields, Seq32Small DEF Seqs
<1>8. k \in Nat /\ k = 0 /\ s.snd_q = <<>> /\ ~Numbered(s)
  BY <1>3 DEF Unopened, Numbered
<1>9. \A m \in E : m.data = <<>>
  BY <1>1, <1>3 DEF Unopened
<1> HIDE DEF s, k, y, b
<1>10. Stream(b, 0, k, q, s, E, L)
  BY <1>3, <1>7, <1>8, <1>9, StreamOpen
<1> QED
  BY <1>1, <1>5, <1>6, <1>7, <1>10 DEF s, k, y

(* A segment reaches the receiver. *)
LEMMA InputReceiver ==
  ASSUME TypeInv, TypeInv', Hand, HandData, SendsInv, NEW h \in Host, StreamOK(h), PrefixOK(h),
         NEW x \in net[h], SegOK(x), StreamInput(h, x)
  PROVE  StreamOK(h)' /\ PrefixOK(h)'
<1> DEFINE g == Peer(h)
           p == pcb[h]
           a == app[h].got
           k == app[g].sent
           s == pcb[g]
<1>1. g \in Host /\ g # h
  BY PeerLemma
<1>2. PICK q : /\ pcb' = [pcb EXCEPT ![h] = q]
               /\ \/ Gone(q) \/ Opened(p, x, q)
                  \/ /\ p.state # "SYN_SENT" /\ InputEnd(p, x, q)
                     /\ \E t : TakePart(p, x, t, q)
  BY DEF StreamInput
<1>3. /\ pcb'[h] = q /\ pcb'[g] = s /\ app' = app /\ net'[h] \subseteq net[h]
      /\ \A m \in net'[g] : AckSeg(m) => m \in net[g]
  <2>1. app' = app /\ Fewer(h) /\ OnlyResets(g)
    BY DEF StreamInput
  <2>2. \A m \in net'[g] : AckSeg(m) => m \in net[g]
    BY <2>1 DEF OnlyResets, IsReset, AckSeg
  <2>3. pcb'[h] = q /\ pcb'[g] = s
    BY <1>1, <1>2 DEF TypeInv
  <2> QED BY <2>1, <2>2, <2>3 DEF Fewer
<1>4. PcbOK(p) /\ PcbOK(q) /\ PcbOK(s) /\ a \in Seq(Nat) /\ k \in Nat /\ p.rcv_q \in Seq(Nat)
  BY <1>1, <1>3, StreamTypes, NextTypes
<1>5. Prefix(a \o p.rcv_q, k)
  BY DEF PrefixOK, Arrived
<1>6. p.state \in Accepting => \E c \in Nat : Stream(c, Len(a \o p.rcv_q), k, p, s, net[h], net[g])
  BY DEF StreamOK, Arrived
<1>7. k < SEQ_MOD
  <2>1. k <= app[g].sends /\ app[g].sends + OFF_MOD <= SEQ_MOD
    BY <1>1 DEF SendsInv
  <2>2. app[g].sends \in Nat
    BY <1>1 DEF TypeInv, AppRec
  <2> DEFINE z == app[g].sends
  <2> HIDE DEF z, k
  <2>3. z \in Nat /\ k <= z /\ z + OFF_MOD <= SEQ_MOD
    BY <2>1, <2>2 DEF z
  <2> QED BY <1>4, <2>3, TCPAssumption
<1>8. p.state \in Opening => p.state \in Accepting \/ p.state = "SYN_SENT"
  BY DEF Opening, Accepting
<1> DEFINE Good == /\ Prefix(a \o q.rcv_q, k)
                   /\ q.state \in Accepting =>
                        \E c \in Nat : Stream(c, Len(a \o q.rcv_q), k, q, s, net'[h], net'[g])
<1>9. Good
  <2>1. CASE Gone(q)
    <3>1. q.rcv_q = <<>> /\ q.state \notin Accepting
      BY <2>1 DEF Gone, Accepting
    <3>2. Prefix(a \o <<>>, k)
      <4> DEFINE u == p.rcv_q
      <4>1. Prefix(a \o u, k) /\ u \in Seq(Nat)
        BY <1>4, <1>5
      <4> HIDE DEF a, u, k
      <4> QED BY <1>4, <4>1, PrefixRead
    <3> QED BY <3>1, <3>2
  <2>2. CASE Opened(p, x, q)
    <3>1. Prefix(a \o q.rcv_q, k) /\ \E c \in Nat : Stream(c, Len(a \o q.rcv_q), k, q, s, net'[h], net'[g])
      BY <1>3, <1>4, <2>2, OpenedReceiver
    <3> QED BY <3>1
  <2>3. CASE p.state # "SYN_SENT" /\ InputEnd(p, x, q) /\ \E t : TakePart(p, x, t, q)
    <3>1. q.state \in Opening => p.state \in Accepting
      BY <1>8, <2>3 DEF InputEnd
    <3>2. PICK t : TakePart(p, x, t, q)
      BY <2>3
    <3> DEFINE D == net[h]
               K == net[g]
               E == net'[h]
               L == net'[g]
    <3>3. x \in D /\ E \subseteq D /\ \A m \in L : AckSeg(m) => m \in K
      BY <1>3
    <3>4. p.state \in Accepting => \E c \in Nat : Stream(c, Len(a \o p.rcv_q), k, p, s, D, K)
      BY <1>6
    <3> HIDE DEF a, k, p, s, D, K, E, L
    <3>5. /\ Prefix(a \o q.rcv_q, k)
          /\ q.state \in Accepting => \E c \in Nat : Stream(c, Len(a \o q.rcv_q), k, q, s, E, L)
      BY <1>4, <1>5, <1>7, <3>1, <3>2, <3>3, <3>4, TakeReceiver
    <3> QED BY <3>5 DEF E, L
  <2> QED BY <1>2, <2>1, <2>2, <2>3
<1> HIDE DEF s
<1>10. PrefixOK(h)'
  BY <1>3, <1>9 DEF PrefixOK, Arrived
<1>11. StreamOK(h)'
  BY <1>3, <1>9 DEF StreamOK, Arrived
<1> QED BY <1>10, <1>11

(* The sender's connection opens, and it has sent nothing: r, a are the receiver's. *)
LEMMA OpenedSender ==
  ASSUME NEW r, PcbOK(r), NEW q, PcbOK(q), q.snd_q = <<>>, NEW D, NEW E, NEW L,
         \A m \in D : m.data = <<>>, \A m \in E : m \in D \/ m.data = <<>>,
         q.snd_seq = r.rcv_nxt, \A m \in L : AckSeg(m) => m.ack = r.rcv_nxt,
         NEW a, a = <<>>, NEW k, k = 0
  PROVE  \E b \in Nat : Stream(b, Len(a), k, r, q, E, L)
<1> DEFINE b == r.rcv_nxt
<1>1. b \in Nat /\ r.rcv_nxt = Seq32(b)
  BY PcbFields, Seq32Small DEF Seqs
<1>2. \A m \in E : m.data = <<>>
  OBVIOUS
<1>3. Len(a) = 0 /\ k \in Nat
  BY EmptyQueue
<1> HIDE DEF b
<1>4. Stream(b, 0, k, r, q, E, L)
  BY <1>1, <1>2, <1>3, StreamOpen
<1> QED BY <1>1, <1>3, <1>4

(* A segment without data has none of a stream, an ACK excepted. *)
LEMMA NoAcksNoData ==
  ASSUME TypeInv, NEW h \in Host, \A m \in net[h] : AckSeg(m) => m.data = <<>>
  PROVE  \A m \in net[h] : m.data = <<>>
  BY DEF TypeInv, SegOK

(* A segment opens the connection of the sender (Opened, SynAcked). *)
LEMMA InputOpens ==
  ASSUME TypeInv, Hand, HandData, NEW h \in Host, NEW x \in net[h], SegOK(x), NEW q, PcbOK(q),
         \/ Opened(pcb[h], x, q)
         \/ /\ pcb[h].state = "SYN_RCVD" /\ InputEnd(pcb[h], x, q)
            /\ AckSeg(x) /\ AckedBy(pcb[h], q, SeqDiff(x.ack, pcb[h].snd_seq)),
         pcb[Peer(h)].state \in Accepting,
         NEW E, \A m \in E : m \in net[Peer(h)] \/ m.data = <<>>, NEW L, L \subseteq net[h]
  PROVE  \E b \in Nat : Stream(b, Len(Arrived(Peer(h))), app[h].sent, pcb[Peer(h)], q, E, L)
<1> DEFINE g == Peer(h)
           r == pcb[g]
           p == pcb[h]
           a == Arrived(g)
           k == app[h].sent
           D == net[g]
<1>1. g \in Host /\ g # h /\ "client" \in Host /\ "server" \in Host
  BY PeerLemma DEF Host
<1>2. Quiet(p) /\ Quiet(r) /\ PcbOK(p) /\ PcbOK(r)
  BY <1>1, StreamTypes
<1>3. /\ q.snd_q = <<>> /\ a = <<>> /\ k = 0
      /\ q.snd_seq = r.rcv_nxt
      /\ \A m \in L : AckSeg(m) => m.ack = r.rcv_nxt
      /\ \A m \in D : m.data = <<>>
  <2>1. CASE Opened(p, x, q)
    <3>1. h = "client" /\ g = "server" /\ p.state = "SYN_SENT"
      BY <2>1 DEF Opened, Hand, Host, Peer
    <3>2. Unopened(r, app[h], app[g], net[h])
      BY <3>1 DEF HandData
    <3>3. r.state = "SYN_RCVD"
      BY <3>2 DEF Unopened, Accepting
    <3>4. \A m \in net[h] : AckSeg(m) => m.ack = r.rcv_nxt
      BY <3>2, <3>3 DEF Unopened
    <3>5. AckSeg(x) /\ q.snd_seq = x.ack /\ q.snd_q = p.snd_q
      BY <2>1 DEF Opened, AckSeg
    <3>6. p.snd_q = <<>>
      BY <1>2, <3>1 DEF Quiet, Early
    <3>7. a = <<>> /\ k = 0
      <4>1. app[g].got = <<>> /\ r.rcv_q = <<>> /\ k = 0
        BY <3>2 DEF Unopened
      <4> QED BY <4>1, EmptyQueue, ConcatEmptySeq DEF Arrived
    <3>8. \A m \in D : m.data = <<>>
      BY <1>1, <3>1, NoAcksNoData DEF Hand, BeforeOpen, NoAcks
    <3>9. q.snd_seq = r.rcv_nxt
      BY <3>4, <3>5
    <3> QED BY <3>4, <3>5, <3>6, <3>7, <3>8, <3>9
  <2>2. CASE /\ p.state = "SYN_RCVD" /\ InputEnd(p, x, q)
             /\ AckSeg(x) /\ AckedBy(p, q, SeqDiff(x.ack, p.snd_seq))
    <3>1. h = "server" /\ g = "client"
      BY <2>2 DEF Hand, Host, Peer
    <3>2. HalfOpen(r, app[g], app[h], net[h])
      BY <2>2, <3>1 DEF HandData
    <3>3. r.state = "ESTABLISHED"
      BY <3>1 DEF Hand, Accepting
    <3>4. k = 0 /\ app[g].got = <<>> /\ r.rcv_q = <<>> /\ \A m \in net[h] : AckSeg(m) => m.ack = r.rcv_nxt
      BY <3>2, <3>3 DEF HalfOpen
    <3>5. q.snd_seq = x.ack
      <4>1. x.ack \in Seqs /\ p.snd_seq \in Int
        BY <1>2, PcbFields, SegFields DEF Seqs
      <4> QED BY <2>2, <4>1, SeqDiffBack DEF AckedBy
    <3>6. q.snd_q = <<>>
      BY <1>2, <2>2 DEF InputEnd, Quiet, Early
    <3>7. a = <<>>
      BY <3>4, EmptyQueue, ConcatEmptySeq DEF Arrived
    <3>8. \A m \in D : m.data = <<>>
      BY <1>1, <2>2, <3>1, NoAcksNoData DEF Hand, WhileOpening, SynAck
    <3>9. q.snd_seq = r.rcv_nxt
      BY <2>2, <3>4, <3>5
    <3> QED BY <3>4, <3>6, <3>7, <3>8, <3>9
  <2> QED BY <2>1, <2>2
<1>4. \A m \in E : m \in D \/ m.data = <<>>
  OBVIOUS
<1> HIDE DEF g, r, p, a, k, D
<1>5. \E b \in Nat : Stream(b, Len(a), k, r, q, E, L)
  BY <1>2, <1>3, <1>4, OpenedSender
<1> QED BY <1>5 DEF g, r, a, k

(* A segment reaches the sender: it sees more of its stream acknowledged, or ends. *)
LEMMA InputSends ==
  ASSUME NEW b \in Nat, NEW n \in Nat, NEW k \in Nat, NEW r, NEW q, NEW p, NEW D, NEW K, NEW E, NEW L,
         Stream(b, n, k, r, p, D, K), PcbOK(q), PcbOK(p), \A m \in D : SegOK(m), L \subseteq K,
         k + OFF_MOD <= SEQ_MOD, NEW x \in K, SegOK(x), \A m \in E : m \in D \/ m.data = <<>>,
         \/ q.state \notin Opening \cup {"FIN_WAIT_1"}
         \/ q.state = p.state /\ SendSame(p, q)
         \/ /\ q.state = p.state /\ InputEnd(p, x, q) /\ AckSeg(x)
            /\ AckedBy(p, q, SeqDiff(x.ack, p.snd_seq))
  PROVE  Stream(b, n, k, r, q, E, L)
<1>1. p.snd_max \in Nat /\ q.snd_max \in Nat /\ x.ack \in Seqs
  BY PcbFields, SegFields DEF Offs
<1>2. CASE ~Numbered(q)
  <2>1. q.state # "ESTABLISHED"
    BY <1>2 DEF Numbered
  <2> QED BY <1>2, <2>1, StreamSender
<1>3. CASE q.state = p.state /\ SendSame(p, q)
  <2>1. q.snd_seq = p.snd_seq /\ q.snd_q = p.snd_q /\ q.snd_max = p.snd_max
    BY <1>3 DEF SendSame
  <2>2. Numbered(q) => Numbered(p)
    BY <1>3, <2>1 DEF Numbered
  <2>3. q.snd_max >= p.snd_max
    BY <1>1, <2>1
  <2> QED BY <1>3, <2>1, <2>2, <2>3, StreamSender
<1>4. CASE /\ Numbered(q) /\ q.state = p.state /\ InputEnd(p, x, q) /\ AckSeg(x)
           /\ AckedBy(p, q, SeqDiff(x.ack, p.snd_seq))
  <2>1. Numbered(p)
    BY <1>4 DEF Numbered, InputEnd
  <2>2. Stream(b, n, k, r, q, D, L)
    BY <1>1, <1>4, <2>1, StreamAck
  <2>3. q.snd_max >= q.snd_max
    BY <1>1
  <2> QED BY <2>2, <2>3, StreamSender
<1>5. q.state \notin Opening \cup {"FIN_WAIT_1"} => ~Numbered(q)
  BY DEF Numbered, Opening
<1> QED BY <1>2, <1>3, <1>4, <1>5

(* The stream of a host that takes a segment. *)
LEMMA InputSender ==
  ASSUME TypeInv, TypeInv', Hand, HandData, SendsInv, NEW h \in Host, StreamOK(Peer(h)),
         PrefixOK(Peer(h)), NEW x \in net[h], SegOK(x), StreamInput(h, x)
  PROVE  StreamOK(Peer(h))' /\ PrefixOK(Peer(h))'
<1> DEFINE g == Peer(h)
           p == pcb[h]
           r == pcb[g]
           k == app[h].sent
           n == Len(Arrived(g))
           D == net[g]
           K == net[h]
           E == net'[g]
           L == net'[h]
<1>1. g \in Host /\ g # h /\ Peer(g) = h
  BY PeerLemma
<1>2. PICK q : /\ pcb' = [pcb EXCEPT ![h] = q]
               /\ \/ Gone(q) \/ Opened(p, x, q)
                  \/ SendPart(p, x, q) /\ InputEnd(p, x, q)
  BY DEF StreamInput
<1>3. /\ pcb'[h] = q /\ pcb'[g] = r /\ app' = app /\ L \subseteq K
      /\ \A m \in E : m \in D \/ m.data = <<>>
  <2>1. app' = app /\ Fewer(h) /\ OnlyResets(g)
    BY DEF StreamInput
  <2>2. \A m \in E : m \in D \/ m.data = <<>>
    BY <2>1 DEF OnlyResets, IsReset
  <2>3. pcb'[h] = q /\ pcb'[g] = r
    BY <1>1, <1>2 DEF TypeInv
  <2> QED BY <2>1, <2>2, <2>3 DEF Fewer
<1>4. PcbOK(p) /\ PcbOK(q) /\ k \in Nat /\ app[g].got \in Seq(Nat) /\ r.rcv_q \in Seq(Nat)
  BY <1>1, <1>3, StreamTypes, NextTypes
<1>5. n \in Nat
  BY <1>4, ConcatType DEF Arrived
<1>6. Arrived(g)' = Arrived(g)
  BY <1>3 DEF Arrived
<1>7. PrefixOK(g)'
  BY <1>1, <1>3, <1>6 DEF PrefixOK
<1>8. r.state \in Accepting => \E c \in Nat : Stream(c, n, k, r, p, D, K)
  BY <1>1 DEF StreamOK
<1>9. k + OFF_MOD <= SEQ_MOD /\ (\A m \in D : SegOK(m)) /\ x \in K
  <2>1. k <= app[h].sends /\ app[h].sends + OFF_MOD <= SEQ_MOD
    BY DEF SendsInv
  <2>2. app[h].sends \in Nat
    BY DEF TypeInv, AppRec
  <2> DEFINE z == app[h].sends
  <2>3. z \in Nat /\ k <= z /\ z + OFF_MOD <= SEQ_MOD /\ k \in Nat
    BY <1>4, <2>1, <2>2
  <2> HIDE DEF z, k
  <2>4. k + OFF_MOD <= SEQ_MOD
    BY <2>3, TCPAssumption
  <2> QED BY <1>1, <2>4 DEF TypeInv
<1>10. ASSUME r.state \in Accepting
       PROVE  \E c \in Nat : Stream(c, n, k, r, q, E, L)
  <2>1. CASE \/ Opened(p, x, q)
             \/ /\ p.state = "SYN_RCVD" /\ InputEnd(p, x, q) /\ AckSeg(x)
                /\ AckedBy(p, q, SeqDiff(x.ack, p.snd_seq))
    BY <1>3, <1>4, <1>10, <2>1, InputOpens
  <2>2. CASE \/ q.state \notin Opening \cup {"FIN_WAIT_1"}
             \/ q.state = p.state /\ SendSame(p, q)
             \/ /\ q.state = p.state /\ InputEnd(p, x, q) /\ AckSeg(x)
                /\ AckedBy(p, q, SeqDiff(x.ack, p.snd_seq))
    <3> HIDE DEF n, k, r, p, D, K, E, L
    <3>1. PICK c \in Nat : Stream(c, n, k, r, p, D, K)
      BY <1>8, <1>10
    <3>2. Stream(c, n, k, r, q, E, L)
      BY <1>3, <1>4, <1>5, <1>9, <2>2, <3>1, InputSends
    <3> QED BY <3>2
  <2>3. Gone(q) => q.state \notin Opening \cup {"FIN_WAIT_1"}
    BY DEF Gone, Opening
  <2>4. SendPart(p, x, q) => \/ q.state \notin Opening \cup {"FIN_WAIT_1"}
                             \/ q.state = p.state /\ SendSame(p, q)
                             \/ /\ (q.state = p.state \/ p.state = "SYN_RCVD") /\ AckSeg(x)
                                /\ AckedBy(p, q, SeqDiff(x.ack, p.snd_seq))
    <3> DEFINE z == AckedBy(p, q, SeqDiff(x.ack, p.snd_seq))
    <3>1. SendPart(p, x, q) => \/ q.state \notin Opening \cup {"FIN_WAIT_1"}
                               \/ q.state = p.state /\ SendSame(p, q)
                               \/ /\ AckSeg(x) /\ z
                                  /\ q.state = IF p.state = "SYN_RCVD" THEN "ESTABLISHED" ELSE p.state
      BY DEF SendPart
    <3> HIDE DEF z
    <3>2. SendPart(p, x, q) => \/ q.state \notin Opening \cup {"FIN_WAIT_1"}
                               \/ q.state = p.state /\ SendSame(p, q)
                               \/ (q.state = p.state \/ p.state = "SYN_RCVD") /\ AckSeg(x) /\ z
      BY <3>1
    <3> QED BY <3>2 DEF z
  <2> QED BY <1>2, <2>1, <2>2, <2>3, <2>4
<1> HIDE DEF k, r
<1>11. StreamOK(g)'
  BY <1>1, <1>3, <1>6, <1>10 DEF StreamOK, n, k, E, L, r
<1> QED BY <1>7, <1>11 DEF g

(* The inductive form of StreamIntact and WindowAgrees. *)
StreamInv == \A h \in Host : StreamOK(h) /\ PrefixOK(h)

(* tcp_connect(): nothing is there yet. *)
LEMMA StreamConnect ==
  ASSUME TypeInv, DueInv, StreamInv, Connect
  PROVE  StreamInv'
<1> DEFINE c == pcb'["client"]
<1>1. "client" \in Host /\ "server" \in Host /\ Peer("client") = "server" /\ Peer("server") = "client"
  BY DEF Host, Peer
<1>2. c.state = "SYN_SENT" /\ c.rcv_q = <<>> /\ pcb'["server"] = pcb["server"]
  BY <1>1 DEF Connect, SetPcb, Sched, NewPcb, TypeInv, Host
<1>3. pcb["server"].state = "FREE" /\ pcb["client"].state = "FREE"
  BY DEF Connect, DueInv, NothingYet
<1>4. StreamOK("client")' /\ StreamOK("server")'
  BY <1>2, <1>3 DEF StreamOK, Accepting
<1>5. app'["client"].got = app["client"].got /\ app'["client"].sent = app["client"].sent
      /\ app'["server"] = app["server"]
  BY <1>1 DEF Connect, TypeInv, AppRec
<1>6. pcb["client"].rcv_q = <<>>
  BY <1>1, <1>3, StreamTypes DEF Quiet, Early
<1>7. Arrived("client")' = Arrived("client") /\ Arrived("server")' = Arrived("server")
  BY <1>2, <1>5, <1>6 DEF Arrived
<1>8. PrefixOK("client")' /\ PrefixOK("server")'
  BY <1>1, <1>5, <1>7 DEF PrefixOK, StreamInv
<1> QED BY <1>4, <1>8 DEF StreamInv, Host

(* The passive open: the stream to the server begins (tcp_passive_open). *)
LEMMA StreamPassive ==
  ASSUME TypeInv, TypeInv', Hand, EndInv, StreamInv, OPENS_MAX <= 1,
         NEW x \in net["server"], OpenStep("server", x)
  PROVE  StreamInv'
<1> DEFINE c == pcb["client"]
           s == pcb["server"]
           q == PassiveOpen("server", x)
           a == app["server"]
           k == app["client"].sent
           E == net'["server"]
           L == net'["client"]
<1>1. "client" \in Host /\ "server" \in Host /\ Peer("client") = "server" /\ Peer("server") = "client"
  BY DEF Host, Peer
<1>2. a.opens = 0
  <2>1. a.opens < OPENS_MAX /\ a.opens \in Nat /\ OPENS_MAX \in Nat
    BY <1>1, StreamTypes, TCPAssumption DEF OpenStep, MayOpen
  <2> DEFINE o == a.opens
  <2> HIDE DEF o
  <2>2. o = 0
    BY <2>1 DEF o
  <2> QED BY <2>2 DEF o
<1>3. /\ c.state \in {"FREE", "SYN_SENT", "CLOSED"} /\ s.state = "FREE"
      /\ \A m \in net["server"] : ~AckSeg(m)
  BY <1>2 DEF Hand, BeforeOpen, NoAcks
<1>4. a.phase = "start"
  BY <1>2 DEF EndInv
<1>5. a.got = <<>> /\ a.sent = 0
  BY <1>1, <1>4 DEF EndInv, EndSelf
<1>6. s.rcv_q = <<>> /\ c.snd_q = <<>> /\ PcbOK(c) /\ k \in Nat /\ PcbOK(s)
  BY <1>1, <1>3, StreamTypes DEF Quiet, Early
<1>7. pcb'["server"] = q /\ pcb'["client"] = c /\ E \subseteq net["server"] /\ L \subseteq net["client"]
  BY <1>1 DEF OpenStep, TypeInv, Fewer
<1>8. q.rcv_q = <<>> /\ q.state = "SYN_RCVD"
  BY DEF PassiveOpen, Sched, NewPcb
<1>9. /\ app'["client"] = app["client"] /\ app'["server"].got = a.got
      /\ app'["server"].sent = a.sent
  BY <1>1 DEF OpenStep, TypeInv, AppRec
<1>10. q.rcv_nxt \in Nat /\ Seq32(q.rcv_nxt) = q.rcv_nxt
  BY <1>1, <1>7, NextTypes, PcbFields, Seq32Small DEF Seqs
<1>11. \A m \in E : m.data = <<>>
  BY <1>1, <1>3, <1>7, NoAcksNoData
<1>12. ~Numbered(c)
  BY <1>3 DEF Numbered
<1>13. a.got \o q.rcv_q = <<>> /\ a.got \o s.rcv_q = <<>>
  BY <1>5, <1>6, <1>8, EmptyQueue, ConcatEmptySeq
<1>14. Arrived("server")' = <<>> /\ Arrived("client")' = Arrived("client")
  BY <1>7, <1>9, <1>13 DEF Arrived
<1>15. PrefixOK("server")' /\ PrefixOK("client")'
  <2>1. PrefixOK("client")'
    BY <1>1, <1>9, <1>14 DEF PrefixOK, StreamInv
  <2>2. PrefixOK("server")'
    BY <1>14, EmptyQueue DEF PrefixOK, Prefix
  <2> QED BY <2>1, <2>2
<1>16. StreamOK("client")'
  BY <1>3, <1>7 DEF StreamOK, Accepting
<1>17. \E b \in Nat : Stream(b, 0, k, q, c, E, L)
  <2> DEFINE b == q.rcv_nxt
  <2>1. b \in Nat /\ q.rcv_nxt = Seq32(b)
    BY <1>10
  <2> HIDE DEF b, q, c, k, E, L
  <2>2. Stream(b, 0, k, q, c, E, L)
    BY <1>6, <1>11, <1>12, <2>1, StreamOpen
  <2> QED BY <2>1, <2>2
<1>18. StreamOK("server")'
  BY <1>1, <1>7, <1>9, <1>14, <1>17, EmptyQueue DEF StreamOK
<1> QED BY <1>15, <1>16, <1>18 DEF StreamInv, Host

(* Every step keeps the streams intact. *)
LEMMA StreamNext ==
  ASSUME TypeInv, TypeInv', Hand, DueInv, EndInv, HandData, SendsInv, StreamInv, OPENS_MAX <= 1,
         \/ Connect
         \/ \E h \in Host : StreamStep(h) \/ QueueStep(h)
         \/ \E h \in Host : \E s \in net[h] : SegOK(s) /\ (StreamInput(h, s) \/ OpenStep(h, s))
  PROVE  StreamInv'
<1>1. CASE Connect
  BY <1>1, StreamConnect
<1>2. ASSUME NEW h \in Host,
             StreamOK(h)' /\ PrefixOK(h)', StreamOK(Peer(h))' /\ PrefixOK(Peer(h))'
      PROVE  StreamInv'
  BY <1>2, PeerLemma DEF StreamInv
<1>3. \A h \in Host : StreamOK(h) /\ PrefixOK(h) /\ StreamOK(Peer(h)) /\ PrefixOK(Peer(h))
  BY PeerLemma DEF StreamInv
<1>4. ASSUME NEW h \in Host, StreamStep(h)
      PROVE  StreamInv'
  BY <1>2, <1>3, <1>4, WorkReceiver, WorkSender
<1>5. ASSUME NEW h \in Host, QueueStep(h)
      PROVE  StreamInv'
  BY <1>2, <1>3, <1>5, QueueReceiver, QueueSender
<1>6. ASSUME NEW h \in Host, NEW s \in net[h], SegOK(s), StreamInput(h, s)
      PROVE  StreamInv'
  BY <1>2, <1>3, <1>6, InputReceiver, InputSender
<1>7. ASSUME NEW h \in Host, NEW s \in net[h], OpenStep(h, s)
      PROVE  StreamInv'
  <2>1. h = "server"
    BY <1>7 DEF OpenStep
  <2> QED BY <1>7, <2>1, StreamPassive
<1> QED BY <1>1, <1>4, <1>5, <1>6, <1>7

(* In the first state nothing has been sent. *)
LEMMA StreamInit ==
  ASSUME Init, \A f \in SENDS : \A h \in Host : f[h] + OFF_MOD <= SEQ_MOD
  PROVE  FinInv /\ EndInv /\ HandData /\ SendsInv /\ StreamInv
<1>1. PICK f \in SENDS :
        app = [h \in Host |-> [phase |-> "start", opens |-> 0, sends |-> f[h],
                               sent |-> 0, got |-> <<>>, eof |-> FALSE]]
  BY DEF Init
<1>2. \A h \in Host : /\ app[h].phase = "start" /\ app[h].opens = 0 /\ app[h].sends = f[h]
                      /\ app[h].sent = 0 /\ app[h].got = <<>>
  BY <1>1
<1>3. \A h \in Host : f[h] \in Nat /\ f[h] + OFF_MOD <= SEQ_MOD
  BY TCPAssumption
<1>4. \A h \in Host : pcb[h].state = "FREE" /\ pcb[h].rcv_q = <<>> /\ net[h] = {} /\ Peer(h) \in Host
  BY PeerLemma DEF Init, FreePcb, NewPcb
<1>5. "client" \in Host /\ "server" \in Host
  BY DEF Host
<1>6. FinInv
  BY <1>4 DEF FinInv, FinOK, Numbered, Opening
<1>7. EndInv
  BY <1>2, <1>4, <1>5 DEF EndInv, EndSelf, EndPeer, Ended, AfterFinWait1, Opening
<1>8. HandData
  BY <1>4, <1>5 DEF HandData
<1>9. SendsInv
  <2> SUFFICES ASSUME NEW h \in Host
               PROVE  app[h].sent <= app[h].sends /\ app[h].sends + OFF_MOD <= SEQ_MOD
    BY DEF SendsInv
  <2>1. f[h] \in Nat /\ f[h] + OFF_MOD <= SEQ_MOD
    BY <1>3
  <2>2. 0 <= f[h]
    BY <2>1
  <2> QED BY <1>2, <2>1, <2>2
<1>10. StreamInv
  <2>1. \A h \in Host : StreamOK(h)
    BY <1>4 DEF StreamOK, Accepting
  <2>2. \A h \in Host : Arrived(h) = <<>>
    BY <1>2, <1>4, EmptyQueue, ConcatEmptySeq DEF Arrived
  <2>3. \A h \in Host : PrefixOK(h)
    BY <2>2, EmptyQueue DEF PrefixOK, Prefix
  <2> QED BY <2>1, <2>3 DEF StreamInv
<1> QED BY <1>6, <1>7, <1>8, <1>9, <1>10

(* The two streams of a connection in which every number tells apart what it counts. *)
StreamI ==
  TypeInv /\ Hand /\ DueInv /\ FinInv /\ EndInv /\ HandData /\ SendsInv /\ StreamInv

(* The invariant of the streams is inductive. *)
LEMMA StreamINext ==
  ASSUME OPENS_MAX <= 1, FAULTS_MAX + 1 < OFF_MOD, StreamI, [Next]_vars
  PROVE  StreamI'
<1>1. TypeInv /\ Hand /\ DueInv /\ FinInv /\ EndInv /\ HandData /\ SendsInv /\ StreamInv
  BY DEF StreamI
<1>2. TypeInv' /\ Hand' /\ DueInv' /\ SendsInv'
  BY <1>1, NextType, HandNext, DueNext, SendsNext
<1>3. \A h \in Host : DueOK(pcb[h])
  BY <1>1 DEF DueInv
<1>4. \/ Connect
      \/ \E h \in Host : StreamStep(h) \/ QueueStep(h)
      \/ \E h \in Host : \E s \in net[h] : SegOK(s) /\ (InputStep(h, s) \/ OpenStep(h, s))
  BY <1>1, <1>3, StreamKinds
<1>5. \/ Connect
      \/ \E h \in Host : StreamStep(h) \/ QueueStep(h)
      \/ \E h \in Host : \E s \in net[h] : SegOK(s) /\ (StreamInput(h, s) \/ OpenStep(h, s))
  <2>1. ASSUME NEW h \in Host, NEW s \in net[h], SegOK(s), InputStep(h, s)
        PROVE  StreamInput(h, s)
    BY <1>1, <2>1, InputKinds
  <2> QED BY <1>4, <2>1
<1>6. FinInv'
  BY <1>1, <1>5, OpenFin
<1>7. StreamInv'
  BY <1>1, <1>2, <1>5, StreamNext
<1>8. EndInv'
  <2>1. ASSUME NEW h \in Host, StreamStep(h)
        PROVE  EndInv'
    BY <1>1, <2>1, EndStream
  <2>2. CASE \/ Connect
             \/ \E h \in Host : QueueStep(h)
             \/ \E h \in Host : \E s \in net[h] : SegOK(s) /\ (StreamInput(h, s) \/ OpenStep(h, s))
    BY <1>1, <2>2, EndOther
  <2> QED BY <1>5, <2>1, <2>2
<1>9. HandData'
  <2>1. ASSUME NEW h \in Host, StreamStep(h)
        PROVE  HandData'
    <3>1. h = "client" \/ h = "server"
      BY DEF Host
    <3> QED BY <1>1, <1>2, <2>1, <3>1, HandDataClient, HandDataServer
  <2>2. CASE Connect \/ \E h \in Host : \E s \in net[h] : SegOK(s) /\ OpenStep(h, s)
    BY <1>1, <2>2, HandDataOpen
  <2>3. ASSUME NEW h \in Host, QueueStep(h) \/ \E s \in net[h] : SegOK(s) /\ StreamInput(h, s)
        PROVE  HandData'
    BY <1>1, <2>3, HandDataInput
  <2> QED BY <1>5, <2>1, <2>2, <2>3
<1> QED BY <1>2, <1>6, <1>7, <1>8, <1>9 DEF StreamI

(***************************************************************************)
(* The stream: whatever the network loses, delays and reorders, and however *)
(* often a segment is sent again, each receiver has the first blocks its   *)
(* peer sent, in order and each once (tcp_input, tcp_output, tcp_rxmt_tmr).*)
(***************************************************************************)
THEOREM StreamStaysIntact ==
  ASSUME OPENS_MAX <= 1, FAULTS_MAX + 1 < OFF_MOD,
         \A f \in SENDS : \A h \in Host : f[h] + OFF_MOD <= SEQ_MOD
  PROVE  Spec => []StreamIntact
<1>1. Init => StreamI
  BY InitType, HandInit, DueInit, StreamInit DEF StreamI
<1>2. StreamI /\ [Next]_vars => StreamI'
  BY StreamINext
<1>3. StreamI => StreamIntact
  BY DEF StreamI, StreamInv, PrefixOK, Prefix, StreamIntact
<1> QED
  BY <1>1, <1>2, <1>3, PTL DEF Spec

(***************************************************************************)
(* The two ends of an open connection agree: what the receiver expects     *)
(* next lies between what the sender has seen acknowledged and the last it *)
(* has sent, so no ACK is ever taken for one of data that was not sent     *)
(* (the range tests on ti_ack in tcp_input).                               *)
(***************************************************************************)
THEOREM WindowsAgree ==
  ASSUME OPENS_MAX <= 1, FAULTS_MAX + 1 < OFF_MOD, 2 * OFF_MOD <= SEQ_MOD,
         \A f \in SENDS : \A h \in Host : f[h] + OFF_MOD <= SEQ_MOD
  PROVE  Spec => []WindowAgrees
<1>1. Init => StreamI
  BY InitType, HandInit, DueInit, StreamInit DEF StreamI
<1>2. StreamI /\ [Next]_vars => StreamI'
  BY StreamINext
<1>3. StreamI => WindowAgrees
  <2> SUFFICES ASSUME StreamI, \A h \in Host : pcb[h].state = "ESTABLISHED", NEW h \in Host
               PROVE  SeqDiff(pcb[Peer(h)].rcv_nxt, pcb[h].snd_seq) \in 0 .. pcb[h].snd_max
    BY DEF WindowAgrees
  <2> DEFINE g == Peer(h)
             r == pcb[g].rcv_nxt
             s == pcb[h].snd_seq
             w == pcb[h].snd_max
             n == Len(Arrived(g))
             k == app[h].sent
  <2>1. g \in Host /\ Peer(g) = h
    BY PeerLemma
  <2>2. TypeInv /\ StreamOK(g)
    BY <2>1 DEF StreamI, StreamInv
  <2>3. PICK b \in Nat : Stream(b, n, k, pcb[g], pcb[h], net[g], net[h])
    BY <2>1, <2>2 DEF StreamOK, Accepting
  <2>4. r = Seq32(b + n) /\ \E a \in Nat : Sender(b, a, n, k, pcb[h], net[h])
    BY <2>3 DEF Stream, Numbered
  <2>5. PICK a \in Nat : a <= n /\ s = Seq32(b + a) /\ n <= a + w
    BY <2>4 DEF Sender
  <2>6. n \in Nat
    <3>1. app[g].got \in Seq(Nat) /\ pcb[g].rcv_q \in Seq(Nat)
      BY <2>1, <2>2, StreamTypes
    <3> QED BY <3>1, ConcatType DEF Arrived
  <2>7. PcbOK(pcb[h]) /\ PcbOK(pcb[g])
    BY <2>1, <2>2, StreamTypes
  <2>8. r \in Seqs /\ s \in Seqs /\ w \in 0 .. OFF_MOD - 1
    BY <2>7, PcbFields DEF Offs
  <2> DEFINE u == b + n
             v == b + a
  <2> HIDE DEF r, s, w, n, k
  <2>9. /\ u \in Int /\ v \in Int /\ u - v = n - a /\ n - a \in 0 .. w
        /\ 2 * (u - v) < SEQ_MOD /\ 2 * (u - v) >= -SEQ_MOD
    BY <2>5, <2>6, <2>8, TCPAssumption
  <2>10. Seq32(r) = Seq32(u) /\ Seq32(s) = Seq32(v) /\ r \in Int /\ s \in Int
    BY <2>4, <2>5, <2>8, Seq32Small DEF Seqs
  <2> HIDE DEF u, v
  <2>11. SeqDiff(r, s) = u - v
    BY <2>9, <2>10, SeqDiffNear
  <2> QED BY <2>9, <2>11 DEF r, s, w
<1> QED
  BY <1>1, <1>2, <1>3, PTL DEF Spec

================================================================================
