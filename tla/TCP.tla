---------------------------------- MODULE TCP ----------------------------------
(***************************************************************************)
(* One TCP connection between two hosts that both run libtcpip/tcp: a      *)
(* client that connects and a server that listens, over a network that     *)
(* loses and reorders segments. Every entry into the code (a call of the   *)
(* application, a received segment, a turn of tcp_tmr_task()) holds        *)
(* net_mutex from its beginning to its end or to the wait inside it, so it *)
(* is one action.                                                          *)
(*                                                                         *)
(* The unit of data is a block of bytes; a segment carries up to MAXSEG.   *)
(* Each host has one control block, the address and port lookups find it   *)
(* whenever it is active, and there are always enough mbufs. The two       *)
(* timers of a control block may run out at any time once they are set.    *)
(***************************************************************************)
EXTENDS Integers, Sequences, FiniteSets

CONSTANTS
  SEQ_MOD,        (* modulus of the sequence numbers: 2^32 in the code      *)
  OFF_MOD,        (* modulus of snd_off and snd_max: 2^16 in the code       *)
  ISS_STEP,       (* from one initial sequence number to the next: 2^20     *)
  OPENS_MAX,      (* connections a host opens                               *)
  MAXSEG,         (* t_maxseg: largest segment                              *)
  MAXSND,         (* tcp_maxsnd: size of the send queue                     *)
  MAXRCV,         (* tcp_maxrcv: size of the receive queue                  *)
  MAXWIN,         (* tcp_maxwin: largest window advertised                  *)
  MAXRXMTS,       (* TCP_MAXRXMTS: retransmissions before giving up         *)
  SENDS,          (* what the applications send: a set of [Host -> blocks]  *)
  NET_MAX,        (* segments in flight; more are lost                      *)
  FAULTS_MAX      (* failed transmissions, retries and connection timeouts  *)

Host == {"client", "server"}

Peer(h) == IF h = "client" THEN "server" ELSE "client"

ASSUME TCPAssumption ==
  /\ OFF_MOD \in Nat \ {0} /\ SEQ_MOD \in Nat /\ OFF_MOD < SEQ_MOD
  /\ ISS_STEP \in Nat /\ OPENS_MAX \in Nat
  /\ MAXSEG \in Nat \ {0} /\ MAXSND \in Nat \ {0} /\ MAXRCV \in Nat \ {0}
  /\ MAXWIN \in Nat \ {0} /\ MAXRXMTS \in Nat /\ NET_MAX \in Nat /\ FAULTS_MAX \in Nat
  /\ SENDS \subseteq [Host -> Nat]
  /\ MAXSND + 1 < OFF_MOD   (* the offsets count all the send queue holds, and a FIN *)
  /\ 2 * MAXSEG < SEQ_MOD   (* the sequence numbers order a segment's data *)

VARIABLES
  pcb,            (* [Host -> the control block]                            *)
  net,            (* [Host -> segments on their way to the host]            *)
  app,            (* [Host -> what the application has done]                *)
  faults          (* faults so far                                          *)

vars == <<pcb, net, app, faults>>

(* TCPS_HAVERCVDFIN() and the tests on the order of the states. *)
TCPS == {"FREE", "CLOSED", "SYN_SENT", "SYN_RCVD", "ESTABLISHED", "CLOSE_WAIT",
         "FIN_WAIT_1", "CLOSING", "LAST_ACK", "FIN_WAIT_2", "TIME_WAIT"}

AfterFinWait1 == {"CLOSING", "LAST_ACK", "FIN_WAIT_2", "TIME_WAIT"}

Active == TCPS \ {"FREE", "CLOSED"}

(***************************************************************************)
(* A control block. The flags of t_flags are Booleans, rxmt_tmr says that  *)
(* the retransmission timer runs, and blocked names the call that waits on *)
(* the block's condition variable.                                         *)
(***************************************************************************)
NewPcb ==
  [state |-> "CLOSED", snd_seq |-> 0, snd_off |-> 0, snd_max |-> 0, snd_wnd |-> 0,
   rcv_nxt |-> 0, rcv_adv_wnd |-> 0, rcv_q |-> <<>>, snd_q |-> <<>>,
   acknow |-> FALSE, delack |-> FALSE, sentfin |-> FALSE, needoutput |-> FALSE,
   rxmt_tmr |-> FALSE, rxmt_cnt |-> 0, blocked |-> "none"]

(* tcp_pcb_free() *)
FreePcb == [NewPcb EXCEPT !.state = "FREE"]

Segment(flags, seq, ack, win, data) ==
  [flags |-> flags, seq |-> seq, ack |-> ack, win |-> win, data |-> data]

(* Sums of sequence numbers, and (int32_t)(a - b). *)
Seq32(n) == n % SEQ_MOD
Off16(n) == n % OFF_MOD

SeqDiff(a, b) ==
  LET d == (a - b) % SEQ_MOD IN IF 2 * d < SEQ_MOD THEN d ELSE d - SEQ_MOD

MinOf(a, b) == IF a < b THEN a ELSE b
MaxOf(a, b) == IF a > b THEN a ELSE b

(* Blocks from + 1 .. from + len of a queue, as many as there are. *)
Part(q, from, len) == SubSeq(q, from + 1, MinOf(from + len, Len(q)))

(* __os_cond_broadcast() or _signal(): one thread uses the connection. *)
Notify(p) == [p EXCEPT !.blocked = "none"]

(* tcp_output_sched() *)
Sched(p) == [p EXCEPT !.needoutput = TRUE]

(* Into the closed list: the application finds out and calls tcp_close(). *)
Close(p) == Notify([p EXCEPT !.state = "CLOSED", !.snd_q = <<>>, !.rcv_q = <<>>])

--------------------------------------------------------------------------------
(***************************************************************************)
(* tcp_output(): one segment, or as many as the window and the queue allow *)
(* (sendalot). A segment needs a reason to be sent.                        *)
(***************************************************************************)
outflags(state) ==
  CASE state = "CLOSED"   -> {"RST", "ACK"}
    [] state = "SYN_SENT" -> {"SYN"}
    [] state = "SYN_RCVD" -> {"SYN", "ACK"}
    [] state \in {"FIN_WAIT_1", "CLOSING", "LAST_ACK"} -> {"FIN", "ACK"}
    [] OTHER -> {"ACK"}

(* A window update is worth a segment of its own. *)
WindowUpdate(p) ==
  LET win == MAXRCV - Len(p.rcv_q)
      adv == MinOf(win, MAXWIN - p.rcv_adv_wnd)
  IN  win > 0 /\ (adv >= 2 * MAXSEG \/ 2 * adv >= MAXRCV)

(* The window the segment advertises. *)
Advertised(p) ==
  LET win == MAXRCV - Len(p.rcv_q)
  IN  IF win < MAXRCV \div 4 /\ win < MAXSEG THEN 0 ELSE MinOf(win, MAXWIN)

(* Data that may be sent, and the part of it that goes into one segment. *)
Limit(p) == MinOf(Len(p.snd_q), p.snd_wnd)

Room(p) == Limit(p) - p.snd_off

SegLen(p) == MinOf(MaxOf(Room(p), 0), MAXSEG)

(* A closed window stops the retransmission timer. *)
WindowShut(p) ==
  IF p.snd_wnd = 0 /\ p.snd_off > 0
  THEN [p EXCEPT !.rxmt_tmr = FALSE, !.snd_off = 0] ELSE p

(* The FIN waits for the last segment. *)
SegFlags(p) ==
  outflags(p.state) \ (IF p.snd_off + SegLen(p) < Len(p.snd_q) THEN {"FIN"} ELSE {})

(* There is a reason to send; idle: nothing was in flight on entry. *)
WorthSending(p, len, flags, idle) ==
  \/ /\ len > 0
     /\ \/ len = MAXSEG
        \/ idle /\ len + p.snd_off >= Len(p.snd_q)
        \/ len >= p.snd_wnd \div 2
        \/ p.snd_off < p.snd_max
  \/ WindowUpdate(p)
  \/ p.acknow
  \/ {"SYN", "RST"} \cap flags # {}
  \/ "FIN" \in flags /\ (~p.sentfin \/ p.snd_off = 0)

Due(p, idle) == WorthSending(p, SegLen(p), SegFlags(p), idle)

(* The offset of the segment: a FIN sent before is not counted twice. *)
SegOff(p, flags) ==
  IF "FIN" \in flags /\ p.sentfin /\ p.snd_off = p.snd_max
  THEN p.snd_off - 1 ELSE p.snd_off

OutSegment(p, len, flags) ==
  Segment(flags,
          Seq32(p.snd_seq + IF len > 0 \/ {"SYN", "FIN"} \cap flags # {}
                            THEN SegOff(p, flags) ELSE p.snd_max),
          p.rcv_nxt, Advertised(p), Part(p.snd_q, p.snd_off, len))

(* The control block with end as the offset of what comes after the segment. *)
Advance(p, fin, end) ==
  [p EXCEPT !.sentfin  = @ \/ fin,
            !.snd_off  = Off16(end),
            !.snd_max  = Off16(MaxOf(end, @)),
            !.rxmt_cnt = IF ~p.rxmt_tmr /\ end # 0 THEN 0 ELSE @,
            !.rxmt_tmr = @ \/ end # 0]

Sent(p, len, flags) ==
  Advance(p, "FIN" \in flags,
          SegOff(p, flags) + Cardinality({"SYN", "FIN"} \cap flags) + len)

(* What is left of the flags once the segment has been handed to ip_output(). *)
Acked(p) ==
  [p EXCEPT !.acknow = FALSE, !.delack = FALSE,
            !.rcv_adv_wnd = MaxOf(@, Advertised(p))]

(***************************************************************************)
(* The sendalot loop goes on while more than a segment is left to send.    *)
(* All its segments but the last are full and follow each other; a full    *)
(* segment is always worth sending, and carries no FIN.                    *)
(***************************************************************************)
FullOffsets(p) ==
  {off \in p.snd_off .. Limit(p) :
     off + MAXSEG < Limit(p) /\ (off - p.snd_off) % MAXSEG = 0}

FullSegments(p) ==
  {OutSegment([p EXCEPT !.snd_off = off], MAXSEG, outflags(p.state) \ {"FIN"}) :
     off \in FullOffsets(p)}

(* The control block when one segment, or part of one, is left. *)
AfterFull(p) ==
  IF Room(p) <= MAXSEG THEN p
  ELSE Acked(Advance(p, FALSE, Limit(p) - 1 - ((Room(p) - 1) % MAXSEG)))

tcp_output(p) ==
  LET first == WindowShut(p)
      last  == AfterFull(first)
      len   == SegLen(last)
      flags == SegFlags(last)
  IN  IF Due(last, p.snd_max = 0)
      THEN [pcb  |-> Acked(Sent(last, len, flags)),
            segs |-> FullSegments(first) \cup {OutSegment(last, len, flags)}]
      ELSE [pcb |-> last, segs |-> FullSegments(first)]

--------------------------------------------------------------------------------
(***************************************************************************)
(* tcp_input(), for an active control block. A stage takes and returns the *)
(* state of the processing: the control block, what is left of the         *)
(* segment, and what to do next ("go" to the next stage, or a label).      *)
(***************************************************************************)
Work(p, s, next) == [p |-> p, s |-> s, next |-> next, needoutput |-> FALSE]

(* Header prediction: the next block of data, or an ACK for data, alone. *)
Predicted(p, s) ==
  /\ p.state = "ESTABLISHED"
  /\ s.flags = {"ACK"}
  /\ s.seq = p.rcv_nxt
  /\ s.win # 0 /\ s.win = p.snd_wnd
  /\ p.snd_off = p.snd_max

PredictAck(p, s) ==
  /\ Predicted(p, s)
  /\ s.data = <<>>
  /\ SeqDiff(s.ack, p.snd_seq) \in 1 .. p.snd_max

(* Faulty variant: header prediction does not look at the room in the queue. *)
PredictData_unbounded(p, s) ==
  Predicted(p, s) /\ s.data # <<>> /\ s.ack = p.snd_seq

PredictData(p, s) ==
  /\ Predicted(p, s)
  /\ s.data # <<>>
  /\ s.ack = p.snd_seq
  /\ Len(s.data) <= MAXRCV - Len(p.rcv_q)

(* Faulty variant: any ACK stops the retransmission timer. *)
PredictedAck_stops_timer(p, s) ==
  LET acked == SeqDiff(s.ack, p.snd_seq)
      q     == Part(p.snd_q, acked, Len(p.snd_q))
  IN  Notify([p EXCEPT !.snd_q = q, !.snd_seq = s.ack,
                       !.snd_off = Off16(@ - acked), !.snd_max = Off16(@ - acked),
                       !.rxmt_tmr = FALSE, !.rxmt_cnt = 0,
                       !.needoutput = @ \/ q # <<>>])

(* Faulty variant: a predicted ACK is taken for one of all that was sent. *)
PredictedAck_all(p, s) ==
  LET acked == SeqDiff(s.ack, p.snd_seq)
      q     == Part(p.snd_q, acked, Len(p.snd_q))
  IN  Notify([p EXCEPT !.snd_q = q, !.snd_seq = s.ack, !.snd_off = 0, !.snd_max = 0,
                       !.rxmt_tmr = FALSE, !.rxmt_cnt = 0,
                       !.needoutput = @ \/ q # <<>>])

PredictedAck(p, s) ==
  LET acked == SeqDiff(s.ack, p.snd_seq)
      all   == acked = p.snd_max
      q     == Part(p.snd_q, acked, Len(p.snd_q))
  IN  Notify([p EXCEPT !.snd_q = q, !.snd_seq = s.ack,
                       !.snd_off = Off16(@ - acked), !.snd_max = Off16(@ - acked),
                       !.rxmt_tmr = ~all, !.rxmt_cnt = IF all THEN 0 ELSE @,
                       !.needoutput = @ \/ q # <<>>])

PredictedData(p, s) ==
  Notify([p EXCEPT !.rcv_q = @ \o s.data, !.rcv_nxt = Seq32(@ + Len(s.data)),
                   !.delack = TRUE])

(* The response to an active open. *)
Established(p, s) ==
  Notify([p EXCEPT !.state = "ESTABLISHED", !.snd_seq = Seq32(@ + 1),
                   !.snd_off = Off16(@ - 1), !.snd_max = Off16(@ - 1),
                   !.rcv_nxt = Seq32(s.seq + 1), !.snd_wnd = s.win,
                   !.acknow = TRUE])

SynSent(p, s) ==
  IF "RST" \in s.flags THEN Work(p, s, "close")
  ELSE IF ~({"SYN", "ACK"} \subseteq s.flags /\ s.data = <<>>)
  THEN Work(p, s, "close_and_reset")
  ELSE IF s.ack # Seq32(p.snd_seq + 1)
  THEN Work([p EXCEPT !.snd_seq = Seq32(@ + 1)], s, "close_and_reset")
  ELSE Work(Established(p, s), [s EXCEPT !.seq = Seq32(@ + 1)], "go")

(* Faulty variant: data that was received before is taken again. *)
TrimFront_keeps_data(p, s) ==
  LET behind == SeqDiff(p.rcv_nxt, s.seq)
  IN  IF behind <= 0 THEN Work(p, s, "go")
      ELSE Work(p, [s EXCEPT !.flags = @ \ {"SYN"}, !.seq = p.rcv_nxt], "go")

(* Drop what was received before, SYN included; only an ACK may be left. *)
TrimFront(p, s) ==
  LET behind == SeqDiff(p.rcv_nxt, s.seq)
      syn    == IF "SYN" \in s.flags THEN 1 ELSE 0
      len    == Len(s.data)
      todrop == behind - syn
      old    == todrop > len \/ (todrop = len /\ "FIN" \notin s.flags)
      drop   == IF old THEN len ELSE todrop
  IN  IF behind <= 0 THEN Work(p, s, "go")
      ELSE Work([p EXCEPT !.acknow = @ \/ old],
                [s EXCEPT !.flags = @ \ (IF old THEN {"SYN", "FIN"} ELSE {"SYN"}),
                          !.seq = Seq32(@ + syn + drop),
                          !.data = Part(@, drop, len)], "go")

(* Drop what lies behind the receive window. *)
TrimBack(w) ==
  LET p   == w.p
      s   == w.s
      len == Len(s.data)
      wnd == MaxOf(MAXRCV - Len(p.rcv_q), 0)
      todrop == SeqDiff(s.seq + len, p.rcv_nxt + wnd)
      probe  == wnd = 0 /\ s.seq = p.rcv_nxt
  IN  IF p.state \in AfterFinWait1 /\ len > 0 THEN [w EXCEPT !.next = "dropwithreset"]
      ELSE IF todrop <= 0 THEN w
      ELSE IF todrop >= len /\ ~probe THEN [w EXCEPT !.next = "dropafterack"]
      ELSE [w EXCEPT !.p.acknow = @ \/ todrop >= len,
                     !.s.data = Part(@, 0, len - todrop),
                     !.s.flags = @ \ {"FIN"}]

CheckFlags(w) ==
  IF "RST" \in w.s.flags
  THEN [w EXCEPT !.next = IF w.p.state \in {"SYN_RCVD", "ESTABLISHED", "CLOSE_WAIT"}
                          THEN "close" ELSE "free"]
  ELSE IF "SYN" \in w.s.flags THEN [w EXCEPT !.next = "dropwithreset"]
  ELSE IF "ACK" \notin w.s.flags THEN [w EXCEPT !.next = "drop"]
  ELSE w

(* New data is acknowledged; nxt and max are the offsets from before. *)
AckedPcb(p, acked, nxt, max) ==
  Notify([p EXCEPT !.snd_q = Part(@, MinOf(acked, Len(@)), Len(@)),
                   !.snd_seq = Seq32(@ + acked),
                   !.snd_off = Off16(MaxOf(nxt, acked) - acked),
                   !.snd_max = Off16(max - acked),
                   !.rxmt_tmr = acked # max,
                   !.rxmt_cnt = IF acked = max THEN 0 ELSE @])

(* What the ACK of this side's FIN leads to. *)
FinAcked(w, finacked) ==
  CASE w.p.state = "FIN_WAIT_1" /\ finacked -> [w EXCEPT !.p.state = "FIN_WAIT_2"]
    [] w.p.state = "CLOSING" /\ finacked ->
         [w EXCEPT !.p.state = "TIME_WAIT", !.p.snd_q = <<>>, !.p.rcv_q = <<>>,
                   !.p.rxmt_tmr = FALSE]
    [] w.p.state = "LAST_ACK" /\ finacked -> [w EXCEPT !.next = "free"]
    [] w.p.state = "TIME_WAIT" -> [w EXCEPT !.next = "dropafterack"]
    [] OTHER -> w

AckNew(w, acked, nxt, max) ==
  FinAcked([w EXCEPT !.p = AckedPcb(w.p, acked, nxt, max),
                     !.needoutput = acked = max],
           acked > Len(w.p.snd_q))

AckRange(w, acked, nxt, max) ==
  IF acked <= 0 THEN w
  ELSE IF acked > max THEN [w EXCEPT !.next = "dropafterack"]
  ELSE AckNew(w, acked, nxt, max)

(* The SYN of this side is acknowledged. *)
SynAcked(w) ==
  [w EXCEPT !.p.state = "ESTABLISHED", !.p.snd_off = Off16(@ - 1),
            !.p.snd_max = Off16(@ - 1)]

(* ACK processing. The limits are those from before the SYN is accounted for. *)
AckStage(w) ==
  LET p     == w.p
      acked == SeqDiff(w.s.ack, p.snd_seq)
  IN  IF p.state # "SYN_RCVD" THEN AckRange(w, acked, p.snd_off, p.snd_max)
      ELSE IF acked \in 0 .. p.snd_max
      THEN AckRange(SynAcked(w), acked, p.snd_off, p.snd_max)
      ELSE [w EXCEPT !.next = "dropwithreset"]

(* step6: the window only ever grows. *)
WindowStage(w) ==
  IF w.s.win > w.p.snd_wnd
  THEN [w EXCEPT !.p.snd_wnd = w.s.win, !.needoutput = TRUE] ELSE w

(* Faulty variant: the reader of the data is not woken up. *)
DataStage_no_signal(w) ==
  LET p == w.p
      s == w.s
  IN  IF (s.data = <<>> /\ "FIN" \notin s.flags) \/ p.state = "TIME_WAIT"
      THEN [w EXCEPT !.s.flags = @ \ {"FIN"}]
      ELSE IF s.seq = p.rcv_nxt /\ p.state = "ESTABLISHED"
      THEN [w EXCEPT !.p = [p EXCEPT !.delack = TRUE, !.rcv_q = @ \o s.data,
                                     !.rcv_nxt = Seq32(@ + Len(s.data))]]
      ELSE [w EXCEPT !.p.acknow = TRUE]

(* The data goes into the queue if it is the next and nobody closed. *)
DataStage(w) ==
  LET p == w.p
      s == w.s
  IN  IF (s.data = <<>> /\ "FIN" \notin s.flags) \/ p.state = "TIME_WAIT"
      THEN [w EXCEPT !.s.flags = @ \ {"FIN"}]
      ELSE IF s.seq = p.rcv_nxt /\ p.state = "ESTABLISHED"
      THEN [w EXCEPT !.p = Notify([p EXCEPT !.delack = TRUE, !.rcv_q = @ \o s.data,
                                            !.rcv_nxt = Seq32(@ + Len(s.data))])]
      ELSE [w EXCEPT !.p.acknow = TRUE]

(* FIN processing, also of a segment whose data has just been dropped. *)
FinStage(w) ==
  LET p == [w.p EXCEPT !.acknow = TRUE, !.rcv_nxt = Seq32(@ + 1)]
  IN  IF "FIN" \notin w.s.flags THEN w
      ELSE [w EXCEPT !.p =
             CASE p.state \in {"SYN_RCVD", "ESTABLISHED"} ->
                    [p EXCEPT !.state = "CLOSE_WAIT",
                              !.blocked = IF p.rcv_q = <<>> THEN "none" ELSE @]
               [] p.state = "FIN_WAIT_1" -> [p EXCEPT !.state = "CLOSING"]
               [] p.state = "FIN_WAIT_2" ->
                    [p EXCEPT !.state = "TIME_WAIT", !.rxmt_tmr = FALSE,
                              !.rcv_q = <<>>, !.snd_q = <<>>]
               [] OTHER -> p]

(* Run a stage unless an earlier one has jumped to a label. *)
Then(w, stage(_)) == IF w.next = "go" THEN stage(w) ELSE w

(* The stages of an established connection up to the ACK, and those of all. *)
UpToAck(p, s) == Then(Then(Then(TrimFront(p, s), TrimBack), CheckFlags), AckStage)

FromStep6(w) == Then(Then(Then(w, WindowStage), DataStage), FinStage)

Processed(p, s) ==
  FromStep6(IF p.state = "SYN_SENT" THEN SynSent(p, s) ELSE UpToAck(p, s))

(* tcp_respond(): the reset for a segment, unless it is one itself. *)
Reset(s) ==
  IF "RST" \in s.flags THEN {}
  ELSE IF "ACK" \in s.flags THEN {Segment({"RST"}, s.ack, 0, 0, <<>>)}
  ELSE {Segment({"RST", "ACK"}, 0,
                Seq32(s.seq + Len(s.data) + IF "SYN" \in s.flags THEN 1 ELSE 0),
                0, <<>>)}

(* The labels at the end: the control block and the reset sent at once. *)
Outcome(w, s) ==
  CASE w.next = "go" ->
         [pcb |-> [w.p EXCEPT !.needoutput = @ \/ w.needoutput \/ w.p.acknow],
          segs |-> {}]
    [] w.next = "dropafterack" ->
         [pcb |-> IF "RST" \in w.s.flags THEN w.p
                  ELSE Sched([w.p EXCEPT !.acknow = TRUE]), segs |-> {}]
    [] w.next = "dropwithreset" -> [pcb |-> w.p, segs |-> Reset(w.s)]
    [] w.next = "close" -> [pcb |-> Close(w.p), segs |-> {}]
    [] w.next = "close_and_reset" -> [pcb |-> Close(w.p), segs |-> Reset(s)]
    [] w.next = "free" -> [pcb |-> FreePcb, segs |-> {}]
    [] w.next = "drop" -> [pcb |-> w.p, segs |-> {}]

tcp_input(p, s) ==
  IF PredictAck(p, s) THEN [pcb |-> PredictedAck(p, s), segs |-> {}]
  ELSE IF PredictData(p, s) THEN [pcb |-> PredictedData(p, s), segs |-> {}]
  ELSE Outcome(Processed(p, s), s)

(***************************************************************************)
(* A segment for no active control block. The server listens; a new block  *)
(* is there if the last one has been freed.                                *)
(***************************************************************************)
iss(h) == Seq32((app[h].opens + 1) * ISS_STEP)

MayOpen(h) == pcb[h].state = "FREE" /\ app[h].opens < OPENS_MAX

(* tcp_passive_open() *)
PassiveOpen(h, s) ==
  Sched([NewPcb EXCEPT !.state = "SYN_RCVD", !.rcv_nxt = Seq32(s.seq + 1),
                       !.snd_seq = iss(h),
                       !.snd_wnd = s.win, !.acknow = TRUE])

Listening(h) == h = "server"

Refused(h, s) ==
  \/ ~Listening(h)
  \/ "ACK" \in s.flags
  \/ s.data # <<>>
  \/ s.flags = {"SYN"} /\ ~MayOpen(h)

--------------------------------------------------------------------------------
(* Segments for host h beyond the capacity of the network are lost. *)
Put(n, h, segs) ==
  IF Cardinality(n[Peer(h)]) + Cardinality(n[h] \cup segs) <= NET_MAX
  THEN [n EXCEPT ![h] = @ \cup segs] ELSE n

Without(h, s) == [net EXCEPT ![h] = @ \ {s}]

SetPcb(h, p) == pcb' = [pcb EXCEPT ![h] = p]

(* A segment arrives; the network delivers in any order. *)
Receive(h, s) ==
  LET in == tcp_input(pcb[h], s)
  IN  /\ s \in net[h]
      /\ UNCHANGED faults
      /\ \/ /\ pcb[h].state \in Active
            /\ SetPcb(h, in.pcb)
            /\ net' = Put(Without(h, s), Peer(h), in.segs)
            /\ UNCHANGED app
         \/ /\ pcb[h].state \notin Active
            /\ Refused(h, s)
            /\ net' = Put(Without(h, s), Peer(h), Reset(s))
            /\ UNCHANGED <<pcb, app>>
         \/ /\ pcb[h].state \notin Active
            /\ ~Refused(h, s)
            /\ net' = Without(h, s)
            /\ IF s.flags = {"SYN"}
               THEN /\ SetPcb(h, PassiveOpen(h, s))
                    /\ app' = [app EXCEPT ![h].opens = @ + 1]
               ELSE UNCHANGED <<pcb, app>>

(* The number of faults of a behaviour is bounded; giving up is not one. *)
Fault == faults < FAULTS_MAX /\ faults' = faults + 1

Lose(h, s) ==
  /\ s \in net[h]
  /\ net' = Without(h, s)
  /\ UNCHANGED <<pcb, app, faults>>

(* tcp_tmr_task() sends for a control block p that is due for output. *)
Transmit(h, p) ==
  LET out == tcp_output(p)
  IN  /\ SetPcb(h, [out.pcb EXCEPT !.needoutput = FALSE])
      /\ net' = Put(net, Peer(h), out.segs)

Output(h) == pcb[h].needoutput /\ Transmit(h, pcb[h]) /\ UNCHANGED <<app, faults>>

(* ip_output() fails for want of an ARP entry: try again on the next turn. *)
OutputFails(h) ==
  /\ pcb[h].needoutput
  /\ LET p == WindowShut(pcb[h])
     IN  /\ Due(p, p.snd_max = 0)
         /\ SetPcb(h, Sent(p, SegLen(p), SegFlags(p)))
  /\ Fault
  /\ UNCHANGED <<net, app>>

(* tcp_fast_tmr() *)
FastTmr(p) ==
  IF p.delack THEN Sched([p EXCEPT !.delack = FALSE, !.acknow = TRUE]) ELSE p

(* tcp_rxmt_tmr(), for a timer that runs out. *)
RxmtTmr(p) ==
  IF p.rxmt_cnt + 1 > MAXRXMTS
  THEN [p EXCEPT !.rxmt_cnt = @ + 1, !.rxmt_tmr = FALSE]
  ELSE Sched([p EXCEPT !.rxmt_cnt = @ + 1, !.snd_off = 0, !.sentfin = FALSE])

(* tcp_idle_tmr(), for a timer that runs out; keep-alive is left out. *)
IdleTmr(p) ==
  CASE p.state \in {"SYN_SENT", "SYN_RCVD"} -> Sched(Close(p))
    [] p.state = "FIN_WAIT_2" -> [p EXCEPT !.state = "TIME_WAIT", !.rxmt_tmr = FALSE]
    [] p.state = "TIME_WAIT" -> FreePcb
    [] OTHER -> p

(***************************************************************************)
(* A turn of tcp_tmr_task() after the wait timed out: the delayed ACKs and *)
(* one of the timers that may run out, then the output.                    *)
(***************************************************************************)
TimerTurn(h, p) ==
  /\ p # pcb[h]
  /\ IF p.needoutput THEN Transmit(h, p) ELSE SetPcb(h, p) /\ UNCHANGED net
  /\ UNCHANGED app

FastTimeout(h) ==
  pcb[h].state \in Active /\ TimerTurn(h, FastTmr(pcb[h])) /\ UNCHANGED faults

RxmtTimeout(h) ==
  /\ pcb[h].state \in Active /\ pcb[h].rxmt_tmr
  /\ TimerTurn(h, RxmtTmr(FastTmr(pcb[h])))
  /\ IF pcb[h].rxmt_cnt < MAXRXMTS THEN Fault ELSE UNCHANGED faults

IdleTimeout(h) ==
  /\ pcb[h].state \in {"SYN_SENT", "SYN_RCVD", "FIN_WAIT_2", "TIME_WAIT"}
  /\ TimerTurn(h, IdleTmr(FastTmr(pcb[h])))
  /\ Fault

--------------------------------------------------------------------------------
(* The application uses the connection and is in no call that waits. *)
Uses(h) == app[h].phase = "open" /\ pcb[h].blocked = "none"

(* tcp_connect(), up to its wait. *)
Connect ==
  LET h == "client"
  IN  /\ app[h].phase = "start"
      /\ app' = [app EXCEPT ![h].phase = "open", ![h].opens = @ + 1]
      /\ SetPcb(h, Sched([NewPcb EXCEPT !.state = "SYN_SENT", !.snd_wnd = 1,
                                        !.snd_seq = iss(h),
                                        !.blocked = "connect"]))
      /\ UNCHANGED <<net, faults>>

(* tcp_accept() returns the control block in the backlog. *)
Accept ==
  LET h == "server"
  IN  /\ app[h].phase = "start"
      /\ pcb[h].state # "FREE"
      /\ app' = [app EXCEPT ![h].phase = "open"]
      /\ UNCHANGED <<pcb, net, faults>>

(* tcp_send() of the next block, sent now or by the delayed ACK timer. *)
Send(h) ==
  LET p == pcb[h]
      q == Append(p.snd_q, app[h].sent + 1)
  IN  /\ Uses(h)
      /\ app[h].sent < app[h].sends
      /\ \/ /\ p.state = "SYN_RCVD"
            /\ SetPcb(h, [p EXCEPT !.blocked = "send"])
            /\ UNCHANGED app
         \/ /\ p.state = "ESTABLISHED" /\ Len(p.snd_q) >= MAXSND
            /\ SetPcb(h, Sched([p EXCEPT !.acknow = TRUE, !.blocked = "send"]))
            /\ UNCHANGED app
         \/ /\ p.state = "ESTABLISHED" /\ Len(p.snd_q) < MAXSND
            /\ app' = [app EXCEPT ![h].sent = @ + 1]
            /\ \/ SetPcb(h, Sched([p EXCEPT !.snd_q = q]))
               \/ Len(q) <= MAXSEG /\ SetPcb(h, [p EXCEPT !.snd_q = q, !.delack = TRUE])
      /\ UNCHANGED <<net, faults>>

(* tcp_recv() into a buffer for n blocks. *)
Recv(h, n) ==
  LET p == pcb[h]
      left == Part(p.rcv_q, n, Len(p.rcv_q))
  IN  /\ Uses(h)
      /\ \/ /\ p.rcv_q # <<>>
            /\ app' = [app EXCEPT ![h].got = @ \o Part(p.rcv_q, 0, n)]
            /\ SetPcb(h, IF left # <<>> THEN [p EXCEPT !.rcv_q = left]
                         ELSE Sched([p EXCEPT !.rcv_q = left, !.acknow = @ \/ p.delack]))
         \/ /\ p.rcv_q = <<>> /\ p.state = "CLOSE_WAIT"
            /\ app' = [app EXCEPT ![h].eof = TRUE]
            /\ UNCHANGED pcb
         \/ /\ p.rcv_q = <<>> /\ p.state \in {"SYN_RCVD", "ESTABLISHED"}
            /\ SetPcb(h, [p EXCEPT !.blocked = "recv"])
            /\ UNCHANGED app
      /\ UNCHANGED <<net, faults>>

(* tcp_close(); data not acknowledged is discarded if the peer closed first. *)
CloseCall(h) ==
  LET p == pcb[h]
      n == Len(p.snd_q)
  IN  /\ Uses(h)
      /\ app' = [app EXCEPT ![h].phase = "done"]
      /\ \/ /\ p.state = "CLOSED"
            /\ SetPcb(h, FreePcb)
         \/ /\ p.state \in {"SYN_RCVD", "ESTABLISHED"}
            /\ SetPcb(h, Sched([p EXCEPT !.state = "FIN_WAIT_1", !.acknow = TRUE]))
         \/ /\ p.state = "CLOSE_WAIT"
            /\ SetPcb(h, Sched([p EXCEPT !.state = "LAST_ACK", !.acknow = TRUE,
                                         !.snd_off = Off16(@ - n), !.snd_max = Off16(@ - n),
                                         !.snd_q = <<>>, !.rcv_q = <<>>]))
      /\ UNCHANGED <<net, faults>>

--------------------------------------------------------------------------------
Init ==
  /\ pcb = [h \in Host |-> FreePcb]
  /\ net = [h \in Host |-> {}]
  /\ \E sends \in SENDS :
       app = [h \in Host |-> [phase |-> "start", opens |-> 0, sends |-> sends[h],
                             sent |-> 0, got |-> <<>>, eof |-> FALSE]]
  /\ faults = 0

Next ==
  \/ Connect
  \/ Accept
  \/ \E h \in Host :
       \/ Send(h) \/ CloseCall(h) \/ \E n \in 1 .. MAXRCV : Recv(h, n)
       \/ Output(h) \/ OutputFails(h)
       \/ FastTimeout(h) \/ RxmtTimeout(h) \/ IdleTimeout(h)
       \/ \E s \in net[h] : Receive(h, s) \/ Lose(h, s)

Spec == Init /\ [][Next]_vars

--------------------------------------------------------------------------------
(* Queues and counters stay within the sizes the code gives them. *)
TypeOK ==
  \A h \in Host :
    /\ pcb[h].state \in TCPS
    /\ {pcb[h].snd_seq, pcb[h].rcv_nxt} \subseteq 0 .. SEQ_MOD - 1
    /\ Len(pcb[h].snd_q) <= MAXSND
    /\ Len(pcb[h].rcv_q) <= MAXRCV

(* The blocks that reached host h, read by its application or not. *)
Arrived(h) == app[h].got \o pcb[h].rcv_q

(***************************************************************************)
(* The stream: whatever the network loses and reorders, and however often  *)
(* a segment is sent again, the receiver has the first blocks the sender   *)
(* sent, in order, each once (tcp_input, tcp_output, tcp_rxmt_tmr).        *)
(***************************************************************************)
StreamIntact ==
  \A h \in Host : \A i \in 1 .. Len(Arrived(h)) :
    Arrived(h)[i] = i /\ i <= app[Peer(h)].sent

(***************************************************************************)
(* While both sides are established, what the receiver expects next lies   *)
(* between what the sender has seen acknowledged and the last it has sent. *)
(***************************************************************************)
WindowAgrees ==
  (\A h \in Host : pcb[h].state = "ESTABLISHED") =>
    \A h \in Host : SeqDiff(pcb[Peer(h)].rcv_nxt, pcb[h].snd_seq) \in 0 .. pcb[h].snd_max

(***************************************************************************)
(* A call that waits has something to wait for: whatever makes it return,  *)
(* or fail because the state has changed, wakes up the caller (tcp_input,  *)
(* tcp_connect, tcp_recv, tcp_send). With one exception, which the code    *)
(* has: a FIN that arrives out of order while received data is unread      *)
(* leads to CLOSE_WAIT and wakes up nobody. tcp_send() would return -1 in  *)
(* that state; its caller sleeps on until an ACK or a reset comes.         *)
(***************************************************************************)
NoLostWakeup ==
  \A h \in Host :
    LET p == pcb[h]
    IN  CASE p.blocked = "connect" -> p.state = "SYN_SENT"
          [] p.blocked = "recv" -> /\ p.state \in {"SYN_RCVD", "ESTABLISHED"}
                                   /\ p.rcv_q = <<>>
          [] p.blocked = "send" -> \/ p.state = "SYN_RCVD"
                                   \/ /\ Len(p.snd_q) >= MAXSND
                                      /\ \/ p.state = "ESTABLISHED"
                                         \/ p.state = "CLOSE_WAIT" /\ p.rcv_q # <<>>
          [] OTHER -> TRUE

(***************************************************************************)
(* Data in the send queue of an open connection is never forgotten: output *)
(* is due, a timer will make it due, or the code has given up.             *)
(***************************************************************************)
DataIsDue ==
  \A h \in Host :
    pcb[h].state = "ESTABLISHED" /\ pcb[h].snd_q # <<>> =>
      \/ pcb[h].needoutput \/ pcb[h].delack \/ pcb[h].rxmt_tmr
      \/ pcb[h].rxmt_cnt > MAXRXMTS

(***************************************************************************)
(* The end of the stream is the end: when the application reads it, every  *)
(* block the peer sent has arrived.                                        *)
(***************************************************************************)
EofIsTheEnd ==
  \A h \in Host : app[h].eof => Len(app[h].got) = app[Peer(h)].sent
================================================================================
