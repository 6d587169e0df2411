----------------------------- MODULE Propagator -----------------------------
(***************************************************************************)
(* The five modules of a Propagator: AxonMetaRecv takes the axons,         *)
(* AxonStreamer turns each of them into read requests of io_buf_size       *)
(* entries, PseudoStorage answers them from the DRAM, AxonClassifier tags  *)
(* the synapses with the parity of the timestep, and FastDelayMgr repeats  *)
(* delayed axons.  Addresses are offsets into an axon; what the DRAM is    *)
(* asked for and what it answers is the choice ch of PseudoStorage.        *)
(***************************************************************************)
EXTENDS FastCore

CONSTANTS
  NumStreamer, IoBufSize,        \* num_streamer_, dram_io_buf_size
  OutqueSize,                    \* dram_outque_size: 64 * io_buf_size + 1
  ReqIDRange,                    \* reqID_range
  NumBoards, NumCores, NumDelay,
  DramQueue, MinLatency, MaxLatency,  \* of the DRAM simulator
  IoCounters,                    \* what io_counter may hold at the start
  Targets                        \* cores the entries of a burst may be for

ASSUME PropagatorAssumption ==
  /\ NumStreamer \in Nat \ {0} /\ IoBufSize \in Nat \ {0}
  /\ OutqueSize \in Nat /\ ReqIDRange \in Nat \ {0} /\ NumBoards \in Nat \ {0}
  /\ DramQueue \in Nat \ {0} /\ MinLatency \in Nat /\ MaxLatency \in Nat \ {0}
  /\ IoCounters # {} /\ IoCounters \subseteq 0..IoBufSize
  /\ Targets # {} /\ Targets \subseteq [0..(IoBufSize - 1) -> 1..NumCores]

-----------------------------------------------------------------------------
(* AxonMetaRecv *)

RecvInit == [idle |-> FALSE]

\* Axons of other boards come first; a delayed axon goes to the delay module.
AxonMetaRecv(p, s, in) ==
  LET axon == <<"axon", p>> bypass == <<"bypass", p>>
      from == IF bypass \in DOMAIN in THEN {bypass} ELSE {axon} \intersect DOMAIN in
      busy == from # {}
      msg == in[CHOOSE w \in from : TRUE]
  IN Result([idle |-> ~busy],
            OutIf(busy /\ s.idle, <<"propidle", 0>>, FALSE)
            @@ OutIf(~busy /\ ~s.idle, <<"propidle", 0>>, TRUE)
            @@ (IF ~busy THEN Nothing
                ELSE IF msg.delay = 0 THEN <<"stream", p>> :> msg
                ELSE <<"delay", p>> :> [msg EXCEPT !.off = FALSE]),
            from)

-----------------------------------------------------------------------------
(* AxonStreamer *)

Job(m, tag) == [len |-> m.len, read |-> 0, tag |-> tag, born |-> m.born, off |-> m.off]

StreamerInit ==
  [free |-> [i \in 1..NumStreamer |-> i - 1], work |-> <<>>,
   task |-> [i \in 0..(NumStreamer - 1) |-> [len |-> 0, read |-> 0, tag |-> 0, born |-> 0, off |-> FALSE]],
   tag |-> [i \in 0..(NumStreamer - 1) |-> i],
   out |-> 0, ongoing |-> 0, error |-> FALSE]

\* A free streamer takes the axon; the tag is a byte.
JobTaken(s, m) ==
  LET i == Head(s.free)
  IN [s EXCEPT !.free = Tail(@), !.work = Append(@, i),
               !.task[i] = Job(m, s.tag[i]),
               !.tag[i] = (@ + NumStreamer) % 256,
               !.ongoing = @ + 1,
               !.error = @ \/ m.len = 0]

WithoutIndex(q, k) == [i \in 1..(Len(q) - 1) |-> IF i < k THEN q[i] ELSE q[i + 1]]

\* Mutant of JobDone: the entry after the one that is done is erased.
JobDoneNext(t, k) ==
  [t EXCEPT !.free = Append(@, t.work[k + 1]),
            !.work = WithoutIndex(@, IF k + 2 > Len(@) THEN k + 1 ELSE k + 2),
            !.ongoing = @ - 1, !.out = k + 1]

\* The entry is erased from the list and the index still moves on.
JobDone(t, k) ==
  [t EXCEPT !.free = Append(@, t.work[k + 1]), !.work = WithoutIndex(@, k + 1),
            !.ongoing = IF @ # 0 THEN @ - 1 ELSE 0, !.out = k + 1]

AxonStreamer(p, s, in) ==
  LET axon == <<"stream", p>>
      takes == axon \in DOMAIN in /\ s.free # <<>>
      t == IF takes THEN JobTaken(s, in[axon]) ELSE s
      k == t.out % Len(t.work)
      i == t.work[k + 1]
      job == t.task[i]
      asks == job.read < job.len
      request == [type |-> "READ", ofs |-> job.read, tag |-> job.tag, born |-> job.born,
                  len |-> IF job.read = 0 THEN job.len ELSE 0,
                  off |-> job.read = 0 /\ job.off]
      wakes == OutIf(takes /\ s.ongoing = 0, <<"propidle", 0>>, FALSE)
      used == IF takes THEN {axon} ELSE {}
  IN IF t.work = <<>> THEN Result(t, <<"propidle", 0>> :> TRUE, used)
     ELSE IF asks
     THEN Result([t EXCEPT !.task[i].read = @ + IoBufSize, !.out = k + 1],
                 <<"dramaddr", p>> :> request @@ wakes, used)
     ELSE Result(JobDone(t, k), OutIf(t.ongoing = 0, <<"propidle", 0>>, TRUE) @@ wakes, used)

-----------------------------------------------------------------------------
(* PseudoStorage *)

NoMeta == [tag |-> 255, len |-> 0, off |-> 0, cnt |-> 0, born |-> 0]
Empty == <<>>

\* io_counter is not initialised by the constructor: a value c > 0 is counted
\* down as if a burst were under way, and leaves entry_cnt at -c.
StorageInits ==
  {[meta |-> [r \in 0..(ReqIDRange - 1) |-> NoMeta],
    table |-> [i \in 0..(NumStreamer - 1) |-> 0], next |-> 0,
    entry |-> 0, parity |-> TRUE, idle |-> FALSE,
    io |-> [i \in 0..(IoBufSize - 1) |-> Empty], count |-> c,
    dram |-> {}, gap |-> IoBufSize \div 2, error |-> FALSE] : c \in IoCounters}

\* A request with a new tag opens an entry of dram_state_.
Opened(s, m) ==
  LET i == m.tag % NumStreamer
  IN IF s.meta[s.table[i]].tag = m.tag THEN s
     ELSE IF s.meta[s.next].cnt # 0 THEN [s EXCEPT !.error = TRUE]
     ELSE [s EXCEPT !.table[i] = s.next, !.next = (@ + 1) % ReqIDRange,
                    !.meta[s.next] = [tag |-> m.tag, len |-> m.len, cnt |-> m.len,
                                      off |-> IF m.off THEN NumBoards - 1 ELSE 0,
                                      born |-> m.born]]

\* Mutant of HasRoom: what is already in the output queue is not counted.
HasRoomUnqueued(s, queued) == s.entry + IoBufSize <= OutqueSize

HasRoom(s, queued) == s.entry + IoBufSize + queued <= OutqueSize

\* A request is sent unless the output may not hold its answer or the DRAM
\* refuses it; it stays in the endpoint then.
Sent(s, m) ==
  IF Cardinality(s.dram) >= DramQueue THEN s
  ELSE [s EXCEPT !.dram = @ \union {[req |-> s.table[m.tag % NumStreamer], ofs |-> m.ofs,
                                     age |-> 0]},
                 !.entry = @ + IoBufSize]

\* The DRAM has a burst ready every io_buf_size / 2 of its cycles, in any
\* order; it answers a request after MinLatency to MaxLatency cycles if it can.
Answers(s) ==
  IF ~s.parity \/ s.gap < IoBufSize \div 2 THEN {{}}
  ELSE LET ready == {r \in s.dram : r.age >= MinLatency}
           late == {r \in s.dram : r.age >= MaxLatency}
       IN IF late # {} THEN {{r} : r \in late} ELSE {{}} \union {{r} : r \in ready}

\* The callback of a read: what the entries of a burst hold.
EntryAt(meta, i, core) ==
  CASE i < meta.off -> [type |-> "REMOTE", born |-> meta.born]
    [] i >= meta.off /\ i >= meta.len -> Empty
    [] i >= meta.off /\ i = meta.len - 1 -> [type |-> "DELAY", born |-> meta.born]
    [] OTHER -> [type |-> "SYNAPSE", born |-> meta.born, core |-> core]

Called(s, r, cores) ==
  LET meta == s.meta[r.req]
      burst == [i \in 0..(IoBufSize - 1) |-> EntryAt(meta, r.ofs + i, cores[i])]
      full == {i \in DOMAIN burst : burst[i] # Empty}
  IN [s EXCEPT !.meta[r.req].cnt = @ - Cardinality(full),
               !.io = [i \in DOMAIN burst |-> IF s.io[i] = Empty THEN burst[i] ELSE s.io[i]],
               !.count = IoBufSize,
               !.error = @ \/ meta.cnt = 0 \/ \E i \in full : s.io[i] # Empty]

\* One cycle of the DRAM: the request in `done' is answered.
DramTicked(s, done, cores) ==
  LET t == [s EXCEPT !.dram = {[r EXCEPT !.age = IF @ < MaxLatency THEN @ + 1 ELSE @]
                                 : r \in @ \ done},
                     !.gap = IF done # {} THEN 1 ELSE IF @ < IoBufSize \div 2 THEN @ + 1 ELSE @]
  IN IF done = {} THEN t ELSE Called(t, CHOOSE r \in done : TRUE, cores)

\* Mutant of Emitted: an empty entry does not give its room back.
EmittedIfFull(s) ==
  IF s.count = 0 THEN s
  ELSE [s EXCEPT !.io[IoBufSize - s.count] = Empty, !.count = @ - 1,
                 !.entry = IF s.io[IoBufSize - s.count] = Empty THEN @ ELSE @ - 1]

\* The entries of a burst leave one by one, two in each cycle of the DRAM.
Emitted(s) ==
  IF s.count = 0 THEN s
  ELSE [s EXCEPT !.io[IoBufSize - s.count] = Empty, !.count = @ - 1, !.entry = @ - 1]

PseudoStorage(p, s, in, size, ch) ==
  LET addr == <<"dramaddr", p>> data == <<"dramdata", p>>
      tries == s.parity /\ addr \in DOMAIN in /\ HasRoom(s, size[data])
      opened == IF tries THEN Opened(s, in[addr]) ELSE s
      asked == IF tries /\ opened.error = s.error THEN Sent(opened, in[addr]) ELSE opened
      sent == asked.entry # s.entry
      sleeps == s.parity /\ ~s.idle /\ asked.entry = 0 /\ size[data] = 0 /\ s.count = 0
      wakes == s.parity /\ s.idle /\ asked.entry # 0
      turned == [asked EXCEPT !.idle = (@ \/ sleeps) /\ ~wakes, !.parity = ~@]
      ticked == IF s.parity THEN DramTicked(turned, ch.done, ch.cores) ELSE turned
      entry == IF ticked.count = 0 THEN Empty ELSE ticked.io[IoBufSize - ticked.count]
  IN Result(Emitted(ticked),
            OutIf(entry # Empty, data, entry)
            @@ OutIf(sent, data, [type |-> "RESERVE"])
            @@ OutIf(sleeps, <<"propidle", 0>>, TRUE) @@ OutIf(wakes, <<"propidle", 0>>, FALSE),
            IF sent THEN {addr} ELSE {})

-----------------------------------------------------------------------------
(* AxonClassifier *)

\* ts_parity is not initialised by the constructor.
ClassifierInits == {[idle |-> FALSE, parity |-> b] : b \in BOOLEAN}

AxonClassifier(p, s, in, size) ==
  LET data == <<"dramdata", p>> ts == <<"TSParity", 0>>
      busy == data \in DOMAIN in
      m == in[data]
      sleeps == ~busy /\ size[<<"syn", p>>] = 0 /\ ~s.idle
  IN Result([idle |-> IF busy THEN FALSE ELSE s.idle \/ sleeps,
             parity |-> IF ts \in DOMAIN in THEN in[ts] ELSE s.parity],
            OutIf(busy /\ s.idle, <<"propidle", 0>>, FALSE) @@ OutIf(sleeps, <<"propidle", 0>>, TRUE)
            @@ (IF ~busy \/ m.type = "DELAY" THEN Nothing
                ELSE IF m.type = "REMOTE" THEN <<"boardaxon", p>> :> m
                ELSE <<"syn", p>> :> [born |-> m.born]
                     @@ <<"synts", p>> :> [value |-> IF s.parity THEN 1 ELSE 0]
                     @@ <<"cidx", p>> :> [core |-> m.core]),
            {data} \intersect DOMAIN in)

-----------------------------------------------------------------------------
(* FastDelayMgr *)

\* state_counter_ is not initialised by the constructor.
DelayInits(script) ==
  {[n |-> 0, list |-> <<>>, it |-> 0, idx |-> 1, start |-> FALSE, fin |-> TRUE,
    idle |-> FALSE, parity |-> FALSE, mode |-> "IDLE", counter |-> c, script |-> script,
    owed |-> 0]
     : c \in {0, 3}}

\* An instruction appends a list of spikes with the delay it starts from; the
\* iterator is 0 at the end of the list.  Scripts are taken to be within the
\* 400000 spikes after which SIM_FATAL ends the run.
SpikesAdded(s) ==
  IF s.script = <<>> \/ Head(s.script) = <<>> THEN s
  ELSE [s EXCEPT !.list = Append(@, Head(Head(s.script))),
                 !.script = <<Tail(Head(@))>> \o Tail(@),
                 !.it = IF s.start THEN @ ELSE 1, !.start = TRUE]

\* A new timestep: the lists are walked from the first one on.
Restarted(s, in, ts) ==
  IF ts \in DOMAIN in /\ in[ts] # s.parity
  THEN [s EXCEPT !.n = @ + 1, !.fin = FALSE, !.idx = 1,
                 !.it = IF s.list = <<>> THEN 0 ELSE 1,
                 !.parity = in[ts], !.mode = "START", !.counter = 3, !.start = FALSE,
                 !.script = IF @ = <<>> THEN @ ELSE Tail(@)]
  ELSE s

\* What the state machine does next; an input is shown as `insert'.
Turned(s, insert, room) ==
  IF s.counter # 0 THEN [s EXCEPT !.counter = @ - 1]
  ELSE IF insert THEN [s EXCEPT !.mode = "INSERT", !.counter = 2]
  ELSE IF s.fin THEN s
  ELSE IF room THEN [s EXCEPT !.mode = "FETCH", !.counter = 2]
  ELSE [s EXCEPT !.mode = "IDLE", !.counter = 0]

\* After the last spike of a list its delay is one less, and at zero the list
\* is erased.
SpikeFetched(s) ==
  LET l == s.list[s.it]
      next(len) == IF s.it > len THEN 0 ELSE s.it
  IN IF s.idx < Len(l.spikes) THEN [s EXCEPT !.idx = @ + 1]
     ELSE IF l.delay = 1
     THEN [s EXCEPT !.idx = 1, !.list = WithoutIndex(@, s.it), !.it = next(Len(s.list) - 1)]
     ELSE [s EXCEPT !.idx = 1, !.list[s.it].delay = @ - 1,
                    !.it = IF @ = Len(s.list) THEN 0 ELSE @ + 1]

\* The axon of a delayed spike; the other boards hear of it the first time.
SpikeAxon(s) ==
  LET l == s.list[s.it]
  IN [len |-> l.spikes[s.idx], delay |-> 0, born |-> s.n, off |-> l.inh \/ l.delay = NumDelay]

FastDelayMgr(p, s, in, size) ==
  LET input == <<"delay", p>> ts == <<"TSParity", 0>>
      a == Restarted(SpikesAdded(s), in, ts)
      b == Turned(a, input \in DOMAIN in, size[<<"axon", p>>] < 2)
      rests == a.counter = 0 /\ input \notin DOMAIN in /\ a.fin /\ ~a.idle
      wakes == b.counter # 0 /\ a.idle
      fetches == b.mode = "FETCH" /\ b.counter # 0
      done == fetches /\ b.it = 0
      c == [b EXCEPT !.idle = (@ \/ rests) /\ ~wakes]
  IN Result(IF done THEN [c EXCEPT !.fin = TRUE, !.counter = 0]
            ELSE IF fetches
            THEN [SpikeFetched(c) EXCEPT !.owed = @ + SpikeAxon(b).len - 1] ELSE c,
            OutIf(fetches /\ ~done, <<"axon", p>>, SpikeAxon(b))
            @@ OutIf(wakes, <<"propidle", 0>>, FALSE) @@ OutIf(rests, <<"propidle", 0>>, TRUE),
            IF a.counter = 0 THEN {input} \intersect DOMAIN in ELSE {})
=============================================================================
