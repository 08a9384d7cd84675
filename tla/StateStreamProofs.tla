------------------------- MODULE StateStreamProofs -------------------------
(***************************************************************************)
(* Proofs about StateStream: the mirror that has heard everything underway *)
(* is the lease's table, a sequence number is a fence, and the poll        *)
(* descriptor is exact, for every set of windows, contents and requests    *)
(* and queues and sockets of any size.                                     *)
(***************************************************************************)
EXTENDS StateStream, FiniteSetTheorems, TLAPS

-----------------------------------------------------------------------------
(* What hearing a sequence of frames computes. *)

\* Induction over the natural numbers, for the members of a set.
LEMMA SetInduction ==
    ASSUME NEW S, 0 \in S, \A n \in Nat : n \in S => n + 1 \in S
    PROVE  Nat \subseteq S
<1> SUFFICES ASSUME NEW n \in Nat, n \notin S
             PROVE  FALSE
  OBVIOUS
<1> DEFINE B == {k \in 0 .. n : k \notin S}
           down == [k \in B |-> k - 1]
<1>1. /\ IsFiniteSet(B) /\ IsFiniteSet(B \ {n})
      /\ Cardinality(B \ {n}) < Cardinality(B)
  <2>1. 0 \in Int /\ n \in Int
    OBVIOUS
  <2>2. IsFiniteSet(0 .. n)
    BY <2>1, FS_Interval
  <2>3. IsFiniteSet(B)
    BY <2>2, FS_Subset
  <2>4. n \in B
    OBVIOUS
  <2>5. IsFiniteSet(B \ {n}) /\ Cardinality(B \ {n}) = Cardinality(B) - 1
    BY <2>3, <2>4, FS_RemoveElement
  <2>6. Cardinality(B) \in Nat
    BY <2>3, FS_CardinalityType
  <2> QED BY <2>3, <2>5, <2>6
<1>2. down \in [B -> B \ {n}]
  OBVIOUS
<1>3. PICK x \in B, y \in B : x # y /\ down[x] = down[y]
  <2> HIDE DEF B, down
  <2> QED BY <1>1, <1>2, FS_PigeonHole
<1> QED BY <1>3

\* The mirrors after 0, 1, 2, ... of the frames.
IsTrace(f, a, s) ==
    f = [n \in 0 .. Len(s) |-> IF n = 0 THEN a ELSE Hear(f[n - 1], s[n])]

\* Heard is the last mirror of the trace that its definition chooses.
LEMMA HeardIsLast ==
    ASSUME NEW a, NEW s
    PROVE  Heard(a, s) = (CHOOSE f : IsTrace(f, a, s))[Len(s)]
BY DEF Heard, IsTrace

\* A trace starts with the mirror and hears one frame at a time.
LEMMA TraceStep ==
    ASSUME NEW f, NEW a, NEW s, IsTrace(f, a, s), Len(s) \in Nat
    PROVE  f[0] = a /\ \A n \in 1 .. Len(s) : f[n] = Hear(f[n - 1], s[n])
<1>1. ASSUME NEW n \in 0 .. Len(s)
      PROVE  f[n] = IF n = 0 THEN a ELSE Hear(f[n - 1], s[n])
  BY <1>1 DEF IsTrace
<1> QED BY <1>1

\* There is one trace at most.
LEMMA TraceUnique ==
    ASSUME NEW f, NEW g, NEW a, NEW s, Len(s) \in Nat,
           IsTrace(f, a, s), IsTrace(g, a, s)
    PROVE  f = g
<1> DEFINE S == {n \in Nat : n \in 0 .. Len(s) => f[n] = g[n]}
<1>1. 0 \in S
  BY TraceStep
<1>2. ASSUME NEW n \in Nat, n \in S
      PROVE  n + 1 \in S
  BY <1>2, TraceStep, (n + 1) - 1 = n
<1>3. Nat \subseteq S
  <2> HIDE DEF S
  <2> QED BY <1>1, <1>2, SetInduction
<1>4. \A n \in 0 .. Len(s) : f[n] = g[n]
  BY <1>3
<1>5. f = [n \in 0 .. Len(s) |-> f[n]] /\ g = [n \in 0 .. Len(s) |-> g[n]]
  BY DEF IsTrace
<1> QED BY <1>4, <1>5

\* And there is one.
LEMMA TraceExists ==
    ASSUME NEW a, NEW T, NEW s \in Seq(T)
    PROVE  \E f : IsTrace(f, a, s)
<1> DEFINE S == {n \in Nat : n \in 0 .. Len(s) =>
              \E f : f = [k \in 0 .. n |->
                            IF k = 0 THEN a ELSE Hear(f[k - 1], s[k])]}
<1>1. 0 \in S
  <2> DEFINE f == [k \in 0 .. 0 |-> a]
  <2>1. f = [k \in 0 .. 0 |-> IF k = 0 THEN a ELSE Hear(f[k - 1], s[k])]
    OBVIOUS
  <2> QED BY <2>1
<1>2. ASSUME NEW n \in Nat, n \in S
      PROVE  n + 1 \in S
  <2> SUFFICES ASSUME n + 1 \in 0 .. Len(s)
               PROVE  \E f : f = [k \in 0 .. n + 1 |->
                                    IF k = 0 THEN a ELSE Hear(f[k - 1], s[k])]
    OBVIOUS
  <2>1. PICK f : f = [k \in 0 .. n |-> IF k = 0 THEN a ELSE Hear(f[k - 1], s[k])]
    BY <1>2
  <2> DEFINE g == [k \in 0 .. n + 1 |-> IF k = n + 1 THEN Hear(f[n], s[n + 1])
                                        ELSE f[k]]
  <2>2. g = [k \in 0 .. n + 1 |-> IF k = 0 THEN a ELSE Hear(g[k - 1], s[k])]
    <3>1. ASSUME NEW k \in 0 .. n + 1
          PROVE  g[k] = IF k = 0 THEN a ELSE Hear(g[k - 1], s[k])
      <4>1. CASE k = n + 1
        <5>1. g[k] = Hear(f[n], s[n + 1]) /\ k - 1 = n /\ g[n] = f[n]
          BY <4>1
        <5> HIDE DEF g
        <5> QED BY <5>1, <4>1
      <4>2. CASE k = 0
        <5>1. g[k] = f[k]
          BY <4>2
        <5>2. f[k] = a
          BY <2>1, <4>2
        <5> HIDE DEF g
        <5> QED BY <5>1, <5>2, <4>2
      <4>3. CASE k \in 1 .. n
        <5>1. g[k] = f[k] /\ g[k - 1] = f[k - 1] /\ k \in 0 .. n /\ k # 0
          BY <4>3
        <5>2. f[k] = Hear(f[k - 1], s[k])
          BY <5>1, <2>1
        <5> HIDE DEF g
        <5> QED BY <5>1, <5>2
      <4> QED BY <4>1, <4>2, <4>3
    <3>2. g = [k \in 0 .. n + 1 |-> g[k]]
      OBVIOUS
    <3> HIDE DEF g
    <3> QED BY <3>1, <3>2
  <2> HIDE DEF g
  <2> QED BY <2>2
<1>3. Nat \subseteq S
  <2> HIDE DEF S
  <2> QED BY <1>1, <1>2, SetInduction
<1>4. Len(s) \in Nat /\ Len(s) \in 0 .. Len(s)
  OBVIOUS
<1> QED BY <1>3, <1>4 DEF IsTrace

\* So any trace says what was heard.
LEMMA HeardByTrace ==
    ASSUME NEW a, NEW T, NEW s \in Seq(T), NEW f, IsTrace(f, a, s)
    PROVE  Heard(a, s) = f[Len(s)]
<1> DEFINE c == CHOOSE g : IsTrace(g, a, s)
<1>1. IsTrace(c, a, s)
  OBVIOUS
<1>2. c = f
  <2>1. Len(s) \in Nat
    OBVIOUS
  <2> HIDE DEF c
  <2> QED BY <1>1, <2>1, TraceUnique
<1> QED BY <1>2, HeardIsLast

\* Nothing heard, nothing changed.
LEMMA HeardEmpty ==
    ASSUME NEW a
    PROVE  Heard(a, <<>>) = a
<1> DEFINE f == [n \in 0 .. 0 |-> a]
<1>1. IsTrace(f, a, <<>>) /\ f[Len(<<>>)] = a
  BY DEF IsTrace
<1>2. <<>> \in Seq({})
  OBVIOUS
<1> HIDE DEF f
<1> QED BY <1>1, <1>2, HeardByTrace

\* The last frame is heard last.
LEMMA HeardAppend ==
    ASSUME NEW a, NEW T, NEW s \in Seq(T), NEW x \in T
    PROVE  Heard(a, Append(s, x)) = Hear(Heard(a, s), x)
<1> DEFINE t == Append(s, x)
<1>1. t \in Seq(T) /\ Len(s) \in Nat /\ Len(t) = Len(s) + 1 /\ t[Len(s) + 1] = x
      /\ \A n \in 1 .. Len(s) : t[n] = s[n]
  OBVIOUS
<1> HIDE DEF t
<1>2. PICK g : IsTrace(g, a, t)
  BY <1>1, TraceExists
<1>3. Heard(a, t) = g[Len(t)]
  BY <1>1, <1>2, HeardByTrace
<1>4. g[0] = a /\ \A n \in 1 .. Len(t) : g[n] = Hear(g[n - 1], t[n])
  BY <1>1, <1>2, TraceStep
<1> DEFINE f == [n \in 0 .. Len(s) |-> g[n]]
<1>5. IsTrace(f, a, s)
  <2>1. ASSUME NEW n \in 0 .. Len(s)
        PROVE  f[n] = IF n = 0 THEN a ELSE Hear(f[n - 1], s[n])
    <3>1. CASE n = 0
      BY <3>1, <1>4
    <3>2. CASE n # 0
      <4>1. f[n] = g[n] /\ f[n - 1] = g[n - 1] /\ n \in 1 .. Len(s) /\ n \in 1 .. Len(t)
        BY <3>2, <1>1
      <4>2. s[n] = t[n]
        BY <4>1, <1>1
      <4> HIDE DEF f
      <4> QED BY <4>1, <4>2, <1>4
    <3> QED BY <3>1, <3>2
  <2>2. f = [n \in 0 .. Len(s) |-> f[n]]
    OBVIOUS
  <2> HIDE DEF f
  <2> QED BY <2>1, <2>2 DEF IsTrace
<1>6. f[Len(s)] = g[Len(s)]
  BY <1>1
<1>7. Heard(a, s) = g[Len(s)]
  <2> HIDE DEF f
  <2> QED BY <1>5, <1>6, HeardByTrace
<1>8. g[Len(t)] = Hear(g[Len(s)], x)
  <2>1. Len(t) \in 1 .. Len(t) /\ Len(t) - 1 = Len(s) /\ t[Len(t)] = x
    BY <1>1
  <2> QED BY <2>1, <1>4
<1> QED BY <1>3, <1>7, <1>8 DEF t

\* The first frame is heard first.
LEMMA HeardHead ==
    ASSUME NEW a, NEW T, NEW s \in Seq(T), s # <<>>
    PROVE  Heard(a, s) = Heard(Hear(a, Head(s)), Tail(s))
<1> DEFINE t == Tail(s)
           b == Hear(a, Head(s))
<1>1. t \in Seq(T) /\ Len(s) \in Nat /\ Len(s) > 0 /\ Len(t) = Len(s) - 1
      /\ Head(s) = s[1] /\ \A n \in 1 .. Len(t) : t[n] = s[n + 1]
  OBVIOUS
<1> HIDE DEF t
<1>2. PICK g : IsTrace(g, a, s)
  BY TraceExists
<1>3. Heard(a, s) = g[Len(s)]
  BY <1>2, HeardByTrace
<1>4. g[0] = a /\ \A n \in 1 .. Len(s) : g[n] = Hear(g[n - 1], s[n])
  BY <1>1, <1>2, TraceStep
<1>5. g[1] = b
  <2>1. 1 \in 1 .. Len(s) /\ 1 - 1 = 0
    BY <1>1
  <2> QED BY <2>1, <1>4, <1>1
<1> HIDE DEF b
<1> DEFINE f == [n \in 0 .. Len(t) |-> g[n + 1]]
<1>6. IsTrace(f, b, t)
  <2>1. ASSUME NEW n \in 0 .. Len(t)
        PROVE  f[n] = IF n = 0 THEN b ELSE Hear(f[n - 1], t[n])
    <3>1. CASE n = 0
      BY <3>1, <1>5, <1>1
    <3>2. CASE n # 0
      <4>1. f[n] = g[n + 1] /\ f[n - 1] = g[n] /\ n \in 1 .. Len(t)
            /\ n + 1 \in 1 .. Len(s) /\ (n + 1) - 1 = n
        BY <3>2, <1>1
      <4>2. t[n] = s[n + 1]
        BY <4>1, <1>1
      <4>3. g[n + 1] = Hear(g[(n + 1) - 1], s[n + 1])
        BY <4>1, <1>4
      <4> HIDE DEF f
      <4> QED BY <4>1, <4>2, <4>3, <3>2
    <3> QED BY <3>1, <3>2
  <2>2. f = [n \in 0 .. Len(t) |-> f[n]]
    OBVIOUS
  <2> HIDE DEF f
  <2> QED BY <2>1, <2>2 DEF IsTrace
<1>7. f[Len(t)] = g[Len(s)]
  BY <1>1
<1>8. Heard(b, t) = g[Len(s)]
  <2> HIDE DEF f
  <2> QED BY <1>1, <1>6, <1>7, HeardByTrace
<1> QED BY <1>3, <1>8 DEF t, b
-----------------------------------------------------------------------------
(* The invariant. *)

Cells == Contents \cup {Absent}
PipeKinds == {"begin", "item", "end", "changed", "destroy"}
EventKinds == PipeKinds \cup {"reset", "revoked", "granted"}

\* What the watch sends: a window that is gone has no contents.
PipeEvents ==
    {e \in [kind: PipeKinds, win: Windows, to: Cells] :
        e.kind = "destroy" => e.to = Absent}

EventFrames == [kind: EventKinds, win: Windows, to: Cells, sequence: Nat]
Calls == {"none", "subscribe"}
Frames == EventFrames \cup [kind: {"response"}, call: Calls]

LeaseRecord ==
    [active: BOOLEAN, granted: BOOLEAN, subscribed: BOOLEAN, source: BOOLEAN,
     pending: BOOLEAN, windows: Tables, snapshot: Tables, sequence: Nat]
ClientRecord ==
    [open: BOOLEAN, queue: Seq(EventFrames), signalled: BOOLEAN, waiting: Calls]
MirrorRecord ==
    [valid: BOOLEAN, filling: BOOLEAN, windows: Tables, snapshot: Tables,
     sequence: Nat, gap: BOOLEAN]
NoticeKinds == {"list", "map", "destroy", "change", "active"}
Notices == [kind: NoticeKinds, win: Windows]
WatchRecord ==
    [pc: {"off", "starting", "running"}, kind: {"sampled", "native", "x11"},
     known: Tables, notices: Seq(Notices), dirty: BOOLEAN, poked: BOOLEAN,
     owed: BOOLEAN, failures: Nat]
RpcRecord ==
    [pc: {"idle", "working", "executed", "syncing", "ok", "timeout", "withheld"},
     request: Requests, before: Cells, monitoring: BOOLEAN, effective: Nat]

Typed ==
    /\ desktop \in Tables
    /\ watch \in WatchRecord
    /\ pipe \in Seq(PipeEvents)
    /\ lease \in LeaseRecord
    /\ socket \in Seq(Frames)
    /\ client \in ClientRecord
    /\ inbox \in Calls
    /\ rpc \in RpcRecord

\* A mirror that has missed nothing is what the lease's table says, the half
\* of a snapshot that has been collected included.
Agrees(a, L) ==
    /\ a \in MirrorRecord
    /\ ~a.gap
    /\ L.active => /\ a.sequence = L.sequence
                   /\ a.windows = L.windows
                   /\ a.snapshot = L.snapshot

Following == client.open => Agrees(Caught, lease)

\* The eventfd stands for the queue and for a connection that has failed.
Signalled == client.signalled <=> (client.queue # <<>> \/ ~client.open)

IInv == Typed /\ Following /\ Signalled

-----------------------------------------------------------------------------
(* The pieces. *)

LEMMA EmptyTable == NoWindows \in Tables
BY DEF NoWindows, Tables

\* The brackets of a snapshot and the events of no window are well-formed.
LEMMA BracketType ==
    ASSUME NEW kind
    PROVE  /\ Bracket(kind).kind = kind /\ Bracket(kind).win \in Windows
           /\ Bracket(kind).to = Absent
           /\ kind \in PipeKinds => Bracket(kind) \in PipeEvents
<1>1. (CHOOSE w \in Windows : TRUE) \in Windows
  BY StreamConstants
<1> QED BY <1>1 DEF Bracket, Event, PipeEvents, Cells

\* A frame of the lease, before it gets its number.
LEMMA NumberedType ==
    ASSUME NEW e, e.kind \in EventKinds, e.win \in Windows, e.to \in Cells
    PROVE  /\ Numbered(e) \in EventFrames
           /\ Numbered(e).kind = e.kind /\ Numbered(e).win = e.win
           /\ Numbered(e).to = e.to
BY DEF Numbered, EventFrames

\* SetToSeq lists the members of a finite set.
LEMMA SetToSeqType ==
    ASSUME NEW S, IsFiniteSet(S)
    PROVE  /\ Cardinality(S) \in Nat
           /\ SetToSeq(S) \in [1 .. Cardinality(S) -> S]
<1>1. Cardinality(S) \in Nat /\ ExistsBijection(1 .. Cardinality(S), S)
  BY FS_CardinalityType
<1>2. \E f \in [1 .. Cardinality(S) -> S] : IsInjective(f)
  BY <1>1 DEF ExistsBijection, Bijection, Injection, IsInjective
<1> QED BY <1>1, <1>2 DEF SetToSeq

LEMMA IsSequence ==
    ASSUME NEW T, NEW n \in Nat, NEW f \in [1 .. n -> T]
    PROVE  f \in Seq(T)
OBVIOUS

\* One event per window of a set.
LEMMA ForEachType ==
    ASSUME NEW S, S \subseteq Windows, NEW kind \in {"item", "changed", "destroy"},
           NEW table \in Tables,
           kind = "destroy" => \A w \in S : table[w] = Absent
    PROVE  ForEach(S, kind, table) \in Seq(PipeEvents)
<1>1. IsFiniteSet(S)
  BY StreamConstants, FS_Subset
<1>2. PICK n \in Nat : n = Cardinality(S)
  BY <1>1, SetToSeqType
<1>3. PICK q : q = SetToSeq(S)
  OBVIOUS
<1>4. q \in [1 .. n -> S]
  BY <1>1, <1>2, <1>3, SetToSeqType
<1>5. ASSUME NEW w \in S
      PROVE  Event(kind, w, table[w]) \in PipeEvents
  BY <1>5 DEF Event, PipeEvents, PipeKinds, Cells, Tables
<1>6. ForEach(S, kind, table) = [i \in 1 .. n |-> Event(kind, q[i], table[q[i]])]
  BY <1>2, <1>3 DEF ForEach
<1>7. [i \in 1 .. n |-> Event(kind, q[i], table[q[i]])] \in [1 .. n -> PipeEvents]
  BY <1>4, <1>5
<1> QED BY <1>6, <1>7, IsSequence

LEMMA SnapshotType ==
    ASSUME NEW table \in Tables
    PROVE  Snapshot(table) \in Seq(PipeEvents)
<1>1. ForEach(Present(table), "item", table) \in Seq(PipeEvents)
  BY ForEachType DEF Present
<1>2. Bracket("begin") \in PipeEvents /\ Bracket("end") \in PipeEvents
  BY BracketType DEF PipeKinds
<1> QED BY <1>1, <1>2 DEF Snapshot

LEMMA DiffType ==
    ASSUME NEW known \in Tables, NEW now \in Tables
    PROVE  Diff(known, now) \in Seq(PipeEvents)
<1>1. ForEach({w \in Present(now) : known[w] # now[w]}, "changed", now)
        \in Seq(PipeEvents)
  BY ForEachType DEF Present
<1>2. ForEach(Present(known) \ Present(now), "destroy", now) \in Seq(PipeEvents)
  BY ForEachType DEF Present
<1> QED BY <1>1, <1>2 DEF Diff

LEMMA RefreshClientsType ==
    ASSUME Typed
    PROVE  RefreshClients \in Seq(PipeEvents)
<1> DEFINE known == Present(watch.known)
           listed == Present(Enumerated)
           left == known \ listed
<1>1. desktop \in Tables
  BY DEF Typed
<1>2. ForEach(listed \ known, "changed", desktop) \in Seq(PipeEvents)
  <2>1. \A w \in listed \ known : w \in Windows /\ desktop[w] # Absent
    BY DEF Present, Enumerated
  <2> HIDE DEF known, listed
  <2> QED BY <1>1, <2>1, ForEachType
<1>3. ForEach(left \cap Present(desktop), "changed", desktop) \in Seq(PipeEvents)
  BY <1>1, ForEachType DEF Present
<1>4. ForEach(left \ Present(desktop), "destroy", desktop) \in Seq(PipeEvents)
  BY <1>1, ForEachType DEF Present
<1> QED BY <1>2, <1>3, <1>4 DEF RefreshClients

\* What the X11 watch reads are tables.
LEMMA ListedTables ==
    ASSUME Typed
    PROVE  /\ Enumerated \in Tables /\ Followed \in Tables
           /\ [w \in Windows |-> IF Enumerated[w] = Absent THEN watch.known[w]
                                 ELSE desktop[w]] \in Tables
<1>1. desktop \in Tables /\ watch.known \in Tables
  BY DEF Typed, WatchRecord
<1> QED BY <1>1 DEF Enumerated, Followed, Tables

LEMMA IdleType ==
    ASSUME Typed
    PROVE  [Idle EXCEPT !.kind = watch.kind] \in WatchRecord /\ Restarted \in WatchRecord
<1>1. PICK k \in {"sampled", "native", "x11"} : k = watch.kind
  BY DEF Typed, WatchRecord
<1>2. PICK none \in Seq(Notices) : none = <<>>
  <2>1. <<>> \in Seq(Notices)
    OBVIOUS
  <2> QED BY <2>1, Zenon
<1>3. PICK empty \in Tables : empty = NoWindows
  BY EmptyTable
<1>4. Idle = [pc |-> "off", kind |-> "native", known |-> empty, notices |-> none,
              dirty |-> FALSE, poked |-> FALSE, owed |-> FALSE, failures |-> 0]
  BY <1>2, <1>3 DEF Idle
<1>5. Idle \in WatchRecord
  BY <1>4 DEF WatchRecord
<1>6. [Idle EXCEPT !.kind = k] \in WatchRecord
  BY <1>5 DEF WatchRecord
<1>7. [Idle EXCEPT !.kind = k, !.pc = "starting"] \in WatchRecord
  BY <1>5 DEF WatchRecord
<1> QED BY <1>1, <1>6, <1>7 DEF Restarted

\* One more X event.
LEMMA NotifyType ==
    ASSUME Typed, NEW w \in Windows, NEW k \in NoticeKinds
    PROVE  Notify(k, w) \in WatchRecord
<1>1. PICK n \in Notices : n = [kind |-> k, win |-> w]
  BY DEF Notices
<1>2. watch \in WatchRecord /\ watch.notices \in Seq(Notices)
  BY DEF Typed, WatchRecord
<1>3. PICK m \in Seq(Notices) : m = Append(watch.notices, n)
  <2>1. Append(watch.notices, n) \in Seq(Notices)
    BY <1>2
  <2> QED BY <2>1, Zenon
<1>4. Notify(k, w) = [watch EXCEPT !.notices = m]
  BY <1>1, <1>3 DEF Notify
<1> QED BY <1>2, <1>4 DEF WatchRecord

LEMMA NoticedType ==
    ASSUME Typed, NEW w \in Windows, NEW to \in Cells, NEW v \in Noticed(w, to)
    PROVE  v \in WatchRecord
<1>1. CASE watch.pc = "off"
  BY <1>1 DEF Noticed, Typed
<1>2. CASE watch.pc # "off" /\ watch.kind = "x11"
  <2>1. PICK k \in NoticeKinds : v = Notify(k, w)
    BY <1>2 DEF Noticed, NoticeKinds
  <2> QED BY <2>1, NotifyType
<1>3. CASE watch.pc # "off" /\ watch.kind # "x11"
  <2>1. v = watch \/ v = [watch EXCEPT !.dirty = TRUE]
    BY <1>3 DEF Noticed, Typed, WatchRecord
  <2> QED BY <2>1 DEF Typed, WatchRecord
<1> QED BY <1>1, <1>2, <1>3
-----------------------------------------------------------------------------
(* A frame tells the mirror what happened to the table. *)

\* The frame f says how the table of L became that of M.
Told(L, f, M) ==
    \/ /\ f.kind = "begin" /\ M.sequence = L.sequence + 1
       /\ M.windows = L.windows /\ M.snapshot = NoWindows
    \/ /\ f.kind = "item" /\ M.sequence = L.sequence
       /\ M.windows = L.windows /\ M.snapshot = [L.snapshot EXCEPT ![f.win] = f.to]
    \/ /\ f.kind = "end" /\ M.sequence = L.sequence
       /\ M.windows = L.snapshot /\ M.snapshot = NoWindows
    \/ /\ f.kind \in {"changed", "destroy"} /\ M.sequence = L.sequence + 1
       /\ M.windows = [L.windows EXCEPT ![f.win] = f.to] /\ M.snapshot = L.snapshot
    \/ /\ f.kind = "reset" /\ M.sequence = L.sequence + 1
       /\ M.windows = L.windows /\ M.snapshot = L.snapshot
    \/ /\ f.kind \in {"revoked", "granted"} /\ M.sequence = L.sequence
       /\ M.windows = L.windows /\ M.snapshot = L.snapshot

\* A table stays a table.
LEMMA TableExcept ==
    ASSUME NEW t \in Tables, NEW w \in Windows, NEW to \in Cells
    PROVE  [t EXCEPT ![w] = to] \in Tables
BY DEF Tables, Cells

\* A mirror that agrees and is told agrees again.
LEMMA ToldAgrees ==
    ASSUME NEW a, NEW L \in LeaseRecord, Agrees(a, L), L.active,
           NEW M \in LeaseRecord, NEW f \in EventFrames,
           f.sequence = M.sequence, Told(L, f, M)
    PROVE  Agrees(Mirror(a, f), M)
<1>1. /\ a \in MirrorRecord /\ a.gap = FALSE /\ a.sequence = L.sequence
      /\ a.windows = L.windows /\ a.snapshot = L.snapshot
      /\ a.windows \in Tables /\ a.snapshot \in Tables /\ a.sequence \in Nat
  BY DEF Agrees, MirrorRecord
<1>2. f.win \in Windows /\ f.to \in Cells /\ f.sequence \in Nat
  BY DEF EventFrames
<1>3. CASE f.kind = "begin"
  <2>1. Mirror(a, f) = [a EXCEPT !.sequence = f.sequence,
                           !.gap = a.gap \/ f.sequence # a.sequence + 1,
                           !.filling = TRUE, !.snapshot = NoWindows]
    BY <1>1, <1>3 DEF Mirror, MirrorRecord
  <2>2. /\ f.sequence = a.sequence + 1 /\ M.windows = a.windows
        /\ M.snapshot = NoWindows
    BY <1>1, <1>3 DEF Told
  <2>3. Mirror(a, f) = [a EXCEPT !.sequence = f.sequence, !.gap = FALSE,
                           !.filling = TRUE, !.snapshot = NoWindows]
    BY <1>1, <2>1, <2>2
  <2> QED BY <2>2, <2>3, <1>1, <1>2, EmptyTable DEF Agrees, MirrorRecord
<1>4. CASE f.kind = "item"
  <2>1. Mirror(a, f) = [a EXCEPT !.sequence = f.sequence,
                           !.gap = a.gap \/ f.sequence # a.sequence,
                           !.snapshot = [a.snapshot EXCEPT ![f.win] = f.to]]
    BY <1>1, <1>4 DEF Mirror, MirrorRecord
  <2>2. /\ f.sequence = a.sequence /\ M.windows = a.windows
        /\ M.snapshot = [a.snapshot EXCEPT ![f.win] = f.to]
    BY <1>1, <1>4 DEF Told
  <2>3. PICK t \in Tables : t = [a.snapshot EXCEPT ![f.win] = f.to]
    BY <1>1, <1>2, TableExcept
  <2>4. Mirror(a, f) = [a EXCEPT !.sequence = f.sequence, !.gap = FALSE,
                                 !.snapshot = t]
    BY <1>1, <2>1, <2>2, <2>3
  <2> QED BY <2>2, <2>3, <2>4, <1>1, <1>2 DEF Agrees, MirrorRecord
<1>5. CASE f.kind = "end"
  <2>1. Mirror(a, f) = [a EXCEPT !.sequence = f.sequence,
                           !.gap = a.gap \/ f.sequence # a.sequence,
                           !.windows = a.snapshot, !.snapshot = NoWindows,
                           !.filling = FALSE, !.valid = TRUE]
    BY <1>1, <1>5 DEF Mirror, MirrorRecord
  <2>2. f.sequence = a.sequence /\ M.windows = a.snapshot /\ M.snapshot = NoWindows
    BY <1>1, <1>5 DEF Told
  <2>3. Mirror(a, f) = [a EXCEPT !.sequence = f.sequence, !.gap = FALSE,
                           !.windows = a.snapshot, !.snapshot = NoWindows,
                           !.filling = FALSE, !.valid = TRUE]
    BY <1>1, <2>1, <2>2
  <2> QED BY <2>2, <2>3, <1>1, <1>2, EmptyTable DEF Agrees, MirrorRecord
<1>6. CASE f.kind \in {"changed", "destroy"}
  <2>1. Mirror(a, f) = [a EXCEPT !.sequence = f.sequence,
                           !.gap = a.gap \/ f.sequence # a.sequence + 1,
                           !.windows = [a.windows EXCEPT ![f.win] = f.to]]
    BY <1>1, <1>6 DEF Mirror, MirrorRecord
  <2>2. /\ f.sequence = a.sequence + 1 /\ M.snapshot = a.snapshot
        /\ M.windows = [a.windows EXCEPT ![f.win] = f.to]
    BY <1>1, <1>6 DEF Told
  <2>3. PICK t \in Tables : t = [a.windows EXCEPT ![f.win] = f.to]
    BY <1>1, <1>2, TableExcept
  <2>4. Mirror(a, f) = [a EXCEPT !.sequence = f.sequence, !.gap = FALSE,
                                 !.windows = t]
    BY <1>1, <2>1, <2>2, <2>3
  <2> QED BY <2>2, <2>3, <2>4, <1>1, <1>2 DEF Agrees, MirrorRecord
<1>7. CASE f.kind = "reset"
  <2>1. Mirror(a, f) = [a EXCEPT !.sequence = f.sequence,
                           !.gap = a.gap \/ f.sequence # a.sequence + 1,
                           !.valid = FALSE, !.filling = FALSE]
    BY <1>1, <1>7 DEF Mirror, MirrorRecord
  <2>2. /\ f.sequence = a.sequence + 1 /\ M.windows = a.windows
        /\ M.snapshot = a.snapshot
    BY <1>1, <1>7 DEF Told
  <2>3. Mirror(a, f) = [a EXCEPT !.sequence = f.sequence, !.gap = FALSE,
                           !.valid = FALSE, !.filling = FALSE]
    BY <1>1, <2>1, <2>2
  <2> QED BY <2>2, <2>3, <1>1, <1>2 DEF Agrees, MirrorRecord
<1>8. CASE f.kind \in {"revoked", "granted"}
  <2>1. Mirror(a, f) = a \/ Mirror(a, f) = [a EXCEPT !.valid = FALSE, !.filling = FALSE]
    BY <1>8 DEF Mirror
  <2>2. f.sequence = a.sequence /\ M.windows = a.windows /\ M.snapshot = a.snapshot
    BY <1>1, <1>8 DEF Told
  <2> QED BY <2>1, <2>2, <1>1, <1>2 DEF Agrees, MirrorRecord
<1> QED BY <1>3, <1>4, <1>5, <1>6, <1>7, <1>8 DEF Told

-----------------------------------------------------------------------------
(* The ends of the stream. *)

\* A frame that the lease writes is the last one the mirror will hear.
LEMMA CaughtAppend ==
    ASSUME Typed, NEW f \in Frames, socket' = Append(socket, f),
           UNCHANGED <<client, app>>
    PROVE  socket' \in Seq(Frames) /\ Caught' = Hear(Caught, f)
<1>1. socket \in Seq(Frames)
  BY DEF Typed
<1>2. PICK b : b = Heard(app, client.queue)
  OBVIOUS
<1>3. Heard(b, Append(socket, f)) = Hear(Heard(b, socket), f)
  BY <1>1, HeardAppend
<1> QED BY <1>1, <1>2, <1>3 DEF Caught

\* The mirror does not depend on what the watch and the table do.
LEMMA CaughtUnchanged ==
    ASSUME UNCHANGED <<client, app, socket>>
    PROVE  Caught' = Caught
BY DEF Caught

\* Failing the lease leaves a mirror without a gap.
LEMMA FailFollows ==
    ASSUME Typed, Following, NEW M \in LeaseRecord, Fail(M), UNCHANGED <<client, app>>
    PROVE  lease' \in LeaseRecord /\ socket' \in Seq(Frames) /\ Following'
<1>1. lease' = [M EXCEPT !.active = FALSE, !.granted = FALSE] /\ socket' = socket
  BY DEF Fail
<1>2. lease' \in LeaseRecord /\ lease'.active = FALSE
  BY <1>1 DEF LeaseRecord
<1>3. Caught' = Caught
  BY <1>1, CaughtUnchanged
<1> QED BY <1>1, <1>2, <1>3 DEF Following, Agrees, Typed

\* An event that tells of the change of the table keeps the mirror with it.
LEMMA EmitFollows ==
    ASSUME Typed, Following, lease.active, NEW M \in LeaseRecord,
           NEW e, e.kind \in EventKinds, e.win \in Windows, e.to \in Cells,
           Told(lease, [Numbered(e) EXCEPT !.sequence = M.sequence], M),
           Emit(M, Numbered(e)), UNCHANGED <<client, app>>
    PROVE  lease' \in LeaseRecord /\ socket' \in Seq(Frames) /\ Following'
<1>1. PICK f : f = [Numbered(e) EXCEPT !.sequence = M.sequence]
  OBVIOUS
<1>2. f \in EventFrames /\ f.sequence = M.sequence /\ f.kind # "response"
  BY <1>1 DEF Numbered, EventFrames, LeaseRecord, EventKinds, PipeKinds
<1>3. CASE Room
  <2>1. lease' = M /\ socket' = Append(socket, f)
    BY <1>1, <1>3 DEF Emit
  <2>2. socket' \in Seq(Frames) /\ Caught' = Hear(Caught, f)
    BY <1>2, <2>1, CaughtAppend DEF Frames
  <2>3. Caught' = Mirror(Caught, f)
    BY <1>2, <2>2 DEF Hear
  <2>4. client.open => Agrees(Mirror(Caught, f), M)
    <3> SUFFICES ASSUME client.open
                 PROVE  Agrees(Mirror(Caught, f), M)
      OBVIOUS
    <3>1. Agrees(Caught, lease) /\ lease \in LeaseRecord
      BY DEF Following, Typed
    <3>2. PICK a, L : a = Caught /\ L = lease
      OBVIOUS
    <3>3. Told(L, f, M)
      BY <1>1, <3>2
    <3>4. Agrees(Mirror(a, f), M)
      BY <1>2, <3>1, <3>2, <3>3, ToldAgrees
    <3> QED BY <3>2, <3>4
  <2>5. Following'
    BY <2>1, <2>3, <2>4 DEF Following
  <2> QED BY <2>1, <2>2, <2>5
<1>4. CASE ~Room
  BY <1>4, FailFollows DEF Emit
<1> QED BY <1>3, <1>4

\* A response is not for the mirror.
LEMMA RespondFollows ==
    ASSUME Typed, Following, NEW M \in LeaseRecord, NEW call \in Calls,
           M.active => lease.active,
           M.sequence = lease.sequence, M.windows = lease.windows,
           M.snapshot = lease.snapshot,
           Respond(M, call), UNCHANGED <<client, app>>
    PROVE  lease' \in LeaseRecord /\ socket' \in Seq(Frames) /\ Following'
<1>1. PICK f : f = [kind |-> "response", call |-> call]
  OBVIOUS
<1>2. f \in Frames /\ f.kind = "response"
  BY <1>1 DEF Frames
<1>3. CASE Room
  <2>1. lease' = M /\ socket' = Append(socket, f)
    BY <1>1, <1>3 DEF Respond
  <2>2. socket' \in Seq(Frames) /\ Caught' = Hear(Caught, f)
    BY <1>2, <2>1, CaughtAppend
  <2>3. Caught' = Caught
    BY <1>2, <2>2 DEF Hear
  <2>4. Following'
    BY <2>1, <2>3 DEF Following, Agrees
  <2> QED BY <2>1, <2>2, <2>4
<1>4. CASE ~Room
  BY <1>4, FailFollows DEF Respond
<1> QED BY <1>3, <1>4
-----------------------------------------------------------------------------
(* The watch and the RPC threads: the stream is not theirs. *)

LEMMA Untouched ==
    ASSUME IInv, UNCHANGED <<lease, socket, client, app>>,
           desktop' \in Tables, watch' \in WatchRecord, pipe' \in Seq(PipeEvents),
           inbox' \in Calls, rpc' \in RpcRecord
    PROVE  IInv'
<1>1. Caught' = Caught
  BY CaughtUnchanged
<1>2. Following'
  BY <1>1 DEF IInv, Following
<1> QED BY <1>2 DEF IInv, Typed, Signalled

\* The desktop with one window changed.
LEMMA DesktopExcept ==
    ASSUME Typed, NEW w \in Windows, NEW to \in Cells
    PROVE  [desktop EXCEPT ![w] = to] \in Tables
BY TableExcept DEF Typed

LEMMA DesktopChangeInv ==
    ASSUME IInv, NEW w \in Windows, NEW to \in Contents \cup {Absent},
           DesktopChange(w, to)
    PROVE  IInv'
<1>1. Typed /\ to \in Cells
  BY DEF IInv, Cells
<1>2. desktop' \in Tables
  BY <1>1, DesktopExcept DEF DesktopChange
<1>3. watch' \in WatchRecord
  <2>1. PICK v \in Noticed(w, to) : v = watch'
    BY DEF DesktopChange
  <2> QED BY <1>1, <2>1, NoticedType
<1> QED BY <1>1, <1>2, <1>3, Untouched DEF DesktopChange, userVars, Typed

LEMMA UnlistInv ==
    ASSUME IInv, NEW w \in Windows, Unlist(w) \/ Relist(w)
    PROVE  IInv'
<1>1. Typed
  BY DEF IInv
<1>2. watch' \in WatchRecord
  <2>1. watch' = watch \/ watch' = Notify("list", w) \/ watch' = Notify("map", w)
    BY DEF Unlist, Relist
  <2>2. "list" \in NoticeKinds /\ "map" \in NoticeKinds
    BY DEF NoticeKinds
  <2> QED BY <1>1, <2>1, <2>2, NotifyType DEF Typed
<1>3. UNCHANGED <<desktop, pipe, lease, socket, client, app, inbox, rpc>>
  BY DEF Unlist, Relist, userVars
<1> QED BY <1>1, <1>2, <1>3, Untouched DEF Typed

\* The watch reads the desktop.
LEMMA WatchKnown ==
    ASSUME Typed, NEW v \in WatchRecord, NEW t \in Tables
    PROVE  [v EXCEPT !.known = t] \in WatchRecord
BY DEF WatchRecord

LEMMA WatchStartInv ==
    ASSUME IInv, WatchStart
    PROVE  IInv'
<1>1. Typed /\ desktop \in Tables /\ watch \in WatchRecord /\ pipe \in Seq(PipeEvents)
  BY DEF IInv, Typed
<1>2. PICK t \in Tables : t = Enumerated
  BY <1>1, ListedTables
<1>3. watch' = [watch EXCEPT !.pc = "running", !.known = t]
  BY <1>2 DEF WatchStart
<1>4. watch' \in WatchRecord
  BY <1>1, <1>3 DEF WatchRecord
<1>5. pipe' \in Seq(PipeEvents)
  BY <1>1, ListedTables, SnapshotType DEF WatchStart
<1> QED BY <1>1, <1>4, <1>5, Untouched DEF WatchStart, userVars, Typed

LEMMA WatchRefreshInv ==
    ASSUME IInv, NEW scheduled \in BOOLEAN, WatchRefresh(scheduled)
    PROVE  IInv'
<1>1. /\ Typed /\ desktop \in Tables /\ watch \in WatchRecord
      /\ pipe \in Seq(PipeEvents) /\ watch.known \in Tables
  BY DEF IInv, Typed, WatchRecord
<1>2. PICK t \in Tables : t = desktop
  BY <1>1
<1>3. AfterRefresh(scheduled) \in WatchRecord
  BY <1>1 DEF AfterRefresh, WatchRecord
<1>4. watch' = [AfterRefresh(scheduled) EXCEPT !.known = t, !.failures = 0]
  BY <1>2 DEF WatchRefresh
<1>5. watch' \in WatchRecord
  BY <1>3, <1>4 DEF WatchRecord
<1>6. pipe' \in Seq(PipeEvents)
  BY <1>1, DiffType DEF WatchRefresh
<1> QED BY <1>1, <1>5, <1>6, Untouched DEF WatchRefresh, userVars, Typed

LEMMA RefreshFailsInv ==
    ASSUME IInv, NEW scheduled \in BOOLEAN, RefreshFails(scheduled)
    PROVE  IInv'
<1>1. Typed /\ watch \in WatchRecord
  BY DEF IInv, Typed
<1>2. AfterRefresh(scheduled) \in WatchRecord
  BY <1>1 DEF AfterRefresh, WatchRecord
<1>3. PICK late \in BOOLEAN :
        \/ watch' = [Idle EXCEPT !.kind = watch.kind]
        \/ watch' = [AfterRefresh(scheduled) EXCEPT
                        !.failures = @ + 1, !.owed = @ \/ late]
  BY DEF RefreshFails
<1>4. watch' \in WatchRecord
  <2>1. CASE watch' = [Idle EXCEPT !.kind = watch.kind]
    BY <2>1, <1>1, IdleType
  <2>2. CASE watch' = [AfterRefresh(scheduled) EXCEPT
                        !.failures = @ + 1, !.owed = @ \/ late]
    <3>1. PICK n \in Nat : n = AfterRefresh(scheduled).failures + 1
      BY <1>2 DEF WatchRecord
    <3>2. PICK o \in BOOLEAN : o = (AfterRefresh(scheduled).owed \/ late)
      OBVIOUS
    <3>3. watch' = [AfterRefresh(scheduled) EXCEPT !.failures = n, !.owed = o]
      BY <2>2, <3>1, <3>2
    <3> QED BY <1>2, <3>3 DEF WatchRecord
  <2> QED BY <2>1, <2>2, <1>3
<1> QED BY <1>1, <1>4, Untouched DEF RefreshFails, userVars, Typed

LEMMA LateAnswerInv ==
    ASSUME IInv, LateAnswer
    PROVE  IInv'
<1>1. Typed /\ watch \in WatchRecord
  BY DEF IInv, Typed
<1>2. watch' \in WatchRecord
  BY <1>1 DEF LateAnswer, WatchRecord
<1> QED BY <1>1, <1>2, Untouched DEF LateAnswer, userVars, Typed

LEMMA HandleEventInv ==
    ASSUME IInv, HandleEvent
    PROVE  IInv'
<1>1. /\ Typed /\ desktop \in Tables /\ watch \in WatchRecord
      /\ pipe \in Seq(PipeEvents) /\ watch.known \in Tables
      /\ watch.notices \in Seq(Notices) /\ watch.notices # <<>>
  BY DEF IInv, Typed, WatchRecord, HandleEvent
<1>2. PICK notice \in Notices, rest \in Seq(Notices) :
         notice = Head(watch.notices) /\ rest = Tail(watch.notices)
  <2>1. Head(watch.notices) \in Notices /\ Tail(watch.notices) \in Seq(Notices)
    BY <1>1
  <2> QED BY <2>1, Zenon
<1>3. PICK w \in Windows : w = notice.win
  BY DEF Notices
<1>4. PICK read : read = [watch EXCEPT !.notices = rest]
  OBVIOUS
<1>5. read \in WatchRecord /\ read.known = watch.known
  BY <1>1, <1>4 DEF WatchRecord
<1>6. \/ /\ watch' = [read EXCEPT !.known = Followed]
         /\ pipe' = pipe \o RefreshClients
      \/ /\ watch' = read
         /\ pipe' = pipe \o EmitWindow(w) \/ pipe' = pipe
      \/ /\ watch' = [read EXCEPT !.known[w] = Absent]
         /\ pipe' = Append(pipe, Event("destroy", w, Absent)) \/ pipe' = pipe
  BY <1>2, <1>3, <1>4 DEF HandleEvent
<1>7. watch' \in WatchRecord
  <2>1. PICK t \in Tables : t = [watch.known EXCEPT ![w] = Absent]
    BY <1>1, TableExcept DEF Cells
  <2>2. [read EXCEPT !.known[w] = Absent] = [read EXCEPT !.known = t]
    BY <1>5, <2>1 DEF WatchRecord
  <2>3. \/ watch' = read \/ watch' = [read EXCEPT !.known = Followed]
        \/ watch' = [read EXCEPT !.known = t]
    BY <1>6, <2>2
  <2> QED BY <2>1, <2>3, <1>1, <1>5, ListedTables, WatchKnown
<1>8. pipe' \in Seq(PipeEvents)
  <2>1. RefreshClients \in Seq(PipeEvents)
    BY <1>1, RefreshClientsType
  <2>2. EmitWindow(w) \in Seq(PipeEvents)
    <3>1. desktop[w] \in Cells
      BY <1>1 DEF Tables, Cells
    <3>2. Event("changed", w, desktop[w]) \in PipeEvents
      BY <3>1 DEF Event, PipeEvents, PipeKinds
    <3> QED BY <3>2 DEF EmitWindow
  <2>3. Event("destroy", w, Absent) \in PipeEvents
    BY DEF Event, PipeEvents, PipeKinds, Cells
  <2>4. \/ pipe' = pipe \o RefreshClients \/ pipe' = pipe \o EmitWindow(w)
        \/ pipe' = Append(pipe, Event("destroy", w, Absent)) \/ pipe' = pipe
    BY <1>6
  <2>5. pipe \o RefreshClients \in Seq(PipeEvents)
    BY <2>1, <1>1
  <2>6. pipe \o EmitWindow(w) \in Seq(PipeEvents)
    BY <2>2, <1>1
  <2>7. Append(pipe, Event("destroy", w, Absent)) \in Seq(PipeEvents)
    BY <2>3, <1>1
  <2> QED BY <2>4, <2>5, <2>6, <2>7, <1>1
<1>9. UNCHANGED <<desktop, lease, socket, userVars, spent>>
  BY DEF HandleEvent
<1> QED BY <1>1, <1>7, <1>8, <1>9, Untouched DEF userVars, Typed

LEMMA RestackedInv ==
    ASSUME IInv, Restacked
    PROVE  IInv'
<1>1. Typed /\ desktop \in Tables /\ watch \in WatchRecord /\ pipe \in Seq(PipeEvents)
  BY DEF IInv, Typed
<1>2. watch' \in WatchRecord
  BY <1>1, ListedTables, WatchKnown DEF Restacked
<1>3. pipe' \in Seq(PipeEvents)
  BY <1>1, ListedTables, SnapshotType DEF Restacked
<1> QED BY <1>1, <1>2, <1>3, Untouched DEF Restacked, userVars, Typed

LEMMA WatchEndsInv ==
    ASSUME IInv, WatchEnds
    PROVE  IInv'
<1>1. /\ Typed /\ desktop \in Tables /\ watch \in WatchRecord
      /\ pipe \in Seq(PipeEvents) /\ watch.known \in Tables
  BY DEF IInv, Typed, WatchRecord
<1>2. PICK last : last = (CASE watch.pc = "starting" -> Snapshot(Enumerated)
                            [] watch.pc = "running" /\ Wayland ->
                                 Diff(watch.known, desktop)
                            [] OTHER -> <<>>)
  OBVIOUS
<1>3. last \in Seq(PipeEvents)
  <2>1. Snapshot(Enumerated) \in Seq(PipeEvents)
    BY <1>1, ListedTables, SnapshotType
  <2>2. Diff(watch.known, desktop) \in Seq(PipeEvents)
    BY <1>1, DiffType
  <2>3. last = Snapshot(Enumerated) \/ last = Diff(watch.known, desktop) \/ last = <<>>
    BY <1>2
  <2>4. <<>> \in Seq(PipeEvents)
    OBVIOUS
  <2> QED BY <2>1, <2>2, <2>3, <2>4
<1>4. PICK n \in 0 .. Len(pipe \o last) : pipe' = SubSeq(pipe \o last, 1, n)
  BY <1>2, Zenon DEF WatchEnds
<1>5. pipe' \in Seq(PipeEvents)
  <2>1. PICK all \in Seq(PipeEvents) : all = pipe \o last
    <3>1. pipe \o last \in Seq(PipeEvents)
      BY <1>1, <1>3
    <3> QED BY <3>1, Zenon
  <2>2. n \in 0 .. Len(all) /\ pipe' = SubSeq(all, 1, n)
    BY <1>4, <2>1
  <2> QED BY <2>1, <2>2
<1>6. watch' \in WatchRecord
  BY <1>1, IdleType DEF WatchEnds
<1>7. UNCHANGED <<desktop, lease, socket, userVars>>
  BY DEF WatchEnds
<1> QED BY <1>1, <1>5, <1>6, <1>7, Untouched DEF userVars, Typed

LEMMA OpBeginInv ==
    ASSUME IInv, NEW req \in Requests, OpBegin(req)
    PROVE  IInv'
<1>1. Typed
  BY DEF IInv
<1>2. lease.windows[req.win] \in Cells
  BY <1>1, StreamConstants DEF Typed, LeaseRecord, Tables, Cells
<1>3. rpc' \in RpcRecord
  BY <1>2 DEF OpBegin, RpcRecord
<1> QED BY <1>1, <1>3, Untouched DEF OpBegin, Typed

\* An accepted request leaves a window with contents or without.
LEMMA EffectsType ==
    ASSUME NEW req \in Requests, NEW now \in Cells
    PROVE  Effects(req, now) \subseteq Cells
<1>1. req.kind \in {"close", "set", "move", "restack"}
  BY StreamConstants
<1> QED BY <1>1 DEF Effects, Cells

LEMMA OpExecuteInv ==
    ASSUME IInv, OpExecute
    PROVE  IInv'
<1>1. Typed /\ desktop \in Tables /\ rpc \in RpcRecord /\ watch \in WatchRecord
  BY DEF IInv, Typed
<1>2. PICK req \in Requests : req = rpc.request
  BY <1>1 DEF RpcRecord
<1>3. PICK w \in Windows : w = req.win
  BY StreamConstants
<1>4. desktop[w] \in Cells
  BY <1>1 DEF Tables, Cells
<1>5. PICK to \in Effects(req, desktop[w]) :
         /\ desktop' = [desktop EXCEPT ![w] = to]
         /\ watch' \in IF to = desktop[w] THEN {watch} ELSE Noticed(w, to)
  BY <1>2, <1>3, Zenon DEF OpExecute
<1>6. to \in Cells
  BY <1>4, <1>5, EffectsType
<1>7. desktop' \in Tables
  BY <1>1, <1>5, <1>6, TableExcept
<1>8. watch' \in WatchRecord
  <2>1. PICK v : v = watch'
    OBVIOUS
  <2>2. v = watch \/ v \in Noticed(w, to)
    BY <2>1, <1>5
  <2> QED BY <2>1, <2>2, <1>1, <1>6, NoticedType
<1>9. rpc' \in RpcRecord
  BY <1>1 DEF OpExecute, RpcRecord
<1>10. UNCHANGED <<pipe, lease, socket, client, app, inbox>>
  BY DEF OpExecute
<1> QED BY <1>1, <1>7, <1>8, <1>9, <1>10, Untouched DEF Typed

LEMMA SyncBeginsInv ==
    ASSUME IInv, SyncBegins
    PROVE  IInv'
<1>1. Typed /\ rpc \in RpcRecord
  BY DEF IInv, Typed
<1>2. PICK b \in BOOLEAN : b <=> Monitoring
  BY DEF Monitoring
<1>3. rpc' = [rpc EXCEPT !.pc = "syncing", !.monitoring = b]
  BY <1>2, Zenon DEF SyncBegins, Monitoring
<1>4. rpc' \in RpcRecord
  BY <1>1, <1>3 DEF RpcRecord
<1> QED BY <1>1, <1>4, Untouched DEF SyncBegins, Typed

LEMMA OpPokeInv ==
    ASSUME IInv, OpPoke
    PROVE  IInv'
<1>1. Typed /\ watch \in WatchRecord
  BY DEF IInv, Typed
<1>2. watch' \in WatchRecord
  BY <1>1 DEF OpPoke, WatchRecord
<1> QED BY <1>1, <1>2, Untouched DEF OpPoke, userVars, Typed

LEMMA OpDoneInv ==
    ASSUME IInv, NEW verdict \in {"ok", "timeout", "withheld"}, NEW n \in Nat,
           OpDone(verdict, n)
    PROVE  IInv'
<1>1. Typed /\ rpc \in RpcRecord
  BY DEF IInv, Typed
<1>2. rpc' \in RpcRecord
  BY <1>1 DEF OpDone, RpcRecord
<1> QED BY <1>1, <1>2, Untouched DEF OpDone, Typed

LEMMA OperationSyncInv ==
    ASSUME IInv, OperationSync
    PROVE  IInv'
<1>1. lease.sequence \in Nat
  BY DEF IInv, Typed, LeaseRecord
<1>2. PICK verdict \in {"ok", "timeout", "withheld"}, n \in Nat : OpDone(verdict, n)
  BY <1>1 DEF OperationSync
<1> QED BY <1>2, OpDoneInv

LEMMA OpReturnInv ==
    ASSUME IInv, OpReturn
    PROVE  IInv'
<1>1. Typed
  BY DEF IInv
<1>2. rpc' \in RpcRecord
  <2>1. (CHOOSE r \in Requests : TRUE) \in Requests
    BY StreamConstants
  <2> QED BY <2>1 DEF OpReturn, NoOperation, RpcRecord, Cells
<1> QED BY <1>1, <1>2, Untouched DEF OpReturn, Typed
-----------------------------------------------------------------------------
(* The lease's thread. *)

\* What is left when an action keeps the client and the application.
LEMMA LeaseSide ==
    ASSUME IInv, UNCHANGED <<client, app>>,
           lease' \in LeaseRecord, socket' \in Seq(Frames), Following',
           desktop' \in Tables, watch' \in WatchRecord, pipe' \in Seq(PipeEvents),
           inbox' \in Calls, rpc' \in RpcRecord
    PROVE  IInv'
BY DEF IInv, Typed, Signalled

\* The snapshot swapped in is a table.
LEMMA SwapType ==
    ASSUME NEW L \in LeaseRecord
    PROVE  /\ SwapSnapshot(L) \in LeaseRecord
           /\ SwapSnapshot(L).windows = L.snapshot
           /\ SwapSnapshot(L).snapshot = NoWindows
           /\ SwapSnapshot(L).sequence = L.sequence
<1>1. PICK empty \in Tables : empty = NoWindows
  BY EmptyTable
<1>2. PICK t \in Tables : t = L.snapshot
  BY DEF LeaseRecord
<1>3. SwapSnapshot(L) = [L EXCEPT !.windows = t, !.snapshot = empty, !.pending = FALSE]
  BY <1>1, <1>2 DEF SwapSnapshot
<1> QED BY <1>1, <1>2, <1>3 DEF LeaseRecord

\* state_window_apply: whatever it does to the table, the frame says.
LEMMA ApplyFollows ==
    ASSUME Typed, Following, lease.active, NEW e \in PipeEvents, StateWindowApply(e),
           UNCHANGED <<client, app>>
    PROVE  lease' \in LeaseRecord /\ socket' \in Seq(Frames) /\ Following'
<1>1. /\ e.kind \in PipeKinds /\ e.kind \in EventKinds /\ e.win \in Windows
      /\ e.to \in Cells
      /\ e.kind = "destroy" => e.to = Absent
  BY DEF PipeEvents, EventKinds
<1>2. /\ lease \in LeaseRecord /\ lease.windows \in Tables
      /\ lease.snapshot \in Tables /\ lease.sequence \in Nat
  BY DEF Typed, LeaseRecord
<1>3. PICK n \in Nat : n = lease.sequence + 1
  BY <1>2
<1>4. ASSUME NEW M \in LeaseRecord
      PROVE  LET f == [Numbered(e) EXCEPT !.sequence = M.sequence]
             IN  f.kind = e.kind /\ f.win = e.win /\ f.to = e.to
  BY DEF Numbered
<1>5. ASSUME UNCHANGED <<lease, socket>>
      PROVE  lease' \in LeaseRecord /\ socket' \in Seq(Frames) /\ Following'
  <2>1. Caught' = Caught
    BY <1>5, CaughtUnchanged
  <2> QED BY <2>1, <1>5 DEF Typed, Following
<1>6. CASE e.kind = "begin"
  <2>1. PICK empty \in Tables : empty = NoWindows
    BY EmptyTable
  <2>2. PICK M : M = [lease EXCEPT !.sequence = n, !.pending = TRUE, !.snapshot = empty]
    OBVIOUS
  <2>3. /\ M \in LeaseRecord /\ M.sequence = lease.sequence + 1
        /\ M.windows = lease.windows /\ M.snapshot = NoWindows
    BY <1>2, <1>3, <2>1, <2>2 DEF LeaseRecord
  <2>4. M = [[lease EXCEPT !.sequence = @ + 1] EXCEPT !.pending = TRUE,
                                                      !.snapshot = NoWindows]
    BY <1>2, <1>3, <2>1, <2>2 DEF LeaseRecord
  <2>5. Emit(M, Numbered(e))
    BY <2>4, <1>6 DEF StateWindowApply
  <2>6. Told(lease, [Numbered(e) EXCEPT !.sequence = M.sequence], M)
    BY <1>4, <1>6, <2>3 DEF Told
  <2> QED BY <1>1, <2>3, <2>5, <2>6, EmitFollows
<1>7. CASE e.kind \in {"item", "end"} /\ ~lease.pending
  <2>1. Fail(lease)
    BY <1>7 DEF StateWindowApply
  <2> QED BY <1>2, <2>1, FailFollows
<1>8. CASE e.kind = "item" /\ lease.pending
  <2>1. PICK t \in Tables : t = [lease.snapshot EXCEPT ![e.win] = e.to]
    BY <1>1, <1>2, TableExcept
  <2>2. PICK M : M = [lease EXCEPT !.snapshot = t]
    OBVIOUS
  <2>3. /\ M \in LeaseRecord /\ M.sequence = lease.sequence
        /\ M.windows = lease.windows /\ M.snapshot = t
    BY <1>2, <2>2 DEF LeaseRecord
  <2>4. M = [lease EXCEPT !.snapshot[e.win] = e.to]
    BY <1>2, <2>1, <2>2 DEF LeaseRecord
  <2>5. Emit(M, Numbered(e))
    BY <2>4, <1>8 DEF StateWindowApply
  <2>6. Told(lease, [Numbered(e) EXCEPT !.sequence = M.sequence], M)
    BY <1>4, <1>8, <2>1, <2>3 DEF Told
  <2> QED BY <1>1, <2>3, <2>5, <2>6, EmitFollows
<1>9. CASE e.kind = "end" /\ lease.pending
  <2>1. PICK M : M = SwapSnapshot(lease)
    OBVIOUS
  <2>2. /\ M \in LeaseRecord /\ M.sequence = lease.sequence
        /\ M.windows = lease.snapshot /\ M.snapshot = NoWindows
    BY <1>2, <2>1, SwapType
  <2>3. Emit(M, Numbered(e))
    BY <2>1, <1>9 DEF StateWindowApply
  <2>4. Told(lease, [Numbered(e) EXCEPT !.sequence = M.sequence], M)
    BY <1>4, <1>9, <2>2 DEF Told
  <2> QED BY <1>1, <2>2, <2>3, <2>4, EmitFollows
<1>10. CASE e.kind \in {"changed", "destroy"}
  <2>1. PICK t \in Tables : t = [lease.windows EXCEPT ![e.win] = e.to]
    BY <1>1, <1>2, TableExcept
  <2>2. PICK M : M = [lease EXCEPT !.sequence = n, !.windows = t]
    OBVIOUS
  <2>3. /\ M \in LeaseRecord /\ M.sequence = lease.sequence + 1
        /\ M.windows = t /\ M.snapshot = lease.snapshot
    BY <1>2, <1>3, <2>2 DEF LeaseRecord
  <2>4. M = [[lease EXCEPT !.sequence = @ + 1] EXCEPT !.windows[e.win] = e.to]
    BY <1>2, <1>3, <2>1, <2>2 DEF LeaseRecord
  <2>5. UNCHANGED <<lease, socket>> \/ Emit(M, Numbered(e))
    <3>1. CASE e.kind = "destroy"
      <4>1. e.to = Absent
        BY <1>1, <3>1
      <4> QED BY <2>4, <3>1, <4>1 DEF StateWindowApply, Ignore
    <3>2. CASE e.kind = "changed"
      BY <2>4, <3>2 DEF StateWindowApply, Ignore
    <3> QED BY <1>10, <3>1, <3>2
  <2>6. Told(lease, [Numbered(e) EXCEPT !.sequence = M.sequence], M)
    BY <1>4, <1>10, <2>1, <2>3 DEF Told
  <2>7. CASE UNCHANGED <<lease, socket>>
    BY <2>7, <1>5
  <2>8. CASE Emit(M, Numbered(e))
    BY <1>1, <2>3, <2>6, <2>8, EmitFollows
  <2> QED BY <2>5, <2>7, <2>8
<1> QED BY <1>1, <1>6, <1>7, <1>8, <1>9, <1>10 DEF PipeKinds

LEMMA SourceEventInv ==
    ASSUME IInv, SourceEvent
    PROVE  IInv'
<1>1. Typed /\ Following /\ pipe \in Seq(PipeEvents) /\ pipe # <<>> /\ lease.active
  BY DEF IInv, Typed, SourceEvent
<1>2. UNCHANGED <<desktop, watch, client, app, inbox, rpc>> /\ pipe' = Tail(pipe)
  BY DEF SourceEvent, userVars
<1>3. Head(pipe) \in PipeEvents /\ pipe' \in Seq(PipeEvents)
  BY <1>1, <1>2
<1>4. lease' \in LeaseRecord /\ socket' \in Seq(Frames) /\ Following'
  <2>1. CASE lease.subscribed /\ lease.granted
    <3>1. PICK e \in PipeEvents : e = Head(pipe)
      BY <1>3
    <3>2. StateWindowApply(e)
      BY <2>1, <3>1 DEF SourceEvent
    <3> QED BY <1>1, <1>2, <3>2, ApplyFollows
  <2>2. CASE ~(lease.subscribed /\ lease.granted)
    <3>1. UNCHANGED <<lease, socket>>
      BY <2>2 DEF SourceEvent, Ignore
    <3>2. Caught' = Caught
      BY <1>2, <3>1, CaughtUnchanged
    <3> QED BY <3>1, <3>2, <1>1, <1>2 DEF Typed, Following
  <2> QED BY <2>1, <2>2
<1> QED BY <1>1, <1>2, <1>3, <1>4, LeaseSide DEF Typed

\* A bracket of the lease's own, with the table as it is.
LEMMA BracketFollows ==
    ASSUME Typed, Following, lease.active, NEW M \in LeaseRecord,
           NEW kind \in {"reset", "revoked", "granted"},
           M.windows = lease.windows, M.snapshot = lease.snapshot,
           M.sequence = IF kind = "reset" THEN lease.sequence + 1 ELSE lease.sequence,
           Emit(M, Numbered(Bracket(kind))), UNCHANGED <<client, app>>
    PROVE  lease' \in LeaseRecord /\ socket' \in Seq(Frames) /\ Following'
<1>1. PICK e : e = Bracket(kind)
  OBVIOUS
<1>2. e.kind = kind /\ e.win \in Windows /\ e.to \in Cells /\ e.kind \in EventKinds
  BY <1>1, BracketType DEF Cells, EventKinds
<1>3. [Numbered(e) EXCEPT !.sequence = M.sequence].kind = kind
  BY <1>2 DEF Numbered
<1>4. Told(lease, [Numbered(e) EXCEPT !.sequence = M.sequence], M)
  BY <1>3 DEF Told
<1> QED BY <1>1, <1>2, <1>4, EmitFollows

LEMMA SourceEndsInv ==
    ASSUME IInv, SourceEnds
    PROVE  IInv'
<1>1. Typed /\ Following /\ lease.active /\ lease \in LeaseRecord
  BY DEF IInv, Typed, SourceEnds
<1>2. UNCHANGED <<desktop, watch, pipe, client, app, inbox, rpc>>
  BY DEF SourceEnds, userVars
<1>3. lease' \in LeaseRecord /\ socket' \in Seq(Frames) /\ Following'
  <2>1. CASE lease.subscribed
    <3>1. PICK n \in Nat : n = lease.sequence + 1
      BY <1>1 DEF LeaseRecord
    <3>2. PICK M : M = [lease EXCEPT !.source = FALSE, !.sequence = n]
      OBVIOUS
    <3>3. /\ M \in LeaseRecord /\ M.windows = lease.windows
          /\ M.snapshot = lease.snapshot /\ M.sequence = lease.sequence + 1
      BY <1>1, <3>1, <3>2 DEF LeaseRecord
    <3>4. M = [[lease EXCEPT !.source = FALSE] EXCEPT !.sequence = @ + 1]
      BY <1>1, <3>1, <3>2 DEF LeaseRecord
    <3>5. [lease EXCEPT !.source = FALSE].subscribed
      BY <1>1, <2>1 DEF LeaseRecord
    <3>6. Emit(M, Numbered(Bracket("reset")))
      BY <3>4, <3>5 DEF SourceEnds
    <3> QED BY <1>1, <1>2, <3>3, <3>6, BracketFollows
  <2>2. CASE ~lease.subscribed
    <3>1. lease' = [lease EXCEPT !.source = FALSE] /\ socket' = socket
      BY <1>1, <2>2 DEF SourceEnds, LeaseRecord
    <3>2. Caught' = Caught
      BY <1>2, <3>1, CaughtUnchanged
    <3>3. /\ lease' \in LeaseRecord /\ lease'.active = lease.active
          /\ lease'.sequence = lease.sequence /\ lease'.windows = lease.windows
          /\ lease'.snapshot = lease.snapshot
      BY <1>1, <3>1 DEF LeaseRecord
    <3> QED BY <3>1, <3>2, <3>3, <1>1, <1>2 DEF Typed, Following, Agrees
  <2> QED BY <2>1, <2>2
<1> QED BY <1>1, <1>2, <1>3, LeaseSide DEF Typed

LEMMA RevokeInv ==
    ASSUME IInv, Revoke
    PROVE  IInv'
<1>1. Typed /\ Following /\ lease.active /\ lease \in LeaseRecord
  BY DEF IInv, Typed, Revoke
<1>2. UNCHANGED <<desktop, watch, pipe, client, app, inbox, rpc>>
  BY DEF Revoke, userVars
<1>3. PICK M : M = [lease EXCEPT !.granted = FALSE, !.subscribed = FALSE]
  OBVIOUS
<1>4. /\ M \in LeaseRecord /\ M.windows = lease.windows
      /\ M.snapshot = lease.snapshot /\ M.sequence = lease.sequence
  BY <1>1, <1>3 DEF LeaseRecord
<1>5. Emit(M, Numbered(Bracket("revoked")))
  BY <1>3 DEF Revoke
<1>6. lease' \in LeaseRecord /\ socket' \in Seq(Frames) /\ Following'
  BY <1>1, <1>2, <1>4, <1>5, BracketFollows
<1> QED BY <1>1, <1>2, <1>6, LeaseSide DEF Typed

LEMMA RegrantInv ==
    ASSUME IInv, Regrant
    PROVE  IInv'
<1>1. Typed /\ Following /\ lease.active /\ lease \in LeaseRecord
  BY DEF IInv, Typed, Regrant
<1>2. UNCHANGED <<desktop, watch, pipe, client, app, inbox, rpc>>
  BY DEF Regrant, userVars
<1>3. PICK M : M = [lease EXCEPT !.granted = TRUE]
  OBVIOUS
<1>4. /\ M \in LeaseRecord /\ M.windows = lease.windows
      /\ M.snapshot = lease.snapshot /\ M.sequence = lease.sequence
  BY <1>1, <1>3 DEF LeaseRecord
<1>5. Emit(M, Numbered(Bracket("granted")))
  BY <1>3 DEF Regrant
<1>6. lease' \in LeaseRecord /\ socket' \in Seq(Frames) /\ Following'
  BY <1>1, <1>2, <1>4, <1>5, BracketFollows
<1> QED BY <1>1, <1>2, <1>6, LeaseSide DEF Typed

LEMMA LeaseEndsInv ==
    ASSUME IInv, LeaseEnds
    PROVE  IInv'
<1>1. Typed /\ Following /\ lease \in LeaseRecord
  BY DEF IInv, Typed
<1>2. UNCHANGED <<desktop, socket, client, app, inbox, rpc>>
  BY DEF LeaseEnds, userVars
<1>3. lease' = [lease EXCEPT !.active = FALSE, !.granted = FALSE, !.source = FALSE]
  BY DEF LeaseEnds
<1>4. lease' \in LeaseRecord /\ lease'.active = FALSE
  BY <1>1, <1>3 DEF LeaseRecord
<1>5. Caught' = Caught
  BY <1>2, CaughtUnchanged
<1>6. Following'
  BY <1>1, <1>2, <1>4, <1>5 DEF Following, Agrees
<1>7. watch' \in WatchRecord /\ pipe' \in Seq(PipeEvents)
  <2>1. watch' \in WatchRecord
    BY <1>1, IdleType DEF LeaseEnds
  <2>2. pipe' = <<>>
    BY DEF LeaseEnds
  <2>3. <<>> \in Seq(PipeEvents)
    OBVIOUS
  <2> QED BY <2>1, <2>2, <2>3
<1> QED BY <1>1, <1>2, <1>4, <1>6, <1>7, LeaseSide DEF Typed

LEMMA SubscribeDeniedInv ==
    ASSUME IInv, SubscribeDenied
    PROVE  IInv'
<1>1. Typed /\ Following /\ lease \in LeaseRecord /\ "subscribe" \in Calls
  BY DEF IInv, Typed, Calls
<1>2. /\ UNCHANGED <<desktop, watch, pipe, client, app, rpc>> /\ inbox' = "none"
      /\ Respond(lease, "subscribe")
  BY DEF SubscribeDenied
<1>3. lease' \in LeaseRecord /\ socket' \in Seq(Frames) /\ Following'
  BY <1>1, <1>2, RespondFollows
<1> QED BY <1>1, <1>2, <1>3, LeaseSide DEF Typed, Calls

\* What Subscribe and SubscribeUnavailable have in common.
LEMMA SubscribeSide ==
    ASSUME IInv, NEW M \in LeaseRecord, M.active => lease.active,
           M.sequence = lease.sequence, M.windows = lease.windows,
           M.snapshot = lease.snapshot, Respond(M, "subscribe"),
           UNCHANGED <<desktop, client, app, rpc>>, inbox' = "none",
           pipe' = <<>>, watch' \in WatchRecord
    PROVE  IInv'
<1>1. Typed /\ Following /\ "subscribe" \in Calls /\ "none" \in Calls
  BY DEF IInv, Calls
<1>2. lease' \in LeaseRecord /\ socket' \in Seq(Frames) /\ Following'
  BY <1>1, RespondFollows
<1>3. pipe' \in Seq(PipeEvents)
  <2>1. <<>> \in Seq(PipeEvents)
    OBVIOUS
  <2> QED BY <2>1
<1> QED BY <1>1, <1>2, <1>3, LeaseSide DEF Typed

LEMMA SubscribeInv ==
    ASSUME IInv, Subscribe
    PROVE  IInv'
<1>1. Typed /\ lease \in LeaseRecord /\ lease.active
  BY DEF IInv, Typed, Subscribe
<1>2. PICK M : M = [lease EXCEPT !.subscribed = TRUE, !.pending = TRUE, !.source = TRUE]
  OBVIOUS
<1>3. /\ M \in LeaseRecord /\ M.windows = lease.windows
      /\ M.snapshot = lease.snapshot /\ M.sequence = lease.sequence
  BY <1>1, <1>2 DEF LeaseRecord
<1>4. /\ UNCHANGED <<desktop, client, app, rpc>> /\ inbox' = "none" /\ pipe' = <<>>
      /\ Respond(M, "subscribe") /\ watch' = Restarted
  BY <1>2 DEF Subscribe
<1>5. watch' \in WatchRecord
  BY <1>1, <1>4, IdleType
<1> QED BY <1>1, <1>3, <1>4, <1>5, SubscribeSide

LEMMA SubscribeUnavailableInv ==
    ASSUME IInv, SubscribeUnavailable
    PROVE  IInv'
<1>1. Typed /\ lease \in LeaseRecord /\ lease.active
  BY DEF IInv, Typed, SubscribeUnavailable
<1>2. PICK M : M = [lease EXCEPT !.active = FALSE, !.granted = FALSE, !.source = FALSE]
  OBVIOUS
<1>3. /\ M \in LeaseRecord /\ M.windows = lease.windows
      /\ M.snapshot = lease.snapshot /\ M.sequence = lease.sequence
  BY <1>1, <1>2 DEF LeaseRecord
<1>4. /\ UNCHANGED <<desktop, client, app, rpc>> /\ inbox' = "none" /\ pipe' = <<>>
      /\ Respond(M, "subscribe") /\ watch' = [Idle EXCEPT !.kind = watch.kind]
  BY <1>2 DEF SubscribeUnavailable
<1>5. watch' \in WatchRecord
  BY <1>1, <1>4, IdleType
<1> QED BY <1>1, <1>3, <1>4, <1>5, SubscribeSide
-----------------------------------------------------------------------------
(* The client library and the application. *)

\* What is left when an action keeps the lease.
LEMMA ClientSide ==
    ASSUME IInv, UNCHANGED <<desktop, watch, pipe, lease, rpc>>,
           client' \in ClientRecord, socket' \in Seq(Frames), inbox' \in Calls,
           Following', Signalled'
    PROVE  IInv'
BY DEF IInv, Typed

\* system_failure: nothing is promised of a closed connection but its wakeup.
LEMMA FailureInv ==
    ASSUME IInv, UNCHANGED <<desktop, watch, pipe, lease, rpc, inbox>>,
           client' = SystemFailure(client), socket' = <<>>
    PROVE  IInv'
<1>1. client \in ClientRecord /\ inbox \in Calls
  BY DEF IInv, Typed
<1>2. client' = [client EXCEPT !.open = FALSE, !.waiting = "none", !.signalled = TRUE]
  BY DEF SystemFailure
<1>3. client' \in ClientRecord /\ client'.open = FALSE /\ client'.signalled = TRUE
  BY <1>1, <1>2 DEF ClientRecord, Calls
<1>4. socket' \in Seq(Frames)
  <2>1. <<>> \in Seq(Frames)
    OBVIOUS
  <2> QED BY <2>1
<1>5. Following' /\ Signalled'
  BY <1>3 DEF Following, Signalled
<1> QED BY <1>1, <1>3, <1>4, <1>5, ClientSide

LEMMA StateSubscribeInv ==
    ASSUME IInv, StateSubscribe
    PROVE  IInv'
<1>1. client \in ClientRecord /\ socket \in Seq(Frames)
  BY DEF IInv, Typed
<1>2. client' = [client EXCEPT !.waiting = "subscribe"] /\ inbox' = "subscribe"
  BY DEF StateSubscribe, SendRequest
<1>3. UNCHANGED <<desktop, watch, pipe, lease, socket, app, rpc>>
  BY DEF StateSubscribe
<1>4. /\ client' \in ClientRecord /\ client'.open = client.open
      /\ client'.queue = client.queue /\ client'.signalled = client.signalled
  BY <1>1, <1>2 DEF ClientRecord, Calls
<1>5. Caught' = Caught
  BY <1>3, <1>4 DEF Caught
<1>6. Following' /\ Signalled'
  BY <1>3, <1>4, <1>5 DEF IInv, Following, Signalled
<1>7. socket' \in Seq(Frames) /\ inbox' \in Calls
  BY <1>1, <1>2, <1>3 DEF Calls
<1> QED BY <1>3, <1>4, <1>6, <1>7, ClientSide

\* The first frame of the socket.
LEMMA SocketHead ==
    ASSUME Typed, socket # <<>>
    PROVE  /\ Head(socket) \in Frames /\ Tail(socket) \in Seq(Frames)
           /\ Head(socket).kind # "response" => Head(socket) \in EventFrames
           /\ \A b : Heard(b, socket) = Heard(Hear(b, Head(socket)), Tail(socket))
<1>1. socket \in Seq(Frames)
  BY DEF Typed
<1>2. Head(socket) \in Frames /\ Tail(socket) \in Seq(Frames)
  BY <1>1
<1>3. Head(socket).kind # "response" => Head(socket) \in EventFrames
  BY <1>2 DEF Frames
<1>4. ASSUME NEW b
      PROVE  Heard(b, socket) = Heard(Hear(b, Head(socket)), Tail(socket))
  BY <1>1, HeardHead
<1> QED BY <1>2, <1>3, <1>4

LEMMA ReadFrameInv ==
    ASSUME IInv, ReadFrame
    PROVE  IInv'
<1>1. /\ Typed /\ client \in ClientRecord /\ client.open /\ socket # <<>>
      /\ client.queue \in Seq(EventFrames) /\ inbox \in Calls
  BY DEF IInv, Typed, ReadFrame, ClientRecord
<1>2. UNCHANGED <<desktop, watch, pipe, lease, app, inbox, rpc>>
  BY DEF ReadFrame
<1>3. PICK f, rest : f = Head(socket) /\ rest = Tail(socket)
  OBVIOUS
<1>4. /\ f \in Frames /\ rest \in Seq(Frames)
      /\ f.kind # "response" => f \in EventFrames
  BY <1>1, <1>3, SocketHead
<1>5. ASSUME NEW b
      PROVE  Heard(b, socket) = Heard(Hear(b, f), rest)
  BY <1>1, <1>3, SocketHead
<1>6. client' = ReadResponse(client, f) /\ socket' = IF client'.open THEN rest ELSE <<>>
  BY <1>3 DEF ReadFrame, Received
<1>7. CASE client' = SystemFailure(client)
  <2>1. client'.open = FALSE
    BY <1>1, <1>7 DEF SystemFailure, ClientRecord
  <2>2. socket' = <<>>
    BY <1>6, <2>1
  <2> QED BY <1>2, <1>7, <2>2, FailureInv
<1>8. CASE f.kind = "response" /\ client' # SystemFailure(client)
  <2>1. client' = [client EXCEPT !.waiting = "none"]
    BY <1>6, <1>8 DEF ReadResponse
  <2>2. /\ client' \in ClientRecord /\ client'.open /\ client'.queue = client.queue
        /\ client'.signalled = client.signalled
    BY <1>1, <2>1 DEF ClientRecord, Calls
  <2>3. socket' = rest
    BY <1>6, <2>2
  <2>4. Caught' = Caught
    <3>1. PICK b : b = Heard(app, client.queue)
      OBVIOUS
    <3>2. Caught' = Heard(b, rest)
      BY <3>1, <2>2, <2>3, <1>2 DEF Caught
    <3>3. Caught = Heard(Hear(b, f), rest)
      BY <3>1, <1>5 DEF Caught
    <3>4. Hear(b, f) = b
      BY <1>8 DEF Hear
    <3> QED BY <3>2, <3>3, <3>4
  <2>5. Following' /\ Signalled'
    BY <1>1, <1>2, <2>2, <2>4 DEF IInv, Following, Signalled
  <2> QED BY <1>1, <1>2, <1>4, <2>2, <2>3, <2>5, ClientSide
<1>9. CASE f.kind # "response" /\ client' # SystemFailure(client)
  <2>1. PICK q \in Seq(EventFrames) : q = Append(client.queue, f)
    <3>1. Append(client.queue, f) \in Seq(EventFrames)
      BY <1>1, <1>4, <1>9
    <3> QED BY <3>1, Zenon
  <2>2. client' = [client EXCEPT !.queue = q, !.signalled = TRUE]
    BY <1>6, <1>9, <2>1 DEF ReadResponse, QueueEvent
  <2>3. /\ client' \in ClientRecord /\ client'.open /\ client'.queue = q
        /\ client'.signalled
    BY <1>1, <2>2 DEF ClientRecord
  <2>4. socket' = rest
    BY <1>6, <2>3
  <2>5. Caught' = Caught
    <3>1. PICK b : b = Heard(app, client.queue)
      OBVIOUS
    <3>2. f \in EventFrames
      BY <1>4, <1>9
    <3>3. Heard(app, q) = Hear(b, f)
      BY <3>1, <3>2, <1>1, <2>1, HeardAppend
    <3>4. Caught' = Heard(Hear(b, f), rest)
      BY <3>3, <2>3, <2>4, <1>2 DEF Caught
    <3>5. Caught = Heard(Hear(b, f), rest)
      BY <3>1, <1>5 DEF Caught
    <3> QED BY <3>4, <3>5
  <2>6. q # <<>>
    BY <1>1, <1>4, <1>9, <2>1
  <2>7. Following' /\ Signalled'
    BY <1>1, <1>2, <2>3, <2>5, <2>6 DEF IInv, Following, Signalled
  <2> QED BY <1>1, <1>2, <1>4, <2>3, <2>4, <2>7, ClientSide
<1> QED BY <1>7, <1>8, <1>9

LEMMA NextQueuedInv ==
    ASSUME IInv, NextQueued
    PROVE  IInv'
<1>1. /\ client \in ClientRecord /\ client.queue \in Seq(EventFrames)
      /\ client.queue # <<>> /\ socket \in Seq(Frames) /\ inbox \in Calls
  BY DEF IInv, Typed, NextQueued, ClientRecord
<1>2. UNCHANGED <<desktop, watch, pipe, lease, socket, inbox, rpc>>
  BY DEF NextQueued
<1>3. PICK e \in EventFrames, q \in Seq(EventFrames) :
         e = Head(client.queue) /\ q = Tail(client.queue)
  <2>1. Head(client.queue) \in EventFrames /\ Tail(client.queue) \in Seq(EventFrames)
    BY <1>1
  <2> QED BY <2>1, Zenon
<1>4. Heard(app, client.queue) = Heard(Hear(app, e), q)
  BY <1>1, <1>3, HeardHead
<1>5. app' = Hear(app, e)
  BY <1>3 DEF NextQueued, Hear, EventFrames, EventKinds, PipeKinds
<1>6. client.signalled
  BY <1>1 DEF IInv, Signalled
<1>7. client' = [client EXCEPT !.queue = q,
                    !.signalled = Len(client.queue) > 1 \/ ~client.open]
  BY <1>1, <1>3, <1>6 DEF NextQueued, TakeEvent, ClientRecord
<1>8. /\ client' \in ClientRecord /\ client'.open = client.open /\ client'.queue = q
      /\ client'.signalled <=> (Len(client.queue) > 1 \/ ~client.open)
  BY <1>1, <1>7 DEF ClientRecord
<1>9. q # <<>> <=> Len(client.queue) > 1
  BY <1>1, <1>3
<1>10. Caught' = Caught
  BY <1>2, <1>4, <1>5, <1>8 DEF Caught
<1>11. Following' /\ Signalled'
  BY <1>2, <1>8, <1>9, <1>10 DEF IInv, Following, Signalled
<1> QED BY <1>1, <1>2, <1>8, <1>11, ClientSide

LEMMA NextReadInv ==
    ASSUME IInv, NextRead
    PROVE  IInv'
<1>1. /\ Typed /\ client \in ClientRecord /\ client.open /\ socket # <<>>
      /\ client.queue = <<>> /\ inbox \in Calls
  BY DEF IInv, Typed, NextRead
<1>2. UNCHANGED <<desktop, watch, pipe, lease, inbox, rpc>>
  BY DEF NextRead
<1>3. PICK f, rest : f = Head(socket) /\ rest = Tail(socket)
  OBVIOUS
<1>4. f \in Frames /\ rest \in Seq(Frames)
  BY <1>1, <1>3, SocketHead
<1>5. client' = ReadEvent(client, f) /\ socket' = IF client'.open THEN rest ELSE <<>>
  BY <1>3 DEF NextRead, Received
<1>6. CASE f.kind = "response"
  <2>1. client' = SystemFailure(client) /\ client'.open = FALSE
    BY <1>1, <1>5, <1>6 DEF ReadEvent, SystemFailure, ClientRecord
  <2>2. socket' = <<>>
    BY <1>5, <2>1
  <2> QED BY <1>2, <2>1, <2>2, FailureInv
<1>7. CASE f.kind # "response"
  <2>1. client' = client /\ socket' = rest
    BY <1>1, <1>5, <1>7 DEF ReadEvent
  <2>2. app' = Hear(app, f)
    BY <1>1, <1>3, <1>7, <2>1 DEF NextRead, Hear
  <2>3. Caught' = Caught
    <3>1. Heard(app, client.queue) = app /\ Heard(app', client.queue) = app'
      BY <1>1, HeardEmpty
    <3>2. Heard(app, socket) = Heard(Hear(app, f), rest)
      BY <1>1, <1>3, SocketHead
    <3>3. Caught' = Heard(app', rest)
      BY <3>1, <2>1 DEF Caught
    <3>4. Caught = Heard(app, socket)
      BY <3>1 DEF Caught
    <3> QED BY <3>2, <3>3, <3>4, <2>2
  <2>4. Following' /\ Signalled'
    BY <1>2, <2>1, <2>3 DEF IInv, Following, Signalled
  <2> QED BY <1>1, <1>2, <1>4, <2>1, <2>4, ClientSide
<1> QED BY <1>6, <1>7

LEMMA ClientFailsInv ==
    ASSUME IInv, ClientFails
    PROVE  IInv'
BY FailureInv DEF ClientFails

-----------------------------------------------------------------------------
(* The theorems. *)

LEMMA InitInv == Init => IInv
<1> SUFFICES ASSUME Init
             PROVE  IInv
  OBVIOUS
<1>1. desktop \in Tables
  <2>1. (CHOOSE c \in Contents : TRUE) \in Contents
    BY StreamConstants
  <2> QED BY <2>1 DEF Init, Tables
<1>2. watch \in WatchRecord
  <2>1. PICK k \in Watches : watch = [Idle EXCEPT !.kind = k]
    BY DEF Init
  <2>2. k \in {"sampled", "native", "x11"}
    BY StreamConstants
  <2>3. <<>> \in Seq(Notices)
    OBVIOUS
  <2>4. PICK none \in Seq(Notices), empty \in Tables : none = <<>> /\ empty = NoWindows
    BY <2>3, EmptyTable, Zenon
  <2>5. watch = [pc |-> "off", kind |-> k, known |-> empty, notices |-> none,
                 dirty |-> FALSE, poked |-> FALSE, owed |-> FALSE, failures |-> 0]
    BY <2>1, <2>4 DEF Idle
  <2> QED BY <2>2, <2>5 DEF WatchRecord
<1>3. pipe \in Seq(PipeEvents) /\ socket \in Seq(Frames) /\ inbox \in Calls
  <2>1. pipe = <<>> /\ socket = <<>> /\ inbox = "subscribe"
    BY DEF Init
  <2>2. <<>> \in Seq(PipeEvents) /\ <<>> \in Seq(Frames)
    OBVIOUS
  <2> QED BY <2>1, <2>2 DEF Calls
<1>4. lease = NewLease /\ NewLease \in LeaseRecord
  <2>1. PICK empty \in Tables : empty = NoWindows
    BY EmptyTable
  <2> QED BY <2>1 DEF Init, NewLease, LeaseRecord
<1>5. /\ client \in ClientRecord /\ client.queue = <<>> /\ client.open
      /\ ~client.signalled
  <2>1. <<>> \in Seq(EventFrames)
    OBVIOUS
  <2>2. PICK none \in Seq(EventFrames) : none = <<>>
    BY <2>1, Zenon
  <2>3. client = [open |-> TRUE, queue |-> none, signalled |-> FALSE,
                  waiting |-> "subscribe"]
    BY <2>2 DEF Init, NewConnection, SendRequest
  <2> QED BY <2>2, <2>3 DEF ClientRecord, Calls
<1>6. rpc \in RpcRecord
  <2>1. (CHOOSE r \in Requests : TRUE) \in Requests
    BY StreamConstants
  <2> QED BY <2>1 DEF Init, NoOperation, RpcRecord, Cells
<1>7. Caught = NoMirror
  <2>1. app = NoMirror /\ socket = <<>> /\ client.queue = <<>>
    BY <1>5 DEF Init
  <2> QED BY <2>1, HeardEmpty DEF Caught
<1>8. Agrees(NoMirror, NewLease)
  <2>1. PICK empty \in Tables : empty = NoWindows
    BY EmptyTable
  <2> QED BY <2>1 DEF Agrees, NoMirror, NewLease, MirrorRecord
<1> QED BY <1>1, <1>2, <1>3, <1>4, <1>5, <1>6, <1>7, <1>8
        DEF IInv, Typed, Following, Signalled

LEMMA StutterInv == IInv /\ UNCHANGED vars => IInv'
<1> SUFFICES ASSUME IInv, UNCHANGED vars
             PROVE  IInv'
  OBVIOUS
<1>1. Typed
  BY DEF IInv
<1> QED BY <1>1, Untouched DEF vars, Typed

LEMMA NextInv == IInv /\ [Next]_vars => IInv'
<1> SUFFICES ASSUME IInv, [Next]_vars
             PROVE  IInv'
  OBVIOUS
<1>1. CASE \E w \in Windows, to \in Contents \cup {Absent} : DesktopChange(w, to)
  BY <1>1, DesktopChangeInv
<1>2. CASE WatchStep
  BY <1>2, WatchStartInv, LateAnswerInv, HandleEventInv, RestackedInv, WatchEndsInv,
     WatchRefreshInv, RefreshFailsInv DEF WatchStep
<1>3. CASE LeaseStep
  BY <1>3, SourceEventInv, SourceEndsInv, RevokeInv, RegrantInv, LeaseEndsInv,
     SubscribeDeniedInv, SubscribeInv, SubscribeUnavailableInv DEF LeaseStep
<1>4. CASE ClientStep
  BY <1>4, StateSubscribeInv, ReadFrameInv, NextQueuedInv, NextReadInv, ClientFailsInv
     DEF ClientStep
<1>5. CASE OperationStep
  BY <1>5, OpBeginInv, OpExecuteInv, SyncBeginsInv, OpPokeInv, OperationSyncInv, OpReturnInv
     DEF OperationStep
<1>6. CASE \E w \in Windows : Unlist(w) \/ Relist(w)
  BY <1>6, UnlistInv
<1>7. CASE UNCHANGED vars
  BY <1>7, StutterInv
<1> QED BY <1>1, <1>2, <1>3, <1>4, <1>5, <1>6, <1>7 DEF Next

\* The invariant the other theorems rest on: frames and records are well-formed,
\* a mirror that has heard all that is underway agrees with the table, down to
\* the half of a snapshot, and the eventfd stands for the queue.
THEOREM InductiveCorrect == Spec => []IInv
BY InitInv, NextInv, PTL DEF Spec

\* No event is lost, duplicated or reordered between state_window_apply and the
\* application, through the socket and the client library's queue.
THEOREM MirrorCorrect == Spec => []MirrorFollowsTable
<1>1. IInv => MirrorFollowsTable
  BY DEF IInv, Following, Agrees, MirrorFollowsTable
<1> QED BY <1>1, InductiveCorrect, PTL

\* The poll descriptor is readable exactly when ksd_state_next has something to
\* report.
THEOREM PollCorrect == Spec => []PollIsExact
<1>1. IInv => PollIsExact
  BY DEF IInv, Typed, ClientRecord, LeaseRecord, Signalled, PollIsExact, Readable
<1> QED BY <1>1, InductiveCorrect, PTL

\* operation_sync: who has applied the events up to the sequence number that a
\* window operation returned sees its effect.
THEOREM FenceCorrect == Spec => SequenceIsFence
<1> DEFINE Fence == rpc.pc = "syncing" /\ rpc'.pc = "ok" /\ rpc'.effective # 0
                      /\ client.open
       => /\ Caught.sequence = rpc'.effective
          /\ Observed(rpc.request, rpc.before, Caught.windows[rpc.request.win])
<1>1. IInv /\ [Next]_vars => [Fence]_vars
  <2> SUFFICES ASSUME IInv, Next, rpc.pc = "syncing", rpc'.pc = "ok",
                      rpc'.effective # 0, client.open
               PROVE  /\ Caught.sequence = rpc'.effective
                      /\ Observed(rpc.request, rpc.before,
                                  Caught.windows[rpc.request.win])
    OBVIOUS
  <2>1. OperationSync
    <3>1. rpc' # rpc
      BY Zenon
    <3>2. ~WatchStep /\ ~LeaseStep /\ ~ClientStep
      BY <3>1 DEF WatchStep, WatchStart, LateAnswer, HandleEvent, Restacked,
         WatchEnds, WatchRefresh, RefreshFails, LeaseStep, SourceEvent, SourceEnds,
         Revoke, Regrant, LeaseEnds, SubscribeDenied, Subscribe,
         SubscribeUnavailable, ClientStep, StateSubscribe, ReadFrame, NextQueued,
         NextRead, ClientFails, userVars
    <3>3. ~(\E w \in Windows, to \in Contents \cup {Absent} : DesktopChange(w, to))
      BY <3>1 DEF DesktopChange, userVars
    <3>4. ~(\E w \in Windows : Unlist(w) \/ Relist(w))
      BY <3>1 DEF Unlist, Relist, userVars
    <3>5. ~(\E req \in Requests : OpBegin(req)) /\ ~OpExecute /\ ~SyncBegins
          /\ ~OpPoke /\ ~OpReturn
      BY <3>1 DEF OpBegin, OpExecute, SyncBegins, OpPoke, OpReturn, userVars
    <3> QED BY <3>2, <3>3, <3>4, <3>5 DEF Next, OperationStep
  <2>2. rpc \in RpcRecord
    BY DEF IInv, Typed
  <2>3. ASSUME NEW verdict, NEW n, OpDone(verdict, n)
        PROVE  rpc'.effective = n
    BY <2>2, <2>3 DEF OpDone, RpcRecord
  <2>4. lease.active /\ Seen /\ rpc'.effective = lease.sequence
    BY <2>1, <2>3 DEF OperationSync
  <2>5. Caught.sequence = lease.sequence /\ Caught.windows = lease.windows
    BY <2>4 DEF IInv, Following, Agrees
  <2> QED BY <2>4, <2>5 DEF Seen, InTable
<1> QED BY <1>1, InductiveCorrect, PTL DEF Spec, SequenceIsFence
=============================================================================
