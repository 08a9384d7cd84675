------------------------- MODULE KwinChannelProofs -------------------------
(***************************************************************************)
(* Proofs about the KWin channel, for any requests and lanes, any queue    *)
(* and any number of faults.                                               *)
(***************************************************************************)
EXTENDS KwinChannel, FiniteSetTheorems, TLAPS

-----------------------------------------------------------------------------
(* The invariant *)

\* The types, with the two queues of messages as sequences.
Typed == TypeOK /\ toDaemon \in Seq(CallMessage) /\ toScript \in Seq(ReplyMessage)

Used(js) == {s \in Slots : js[s].state # "FREE"}

\* Jobs are of requests that have been read, numbered in their order.
JobsOK(js, nx, st) ==
    /\ js \in [Slots -> JobRecord]
    /\ \A s \in Used(js) :
        /\ js[s].of \in 1..st /\ js[s].lane = LaneOf[js[s].of] /\ js[s].seq < nx
        /\ js[s].state = "DONE" => js[s].reply = js[s].of
    /\ \A s, t \in Used(js) :
        /\ js[s].seq = js[t].seq => s = t
        /\ js[s].seq < js[t].seq <=> js[s].of < js[t].of

\* Jobs and entries of the bus table belong together, one to one.
EntriesOK(js, entries) ==
    /\ \A s \in Slots : entries[s].active =>
        \E t \in Used(js) : js[t].seq = entries[s].seq /\ js[t].of = entries[s].request
    /\ \A s, t \in Slots :
        entries[s].active /\ entries[t].active /\ entries[s].seq = entries[t].seq => s = t
    /\ \A t \in Used(js) : \E s \in Slots : entries[s].active /\ entries[s].seq = js[t].seq

\* A sequence that was handed out belongs to this request, or to nobody now.
Handed(js, nx, q, r) ==
    q < nx /\ \A s \in Used(js) : js[s].seq = q => js[s].state # "QUEUED" /\ js[s].of = r

\* The operations that have started, those on their way to the script and
\* those that wait.  Nothing else will ever start.
Started == Range(ran)
Names(m) == {m.batch[k].of : k \in DOMAIN m.batch}
OffersIn(ms) == UNION {Names(m) : m \in Range(ms)}
Offers == OffersIn(toScript)
WaitingIn(js) == {js[s].of : s \in {t \in Slots : js[t].state = "QUEUED"}}
Waiting == WaitingIn(jobs)
Live == Started \cup Offers \cup Waiting

\* On each lane, all of A comes before all of B.
Before(A, B) == \A x \in A, y \in B : LaneOf[x] = LaneOf[y] => x < y

BatchesInOrder(ms) == \A i, j \in DOMAIN ms : i < j => Before(Names(ms[i]), Names(ms[j]))

Ordered ==
    /\ \A i, j \in DOMAIN ran : i < j /\ LaneOf[ran[i]] = LaneOf[ran[j]] => ran[i] < ran[j]
    /\ BatchesInOrder(toScript)
    /\ Before(Started, Offers) /\ Before(Started, Waiting) /\ Before(Offers, Waiting)
    /\ Started \subseteq 1..sent

\* What a status says about an operation: BUSY that it never starts.
Outcome(r, status) ==
    /\ status \in {"OK", "FAILED", "BUSY"}
    /\ status = "BUSY" => r \notin Live
    /\ status # "BUSY" => r \in Started

OfferOK(m) ==
    /\ m.gen <= daemon.gen
    /\ m.kind # "Batch" => m.batch = <<>>
    /\ \A k \in DOMAIN m.batch :
        /\ m.batch[k].of \in 1..sent /\ LaneOf[m.batch[k].of] = m.lane
        /\ \A n \in DOMAIN m.batch : k < n => m.batch[k].of < m.batch[n].of
        /\ m.gen = daemon.gen => Handed(jobs, next, m.batch[k].seq, m.batch[k].of)

ReportOK(m) ==
    /\ m.gen <= daemon.gen
    /\ m.kind # "Report" => m.results = <<>>
    /\ \A k \in DOMAIN m.results :
        /\ m.results[k].of \in 1..sent
        /\ m.gen = daemon.gen => Handed(jobs, next, m.results[k].seq, m.results[k].of)
        /\ Outcome(m.results[k].of, m.results[k].status)

Messages ==
    /\ \A m \in Range(toScript) : OfferOK(m)
    /\ \A m \in Range(toDaemon) : ReportOK(m)
    /\ script.gen <= daemon.gen

\* One answer at most, which is true, and none while an entry waits for it.
AnswerOK(r) ==
    /\ Len(answers[r]) <= 1
    /\ answers[r] # <<>> => r <= sent
    /\ \A s \in Slots : inflight[s].active /\ inflight[s].request = r => answers[r] = <<>>
    /\ \A a \in AnswersOf(r) :
        /\ a.status = "BUSY" => r \notin Live
        /\ a.status \in {"OK", "FAILED", "INTERNAL"} => a.of = r /\ r \in Started

Truth ==
    /\ \A s \in Slots : jobs[s].state = "DONE" => Outcome(jobs[s].of, jobs[s].status)
    /\ \A r \in Requests : AnswerOK(r)

\* Without a fault there is one load of the script, one generation and one
\* compositor, and the calls and replies are between them.
Calm ==
    /\ daemon.up /\ relay /\ kwin = daemon.peer
    /\ ~daemon.named => toDaemon = <<>> /\ toScript = <<>> /\ \A l \in Lanes : parked[l] = NoPoll
    /\ \A m \in Range(toDaemon) :
        /\ m.from = kwin /\ m.load = script.load
        /\ m.kind # "Hello" => m.gen = daemon.gen /\ script.running
    /\ \A m \in Range(toScript) :
        m.gen = daemon.gen /\ (m.kind # "Hello" => script.running)
    /\ \A l \in Lanes : parked[l] # NoPoll => parked[l] = script.load /\ script.running
    /\ script.running => script.gen = daemon.gen

Carried(m) == {m.batch[i].seq : i \in DOMAIN m.batch}
CarriedIn(ms) == UNION {Carried(m) : m \in Range(ms)}
CarriedOnce(ms) == \A i, j \in DOMAIN ms : i # j => Carried(ms[i]) \cap Carried(ms[j]) = {}

Reported(m) == {m.results[i].seq : i \in DOMAIN m.results}
ReportedIn(ms) == UNION {Reported(m) : m \in Range(ms)}
ReportedOnce(ms) == \A i, j \in DOMAIN ms : i # j => Reported(ms[i]) \cap Reported(ms[j]) = {}

DispatchedIn(js) == {js[s].seq : s \in {t \in Slots : js[t].state = "DISPATCHED"}}

\* Without a fault every job that is handed out is in one message, once.
Held ==
    /\ DispatchedIn(jobs) = CarriedIn(toScript) \cup ReportedIn(toDaemon)
    /\ CarriedIn(toScript) \cap ReportedIn(toDaemon) = {}
    /\ CarriedOnce(toScript) /\ ReportedOnce(toDaemon)

\* The queue goes with its daemon.
Down == ~daemon.up => Used(jobs) = {}

\* Only a script that was loaded calls, and it alone is called back.
Loaded ==
    /\ toScript # <<>> => script.load # 0
    /\ \A m \in Range(toDaemon) : m.load # 0

\* The inductive invariant.
IInv ==
    /\ Typed /\ JobsOK(jobs, next, sent) /\ EntriesOK(jobs, inflight)
    /\ Down /\ Loaded /\ ParkedLaneIsIdle /\ Ordered /\ Messages /\ Truth
    /\ faults = 0 => Calm /\ Held

-----------------------------------------------------------------------------
(* Sequences, and numbers in ascending order *)

LEMMA RangeOfAppend ==
    ASSUME NEW S, NEW q \in Seq(S), NEW x \in S
    PROVE  Append(q, x) \in Seq(S) /\ Range(Append(q, x)) = Range(q) \cup {x}
<1>1. /\ Len(q) \in Nat /\ DOMAIN q = 1..Len(q) /\ Append(q, x) \in Seq(S)
      /\ DOMAIN Append(q, x) = 1..(Len(q) + 1)
      /\ \A i \in 1..Len(q) : Append(q, x)[i] = q[i]
      /\ Append(q, x)[Len(q) + 1] = x
  OBVIOUS
<1>. QED  BY <1>1 DEF Range

LEMMA RangeOfTail ==
    ASSUME NEW S, NEW q \in Seq(S), q # <<>>
    PROVE  /\ Tail(q) \in Seq(S) /\ Head(q) \in S
           /\ Range(q) = {Head(q)} \cup Range(Tail(q))
           /\ DOMAIN q = 1..Len(q) /\ Len(q) \in Nat /\ Len(q) >= 1
           /\ DOMAIN Tail(q) = 1..(Len(q) - 1) /\ Head(q) = q[1]
           /\ \A i \in DOMAIN Tail(q) : Tail(q)[i] = q[i + 1] /\ i + 1 \in DOMAIN q
<1>1. /\ Len(q) \in Nat /\ Len(q) >= 1 /\ DOMAIN q = 1..Len(q) /\ Tail(q) \in Seq(S)
      /\ DOMAIN Tail(q) = 1..(Len(q) - 1) /\ Head(q) = q[1] /\ Head(q) \in S
      /\ \A i \in 1..(Len(q) - 1) : Tail(q)[i] = q[i + 1]
  OBVIOUS
<1>2. Range(q) \subseteq {Head(q)} \cup Range(Tail(q))
  <2>. SUFFICES ASSUME NEW i \in 1..Len(q), i # 1
                PROVE  q[i] \in Range(Tail(q))
    BY <1>1 DEF Range
  <2>1. i - 1 \in DOMAIN Tail(q) /\ Tail(q)[i - 1] = q[i]
    BY <1>1
  <2>. QED  BY <2>1 DEF Range
<1>3. {Head(q)} \cup Range(Tail(q)) \subseteq Range(q)
  BY <1>1 DEF Range
<1>. QED  BY <1>1, <1>2, <1>3

LEMMA RangeOfConcat ==
    ASSUME NEW S, NEW p \in Seq(S), NEW q \in Seq(S)
    PROVE  /\ p \o q \in Seq(S) /\ Range(p \o q) = Range(p) \cup Range(q)
           /\ DOMAIN p = 1..Len(p) /\ DOMAIN q = 1..Len(q) /\ Len(p) \in Nat /\ Len(q) \in Nat
           /\ DOMAIN (p \o q) = 1..(Len(p) + Len(q))
           /\ \A i \in 1..Len(p) : (p \o q)[i] = p[i]
           /\ \A i \in 1..Len(q) : (p \o q)[Len(p) + i] = q[i]
<1>1. /\ Len(p) \in Nat /\ Len(q) \in Nat /\ p \o q \in Seq(S)
      /\ DOMAIN p = 1..Len(p) /\ DOMAIN q = 1..Len(q)
      /\ DOMAIN (p \o q) = 1..(Len(p) + Len(q))
      /\ \A i \in 1..(Len(p) + Len(q)) :
            (p \o q)[i] = IF i <= Len(p) THEN p[i] ELSE q[i - Len(p)]
  OBVIOUS
<1>2. /\ \A i \in 1..Len(p) : (p \o q)[i] = p[i]
      /\ \A i \in 1..Len(q) : (p \o q)[Len(p) + i] = q[i]
  BY <1>1
<1>3. Range(p \o q) \subseteq Range(p) \cup Range(q)
  BY <1>1 DEF Range
<1>4. Range(p) \subseteq Range(p \o q)
  BY <1>1, <1>2 DEF Range
<1>5. Range(q) \subseteq Range(p \o q)
  <2>. SUFFICES ASSUME NEW i \in 1..Len(q)
                PROVE  q[i] \in Range(p \o q)
    BY <1>1 DEF Range
  <2>1. Len(p) + i \in DOMAIN (p \o q)
    BY <1>1
  <2>. QED  BY <1>2, <2>1 DEF Range
<1>. QED  BY <1>1, <1>2, <1>3, <1>4, <1>5

\* A larger number of a finite set has more numbers of the set below it.
LEMMA RankGrows ==
    ASSUME NEW S \in SUBSET Nat, IsFiniteSet(S), NEW i \in S, NEW k \in S, i < k
    PROVE  /\ Cardinality({j \in S : j < i}) \in Nat
           /\ Cardinality({j \in S : j < i}) < Cardinality({j \in S : j < k})
<1>1. PICK A, B : A = {j \in S : j < i} /\ B = {j \in S : j < k}
  OBVIOUS
<1>2. i \in B /\ i \notin A
  BY <1>1
<1>3. A \in SUBSET B
  <2>. SUFFICES ASSUME NEW j \in S, j < i
                PROVE  j < k
    BY <1>1
  <2>1. i \in Nat /\ j \in Nat /\ k \in Nat
    OBVIOUS
  <2>. QED  BY <2>1
<1>4. B \in SUBSET S
  BY <1>1
<1>5. IsFiniteSet(B)
  BY <1>4, FS_Subset
<1>6. /\ IsFiniteSet(A) /\ Cardinality(A) <= Cardinality(B)
      /\ Cardinality(B) = Cardinality(A) => B = A
  BY <1>3, <1>5, FS_Subset
<1>7. Cardinality(A) \in Nat /\ Cardinality(B) \in Nat
  BY <1>5, <1>6, FS_CardinalityType
<1>8. Cardinality(A) < Cardinality(B)
  BY <1>2, <1>6, <1>7
<1>. QED  BY <1>1, <1>7, <1>8

\* Every number of a finite set has its own rank in it, and every rank is one
\* number's: there are as many ranks as numbers.
LEMMA RankedOnce ==
    ASSUME NEW S \in SUBSET Nat, IsFiniteSet(S), NEW n \in 1..Cardinality(S)
    PROVE  \E i \in S : Cardinality({j \in S : j < i}) = n - 1
<1>. DEFINE smaller(i) == {j \in S : j < i}
            rank == [i \in S |-> Cardinality(smaller(i))]
            N == Cardinality(S)
<1>1. N \in Nat
  BY FS_CardinalityType
<1>2. ASSUME NEW i \in S
      PROVE  IsFiniteSet(smaller(i)) /\ rank[i] \in 0..(N - 1)
  <2>1. smaller(i) \in SUBSET S /\ i \notin smaller(i)
    OBVIOUS
  <2>2. IsFiniteSet(smaller(i)) /\ Cardinality(smaller(i)) <= N
        /\ (N = Cardinality(smaller(i)) => S = smaller(i))
    BY <2>1, FS_Subset
  <2>3. Cardinality(smaller(i)) \in Nat
    BY <2>2, FS_CardinalityType
  <2>4. Cardinality(smaller(i)) # N
    BY <2>1, <2>2
  <2>. HIDE DEF N, smaller
  <2>. QED  BY <1>1, <2>2, <2>3, <2>4
<1>3. ASSUME NEW i \in S, NEW k \in S, i < k
      PROVE  rank[i] < rank[k]
  BY <1>3, RankGrows
<1>4. \A i, k \in S : rank[i] = rank[k] => i = k
  <2>. HIDE DEF rank, smaller
  <2>. SUFFICES ASSUME NEW i \in S, NEW k \in S, rank[i] = rank[k], i # k
                PROVE  FALSE
    OBVIOUS
  <2>1. i < k \/ k < i
    OBVIOUS
  <2>2. rank[i] \in Int /\ rank[k] \in Int
    BY <1>1, <1>2
  <2>. QED  BY <1>3, <2>1, <2>2
<1>. SUFFICES ASSUME ~ \E i \in S : rank[i] = n - 1
              PROVE  FALSE
  OBVIOUS
<1>5. PICK R : R = (0..(N - 1)) \ {n - 1}
  OBVIOUS
<1>6. rank \in [S -> R]
  <2>1. \A i \in S : rank[i] \in R
    BY <1>2, <1>5
  <2>2. rank = [i \in S |-> rank[i]]
    OBVIOUS
  <2>. HIDE DEF rank
  <2>. QED  BY <2>1, <2>2
<1>7. IsFiniteSet(R) /\ Cardinality(R) < Cardinality(S)
  <2>1. N >= 1 /\ n - 1 \in 0..(N - 1)
    BY <1>1
  <2>2. IsFiniteSet(0..(N - 1)) /\ Cardinality(0..(N - 1)) = N
    <3>. HIDE DEF N
    <3>1. N - 1 \in Int /\ 0 \in Int /\ ~ (0 > N - 1) /\ (N - 1) - 0 + 1 = N
      BY <1>1, <2>1
    <3>. QED  BY <3>1, FS_Interval
  <2>3. IsFiniteSet(R) /\ Cardinality(R) = Cardinality(0..(N - 1)) - 1
    <3>. HIDE DEF N
    <3>1. PICK T, x : T = 0..(N - 1) /\ x = n - 1
      OBVIOUS
    <3>2. IsFiniteSet(T) /\ x \in T /\ R = T \ {x}
      BY <1>5, <2>1, <2>2, <3>1
    <3>3. IsFiniteSet(R) /\ Cardinality(R) = Cardinality(T) - 1
      BY <3>2, FS_RemoveElement
    <3>. QED  BY <3>1, <3>3
  <2>. QED  BY <1>1, <2>2, <2>3
<1>. HIDE DEF rank
<1>8. \E x, y \in S : x # y /\ rank[x] = rank[y]
  BY <1>6, <1>7, FS_PigeonHole
<1>. QED  BY <1>4, <1>8

\* Ascending enumerates a finite set of numbers in order.
LEMMA AscendingIs ==
    ASSUME NEW S \in SUBSET Nat, IsFiniteSet(S), NEW q, q = Ascending(S)
    PROVE  /\ q \in Seq(S) /\ DOMAIN q = 1..Cardinality(S) /\ Cardinality(S) \in Nat
           /\ \A m, n \in DOMAIN q : m < n => q[m] < q[n]
           /\ \A i \in S : \E n \in DOMAIN q : q[n] = i
           /\ Range(q) = S
<1>. DEFINE smaller(i) == {j \in S : j < i}
            N == Cardinality(S)
<1>1. N \in Nat
  BY FS_CardinalityType
<1>2. DOMAIN q = 1..N /\ \A n \in 1..N : q[n] = CHOOSE i \in S : Cardinality(smaller(i)) = n - 1
  BY DEF Ascending
<1>3. \A n \in 1..N : q[n] \in S /\ Cardinality(smaller(q[n])) = n - 1
  <2>. SUFFICES ASSUME NEW n \in 1..N
                PROVE  q[n] \in S /\ Cardinality(smaller(q[n])) = n - 1
    OBVIOUS
  <2>1. \E i \in S : Cardinality(smaller(i)) = n - 1
    BY RankedOnce
  <2>. QED  BY <1>2, <2>1
<1>4. ASSUME NEW i \in S, NEW k \in S, i < k
      PROVE  Cardinality(smaller(i)) < Cardinality(smaller(k))
  BY <1>4, RankGrows
<1>. HIDE DEF smaller, N
<1>5. ASSUME NEW m \in 1..N, NEW n \in 1..N, m < n
      PROVE  q[m] < q[n]
  <2>1. /\ q[m] \in S /\ q[n] \in S /\ q[m] \in Nat /\ q[n] \in Nat
        /\ Cardinality(smaller(q[m])) = m - 1 /\ Cardinality(smaller(q[n])) = n - 1
    BY <1>3
  <2>2. ~ (q[n] < q[m])
    <3>. SUFFICES ASSUME q[n] < q[m]
                  PROVE  FALSE
      OBVIOUS
    <3>1. Cardinality(smaller(q[n])) < Cardinality(smaller(q[m]))
      BY <1>4, <2>1
    <3>. QED  BY <1>1, <1>5, <2>1, <3>1
  <2>3. q[n] # q[m]
    <3>. SUFFICES ASSUME q[n] = q[m]
                  PROVE  FALSE
      OBVIOUS
    <3>1. m - 1 = n - 1
      BY <2>1
    <3>. QED  BY <1>1, <1>5, <3>1
  <2>. QED  BY <2>1, <2>2, <2>3
<1>6. ASSUME NEW i \in S
      PROVE  \E n \in 1..N : q[n] = i
  <2>1. q \in Injection(1..N, S)
    <3>1. q = [n \in 1..N |-> q[n]]
      BY <1>2 DEF Ascending, N
    <3>2. \A m, n \in 1..N : q[m] = q[n] => m = n
      <4>. SUFFICES ASSUME NEW m \in 1..N, NEW n \in 1..N, q[m] = q[n], m # n
                    PROVE  FALSE
        OBVIOUS
      <4>1. (m < n \/ n < m) /\ q[m] \in Nat /\ q[n] \in Nat
        BY <1>1, <1>3
      <4>. QED  BY <1>5, <4>1
    <3>. QED  BY <1>3, <3>1, <3>2 DEF Injection, IsInjective
  <2>2. Cardinality(1..N) = N /\ IsFiniteSet(1..N)
    <3>1. 1 \in Int /\ N \in Int /\ (IF 1 > N THEN 0 ELSE N - 1 + 1) = N
      BY <1>1
    <3>. QED  BY <3>1, FS_Interval
  <2>3. q \in Surjection(1..N, S)
    BY <2>1, <2>2, FS_Injection DEF N
  <2>. QED  BY <2>3 DEF Surjection
<1>7. q \in Seq(S)
  <2>1. q = [n \in 1..N |-> q[n]]
    BY <1>2 DEF Ascending, N
  <2>2. q \in [1..N -> S]
    BY <1>3, <2>1
  <2>. QED  BY <1>1, <2>2
<1>8. Range(q) = S
  <2>1. Range(q) \subseteq S
    BY <1>2, <1>3 DEF Range
  <2>2. S \subseteq Range(q)
    BY <1>2, <1>6 DEF Range
  <2>. QED  BY <2>1, <2>2
<1>. QED  BY <1>1, <1>2, <1>5, <1>6, <1>7, <1>8 DEF N

-----------------------------------------------------------------------------
(* Handing out jobs *)

LEMMA Constants ==
    /\ \A s \in Slots : s \in Nat /\ s # 0
    /\ IsFiniteSet(Slots)
    /\ \A r \in Requests : r \in Nat /\ r >= 1 /\ LaneOf[r] \in Lanes
    /\ \A l \in Lanes : Capacity(l) \in Nat /\ Capacity(l) >= 1
<1>1. \A s \in Slots : s \in Nat /\ s # 0
  BY ChannelConstants
<1>2. \A r \in Requests : r \in Nat /\ r >= 1
  <2>1. PICK n : Requests = 1..n
    BY ChannelConstants
  <2>. QED  BY <2>1
<1>3. \A r \in Requests : LaneOf[r] \in Lanes
  BY ChannelConstants
<1>4. \A l \in Lanes : Capacity(l) \in Nat /\ Capacity(l) >= 1
  BY ChannelConstants DEF Capacity
<1>. QED  BY <1>1, <1>2, <1>3, <1>4, ChannelConstants

LEMMA JobFields ==
    ASSUME NEW j \in JobRecord
    PROVE  /\ j.state \in {"FREE", "QUEUED", "DISPATCHED", "DONE"} /\ j.seq \in Nat
           /\ j.lane \in Lanes /\ j.of \in Subjects /\ j.late \in BOOLEAN
           /\ j.status \in Statuses /\ j.reply \in Subjects
BY DEF JobRecord

\* Two jobs with one sequence are one job.
LEMMA OneJob ==
    ASSUME NEW js, NEW nx, NEW st, JobsOK(js, nx, st), NEW s \in Used(js), NEW t \in Used(js),
           js[s].seq = js[t].seq \/ js[s].of = js[t].of
    PROVE  s = t
<1>1. js[s] \in JobRecord /\ js[t] \in JobRecord
  BY DEF JobsOK, Used
<1>2. js[s].seq \in Nat /\ js[t].seq \in Nat
  BY <1>1, JobFields
<1>3. /\ js[s].seq < js[t].seq <=> js[s].of < js[t].of
      /\ js[t].seq < js[s].seq <=> js[t].of < js[s].of
      /\ js[s].seq = js[t].seq => s = t
      /\ js[s].of \in 1..st /\ js[t].of \in 1..st
  BY DEF JobsOK
<1>4. js[s].of = js[t].of => js[s].seq = js[t].seq
  BY <1>2, <1>3
<1>. QED  BY <1>3, <1>4

LEMMA TakenIs ==
    ASSUME NEW js, NEW nx, NEW st, JobsOK(js, nx, st), NEW l \in Lanes
    PROVE  /\ Taken(js, l) \subseteq Queued(js, l) /\ Queued(js, l) \subseteq Used(js)
           /\ IsFiniteSet(Taken(js, l))
           /\ \A s \in Taken(js, l), t \in Queued(js, l) \ Taken(js, l) : js[s].seq < js[t].seq
<1>. DEFINE Q == Queued(js, l)
            older(s) == {t \in Q : js[t].seq < js[s].seq}
<1>1. Taken(js, l) = {s \in Q : Cardinality(older(s)) < Capacity(l)}
  BY DEF Taken
<1>2. Q \subseteq Slots /\ Q \subseteq Used(js)
  BY DEF Queued, Used
<1>3. IsFiniteSet(Q)
  BY <1>2, Constants, FS_Subset
<1>4. \A s \in Q : js[s].seq \in Nat
  BY <1>2, JobFields DEF JobsOK
<1>5. IsFiniteSet(Taken(js, l))
  <2>1. Taken(js, l) \in SUBSET Q
    BY <1>1
  <2>. QED  BY <1>3, <2>1, FS_Subset
<1>6. ASSUME NEW s \in Taken(js, l), NEW t \in Q \ Taken(js, l)
      PROVE  js[s].seq < js[t].seq
  <2>1. s \in Q /\ t \in Q /\ js[s].seq \in Nat /\ js[t].seq \in Nat
    BY <1>1, <1>4
  <2>. SUFFICES ASSUME js[t].seq <= js[s].seq
                PROVE  FALSE
    BY <2>1
  <2>2. older(t) \in SUBSET older(s)
    <3>. SUFFICES ASSUME NEW u \in Q, js[u].seq < js[t].seq
                  PROVE  js[u].seq < js[s].seq
      OBVIOUS
    <3>. QED  BY <1>4, <2>1
  <2>3. older(s) \in SUBSET Q
    OBVIOUS
  <2>4. IsFiniteSet(older(s))
    BY <1>3, <2>3, FS_Subset
  <2>5. IsFiniteSet(older(t)) /\ Cardinality(older(t)) <= Cardinality(older(s))
    BY <2>2, <2>4, FS_Subset
  <2>6. Cardinality(older(t)) \in Nat /\ Cardinality(older(s)) \in Nat
    BY <2>4, <2>5, FS_CardinalityType
  <2>7. Cardinality(older(s)) < Capacity(l) /\ ~ (Cardinality(older(t)) < Capacity(l))
    BY <1>1, <2>1
  <2>. HIDE DEF older, Q
  <2>. QED  BY <2>5, <2>6, <2>7, Constants
<1>. QED  BY <1>1, <1>2, <1>5, <1>6

\* Handing out marks the jobs that were taken, and changes nothing else.
LEMMA DispatchIs ==
    ASSUME NEW js, NEW nx, NEW st, JobsOK(js, nx, st), NEW l \in Lanes,
           NEW d, d = Dispatch(js, l)
    PROVE  /\ JobsOK(d, nx, st) /\ Used(d) = Used(js)
           /\ \A s \in Slots :
                /\ d[s].seq = js[s].seq /\ d[s].of = js[s].of /\ d[s].lane = js[s].lane
                /\ d[s].status = js[s].status /\ d[s].reply = js[s].reply
                /\ d[s].state = IF s \in Taken(js, l) THEN "DISPATCHED" ELSE js[s].state
<1>1. Taken(js, l) \subseteq Used(js) /\ \A s \in Taken(js, l) : js[s].state = "QUEUED"
  BY TakenIs DEF Queued
<1>2. js \in [Slots -> JobRecord]
  BY DEF JobsOK
<1>3. ASSUME NEW s \in Slots
      PROVE  /\ d[s] \in JobRecord
             /\ d[s].seq = js[s].seq /\ d[s].of = js[s].of /\ d[s].lane = js[s].lane
             /\ d[s].status = js[s].status /\ d[s].reply = js[s].reply
             /\ d[s].state = IF s \in Taken(js, l) THEN "DISPATCHED" ELSE js[s].state
  <2>1. js[s] \in JobRecord
    BY <1>2
  <2>2. CASE s \in Taken(js, l)
    <3>1. d[s] = [js[s] EXCEPT !.state = "DISPATCHED"]
      BY <2>2 DEF Dispatch
    <3>. QED  BY <2>1, <2>2, <3>1 DEF JobRecord
  <2>3. CASE s \notin Taken(js, l)
    <3>1. d[s] = js[s]
      BY <2>3 DEF Dispatch
    <3>. QED  BY <2>1, <2>3, <3>1
  <2>. QED  BY <2>2, <2>3
<1>4. d \in [Slots -> JobRecord]
  <2>1. d = [s \in Slots |-> d[s]]
    BY DEF Dispatch
  <2>. QED  BY <1>3, <2>1
<1>5. Used(d) = Used(js)
  BY <1>1, <1>3 DEF Used
<1>6. JobsOK(d, nx, st)
  <2>1. \A s \in Used(d) : s \in Slots /\ s \in Used(js) /\ (d[s].state = "DONE" => js[s].state = "DONE")
    BY <1>3, <1>5 DEF Used
  <2>. QED  BY <1>3, <1>4, <2>1 DEF JobsOK
<1>. QED  BY <1>3, <1>5, <1>6

\* The batch names the jobs that were taken, each once and in order.
LEMMA BatchIs ==
    ASSUME NEW js, NEW nx, NEW st, JobsOK(js, nx, st), NEW l \in Lanes, NEW b, b = Batch(js, l)
    PROVE  /\ b \in Seq(Dispatched)
           /\ \A k \in DOMAIN b : \E s \in Taken(js, l) : b[k].seq = js[s].seq /\ b[k].of = js[s].of
           /\ \A k, n \in DOMAIN b : k < n => b[k].of < b[n].of
           /\ \A s \in Taken(js, l) : \E k \in DOMAIN b : b[k].seq = js[s].seq
<1>. DEFINE T == Taken(js, l)
            S == {js[s].seq : s \in T}
            job(q) == js[CHOOSE s \in T : js[s].seq = q]
<1>1. T \subseteq Used(js) /\ T \subseteq Slots /\ IsFiniteSet(T)
  BY TakenIs DEF Used
<1>2. \A s \in T : js[s] \in JobRecord /\ js[s].seq \in Nat /\ js[s].of \in Subjects
                   /\ js[s].late \in BOOLEAN
  BY <1>1, JobFields DEF JobsOK
<1>3. S \in SUBSET Nat
  BY <1>2
<1>4. IsFiniteSet(S)
  <2>1. PICK f : f = [s \in T |-> js[s].seq]
    OBVIOUS
  <2>2. f \in Surjection(T, S)
    BY <2>1 DEF Surjection
  <2>. HIDE DEF S, T
  <2>. QED  BY <1>1, <2>2, FS_Surjection
<1>5. PICK order : order = Ascending(S)
  OBVIOUS
<1>6. /\ order \in Seq(S) /\ DOMAIN order = 1..Cardinality(S) /\ Cardinality(S) \in Nat
      /\ \A m, n \in DOMAIN order : m < n => order[m] < order[n]
      /\ \A i \in S : \E n \in DOMAIN order : order[n] = i
      /\ Range(order) = S
  <2>. HIDE DEF S
  <2>. QED  BY <1>3, <1>4, <1>5, AscendingIs
<1>7. b = [i \in DOMAIN order |-> [seq |-> order[i], of |-> job(order[i]).of,
                                   late |-> job(order[i]).late]]
  BY <1>5 DEF Batch
<1>8. \A k \in DOMAIN order : order[k] \in S
  BY <1>6 DEF Range
<1>9. ASSUME NEW k \in DOMAIN order
      PROVE  \E s \in T : b[k] = [seq |-> js[s].seq, of |-> js[s].of, late |-> js[s].late]
                          /\ js[s].seq = order[k]
  <2>1. PICK s : s = CHOOSE t \in T : js[t].seq = order[k]
    OBVIOUS
  <2>2. \E t \in T : js[t].seq = order[k]
    BY <1>8
  <2>3. s \in T /\ js[s].seq = order[k] /\ job(order[k]) = js[s]
    BY <2>1, <2>2
  <2>4. b[k] = [seq |-> order[k], of |-> job(order[k]).of, late |-> job(order[k]).late]
    BY <1>7
  <2>. HIDE DEF T, job
  <2>. QED  BY <2>3, <2>4
<1>. HIDE DEF job, T, S
<1>10. b \in Seq(Dispatched)
  <2>1. \A k \in DOMAIN order : b[k] \in Dispatched
    <3>. SUFFICES ASSUME NEW k \in DOMAIN order
                  PROVE  b[k] \in Dispatched
      OBVIOUS
    <3>1. PICK s \in T : b[k] = [seq |-> js[s].seq, of |-> js[s].of, late |-> js[s].late]
      BY <1>9
    <3>. QED  BY <1>2, <3>1 DEF Dispatched
  <2>2. b \in [1..Cardinality(S) -> Dispatched]
    BY <1>6, <1>7, <2>1
  <2>. QED  BY <1>6, <2>2
<1>11. DOMAIN b = DOMAIN order
  BY <1>7
<1>12. ASSUME NEW k \in DOMAIN b, NEW n \in DOMAIN b, k < n
       PROVE  b[k].of < b[n].of
  <2>1. PICK s \in T : b[k].of = js[s].of /\ js[s].seq = order[k]
    BY <1>9, <1>11
  <2>2. PICK t \in T : b[n].of = js[t].of /\ js[t].seq = order[n]
    BY <1>9, <1>11
  <2>3. js[s].seq < js[t].seq
    BY <1>6, <1>11, <1>12, <2>1, <2>2
  <2>4. js[s].of < js[t].of
    BY <1>1, <2>3 DEF JobsOK
  <2>. QED  BY <2>1, <2>2, <2>4
<1>13. ASSUME NEW s \in T
       PROVE  \E k \in DOMAIN b : b[k].seq = js[s].seq
  <2>1. js[s].seq \in S
    BY DEF S
  <2>2. PICK k \in DOMAIN order : order[k] = js[s].seq
    BY <1>6, <2>1
  <2>. QED  BY <1>9, <1>11, <2>2
<1>14. \A k \in DOMAIN b : \E s \in T : b[k].seq = js[s].seq /\ b[k].of = js[s].of
  BY <1>9, <1>11
<1>. QED  BY <1>10, <1>12, <1>13, <1>14 DEF T

-----------------------------------------------------------------------------
(* What every step keeps *)

\* Messages that join or leave the queue of replies.
LEMMA OffersAfterAppend ==
    ASSUME NEW ms \in Seq(ReplyMessage), NEW m \in ReplyMessage,
           BatchesInOrder(ms), Before(OffersIn(ms), Names(m))
    PROVE  /\ Append(ms, m) \in Seq(ReplyMessage) /\ Range(Append(ms, m)) = Range(ms) \cup {m}
           /\ BatchesInOrder(Append(ms, m)) /\ OffersIn(Append(ms, m)) = OffersIn(ms) \cup Names(m)
<1>1. Append(ms, m) \in Seq(ReplyMessage) /\ Range(Append(ms, m)) = Range(ms) \cup {m}
  BY RangeOfAppend
<1>2. OffersIn(Append(ms, m)) = OffersIn(ms) \cup Names(m)
  BY <1>1 DEF OffersIn
<1>3. BatchesInOrder(Append(ms, m))
  <2>. SUFFICES ASSUME NEW i \in DOMAIN Append(ms, m), NEW j \in DOMAIN Append(ms, m), i < j
                PROVE  Before(Names(Append(ms, m)[i]), Names(Append(ms, m)[j]))
    BY DEF BatchesInOrder
  <2>1. /\ Len(ms) \in Nat /\ DOMAIN ms = 1..Len(ms) /\ DOMAIN Append(ms, m) = 1..(Len(ms) + 1)
        /\ \A k \in 1..Len(ms) : Append(ms, m)[k] = ms[k]
        /\ Append(ms, m)[Len(ms) + 1] = m
    OBVIOUS
  <2>2. i \in DOMAIN ms /\ Append(ms, m)[i] = ms[i] /\ ms[i] \in Range(ms)
    BY <2>1 DEF Range
  <2>3. CASE j \in DOMAIN ms
    BY <2>1, <2>2, <2>3 DEF BatchesInOrder
  <2>4. CASE j \notin DOMAIN ms
    <3>1. Append(ms, m)[j] = m
      BY <2>1, <2>4
    <3>2. Names(ms[i]) \subseteq OffersIn(ms)
      BY <2>2 DEF OffersIn
    <3>. QED  BY <2>2, <3>1, <3>2 DEF Before
  <2>. QED  BY <2>3, <2>4
<1>. QED  BY <1>1, <1>2, <1>3

LEMMA OffersAfterTail ==
    ASSUME NEW ms \in Seq(ReplyMessage), ms # <<>>, BatchesInOrder(ms)
    PROVE  /\ Tail(ms) \in Seq(ReplyMessage) /\ Range(ms) = {Head(ms)} \cup Range(Tail(ms))
           /\ BatchesInOrder(Tail(ms)) /\ OffersIn(Tail(ms)) \subseteq OffersIn(ms)
           /\ Names(Head(ms)) \subseteq OffersIn(ms)
           /\ Before(Names(Head(ms)), OffersIn(Tail(ms)))
<1>1. /\ Tail(ms) \in Seq(ReplyMessage) /\ Range(ms) = {Head(ms)} \cup Range(Tail(ms))
      /\ DOMAIN ms = 1..Len(ms) /\ Len(ms) \in Nat /\ Len(ms) >= 1
      /\ DOMAIN Tail(ms) = 1..(Len(ms) - 1) /\ Head(ms) = ms[1]
      /\ \A i \in DOMAIN Tail(ms) : Tail(ms)[i] = ms[i + 1] /\ i + 1 \in DOMAIN ms
  BY RangeOfTail
<1>2. OffersIn(Tail(ms)) \subseteq OffersIn(ms) /\ Names(Head(ms)) \subseteq OffersIn(ms)
  BY <1>1 DEF OffersIn
<1>3. BatchesInOrder(Tail(ms))
  <2>. SUFFICES ASSUME NEW i \in DOMAIN Tail(ms), NEW j \in DOMAIN Tail(ms), i < j
                PROVE  Before(Names(Tail(ms)[i]), Names(Tail(ms)[j]))
    BY DEF BatchesInOrder
  <2>1. i + 1 \in DOMAIN ms /\ j + 1 \in DOMAIN ms /\ i + 1 < j + 1
    BY <1>1
  <2>. QED  BY <1>1, <2>1 DEF BatchesInOrder
<1>4. Before(Names(Head(ms)), OffersIn(Tail(ms)))
  <2>. SUFFICES ASSUME NEW x \in Names(Head(ms)), NEW j \in DOMAIN Tail(ms),
                       NEW y \in Names(Tail(ms)[j]), LaneOf[x] = LaneOf[y]
                PROVE  x < y
    BY DEF Before, OffersIn, Range
  <2>1. 1 \in DOMAIN ms /\ j + 1 \in DOMAIN ms /\ 1 < j + 1
    BY <1>1
  <2>2. Before(Names(ms[1]), Names(ms[j + 1]))
    BY <2>1 DEF BatchesInOrder
  <2>. QED  BY <1>1, <2>2 DEF Before
<1>. QED  BY <1>1, <1>2, <1>3, <1>4

LEMMA NoOffers ==
    /\ <<>> \in Seq(ReplyMessage) /\ Range(<<>>) = {} /\ BatchesInOrder(<<>>) /\ OffersIn(<<>>) = {}
    /\ \A m : m.batch = <<>> => Names(m) = {}
    /\ \A A : Before(A, {}) /\ Before({}, A)
BY DEF Range, BatchesInOrder, OffersIn, Names, Before

\* What was read, started or offered is never undone, and only what is live, or
\* has just been read, is live afterwards.
Onward ==
    /\ sent \in Nat /\ sent' \in Nat /\ sent <= sent'
    /\ Started \subseteq Started'
    /\ \A r \in Live' : r \in Live \/ r \notin 1..sent

\* The queue goes on: a sequence keeps its request and is not queued again.
QueueOnward ==
    /\ next \in Nat /\ next' \in Nat /\ next <= next'
    /\ \A s \in Used(jobs') :
        \/ jobs'[s].seq >= next
        \/ /\ s \in Used(jobs) /\ jobs'[s].seq = jobs[s].seq /\ jobs'[s].of = jobs[s].of
           /\ jobs'[s].state = "QUEUED" => jobs[s].state = "QUEUED"

LEMMA HandedKept ==
    ASSUME QueueOnward, NEW q \in Nat, NEW r, Handed(jobs, next, q, r)
    PROVE  Handed(jobs, next, q, r)'
BY DEF Handed, QueueOnward

LEMMA OutcomeKept ==
    ASSUME Onward, NEW r \in 1..sent, NEW status, Outcome(r, status)
    PROVE  Outcome(r, status)'
BY DEF Outcome, Onward

LEMMA OffersRead ==
    ASSUME Messages
    PROVE  Offers \subseteq 1..sent
BY DEF Messages, OfferOK, Offers, OffersIn, Names

\* A step in which nothing starts: some of W, what waits after a submission if
\* there is one, is offered, and nothing that waits on its lane came before.
LEMMA OrderedKept ==
    ASSUME Ordered, Messages, NEW W, NEW N, UNCHANGED ran,
           sent \in Nat, sent' \in Nat, sent <= sent',
           \A r \in W : r \in Waiting \/ (r \in Nat /\ r > sent /\ r <= sent'),
           BatchesInOrder(toScript'), OffersIn(toScript') \subseteq Offers \cup N,
           N \subseteq W, Waiting' \subseteq W, Before(N, Waiting')
    PROVE  Ordered' /\ Onward
<1>1. Started' = Started /\ Offers' \subseteq Offers \cup N /\ Offers \subseteq 1..sent
  BY OffersRead DEF Started, Offers
<1>2. Before(Started, W) /\ Before(Offers, W)
  <2>. SUFFICES ASSUME NEW x \in Started \cup Offers, NEW y \in W, LaneOf[x] = LaneOf[y]
                PROVE  x < y
    BY DEF Before
  <2>1. CASE y \in Waiting
    BY <2>1 DEF Ordered, Before
  <2>2. CASE y \in Nat /\ y > sent
    <3>1. x \in 1..sent
      BY <1>1 DEF Ordered
    <3>. QED  BY <2>2, <3>1
  <2>. QED  BY <2>1, <2>2
<1>3. Before(Started, Offers)' /\ Before(Started, Waiting)' /\ Before(Offers, Waiting)'
  <2>1. Before(Started, Offers)
    BY DEF Ordered
  <2>. QED  BY <1>1, <1>2, <2>1 DEF Before
<1>4. Started' \subseteq 1..sent'
  BY <1>1 DEF Ordered
<1>5. BatchesInOrder(toScript)'
  OBVIOUS
<1>6. Ordered'
  BY <1>3, <1>4, <1>5 DEF Ordered
<1>7. \A r \in Live' : r \in Live \/ r \notin 1..sent
  <2>. SUFFICES ASSUME NEW r \in Live', r \notin Live
                PROVE  r \notin 1..sent
    OBVIOUS
  <2>1. r \in W
    BY <1>1 DEF Live
  <2>2. r \notin Waiting
    BY DEF Live
  <2>. QED  BY <2>1, <2>2
<1>. QED  BY <1>1, <1>6, <1>7 DEF Onward

LEMMA MessagesKept ==
    ASSUME Messages, Typed, Onward, daemon.gen <= daemon'.gen, daemon'.gen \in Nat,
           daemon'.gen = daemon.gen => QueueOnward,
           \A m \in Range(toScript') : m \in Range(toScript) \/ OfferOK(m)',
           \A m \in Range(toDaemon') : m \in Range(toDaemon) \/ ReportOK(m)',
           script'.gen <= daemon'.gen
    PROVE  Messages'
<1>0. daemon.gen \in Nat
  BY DEF Typed, TypeOK
<1>1. ASSUME NEW m \in Range(toScript)
      PROVE  OfferOK(m)'
  <2>1. OfferOK(m) /\ m \in ReplyMessage
    BY DEF Messages, Typed, Range
  <2>2. m.gen <= daemon'.gen /\ (m.gen = daemon'.gen => daemon'.gen = daemon.gen)
        /\ (m.kind # "Batch" => m.batch = <<>>)
    BY <1>0, <2>1 DEF OfferOK, ReplyMessage
  <2>3. ASSUME NEW k \in DOMAIN m.batch
        PROVE  /\ m.batch[k].of \in 1..sent' /\ LaneOf[m.batch[k].of] = m.lane
               /\ \A n \in DOMAIN m.batch : k < n => m.batch[k].of < m.batch[n].of
               /\ m.gen = daemon'.gen => Handed(jobs, next, m.batch[k].seq, m.batch[k].of)'
    <3>1. m.batch[k].of \in 1..sent /\ LaneOf[m.batch[k].of] = m.lane
          /\ \A n \in DOMAIN m.batch : k < n => m.batch[k].of < m.batch[n].of
      BY <2>1 DEF OfferOK
    <3>2. m.batch[k].seq \in Nat
      <4>1. m.batch \in Seq(Dispatched)
        BY <2>1 DEF ReplyMessage
      <4>2. m.batch[k] \in Dispatched
        BY <4>1
      <4>. QED  BY <4>2 DEF Dispatched
    <3>3. ASSUME m.gen = daemon'.gen
          PROVE  Handed(jobs, next, m.batch[k].seq, m.batch[k].of)'
      BY <2>1, <2>2, <3>2, <3>3, HandedKept DEF OfferOK
    <3>. QED  BY <3>1, <3>3 DEF Onward
  <2>. QED  BY <2>2, <2>3 DEF OfferOK
<1>2. ASSUME NEW m \in Range(toDaemon)
      PROVE  ReportOK(m)'
  <2>1. ReportOK(m) /\ m \in CallMessage
    BY DEF Messages, Typed, Range
  <2>2. m.gen <= daemon'.gen /\ (m.gen = daemon'.gen => daemon'.gen = daemon.gen)
        /\ (m.kind # "Report" => m.results = <<>>)
    BY <1>0, <2>1 DEF ReportOK, CallMessage
  <2>3. ASSUME NEW k \in DOMAIN m.results
        PROVE  /\ m.results[k].of \in 1..sent'
               /\ m.gen = daemon'.gen => Handed(jobs, next, m.results[k].seq, m.results[k].of)'
               /\ Outcome(m.results[k].of, m.results[k].status)'
    <3>1. m.results[k].of \in 1..sent /\ Outcome(m.results[k].of, m.results[k].status)
      BY <2>1 DEF ReportOK
    <3>2. m.results[k].seq \in Nat
      <4>1. m.results \in Seq(Results)
        BY <2>1 DEF CallMessage
      <4>2. m.results[k] \in Results
        BY <4>1
      <4>. QED  BY <4>2 DEF Results
    <3>3. ASSUME m.gen = daemon'.gen
          PROVE  Handed(jobs, next, m.results[k].seq, m.results[k].of)'
      BY <2>1, <2>2, <3>2, <3>3, HandedKept DEF ReportOK
    <3>4. Outcome(m.results[k].of, m.results[k].status)'
      BY <3>1, OutcomeKept
    <3>. QED  BY <3>1, <3>3, <3>4 DEF Onward
  <2>. QED  BY <2>2, <2>3 DEF ReportOK
<1>. QED  BY <1>1, <1>2 DEF Messages

\* A request that is given no answer.
LEMMA AnswerKept ==
    ASSUME Typed, Onward, NEW r \in Requests, AnswerOK(r), answers'[r] = answers[r],
           \A s \in Slots : inflight'[s].active =>
              \/ inflight[s].active /\ inflight'[s].request = inflight[s].request
              \/ inflight'[s].request > sent
    PROVE  AnswerOK(r)'
<1>1. /\ Len(answers[r]) <= 1
      /\ answers[r] # <<>> => r <= sent
      /\ \A s \in Slots : inflight[s].active /\ inflight[s].request = r => answers[r] = <<>>
      /\ \A a \in Range(answers[r]) :
            /\ a.status = "BUSY" => r \notin Live
            /\ a.status \in {"OK", "FAILED", "INTERNAL"} => a.of = r /\ r \in Started
  BY DEF AnswerOK, AnswersOf
<1>2. r \in Nat /\ r >= 1 /\ answers[r] \in Seq([status: Statuses, of: Subjects])
  BY Constants DEF Typed, TypeOK
<1>3. /\ Len(answers'[r]) <= 1
      /\ answers'[r] # <<>> => r <= sent'
      /\ \A s \in Slots : inflight'[s].active /\ inflight'[s].request = r => answers'[r] = <<>>
      /\ \A a \in Range(answers'[r]) :
            /\ a.status = "BUSY" => r \notin Live'
            /\ a.status \in {"OK", "FAILED", "INTERNAL"} => a.of = r /\ r \in Started'
  <2>1. CASE answers[r] = <<>>
    BY <1>1, <2>1, NoOffers
  <2>2. CASE answers[r] # <<>>
    <3>1. r \in 1..sent
      BY <1>1, <1>2, <2>2 DEF Onward
    <3>. QED  BY <1>1, <3>1 DEF Onward
  <2>. QED  BY <2>1, <2>2
<1>. QED  BY <1>3 DEF AnswerOK, AnswersOf

\* A step that gives no answer and finishes no job.
LEMMA TruthKept ==
    ASSUME Truth, Typed, JobsOK(jobs, next, sent), Onward, UNCHANGED answers,
           \A s \in Slots : jobs'[s].state = "DONE" =>
              jobs[s].state = "DONE" /\ jobs'[s].of = jobs[s].of /\ jobs'[s].status = jobs[s].status,
           \A s \in Slots : inflight'[s].active =>
              \/ inflight[s].active /\ inflight'[s].request = inflight[s].request
              \/ inflight'[s].request > sent
    PROVE  Truth'
<1>1. ASSUME NEW s \in Slots, jobs'[s].state = "DONE"
      PROVE  Outcome(jobs[s].of, jobs[s].status)'
  <2>1. jobs[s].of \in 1..sent /\ Outcome(jobs[s].of, jobs[s].status)
    BY <1>1 DEF JobsOK, Used, Truth
  <2>2. PICK r \in 1..sent : r = jobs[s].of
    BY <2>1
  <2>3. PICK status \in {"OK", "FAILED", "BUSY"} : status = jobs[s].status
    BY <2>1 DEF Outcome
  <2>4. Outcome(r, status)'
    BY <2>1, <2>2, <2>3, OutcomeKept
  <2>5. jobs'[s].of = r /\ jobs'[s].status = status
    BY <1>1, <2>2, <2>3
  <2>. QED  BY <2>4, <2>5 DEF Outcome
<1>2. \A r \in Requests : AnswerOK(r)'
  BY AnswerKept DEF Truth
<1>. QED  BY <1>1, <1>2 DEF Truth

\* Sequence numbers in messages that join or leave the two queues.
LEMMA CarriedAfterAppend ==
    ASSUME NEW ms \in Seq(ReplyMessage), NEW m \in ReplyMessage, CarriedOnce(ms),
           Carried(m) \cap CarriedIn(ms) = {}
    PROVE  /\ CarriedIn(Append(ms, m)) = CarriedIn(ms) \cup Carried(m)
           /\ CarriedOnce(Append(ms, m))
<1>1. Range(Append(ms, m)) = Range(ms) \cup {m}
  BY RangeOfAppend
<1>2. CarriedIn(Append(ms, m)) = CarriedIn(ms) \cup Carried(m)
  BY <1>1 DEF CarriedIn
<1>3. /\ Len(ms) \in Nat /\ DOMAIN ms = 1..Len(ms) /\ DOMAIN Append(ms, m) = 1..(Len(ms) + 1)
      /\ \A k \in 1..Len(ms) : Append(ms, m)[k] = ms[k]
      /\ Append(ms, m)[Len(ms) + 1] = m
  OBVIOUS
<1>4. \A i \in DOMAIN ms : Carried(ms[i]) \subseteq CarriedIn(ms)
  BY DEF CarriedIn, Range
<1>5. CarriedOnce(Append(ms, m))
  <2>. SUFFICES ASSUME NEW i \in DOMAIN Append(ms, m), NEW j \in DOMAIN Append(ms, m), i # j
                PROVE  Carried(Append(ms, m)[i]) \cap Carried(Append(ms, m)[j]) = {}
    BY DEF CarriedOnce
  <2>1. CASE i \in DOMAIN ms /\ j \in DOMAIN ms
    BY <1>3, <2>1 DEF CarriedOnce
  <2>2. CASE i \notin DOMAIN ms
    <3>1. i = Len(ms) + 1 /\ j \in DOMAIN ms
      BY <1>3, <2>2
    <3>. QED  BY <1>3, <1>4, <3>1
  <2>3. CASE j \notin DOMAIN ms
    <3>1. j = Len(ms) + 1 /\ i \in DOMAIN ms
      BY <1>3, <2>3
    <3>. QED  BY <1>3, <1>4, <3>1
  <2>. QED  BY <2>1, <2>2, <2>3
<1>. QED  BY <1>2, <1>5

LEMMA CarriedAfterTail ==
    ASSUME NEW ms \in Seq(ReplyMessage), ms # <<>>, CarriedOnce(ms)
    PROVE  /\ CarriedIn(Tail(ms)) = CarriedIn(ms) \ Carried(Head(ms))
           /\ Carried(Head(ms)) \subseteq CarriedIn(ms)
           /\ CarriedOnce(Tail(ms))
<1>1. /\ Range(ms) = {Head(ms)} \cup Range(Tail(ms))
      /\ DOMAIN ms = 1..Len(ms) /\ Len(ms) \in Nat /\ Len(ms) >= 1
      /\ DOMAIN Tail(ms) = 1..(Len(ms) - 1) /\ Head(ms) = ms[1]
      /\ \A i \in DOMAIN Tail(ms) : Tail(ms)[i] = ms[i + 1] /\ i + 1 \in DOMAIN ms
  BY RangeOfTail
<1>2. CarriedIn(ms) = Carried(Head(ms)) \cup CarriedIn(Tail(ms))
  BY <1>1 DEF CarriedIn
<1>3. Carried(Head(ms)) \cap CarriedIn(Tail(ms)) = {}
  <2>. SUFFICES ASSUME NEW j \in DOMAIN Tail(ms)
                PROVE  Carried(Head(ms)) \cap Carried(Tail(ms)[j]) = {}
    BY DEF CarriedIn, Range
  <2>1. 1 \in DOMAIN ms /\ j + 1 \in DOMAIN ms /\ 1 # j + 1
    BY <1>1
  <2>. QED  BY <1>1, <2>1 DEF CarriedOnce
<1>4. CarriedOnce(Tail(ms))
  <2>. SUFFICES ASSUME NEW i \in DOMAIN Tail(ms), NEW j \in DOMAIN Tail(ms), i # j
                PROVE  Carried(Tail(ms)[i]) \cap Carried(Tail(ms)[j]) = {}
    BY DEF CarriedOnce
  <2>1. i + 1 \in DOMAIN ms /\ j + 1 \in DOMAIN ms /\ i + 1 # j + 1
    BY <1>1
  <2>. QED  BY <1>1, <2>1 DEF CarriedOnce
<1>. QED  BY <1>2, <1>3, <1>4

LEMMA ReportedAfterAppend ==
    ASSUME NEW ms \in Seq(CallMessage), NEW m \in CallMessage, ReportedOnce(ms),
           Reported(m) \cap ReportedIn(ms) = {}
    PROVE  /\ ReportedIn(Append(ms, m)) = ReportedIn(ms) \cup Reported(m)
           /\ ReportedOnce(Append(ms, m))
<1>1. Range(Append(ms, m)) = Range(ms) \cup {m}
  BY RangeOfAppend
<1>2. ReportedIn(Append(ms, m)) = ReportedIn(ms) \cup Reported(m)
  BY <1>1 DEF ReportedIn
<1>3. /\ Len(ms) \in Nat /\ DOMAIN ms = 1..Len(ms) /\ DOMAIN Append(ms, m) = 1..(Len(ms) + 1)
      /\ \A k \in 1..Len(ms) : Append(ms, m)[k] = ms[k]
      /\ Append(ms, m)[Len(ms) + 1] = m
  OBVIOUS
<1>4. \A i \in DOMAIN ms : Reported(ms[i]) \subseteq ReportedIn(ms)
  BY DEF ReportedIn, Range
<1>5. ReportedOnce(Append(ms, m))
  <2>. SUFFICES ASSUME NEW i \in DOMAIN Append(ms, m), NEW j \in DOMAIN Append(ms, m), i # j
                PROVE  Reported(Append(ms, m)[i]) \cap Reported(Append(ms, m)[j]) = {}
    BY DEF ReportedOnce
  <2>1. CASE i \in DOMAIN ms /\ j \in DOMAIN ms
    BY <1>3, <2>1 DEF ReportedOnce
  <2>2. CASE i \notin DOMAIN ms
    <3>1. i = Len(ms) + 1 /\ j \in DOMAIN ms
      BY <1>3, <2>2
    <3>. QED  BY <1>3, <1>4, <3>1
  <2>3. CASE j \notin DOMAIN ms
    <3>1. j = Len(ms) + 1 /\ i \in DOMAIN ms
      BY <1>3, <2>3
    <3>. QED  BY <1>3, <1>4, <3>1
  <2>. QED  BY <2>1, <2>2, <2>3
<1>. QED  BY <1>2, <1>5

LEMMA ReportedAfterTail ==
    ASSUME NEW ms \in Seq(CallMessage), ms # <<>>, ReportedOnce(ms)
    PROVE  /\ ReportedIn(Tail(ms)) = ReportedIn(ms) \ Reported(Head(ms))
           /\ Reported(Head(ms)) \subseteq ReportedIn(ms)
           /\ ReportedOnce(Tail(ms))
<1>1. /\ Range(ms) = {Head(ms)} \cup Range(Tail(ms))
      /\ DOMAIN ms = 1..Len(ms) /\ Len(ms) \in Nat /\ Len(ms) >= 1
      /\ DOMAIN Tail(ms) = 1..(Len(ms) - 1) /\ Head(ms) = ms[1]
      /\ \A i \in DOMAIN Tail(ms) : Tail(ms)[i] = ms[i + 1] /\ i + 1 \in DOMAIN ms
  BY RangeOfTail
<1>2. ReportedIn(ms) = Reported(Head(ms)) \cup ReportedIn(Tail(ms))
  BY <1>1 DEF ReportedIn
<1>3. Reported(Head(ms)) \cap ReportedIn(Tail(ms)) = {}
  <2>. SUFFICES ASSUME NEW j \in DOMAIN Tail(ms)
                PROVE  Reported(Head(ms)) \cap Reported(Tail(ms)[j]) = {}
    BY DEF ReportedIn, Range
  <2>1. 1 \in DOMAIN ms /\ j + 1 \in DOMAIN ms /\ 1 # j + 1
    BY <1>1
  <2>. QED  BY <1>1, <2>1 DEF ReportedOnce
<1>4. ReportedOnce(Tail(ms))
  <2>. SUFFICES ASSUME NEW i \in DOMAIN Tail(ms), NEW j \in DOMAIN Tail(ms), i # j
                PROVE  Reported(Tail(ms)[i]) \cap Reported(Tail(ms)[j]) = {}
    BY DEF ReportedOnce
  <2>1. i + 1 \in DOMAIN ms /\ j + 1 \in DOMAIN ms /\ i + 1 # j + 1
    BY <1>1
  <2>. QED  BY <1>1, <2>1 DEF ReportedOnce
<1>. QED  BY <1>2, <1>3, <1>4

LEMMA NothingCarried ==
    /\ \A m : m.batch = <<>> => Carried(m) = {}
    /\ \A m : m.results = <<>> => Reported(m) = {}
BY DEF Carried, Reported

\* A fault is counted.
LEMMA FaultIs ==
    ASSUME faults \in 0..MaxFaults, NEW bad \in BOOLEAN, Fault(bad)
    PROVE  faults' \in 0..MaxFaults /\ (faults' = 0 => faults = 0 /\ ~bad)
BY ChannelConstants DEF Fault

\* Calls of the script join the queue, if somebody owns the name.
Sent(c, load, gen) ==
    [kind |-> c.kind, from |-> kwin, load |-> load, gen |-> gen, lane |-> c.lane,
     results |-> c.results]

LEMMA CallIs ==
    ASSUME Typed, NEW load \in Nat, NEW gen \in Nat,
           NEW c \in [kind: {"Hello", "Poll", "Report"}, lane: Lanes, results: Seq(Results)],
           Call(load, gen, <<c>>)
    PROVE  /\ Sent(c, load, gen) \in CallMessage
           /\ toDaemon' = IF daemon.up THEN Append(toDaemon, Sent(c, load, gen)) ELSE toDaemon
<1>1. PICK x : x = Sent(c, load, gen)
  OBVIOUS
<1>2. x \in CallMessage
  BY <1>1 DEF Sent, CallMessage, Typed, TypeOK
<1>3. CASE daemon.up
  <2>1. PICK t : t = [i \in 1..Len(<<c>>) |-> [kind |-> <<c>>[i].kind, from |-> kwin,
                       load |-> load, gen |-> gen, lane |-> <<c>>[i].lane, results |-> <<c>>[i].results]]
    OBVIOUS
  <2>2. toDaemon' = toDaemon \o t
    BY <1>3, <2>1 DEF Call
  <2>3. Len(<<c>>) = 1 /\ <<c>>[1] = c
    OBVIOUS
  <2>4. t = [i \in 1..1 |-> x]
    <3>1. \A i \in 1..1 : i = 1
      OBVIOUS
    <3>. QED  BY <1>1, <2>1, <2>3, <3>1 DEF Sent
  <2>5. t = <<x>>
    BY <2>4
  <2>6. toDaemon \o <<x>> = Append(toDaemon, x)
    BY <1>2 DEF Typed
  <2>. QED  BY <1>1, <1>2, <1>3, <2>2, <2>5, <2>6
<1>4. CASE ~daemon.up
  BY <1>1, <1>2, <1>4 DEF Call
<1>. QED  BY <1>3, <1>4

LEMMA CallsAre ==
    ASSUME Typed, NEW load \in Nat, NEW gen \in Nat,
           NEW c \in [kind: {"Hello", "Poll", "Report"}, lane: Lanes, results: Seq(Results)],
           NEW d \in [kind: {"Hello", "Poll", "Report"}, lane: Lanes, results: Seq(Results)],
           Call(load, gen, <<c, d>>)
    PROVE  /\ Sent(c, load, gen) \in CallMessage /\ Sent(d, load, gen) \in CallMessage
           /\ toDaemon' = IF daemon.up
                          THEN Append(Append(toDaemon, Sent(c, load, gen)), Sent(d, load, gen))
                          ELSE toDaemon
<1>1. PICK x, y : x = Sent(c, load, gen) /\ y = Sent(d, load, gen)
  OBVIOUS
<1>2. x \in CallMessage /\ y \in CallMessage
  BY <1>1 DEF Sent, CallMessage, Typed, TypeOK
<1>3. CASE daemon.up
  <2>1. PICK t : t = [i \in 1..Len(<<c, d>>) |-> [kind |-> <<c, d>>[i].kind, from |-> kwin,
                       load |-> load, gen |-> gen, lane |-> <<c, d>>[i].lane,
                       results |-> <<c, d>>[i].results]]
    OBVIOUS
  <2>2. toDaemon' = toDaemon \o t
    BY <1>3, <2>1 DEF Call
  <2>3. Len(<<c, d>>) = 2 /\ <<c, d>>[1] = c /\ <<c, d>>[2] = d
    OBVIOUS
  <2>4. t = [i \in 1..2 |-> IF i = 1 THEN x ELSE y]
    <3>1. \A i \in 1..2 : i = 1 \/ i = 2
      OBVIOUS
    <3>. QED  BY <1>1, <2>1, <2>3, <3>1 DEF Sent
  <2>5. t = <<x, y>>
    BY <2>4
  <2>6. toDaemon \o <<x, y>> = Append(Append(toDaemon, x), y)
    BY <1>2 DEF Typed
  <2>. QED  BY <1>1, <1>2, <1>3, <2>2, <2>5, <2>6
<1>4. CASE ~daemon.up
  BY <1>1, <1>2, <1>4 DEF Call
<1>. QED  BY <1>3, <1>4

-----------------------------------------------------------------------------
(* Steps that leave the queue and the operations alone *)

LEMMA TypedIs ==
    ASSUME Typed
    PROVE  /\ kwin \in Nat /\ script \in [load: Nat, gen: Nat, running: BOOLEAN]
           /\ script.load \in Nat /\ script.gen \in Nat /\ script.running \in BOOLEAN
           /\ toDaemon \in Seq(CallMessage) /\ toScript \in Seq(ReplyMessage)
           /\ daemon \in [up: BOOLEAN, named: BOOLEAN, gen: Nat, peer: Nat]
           /\ daemon.up \in BOOLEAN /\ daemon.named \in BOOLEAN
           /\ daemon.gen \in Nat /\ daemon.peer \in Nat
           /\ jobs \in [Slots -> JobRecord] /\ next \in Nat
           /\ inflight \in [Slots -> InflightRecord]
           /\ parked \in [Lanes -> Nat] /\ idle \in [Lanes -> BOOLEAN]
           /\ relay \in BOOLEAN /\ sent \in Requests \cup {0} /\ sent \in Nat
           /\ ran \in Seq(Requests)
           /\ answers \in [Requests -> Seq([status: Statuses, of: Subjects])]
           /\ faults \in 0..MaxFaults
<1>1. /\ kwin \in Nat /\ script \in [load: Nat, gen: Nat, running: BOOLEAN]
      /\ toDaemon \in Seq(CallMessage) /\ toScript \in Seq(ReplyMessage)
      /\ daemon \in [up: BOOLEAN, named: BOOLEAN, gen: Nat, peer: Nat]
      /\ jobs \in [Slots -> JobRecord] /\ next \in Nat
      /\ inflight \in [Slots -> InflightRecord]
      /\ parked \in [Lanes -> Nat] /\ idle \in [Lanes -> BOOLEAN]
      /\ relay \in BOOLEAN /\ sent \in Requests \cup {0}
      /\ ran \in Seq(Requests)
      /\ answers \in [Requests -> Seq([status: Statuses, of: Subjects])]
      /\ faults \in 0..MaxFaults
  BY DEF Typed, TypeOK
<1>2. sent \in Nat
  BY <1>1, Constants
<1>. QED  BY <1>1, <1>2

LEMMA TypedNext ==
    ASSUME kwin' \in Nat, script' \in [load: Nat, gen: Nat, running: BOOLEAN],
           toDaemon' \in Seq(CallMessage), toScript' \in Seq(ReplyMessage),
           daemon' \in [up: BOOLEAN, named: BOOLEAN, gen: Nat, peer: Nat],
           jobs' \in [Slots -> JobRecord], next' \in Nat,
           inflight' \in [Slots -> InflightRecord],
           parked' \in [Lanes -> Nat], idle' \in [Lanes -> BOOLEAN],
           relay' \in BOOLEAN, sent' \in Requests \cup {0},
           ran' \in Seq(Requests),
           answers' \in [Requests -> Seq([status: Statuses, of: Subjects])],
           faults' \in 0..MaxFaults
    PROVE  Typed'
<1>1. \A i \in DOMAIN toDaemon' : toDaemon'[i] \in CallMessage
  OBVIOUS
<1>2. \A i \in DOMAIN toScript' : toScript'[i] \in ReplyMessage
  OBVIOUS
<1>. QED  BY <1>1, <1>2 DEF Typed, TypeOK

LEMMA CallFields ==
    ASSUME NEW m \in CallMessage
    PROVE  /\ m.kind \in {"Hello", "Poll", "Report"} /\ m.from \in Nat /\ m.load \in Nat
           /\ m.gen \in Nat /\ m.lane \in Lanes /\ m.results \in Seq(Results)
BY DEF CallMessage

LEMMA ReplyFields ==
    ASSUME NEW m \in ReplyMessage
    PROVE  /\ m.kind \in {"Hello", "Batch", "Ack"} /\ m.gen \in Nat /\ m.lane \in Lanes
           /\ m.batch \in Seq(Dispatched)
BY DEF ReplyMessage

\* No job changes, nothing is read, started or answered, and no message that
\* joins the queues carries a job.
LEMMA QuietKeeps ==
    ASSUME IInv, Typed', UNCHANGED <<jobs, next, inflight, ran, sent, answers>>,
           daemon'.gen = daemon.gen, daemon.up => daemon'.up, Loaded', ParkedLaneIsIdle',
           BatchesInOrder(toScript'), OffersIn(toScript') \subseteq Offers,
           \A m \in Range(toScript') :
              m \in Range(toScript) \/ (m.batch = <<>> /\ m.gen <= daemon.gen),
           \A m \in Range(toDaemon') :
              m \in Range(toDaemon) \/ (m.results = <<>> /\ m.gen <= daemon.gen),
           script'.gen <= daemon.gen,
           faults' = 0 => Calm' /\ Held'
    PROVE  IInv'
<1>1. Typed /\ JobsOK(jobs, next, sent) /\ EntriesOK(jobs, inflight) /\ Down /\ Ordered
      /\ Messages /\ Truth
  BY DEF IInv
<1>2. sent \in Nat /\ next \in Nat /\ daemon.gen \in Nat
  BY <1>1, TypedIs
<1>3. JobsOK(jobs, next, sent)' /\ EntriesOK(jobs, inflight)' /\ Down'
  BY <1>1 DEF Down, JobsOK, EntriesOK, Used
<1>4. Waiting' = Waiting
  BY DEF Waiting, WaitingIn
<1>5. Ordered' /\ Onward
  <2>1. Before({}, Waiting')
    BY NoOffers
  <2>2. \A r \in Waiting : r \in Waiting
    OBVIOUS
  <2>3. sent <= sent' /\ sent' \in Nat
    BY <1>2
  <2>. QED  BY <1>1, <1>2, <1>4, <2>1, <2>2, <2>3, OrderedKept
<1>6. QueueOnward
  BY <1>2 DEF QueueOnward
<1>7. Messages'
  <2>1. \A m \in Range(toScript') : m \in Range(toScript) \/ OfferOK(m)'
    BY DEF OfferOK
  <2>2. \A m \in Range(toDaemon') : m \in Range(toDaemon) \/ ReportOK(m)'
    BY DEF ReportOK
  <2>3. daemon.gen <= daemon'.gen /\ daemon'.gen \in Nat /\ script'.gen <= daemon'.gen
    BY <1>2
  <2>. QED  BY <1>1, <1>5, <1>6, <2>1, <2>2, <2>3, MessagesKept
<1>8. Truth'
  <2>1. \A s \in Slots : jobs'[s].state = "DONE" =>
              jobs[s].state = "DONE" /\ jobs'[s].of = jobs[s].of /\ jobs'[s].status = jobs[s].status
    OBVIOUS
  <2>2. \A s \in Slots : inflight'[s].active =>
              \/ inflight[s].active /\ inflight'[s].request = inflight[s].request
              \/ inflight'[s].request > sent
    OBVIOUS
  <2>. QED  BY <1>1, <1>5, <2>1, <2>2, TruthKept
<1>. QED  BY <1>3, <1>5, <1>7, <1>8 DEF IInv

\* The daemon takes a call off its queue.
LEMMA ReceiveIs ==
    ASSUME IInv, NEW m, Receive(m)
    PROVE  /\ m \in CallMessage /\ m \in Range(toDaemon) /\ ReportOK(m) /\ daemon.up
           /\ m.load # 0 /\ \A x \in Range(toDaemon') : x.load # 0
           /\ toDaemon' \in Seq(CallMessage) /\ Range(toDaemon') \subseteq Range(toDaemon)
           /\ faults = 0 =>
                /\ Calm /\ Held /\ daemon.named
                /\ ReportedIn(toDaemon') = ReportedIn(toDaemon) \ Reported(m)
                /\ Reported(m) \subseteq ReportedIn(toDaemon)
                /\ ReportedOnce(toDaemon')
<1>1. Typed /\ Messages /\ Loaded /\ (faults = 0 => Calm /\ Held)
  BY DEF IInv
<1>2. toDaemon \in Seq(CallMessage) /\ toDaemon # <<>> /\ m = Head(toDaemon)
      /\ toDaemon' = Tail(toDaemon) /\ daemon.up
  BY <1>1, TypedIs DEF Receive
<1>3. /\ Tail(toDaemon) \in Seq(CallMessage) /\ Head(toDaemon) \in CallMessage
      /\ Range(toDaemon) = {Head(toDaemon)} \cup Range(Tail(toDaemon))
  BY <1>2, RangeOfTail
<1>4. ReportOK(m) /\ \A x \in Range(toDaemon) : x.load # 0
  BY <1>1, <1>2, <1>3 DEF Messages, Loaded
<1>5. ASSUME faults = 0
      PROVE  /\ Calm /\ Held /\ daemon.named
             /\ ReportedIn(toDaemon') = ReportedIn(toDaemon) \ Reported(m)
             /\ Reported(m) \subseteq ReportedIn(toDaemon)
             /\ ReportedOnce(toDaemon')
  <2>1. Calm /\ Held
    BY <1>1, <1>5
  <2>2. daemon.named
    BY <1>2, <2>1 DEF Calm
  <2>3. ReportedOnce(toDaemon)
    BY <2>1 DEF Held
  <2>. QED  BY <1>2, <2>1, <2>2, <2>3, ReportedAfterTail
<1>. QED  BY <1>2, <1>3, <1>4, <1>5

\* The daemon answers a call with a reply that hands out nothing.
LEMMA ReplyIs ==
    ASSUME IInv, NEW load, load # 0, NEW m \in ReplyMessage, m.batch = <<>>, ReplyTo(load, m)
    PROVE  /\ toScript' # <<>> => script.load # 0
           /\ toScript' \in Seq(ReplyMessage) /\ BatchesInOrder(toScript')
           /\ OffersIn(toScript') = Offers
           /\ \A x \in Range(toScript') : x \in Range(toScript) \/ x = m
           /\ CarriedIn(toScript') = CarriedIn(toScript)
           /\ CarriedOnce(toScript) => CarriedOnce(toScript')
<1>1. Typed /\ Ordered /\ Loaded
  BY DEF IInv
<1>2. toScript \in Seq(ReplyMessage) /\ BatchesInOrder(toScript)
      /\ (toScript # <<>> => script.load # 0)
  BY <1>1, TypedIs DEF Ordered, Loaded
<1>3. CASE load = script.load
  <2>1. toScript' = Append(toScript, m)
    BY <1>3 DEF ReplyTo
  <2>2. Names(m) = {} /\ Carried(m) = {}
    BY NoOffers, NothingCarried
  <2>3. Before(OffersIn(toScript), Names(m)) /\ Carried(m) \cap CarriedIn(toScript) = {}
    BY <2>2, NoOffers
  <2>4. /\ toScript' \in Seq(ReplyMessage) /\ Range(toScript') = Range(toScript) \cup {m}
        /\ BatchesInOrder(toScript') /\ OffersIn(toScript') = OffersIn(toScript) \cup Names(m)
    BY <1>2, <2>1, <2>3, OffersAfterAppend
  <2>5. CarriedIn(toScript') = CarriedIn(toScript) \cup Carried(m)
    BY <2>4 DEF CarriedIn
  <2>6. CarriedOnce(toScript) => CarriedOnce(toScript')
    BY <1>2, <2>1, <2>3, CarriedAfterAppend
  <2>. QED  BY <1>3, <2>2, <2>4, <2>5, <2>6 DEF Offers
<1>4. CASE load # script.load
  <2>1. toScript' = toScript
    BY <1>4 DEF ReplyTo
  <2>. QED  BY <1>2, <2>1 DEF Offers
<1>. QED  BY <1>3, <1>4

\* The script takes a reply off its queue.
LEMMA CallbackIs ==
    ASSUME IInv, NEW kind, Callback(kind)
    PROVE  /\ Head(toScript) \in ReplyMessage /\ OfferOK(Head(toScript))
           /\ script.load # 0 /\ \A x \in Range(toDaemon) : x.load # 0
           /\ Head(toScript) \in Range(toScript) /\ Head(toScript).kind = kind
           /\ toScript' \in Seq(ReplyMessage) /\ BatchesInOrder(toScript')
           /\ OffersIn(toScript') \subseteq Offers /\ Names(Head(toScript)) \subseteq Offers
           /\ Before(Names(Head(toScript)), OffersIn(toScript'))
           /\ Range(toScript') \subseteq Range(toScript)
           /\ faults = 0 =>
                /\ Calm /\ Held /\ daemon.named
                /\ CarriedIn(toScript') = CarriedIn(toScript) \ Carried(Head(toScript))
                /\ Carried(Head(toScript)) \subseteq CarriedIn(toScript)
                /\ CarriedOnce(toScript')
<1>1. Typed /\ Messages /\ Ordered /\ Loaded /\ (faults = 0 => Calm /\ Held)
  BY DEF IInv
<1>2. toScript \in Seq(ReplyMessage) /\ toScript # <<>> /\ Head(toScript).kind = kind
      /\ toScript' = Tail(toScript) /\ BatchesInOrder(toScript)
  BY <1>1, TypedIs DEF Callback, Ordered
<1>3. /\ Tail(toScript) \in Seq(ReplyMessage) /\ Head(toScript) \in ReplyMessage
      /\ Range(toScript) = {Head(toScript)} \cup Range(Tail(toScript))
  BY <1>2, RangeOfTail
<1>4. OfferOK(Head(toScript)) /\ script.load # 0 /\ \A x \in Range(toDaemon) : x.load # 0
  BY <1>1, <1>2, <1>3 DEF Messages, Loaded
<1>5. /\ BatchesInOrder(toScript') /\ OffersIn(toScript') \subseteq Offers
      /\ Names(Head(toScript)) \subseteq Offers
      /\ Before(Names(Head(toScript)), OffersIn(toScript'))
  BY <1>2, OffersAfterTail DEF Offers
<1>6. ASSUME faults = 0
      PROVE  /\ Calm /\ Held /\ daemon.named
             /\ CarriedIn(toScript') = CarriedIn(toScript) \ Carried(Head(toScript))
             /\ Carried(Head(toScript)) \subseteq CarriedIn(toScript)
             /\ CarriedOnce(toScript')
  <2>1. Calm /\ Held
    BY <1>1, <1>6
  <2>2. daemon.named
    BY <1>2, <2>1 DEF Calm
  <2>3. CarriedOnce(toScript)
    BY <2>1 DEF Held
  <2>. QED  BY <1>2, <2>1, <2>2, <2>3, CarriedAfterTail
<1>. QED  BY <1>2, <1>3, <1>4, <1>5, <1>6

\* The script makes one call.
LEMMA CallJoins ==
    ASSUME Typed, NEW gen \in Nat,
           NEW c \in [kind: {"Hello", "Poll", "Report"}, lane: Lanes, results: Seq(Results)],
           Call(script.load, gen, <<c>>), NEW x, x = Sent(c, script.load, gen)
    PROVE  /\ x \in CallMessage /\ toDaemon' \in Seq(CallMessage)
           /\ Range(toDaemon') \subseteq Range(toDaemon) \cup {x}
           /\ ReportedOnce(toDaemon) /\ Reported(x) \cap ReportedIn(toDaemon) = {} =>
                /\ ReportedOnce(toDaemon')
                /\ daemon.up => ReportedIn(toDaemon') = ReportedIn(toDaemon) \cup Reported(x)
<1>1. script.load \in Nat /\ toDaemon \in Seq(CallMessage)
  BY TypedIs
<1>2. x \in CallMessage /\ toDaemon' = IF daemon.up THEN Append(toDaemon, x) ELSE toDaemon
  BY <1>1, CallIs
<1>3. CASE daemon.up
  <2>1. toDaemon' = Append(toDaemon, x)
    BY <1>2, <1>3
  <2>2. toDaemon' \in Seq(CallMessage) /\ Range(toDaemon') = Range(toDaemon) \cup {x}
    BY <1>1, <1>2, <2>1, RangeOfAppend
  <2>3. ASSUME ReportedOnce(toDaemon), Reported(x) \cap ReportedIn(toDaemon) = {}
        PROVE  ReportedOnce(toDaemon') /\ ReportedIn(toDaemon') = ReportedIn(toDaemon) \cup Reported(x)
    BY <1>1, <1>2, <2>1, <2>3, ReportedAfterAppend
  <2>. QED  BY <1>2, <2>2, <2>3
<1>4. CASE ~daemon.up
  BY <1>1, <1>2, <1>4
<1>. QED  BY <1>3, <1>4

\* The script makes no call.
LEMMA NoCall ==
    ASSUME Typed, NEW load, NEW gen, Call(load, gen, <<>>)
    PROVE  toDaemon' = toDaemon
<1>1. CASE daemon.up
  <2>1. Len(<<>>) = 0 /\ 1..0 = {}
    OBVIOUS
  <2>2. \A f : [i \in {} |-> f] = <<>>
    OBVIOUS
  <2>3. toDaemon' = toDaemon \o [i \in 1..Len(<<>>) |->
                        [kind |-> <<>>[i].kind, from |-> kwin, load |-> load,
                         gen |-> gen, lane |-> <<>>[i].lane, results |-> <<>>[i].results]]
    BY <1>1 DEF Call
  <2>4. [i \in 1..Len(<<>>) |->
                        [kind |-> <<>>[i].kind, from |-> kwin, load |-> load,
                         gen |-> gen, lane |-> <<>>[i].lane, results |-> <<>>[i].results]] = <<>>
    BY <2>1
  <2>5. toDaemon \o <<>> = toDaemon
    BY TypedIs
  <2>. QED  BY <2>3, <2>4, <2>5
<1>2. CASE ~daemon.up
  BY <1>2 DEF Call
<1>. QED  BY <1>1, <1>2

LEMMA HandleHelloKeeps ==
    ASSUME IInv, HandleHello
    PROVE  IInv'
<1>1. PICK m \in Range(toDaemon), formatted \in BOOLEAN :
        /\ Receive(m) /\ Allowed(m) /\ m.kind = "Hello"
        /\ Fault(~formatted)
        /\ IF formatted
           THEN ReplyTo(m.load, [kind |-> "Hello", gen |-> daemon.gen,
                                 lane |-> "fast", batch |-> <<>>])
           ELSE UNCHANGED toScript
  BY DEF HandleHello
<1>2. UNCHANGED <<busVars, script, queueVars, parkVars, history>>
  BY DEF HandleHello
<1>3. UNCHANGED <<kwin, daemon, relay, script, jobs, next, inflight, parked, idle, sent, ran, answers>>
  BY <1>2 DEF busVars, queueVars, parkVars, history
<1>4. /\ m \in CallMessage /\ m \in Range(toDaemon) /\ ReportOK(m) /\ daemon.up
      /\ m.load # 0 /\ \A x \in Range(toDaemon') : x.load # 0
      /\ toDaemon' \in Seq(CallMessage) /\ Range(toDaemon') \subseteq Range(toDaemon)
      /\ faults = 0 =>
            /\ Calm /\ Held /\ daemon.named
            /\ ReportedIn(toDaemon') = ReportedIn(toDaemon) \ Reported(m)
            /\ ReportedOnce(toDaemon')
  BY <1>1, ReceiveIs
<1>5. Typed /\ Ordered /\ Loaded /\ ParkedLaneIsIdle /\ Messages
  BY DEF IInv
<1>6. faults' \in 0..MaxFaults /\ (faults' = 0 => faults = 0)
  BY <1>1, <1>5, TypedIs, FaultIs
<1>7. PICK x \in ReplyMessage : x = [kind |-> "Hello", gen |-> daemon.gen, lane |-> "fast", batch |-> <<>>]
  <2>1. daemon.gen \in Nat /\ "fast" \in Lanes /\ <<>> \in Seq(Dispatched)
    BY <1>5, TypedIs DEF Lanes
  <2>. QED  BY <2>1 DEF ReplyMessage
<1>8. /\ toScript' # <<>> => script.load # 0
      /\ toScript' \in Seq(ReplyMessage) /\ BatchesInOrder(toScript')
      /\ OffersIn(toScript') = Offers
      /\ \A y \in Range(toScript') : y \in Range(toScript) \/ y = x
      /\ CarriedIn(toScript') = CarriedIn(toScript)
      /\ CarriedOnce(toScript) => CarriedOnce(toScript')
  <2>1. CASE formatted
    BY <1>1, <1>4, <1>7, <2>1, ReplyIs
  <2>2. CASE ~formatted
    BY <1>1, <1>5, <2>2, TypedIs DEF Ordered, Offers, Loaded
  <2>. QED  BY <2>1, <2>2
<1>9. Typed'
  BY <1>3, <1>4, <1>5, <1>6, <1>8, TypedIs, TypedNext
<1>10. ParkedLaneIsIdle' /\ Loaded'
  BY <1>3, <1>4, <1>5, <1>8 DEF ParkedLaneIsIdle, Queued, Loaded
<1>11. ASSUME faults' = 0
       PROVE  Calm' /\ Held'
  <2>1. Calm /\ Held /\ daemon.named /\ faults = 0
    BY <1>4, <1>6, <1>11
  <2>2. Calm'
    BY <1>3, <1>4, <1>7, <1>8, <2>1 DEF Calm
  <2>3. Reported(m) = {}
    BY <1>1, <1>4, NothingCarried DEF ReportOK
  <2>4. Held'
    BY <1>3, <1>4, <1>8, <2>1, <2>3 DEF Held, DispatchedIn
  <2>. QED  BY <2>2, <2>4
<1>12. /\ daemon.gen \in Nat /\ script'.gen <= daemon.gen
       /\ \A y \in Range(toScript') : y \in Range(toScript) \/ (y.batch = <<>> /\ y.gen <= daemon.gen)
       /\ \A y \in Range(toDaemon') : y \in Range(toDaemon)
  BY <1>3, <1>4, <1>5, <1>7, <1>8, TypedIs DEF Messages
<1>. QED  BY <1>3, <1>8, <1>9, <1>10, <1>11, <1>12, QuietKeeps

\* A healthy channel refuses nothing.
LEMMA RefuseCallKeeps ==
    ASSUME IInv, RefuseCall
    PROVE  IInv'
<1>1. PICK m \in Range(toDaemon) :
        Receive(m) /\ (~Allowed(m) \/ (m.kind = "Report" /\ ~ReportMatches(m)))
  BY DEF RefuseCall
<1>2. UNCHANGED <<busVars, script, toScript, queueVars, parkVars, history, faults>>
  BY DEF RefuseCall
<1>3. UNCHANGED <<kwin, daemon, relay, script, toScript, jobs, next, inflight, parked, idle, sent,
                  ran, answers, faults>>
  BY <1>2 DEF busVars, queueVars, parkVars, history
<1>4. /\ m \in CallMessage /\ m \in Range(toDaemon) /\ ReportOK(m) /\ daemon.up
      /\ m.load # 0 /\ \A x \in Range(toDaemon') : x.load # 0
      /\ toDaemon' \in Seq(CallMessage) /\ Range(toDaemon') \subseteq Range(toDaemon)
      /\ faults = 0 => /\ Calm /\ Held /\ Reported(m) \subseteq ReportedIn(toDaemon)
  BY <1>1, ReceiveIs
<1>5. Typed /\ Ordered /\ Loaded /\ ParkedLaneIsIdle /\ Messages
  BY DEF IInv
<1>6. Typed'
  BY <1>3, <1>4, <1>5, TypedIs, TypedNext
<1>7. ParkedLaneIsIdle' /\ Loaded'
  BY <1>3, <1>4, <1>5 DEF ParkedLaneIsIdle, Queued, Loaded
<1>8. ASSUME faults = 0
      PROVE  FALSE
  <2>1. Calm /\ Held /\ Reported(m) \subseteq ReportedIn(toDaemon)
    BY <1>4, <1>8
  <2>2. m.from = daemon.peer /\ (m.kind # "Hello" => m.gen = daemon.gen)
    BY <1>4, <2>1 DEF Calm
  <2>3. Allowed(m)
    BY <2>2 DEF Allowed, SameGeneration
  <2>4. ASSUME NEW i \in DOMAIN m.results
        PROVE  Named(m.results[i].seq) # {}
    <3>1. m.results[i].seq \in DispatchedIn(jobs)
      BY <2>1 DEF Held, Reported
    <3>. QED  BY <3>1 DEF DispatchedIn, Named
  <2>5. m.kind = "Report" => ReportMatches(m)
    BY <2>2, <2>4 DEF ReportMatches, SameGeneration
  <2>. QED  BY <1>1, <2>3, <2>5
<1>9. /\ BatchesInOrder(toScript') /\ OffersIn(toScript') \subseteq Offers
      /\ script'.gen <= daemon.gen /\ daemon'.gen = daemon.gen /\ (daemon.up => daemon'.up)
      /\ \A y \in Range(toScript') : y \in Range(toScript)
      /\ \A y \in Range(toDaemon') : y \in Range(toDaemon)
  BY <1>3, <1>4, <1>5 DEF Ordered, Offers, Messages
<1>. QED  BY <1>3, <1>6, <1>7, <1>8, <1>9, QuietKeeps

LEMMA RelayBreaksKeeps ==
    ASSUME IInv, RelayBreaks
    PROVE  IInv'
<1>1. UNCHANGED <<kwin, daemon, script, toDaemon, toScript, jobs, next, inflight, parked, idle, sent,
                  ran, answers>>
  BY DEF RelayBreaks, queueVars, parkVars, history
<1>2. Typed /\ Ordered /\ Loaded /\ ParkedLaneIsIdle /\ Messages
  BY DEF IInv
<1>3. faults' \in 0..MaxFaults /\ faults' # 0 /\ relay' \in BOOLEAN
  <2>1. TRUE \in BOOLEAN /\ Fault(TRUE)
    BY DEF RelayBreaks
  <2>2. faults \in 0..MaxFaults
    BY <1>2, TypedIs
  <2>3. faults' \in 0..MaxFaults /\ faults' # 0
    BY <2>1, <2>2, FaultIs
  <2>. QED  BY <2>3 DEF RelayBreaks
<1>4. Typed'
  BY <1>1, <1>2, <1>3, TypedIs, TypedNext
<1>5. ParkedLaneIsIdle' /\ Loaded'
  BY <1>1, <1>2 DEF ParkedLaneIsIdle, Queued, Loaded
<1>6. /\ BatchesInOrder(toScript') /\ OffersIn(toScript') \subseteq Offers
      /\ script'.gen <= daemon.gen /\ daemon'.gen = daemon.gen /\ (daemon.up => daemon'.up)
      /\ \A y \in Range(toScript') : y \in Range(toScript)
      /\ \A y \in Range(toDaemon') : y \in Range(toDaemon)
  BY <1>1, <1>2 DEF Ordered, Offers, Messages
<1>. QED  BY <1>1, <1>3, <1>4, <1>5, <1>6, QuietKeeps

LEMMA OnHelloKeeps ==
    ASSUME IInv, OnHello
    PROVE  IInv'
<1>. DEFINE h == Head(toScript)
<1>1. /\ Callback("Hello")
      /\ script' = [script EXCEPT !.gen = h.gen, !.running = TRUE]
      /\ Call(script.load, h.gen, <<PollCall("fast"), PollCall("slow")>>)
      /\ UNCHANGED <<busVars, queueVars, parkVars, history, faults>>
  BY DEF OnHello
<1>2. UNCHANGED <<kwin, daemon, relay, jobs, next, inflight, parked, idle, sent, ran, answers, faults>>
  BY <1>1 DEF busVars, queueVars, parkVars, history
<1>3. Typed /\ Ordered /\ ParkedLaneIsIdle /\ Messages
  BY DEF IInv
<1>4. /\ script.load # 0 /\ \A x \in Range(toDaemon) : x.load # 0
      /\ h \in ReplyMessage /\ OfferOK(h) /\ h \in Range(toScript) /\ h.kind = "Hello"
      /\ toScript' \in Seq(ReplyMessage) /\ BatchesInOrder(toScript')
      /\ OffersIn(toScript') \subseteq Offers
      /\ Range(toScript') \subseteq Range(toScript)
      /\ faults = 0 =>
            /\ Calm /\ Held /\ daemon.named
            /\ CarriedIn(toScript') = CarriedIn(toScript) \ Carried(h)
            /\ CarriedOnce(toScript')
  BY <1>1, CallbackIs
<1>5. h.gen \in Nat /\ h.gen <= daemon.gen /\ h.batch = <<>>
  BY <1>4, ReplyFields DEF OfferOK
<1>. HIDE DEF h
<1>6. PICK x, y : x = Sent(PollCall("fast"), script.load, h.gen) /\ y = Sent(PollCall("slow"), script.load, h.gen)
  OBVIOUS
<1>7. \A l \in Lanes : PollCall(l) \in [kind: {"Hello", "Poll", "Report"}, lane: Lanes, results: Seq(Results)]
  BY DEF PollCall
<1>8. "fast" \in Lanes /\ "slow" \in Lanes
  BY DEF Lanes
<1>9. script.load \in Nat /\ toDaemon \in Seq(CallMessage)
  BY <1>3, TypedIs
<1>10. /\ x \in CallMessage /\ y \in CallMessage
       /\ toDaemon' = IF daemon.up THEN Append(Append(toDaemon, x), y) ELSE toDaemon
  BY <1>1, <1>3, <1>5, <1>6, <1>7, <1>8, <1>9, CallsAre
<1>11. /\ x.results = <<>> /\ x.gen = h.gen /\ x.from = kwin /\ x.load = script.load
       /\ y.results = <<>> /\ y.gen = h.gen /\ y.from = kwin /\ y.load = script.load
  BY <1>6 DEF Sent, PollCall
<1>12. Reported(x) = {} /\ Reported(y) = {}
  BY <1>11, NothingCarried
<1>13. /\ toDaemon' \in Seq(CallMessage) /\ Range(toDaemon') \subseteq Range(toDaemon) \cup {x, y}
       /\ ReportedOnce(toDaemon) => ReportedOnce(toDaemon') /\ ReportedIn(toDaemon') = ReportedIn(toDaemon)
  <2>1. CASE daemon.up
    <3>1. PICK z : z = Append(toDaemon, x)
      OBVIOUS
    <3>2. z \in Seq(CallMessage) /\ Range(z) = Range(toDaemon) \cup {x}
      BY <1>9, <1>10, <3>1, RangeOfAppend
    <3>3. toDaemon' = Append(z, y)
      BY <1>10, <2>1, <3>1
    <3>4. toDaemon' \in Seq(CallMessage) /\ Range(toDaemon') = Range(z) \cup {y}
      <4>1. Append(z, y) \in Seq(CallMessage) /\ Range(Append(z, y)) = Range(z) \cup {y}
        BY <1>10, <3>2, RangeOfAppend
      <4>. QED  BY <3>3, <4>1
    <3>5. ASSUME ReportedOnce(toDaemon)
          PROVE  ReportedOnce(toDaemon') /\ ReportedIn(toDaemon') = ReportedIn(toDaemon)
      <4>1. Reported(x) \cap ReportedIn(toDaemon) = {} /\ Reported(y) \cap ReportedIn(z) = {}
        BY <1>12
      <4>2. ReportedOnce(z) /\ ReportedIn(z) = ReportedIn(toDaemon) \cup Reported(x)
        BY <1>9, <1>10, <3>1, <3>5, <4>1, ReportedAfterAppend
      <4>3. ReportedOnce(toDaemon') /\ ReportedIn(toDaemon') = ReportedIn(z) \cup Reported(y)
        BY <1>10, <3>2, <3>3, <4>1, <4>2, ReportedAfterAppend
      <4>. QED  BY <1>12, <4>2, <4>3
    <3>. QED  BY <3>2, <3>4, <3>5
  <2>2. CASE ~daemon.up
    BY <1>9, <1>10, <2>2
  <2>. QED  BY <2>1, <2>2
<1>14. /\ script' \in [load: Nat, gen: Nat, running: BOOLEAN]
       /\ script'.gen = h.gen /\ script'.running = TRUE /\ script'.load = script.load
  BY <1>1, <1>3, <1>5, TypedIs
<1>15. Typed'
  BY <1>2, <1>3, <1>4, <1>13, <1>14, TypedIs, TypedNext
<1>16. ParkedLaneIsIdle' /\ Loaded'
  BY <1>2, <1>3, <1>4, <1>11, <1>13, <1>14 DEF ParkedLaneIsIdle, Queued, Loaded
<1>17. ASSUME faults' = 0
       PROVE  Calm' /\ Held'
  <2>1. Calm /\ Held /\ daemon.named /\ faults = 0
    BY <1>2, <1>4, <1>17
  <2>2. h.gen = daemon.gen
    BY <1>4, <2>1 DEF Calm
  <2>3. \A z \in Range(toDaemon') : /\ z.from = kwin /\ z.load = script.load
                                    /\ z.kind # "Hello" => z.gen = daemon.gen
    BY <1>11, <1>13, <2>1, <2>2 DEF Calm
  <2>4. \A z \in Range(toScript') : z.gen = daemon.gen
    BY <1>4, <2>1 DEF Calm
  <2>5. Calm'
    BY <1>2, <1>14, <2>1, <2>2, <2>3, <2>4 DEF Calm
  <2>6. Carried(h) = {} /\ ReportedOnce(toDaemon)
    BY <1>5, <2>1, NothingCarried DEF Held
  <2>7. Held'
    BY <1>2, <1>4, <1>13, <2>1, <2>6 DEF Held, DispatchedIn
  <2>. QED  BY <2>5, <2>7
<1>18. \A z \in Range(toDaemon') : z \in Range(toDaemon) \/ (z.results = <<>> /\ z.gen <= daemon.gen)
  BY <1>5, <1>11, <1>13
<1>. QED  BY <1>2, <1>4, <1>5, <1>14, <1>15, <1>16, <1>17, <1>18, QuietKeeps

\* A lane is polled again, if the script is still running.
LEMMA PolledAgain ==
    ASSUME IInv, NEW l \in Lanes, NEW running \in BOOLEAN,
           Call(script.load, script.gen, IF running THEN <<PollCall(l)>> ELSE <<>>)
    PROVE  /\ toDaemon' \in Seq(CallMessage)
           /\ ReportedOnce(toDaemon) => ReportedOnce(toDaemon') /\ ReportedIn(toDaemon') = ReportedIn(toDaemon)
           /\ \A z \in Range(toDaemon') :
                \/ z \in Range(toDaemon)
                \/ running /\ z.results = <<>> /\ z.gen = script.gen /\ z.from = kwin /\ z.load = script.load
<1>1. Typed
  BY DEF IInv
<1>2. script.gen \in Nat /\ toDaemon \in Seq(CallMessage)
  BY <1>1, TypedIs
<1>3. CASE running
  <2>1. PICK x : x = Sent(PollCall(l), script.load, script.gen)
    OBVIOUS
  <2>2. PollCall(l) \in [kind: {"Hello", "Poll", "Report"}, lane: Lanes, results: Seq(Results)]
    BY DEF PollCall
  <2>3. Call(script.load, script.gen, <<PollCall(l)>>)
    BY <1>3
  <2>4. x.results = <<>> /\ x.gen = script.gen /\ x.from = kwin /\ x.load = script.load
    BY <2>1 DEF Sent, PollCall
  <2>5. Reported(x) = {}
    BY <2>4, NothingCarried
  <2>6. /\ x \in CallMessage /\ toDaemon' \in Seq(CallMessage)
        /\ Range(toDaemon') \subseteq Range(toDaemon) \cup {x}
        /\ ReportedOnce(toDaemon) /\ Reported(x) \cap ReportedIn(toDaemon) = {} =>
            /\ ReportedOnce(toDaemon')
            /\ daemon.up => ReportedIn(toDaemon') = ReportedIn(toDaemon) \cup Reported(x)
    BY <1>1, <1>2, <2>1, <2>2, <2>3, CallJoins
  <2>7. ~daemon.up => toDaemon' = toDaemon
    BY <2>3 DEF Call
  <2>. QED  BY <1>3, <2>4, <2>5, <2>6, <2>7
<1>4. CASE ~running
  <2>1. Call(script.load, script.gen, <<>>)
    BY <1>4
  <2>2. toDaemon' = toDaemon
    BY <1>1, <2>1, NoCall
  <2>. QED  BY <1>2, <2>2
<1>. QED  BY <1>3, <1>4

LEMMA OnAckKeeps ==
    ASSUME IInv, OnAck
    PROVE  IInv'
<1>. DEFINE h == Head(toScript)
<1>1. /\ Callback("Ack")
      /\ Call(script.load, script.gen, IF script.running THEN <<PollCall(h.lane)>> ELSE <<>>)
      /\ UNCHANGED <<busVars, script, queueVars, parkVars, history, faults>>
  BY DEF OnAck
<1>2. UNCHANGED <<kwin, daemon, relay, script, jobs, next, inflight, parked, idle, sent, ran, answers, faults>>
  BY <1>1 DEF busVars, queueVars, parkVars, history
<1>3. Typed /\ Ordered /\ ParkedLaneIsIdle /\ Messages
  BY DEF IInv
<1>4. /\ script.load # 0 /\ \A x \in Range(toDaemon) : x.load # 0
      /\ h \in ReplyMessage /\ OfferOK(h) /\ h \in Range(toScript) /\ h.kind = "Ack"
      /\ toScript' \in Seq(ReplyMessage) /\ BatchesInOrder(toScript')
      /\ OffersIn(toScript') \subseteq Offers
      /\ Range(toScript') \subseteq Range(toScript)
      /\ faults = 0 =>
            /\ Calm /\ Held /\ daemon.named
            /\ CarriedIn(toScript') = CarriedIn(toScript) \ Carried(h)
            /\ CarriedOnce(toScript')
  BY <1>1, CallbackIs
<1>5. h.batch = <<>> /\ h.lane \in Lanes /\ script.running \in BOOLEAN /\ script.gen <= daemon.gen
      /\ script.gen \in Nat
  BY <1>3, <1>4, ReplyFields, TypedIs DEF OfferOK, Messages
<1>. HIDE DEF h
<1>6. /\ toDaemon' \in Seq(CallMessage)
      /\ ReportedOnce(toDaemon) => ReportedOnce(toDaemon') /\ ReportedIn(toDaemon') = ReportedIn(toDaemon)
      /\ \A z \in Range(toDaemon') :
            \/ z \in Range(toDaemon)
            \/ script.running /\ z.results = <<>> /\ z.gen = script.gen /\ z.from = kwin /\ z.load = script.load
  BY <1>1, <1>5, PolledAgain
<1>7. Typed'
  BY <1>2, <1>3, <1>4, <1>6, TypedIs, TypedNext
<1>8. ParkedLaneIsIdle' /\ Loaded'
  BY <1>2, <1>3, <1>4, <1>6 DEF ParkedLaneIsIdle, Queued, Loaded
<1>9. ASSUME faults' = 0
      PROVE  Calm' /\ Held'
  <2>1. Calm /\ Held /\ daemon.named /\ faults = 0
    BY <1>2, <1>4, <1>9
  <2>2. \A z \in Range(toDaemon') : /\ z.from = kwin /\ z.load = script.load
                                    /\ z.kind # "Hello" => z.gen = daemon.gen /\ script.running
    BY <1>6, <2>1 DEF Calm
  <2>3. \A z \in Range(toScript') : z.gen = daemon.gen /\ (z.kind # "Hello" => script.running)
    BY <1>4, <2>1 DEF Calm
  <2>4. Calm'
    BY <1>2, <2>1, <2>2, <2>3 DEF Calm
  <2>5. Carried(h) = {} /\ ReportedOnce(toDaemon)
    BY <1>5, <2>1, NothingCarried DEF Held
  <2>6. Held'
    BY <1>2, <1>4, <1>6, <2>1, <2>5 DEF Held, DispatchedIn
  <2>. QED  BY <2>4, <2>6
<1>10. \A z \in Range(toDaemon') : z \in Range(toDaemon) \/ (z.results = <<>> /\ z.gen <= daemon.gen)
  BY <1>5, <1>6
<1>. QED  BY <1>2, <1>4, <1>5, <1>7, <1>8, <1>9, <1>10, QuietKeeps

\* The script is loaded again and says Hello.
LEMMA LoadIs ==
    ASSUME IInv, NEW owned \in BOOLEAN, NEW from \in Nat, Load(owned, from)
    PROVE  /\ script' \in [load: Nat, gen: Nat, running: BOOLEAN]
           /\ script'.gen = 0 /\ script'.running = FALSE /\ toScript' = <<>>
           /\ toDaemon' \in Seq(CallMessage)
           /\ \A z \in Range(toDaemon') :
                \/ z \in Range(toDaemon)
                \/ /\ z.results = <<>> /\ z.gen = 0 /\ z.kind = "Hello" /\ z.load # 0
                   /\ z.from = from /\ z.load = script'.load
           /\ ReportedOnce(toDaemon) => ReportedOnce(toDaemon') /\ ReportedIn(toDaemon') = ReportedIn(toDaemon)
<1>1. Typed
  BY DEF IInv
<1>2. script.load \in Nat /\ toDaemon \in Seq(CallMessage)
  BY <1>1, TypedIs
<1>3. script' = [load |-> script.load + 1, gen |-> 0, running |-> FALSE] /\ toScript' = <<>>
  BY DEF Load
<1>4. script' \in [load: Nat, gen: Nat, running: BOOLEAN] /\ script'.load = script.load + 1
      /\ script'.gen = 0 /\ script'.running = FALSE /\ script.load + 1 # 0 /\ script.load + 1 \in Nat
  BY <1>2, <1>3
<1>5. PICK x : x = [kind |-> "Hello", from |-> from, load |-> script.load + 1, gen |-> 0,
                    lane |-> "fast", results |-> <<>>]
  OBVIOUS
<1>6. x \in CallMessage
  <2>1. "fast" \in Lanes /\ <<>> \in Seq(Results) /\ script.load + 1 \in Nat /\ 0 \in Nat
    BY <1>4 DEF Lanes
  <2>. QED  BY <1>5, <2>1 DEF CallMessage
<1>7. Reported(x) = {} /\ x.results = <<>> /\ x.gen = 0 /\ x.kind = "Hello" /\ x.from = from
      /\ x.load = script'.load /\ x.load # 0
  BY <1>4, <1>5, NothingCarried
<1>8. CASE owned
  <2>1. toDaemon' = Append(toDaemon, x)
    BY <1>5, <1>8 DEF Load
  <2>2. Append(toDaemon, x) \in Seq(CallMessage) /\ Range(Append(toDaemon, x)) = Range(toDaemon) \cup {x}
    BY <1>2, <1>6, RangeOfAppend
  <2>3. ASSUME ReportedOnce(toDaemon)
        PROVE  /\ ReportedOnce(Append(toDaemon, x))
               /\ ReportedIn(Append(toDaemon, x)) = ReportedIn(toDaemon) \cup Reported(x)
    <3>1. Reported(x) \cap ReportedIn(toDaemon) = {}
      BY <1>7
    <3>. QED  BY <1>2, <1>6, <2>3, <3>1, ReportedAfterAppend
  <2>. QED  BY <1>3, <1>4, <1>7, <2>1, <2>2, <2>3
<1>9. CASE ~owned
  <2>1. toDaemon' = toDaemon
    BY <1>9 DEF Load
  <2>. QED  BY <1>2, <1>3, <1>4, <2>1
<1>. QED  BY <1>8, <1>9

\* A fresh script, which has learnt no generation, and its Hello.
LEMMA ReloadKeeps ==
    ASSUME IInv, NEW owned \in BOOLEAN, NEW from \in Nat, Load(owned, from), kwin' \in Nat,
           daemon' \in [up: BOOLEAN, named: BOOLEAN, gen: Nat, peer: Nat],
           daemon'.gen = daemon.gen, daemon.up => daemon'.up,
           faults' \in 0..MaxFaults, faults' = 0 => Calm' /\ Held',
           UNCHANGED <<jobs, next, inflight, parked, idle, relay, sent, ran, answers>>
    PROVE  IInv'
<1>1. Typed /\ Loaded /\ ParkedLaneIsIdle
  BY DEF IInv
<1>2. /\ script' \in [load: Nat, gen: Nat, running: BOOLEAN]
      /\ script'.gen = 0 /\ script'.running = FALSE /\ toScript' = <<>>
      /\ toDaemon' \in Seq(CallMessage)
      /\ \A z \in Range(toDaemon') :
            z \in Range(toDaemon) \/ (z.results = <<>> /\ z.gen = 0 /\ z.load # 0)
  BY LoadIs
<1>3. toScript' \in Seq(ReplyMessage)
  BY <1>2
<1>4. Typed'
  BY <1>1, <1>2, <1>3, TypedIs, TypedNext
<1>5. ParkedLaneIsIdle' /\ Loaded'
  BY <1>1, <1>2 DEF ParkedLaneIsIdle, Queued, Loaded
<1>6. BatchesInOrder(toScript') /\ OffersIn(toScript') \subseteq Offers /\ Range(toScript') = {}
  BY <1>2, NoOffers
<1>7. daemon.gen \in Nat /\ script'.gen <= daemon.gen
      /\ \A z \in Range(toDaemon') : z \in Range(toDaemon) \/ (z.results = <<>> /\ z.gen <= daemon.gen)
  <2>1. daemon.gen \in Nat
    BY <1>1, TypedIs
  <2>. QED  BY <1>2, <2>1
<1>. QED  BY <1>4, <1>5, <1>6, <1>7, QuietKeeps

LEMMA NoFault ==
    ASSUME IInv, NEW bad \in BOOLEAN, Fault(bad)
    PROVE  faults' \in 0..MaxFaults /\ (faults' = 0 => faults = 0 /\ ~bad)
BY TypedIs, FaultIs DEF IInv

LEMMA ScriptReloadedKeeps ==
    ASSUME IInv, ScriptReloaded
    PROVE  IInv'
<1>1. /\ UNCHANGED <<kwin, daemon, relay, jobs, next, inflight, parked, idle, sent, ran, answers>>
      /\ Fault(TRUE) /\ Load(daemon.up, kwin)
  BY DEF ScriptReloaded, busVars, queueVars, parkVars, history
<1>2. /\ kwin \in Nat /\ daemon \in [up: BOOLEAN, named: BOOLEAN, gen: Nat, peer: Nat]
      /\ daemon.up \in BOOLEAN
  BY TypedIs DEF IInv
<1>3. faults' \in 0..MaxFaults /\ faults' # 0
  BY <1>1, NoFault
<1>. QED  BY <1>1, <1>2, <1>3, ReloadKeeps

LEMMA CompositorRestartsKeeps ==
    ASSUME IInv, CompositorRestarts
    PROVE  IInv'
<1>1. /\ UNCHANGED <<daemon, relay, jobs, next, inflight, parked, idle, sent, ran, answers>>
      /\ Fault(TRUE) /\ Load(daemon.up, kwin + 1) /\ kwin' = kwin + 1
  BY DEF CompositorRestarts, queueVars, parkVars, history
<1>2. /\ kwin \in Nat /\ kwin + 1 \in Nat /\ daemon.up \in BOOLEAN
      /\ daemon \in [up: BOOLEAN, named: BOOLEAN, gen: Nat, peer: Nat]
  BY TypedIs DEF IInv
<1>3. faults' \in 0..MaxFaults /\ faults' # 0
  BY <1>1, NoFault
<1>. QED  BY <1>1, <1>2, <1>3, ReloadKeeps

LEMMA NameAcquiredKeeps ==
    ASSUME IInv, NameAcquired
    PROVE  IInv'
<1>1. /\ UNCHANGED <<kwin, relay, jobs, next, inflight, parked, idle, sent, ran, answers>>
      /\ daemon.up /\ ~daemon.named /\ daemon' = [daemon EXCEPT !.named = TRUE]
  BY DEF NameAcquired, queueVars, parkVars, history
<1>2. Typed /\ Loaded /\ ParkedLaneIsIdle /\ Ordered /\ Messages
  BY DEF IInv
<1>3. /\ daemon' \in [up: BOOLEAN, named: BOOLEAN, gen: Nat, peer: Nat]
      /\ daemon'.gen = daemon.gen /\ daemon'.up = daemon.up /\ daemon'.peer = daemon.peer
      /\ daemon'.named
      /\ daemon.gen \in Nat /\ kwin \in Nat
  BY <1>1, <1>2, TypedIs
<1>4. CASE Load(TRUE, kwin) /\ Fault(FALSE)
  <2>1. faults' \in 0..MaxFaults /\ (faults' = 0 => faults = 0)
    BY <1>4, NoFault
  <2>2. /\ script'.gen = 0 /\ script'.running = FALSE /\ toScript' = <<>>
        /\ \A z \in Range(toDaemon') :
              \/ z \in Range(toDaemon)
              \/ z.kind = "Hello" /\ z.from = kwin /\ z.load = script'.load
        /\ ReportedOnce(toDaemon) => ReportedOnce(toDaemon') /\ ReportedIn(toDaemon') = ReportedIn(toDaemon)
    <3>1. Load(TRUE, kwin) /\ kwin \in Nat /\ TRUE \in BOOLEAN
      BY <1>3, <1>4
    <3>2. /\ script'.gen = 0 /\ script'.running = FALSE /\ toScript' = <<>>
          /\ \A z \in Range(toDaemon') :
                \/ z \in Range(toDaemon)
                \/ /\ z.results = <<>> /\ z.gen = 0 /\ z.kind = "Hello" /\ z.load # 0
                   /\ z.from = kwin /\ z.load = script'.load
          /\ ReportedOnce(toDaemon) => ReportedOnce(toDaemon') /\ ReportedIn(toDaemon') = ReportedIn(toDaemon)
      BY <3>1, LoadIs
    <3>. QED  BY <3>2
  <2>3. ASSUME faults' = 0
        PROVE  Calm' /\ Held'
    <3>1. Calm /\ Held
      BY <2>1, <2>3 DEF IInv
    <3>2. toDaemon = <<>> /\ toScript = <<>> /\ \A l \in Lanes : parked[l] = NoPoll
      BY <1>1, <3>1 DEF Calm
    <3>3. Range(toDaemon) = {} /\ Range(toScript') = {}
      BY <2>2, <3>2, NoOffers
    <3>4. Calm'
      BY <1>1, <1>3, <2>2, <3>1, <3>2, <3>3 DEF Calm
    <3>5. Held'
      BY <1>1, <2>2, <3>1, <3>2 DEF Held, DispatchedIn
    <3>. QED  BY <3>4, <3>5
  <2>4. daemon.up => daemon'.up
    BY <1>3
  <2>. QED  BY <1>1, <1>3, <1>4, <2>1, <2>3, <2>4, ReloadKeeps
<1>5. CASE Unload /\ Fault(TRUE)
  <2>1. faults' \in 0..MaxFaults /\ faults' # 0
    BY <1>5, NoFault
  <2>2. script' = [load |-> script.load + 1, gen |-> 0, running |-> FALSE] /\ toScript' = <<>>
        /\ toDaemon' = toDaemon /\ script.load \in Nat
    BY <1>2, <1>5, TypedIs DEF Unload
  <2>3. script' \in [load: Nat, gen: Nat, running: BOOLEAN] /\ script'.gen <= daemon.gen
        /\ toScript' \in Seq(ReplyMessage)
    BY <1>3, <2>2
  <2>4. Typed'
    BY <1>1, <1>2, <1>3, <2>1, <2>2, <2>3, TypedIs, TypedNext
  <2>5. ParkedLaneIsIdle' /\ Loaded'
    BY <1>1, <1>2, <2>2 DEF ParkedLaneIsIdle, Queued, Loaded
  <2>6. BatchesInOrder(toScript') /\ OffersIn(toScript') \subseteq Offers /\ Range(toScript') = {}
    BY <2>2, NoOffers
  <2>. QED  BY <1>1, <1>3, <2>1, <2>2, <2>3, <2>4, <2>5, <2>6, QuietKeeps
<1>6. CASE UNCHANGED <<script, toDaemon, toScript>> /\ Fault(TRUE)
  <2>1. faults' \in 0..MaxFaults /\ faults' # 0
    BY <1>6, NoFault
  <2>2. Typed'
    BY <1>1, <1>2, <1>3, <1>6, <2>1, TypedIs, TypedNext
  <2>3. ParkedLaneIsIdle' /\ Loaded'
    BY <1>1, <1>2, <1>6 DEF ParkedLaneIsIdle, Queued, Loaded
  <2>4. BatchesInOrder(toScript') /\ OffersIn(toScript') \subseteq Offers /\ script'.gen <= daemon.gen
    BY <1>2, <1>6 DEF Ordered, Offers, Messages
  <2>. QED  BY <1>1, <1>3, <1>6, <2>1, <2>2, <2>3, <2>4, QuietKeeps
<1>. QED  BY <1>4, <1>5, <1>6 DEF NameAcquired

\* A lane with nothing queued has nothing to hand out.
LEMMA NothingToTake ==
    ASSUME IInv, NEW l \in Lanes, Queued(jobs, l) = {}
    PROVE  Dispatch(jobs, l) = jobs /\ Batch(jobs, l) = <<>>
<1>1. JobsOK(jobs, next, sent)
  BY DEF IInv
<1>2. Taken(jobs, l) = {}
  BY <1>1, TakenIs
<1>3. jobs = [s \in Slots |-> jobs[s]]
  BY <1>1 DEF JobsOK
<1>4. Dispatch(jobs, l) = [s \in Slots |-> jobs[s]]
  BY <1>2 DEF Dispatch
<1>5. PICK b : b = Batch(jobs, l)
  OBVIOUS
<1>6. b \in Seq(Dispatched) /\ \A k \in DOMAIN b : FALSE
  BY <1>1, <1>2, <1>5, BatchIs
<1>7. b = <<>>
  BY <1>6
<1>. QED  BY <1>3, <1>4, <1>5, <1>7

\* A poll that is parked, and one that is released with nothing in it.
LEMMA EmptyReleaseIs ==
    ASSUME IInv, NEW l \in Lanes, NEW successor, NEW formatted \in BOOLEAN,
           Queued(jobs, l) = {}, parked[l] # NoPoll, ReleasePark(jobs, l, successor, formatted)
    PROVE  /\ jobs' = jobs /\ parked' = [parked EXCEPT ![l] = successor]
           /\ idle' = [idle EXCEPT ![l] = successor # NoPoll]
           /\ toScript' # <<>> => script.load # 0
           /\ toScript' \in Seq(ReplyMessage) /\ BatchesInOrder(toScript')
           /\ OffersIn(toScript') = Offers
           /\ \A y \in Range(toScript') : y \in Range(toScript) \/ (y.gen = daemon.gen /\ y.batch = <<>>)
           /\ CarriedIn(toScript') = CarriedIn(toScript)
           /\ CarriedOnce(toScript) => CarriedOnce(toScript')
<1>1. Dispatch(jobs, l) = jobs /\ Batch(jobs, l) = <<>>
  BY NothingToTake
<1>2. Typed /\ Ordered /\ Loaded
  BY DEF IInv
<1>3. PICK x : x = BatchReply(jobs, l)
  OBVIOUS
<1>4. x \in ReplyMessage /\ x.batch = <<>> /\ x.gen = daemon.gen
  <2>1. x = [kind |-> "Batch", gen |-> daemon.gen, lane |-> l, batch |-> <<>>]
    BY <1>1, <1>3 DEF BatchReply
  <2>2. daemon.gen \in Nat /\ <<>> \in Seq(Dispatched)
    BY <1>2, TypedIs
  <2>. QED  BY <2>1, <2>2 DEF ReplyMessage
<1>5. parked[l] # 0
  BY DEF NoPoll
<1>6. CASE formatted
  <2>1. ReplyTo(parked[l], x)
    BY <1>3, <1>6 DEF ReleasePark
  <2>2. /\ toScript' # <<>> => script.load # 0
        /\ toScript' \in Seq(ReplyMessage) /\ BatchesInOrder(toScript')
        /\ OffersIn(toScript') = Offers
        /\ \A y \in Range(toScript') : y \in Range(toScript) \/ y = x
        /\ CarriedIn(toScript') = CarriedIn(toScript)
        /\ CarriedOnce(toScript) => CarriedOnce(toScript')
    BY <1>4, <1>5, <2>1, ReplyIs
  <2>. QED  BY <1>1, <1>4, <2>2 DEF ReleasePark
<1>7. CASE ~formatted
  BY <1>1, <1>2, <1>7, TypedIs DEF ReleasePark, Ordered, Offers, Loaded
<1>. QED  BY <1>6, <1>7

LEMMA IdleTimerKeeps ==
    ASSUME IInv, NEW l \in Lanes, IdleTimer(l)
    PROVE  IInv'
<1>1. PICK formatted \in BOOLEAN : Fault(~formatted) /\ ReleasePark(jobs, l, NoPoll, formatted)
  BY DEF IdleTimer
<1>2. /\ UNCHANGED <<kwin, daemon, relay, script, toDaemon, next, inflight, sent, ran, answers>>
      /\ daemon.up /\ idle[l]
  BY DEF IdleTimer, busVars, history
<1>3. Typed /\ Loaded /\ ParkedLaneIsIdle /\ Messages
  BY DEF IInv
<1>4. parked[l] # NoPoll /\ Queued(jobs, l) = {}
  BY <1>2, <1>3 DEF ParkedLaneIsIdle
<1>5. /\ jobs' = jobs /\ parked' = [parked EXCEPT ![l] = NoPoll]
      /\ idle' = [idle EXCEPT ![l] = NoPoll # NoPoll]
      /\ toScript' # <<>> => script.load # 0
      /\ toScript' \in Seq(ReplyMessage) /\ BatchesInOrder(toScript')
      /\ OffersIn(toScript') = Offers
      /\ \A y \in Range(toScript') : y \in Range(toScript) \/ (y.gen = daemon.gen /\ y.batch = <<>>)
      /\ CarriedIn(toScript') = CarriedIn(toScript)
      /\ CarriedOnce(toScript) => CarriedOnce(toScript')
  BY <1>1, <1>4, EmptyReleaseIs
<1>6. faults' \in 0..MaxFaults /\ (faults' = 0 => faults = 0)
  BY <1>1, NoFault
<1>7. /\ parked \in [Lanes -> Nat] /\ idle \in [Lanes -> BOOLEAN]
      /\ parked' \in [Lanes -> Nat] /\ idle' \in [Lanes -> BOOLEAN]
      /\ \A k \in Lanes : /\ parked'[k] = IF k = l THEN NoPoll ELSE parked[k]
                          /\ idle'[k] = IF k = l THEN FALSE ELSE idle[k]
  BY <1>3, <1>5, TypedIs DEF NoPoll
<1>8. Typed'
  BY <1>2, <1>3, <1>5, <1>6, <1>7, TypedIs, TypedNext
<1>9. ParkedLaneIsIdle'
  <2>. SUFFICES ASSUME NEW k \in Lanes
                PROVE  /\ parked'[k] # NoPoll => Queued(jobs', k) = {}
                       /\ idle'[k] <=> parked'[k] # NoPoll
    BY DEF ParkedLaneIsIdle
  <2>1. CASE k = l
    <3>1. parked'[k] = NoPoll /\ ~idle'[k]
      BY <1>7, <2>1
    <3>. QED  BY <3>1
  <2>2. CASE k # l
    <3>1. parked'[k] = parked[k] /\ idle'[k] = idle[k]
      BY <1>7, <2>2
    <3>. QED  BY <1>3, <1>5, <3>1 DEF ParkedLaneIsIdle
  <2>. QED  BY <2>1, <2>2
<1>10. Loaded'
  BY <1>2, <1>3, <1>5 DEF Loaded
<1>11. ASSUME faults' = 0
       PROVE  Calm' /\ Held'
  <2>1. Calm /\ Held
    BY <1>6, <1>11 DEF IInv
  <2>2. daemon.named /\ script.running
    BY <1>4, <2>1 DEF Calm
  <2>3. \A k \in Lanes : parked'[k] # NoPoll => parked'[k] = script.load
    BY <1>7, <2>1 DEF Calm
  <2>4. \A y \in Range(toScript') : y.gen = daemon.gen
    BY <1>5, <2>1 DEF Calm
  <2>5. Calm'
    BY <1>2, <2>1, <2>2, <2>3, <2>4 DEF Calm
  <2>6. Held'
    BY <1>2, <1>5, <2>1 DEF Held, DispatchedIn
  <2>. QED  BY <2>5, <2>6
<1>12. /\ daemon.gen \in Nat /\ script'.gen <= daemon.gen
       /\ \A y \in Range(toScript') : y \in Range(toScript) \/ (y.batch = <<>> /\ y.gen <= daemon.gen)
  BY <1>2, <1>3, <1>5, TypedIs DEF Messages
<1>. QED  BY <1>2, <1>5, <1>8, <1>9, <1>10, <1>11, <1>12, QuietKeeps

LEMMA HandlePollParkKeeps ==
    ASSUME IInv, HandlePollPark
    PROVE  IInv'
<1>1. PICK m \in Range(toDaemon) :
        /\ Receive(m) /\ Allowed(m) /\ m.kind = "Poll"
        /\ Queued(jobs, m.lane) = {}
        /\ \/ /\ parked[m.lane] = NoPoll
              /\ parked' = [parked EXCEPT ![m.lane] = m.load]
              /\ idle' = [idle EXCEPT ![m.lane] = TRUE]
              /\ UNCHANGED <<jobs, toScript>>
           \/ /\ parked[m.lane] # NoPoll
              /\ ReleasePark(jobs, m.lane, m.load, TRUE)
  BY DEF HandlePollPark
<1>2. UNCHANGED <<kwin, daemon, relay, script, next, inflight, sent, ran, answers, faults>>
  BY DEF HandlePollPark, busVars, history
<1>3. Typed /\ Loaded /\ ParkedLaneIsIdle /\ Messages /\ Ordered
  BY DEF IInv
<1>4. /\ m \in CallMessage /\ m \in Range(toDaemon) /\ ReportOK(m) /\ daemon.up
      /\ m.load # 0 /\ \A x \in Range(toDaemon') : x.load # 0
      /\ toDaemon' \in Seq(CallMessage) /\ Range(toDaemon') \subseteq Range(toDaemon)
      /\ faults = 0 =>
            /\ Calm /\ Held /\ daemon.named
            /\ ReportedIn(toDaemon') = ReportedIn(toDaemon) \ Reported(m)
            /\ ReportedOnce(toDaemon')
  BY <1>1, ReceiveIs
<1>5. m.lane \in Lanes /\ m.load \in Nat /\ m.load # NoPoll
  BY <1>4, CallFields DEF NoPoll
<1>6. /\ jobs' = jobs /\ parked' = [parked EXCEPT ![m.lane] = m.load]
      /\ idle' = [idle EXCEPT ![m.lane] = TRUE]
      /\ toScript' # <<>> => script.load # 0
      /\ toScript' \in Seq(ReplyMessage) /\ BatchesInOrder(toScript')
      /\ OffersIn(toScript') = Offers
      /\ \A y \in Range(toScript') : y \in Range(toScript) \/ (y.gen = daemon.gen /\ y.batch = <<>>)
      /\ CarriedIn(toScript') = CarriedIn(toScript)
      /\ CarriedOnce(toScript) => CarriedOnce(toScript')
  <2>1. CASE parked[m.lane] = NoPoll
    BY <1>1, <1>3, <2>1, TypedIs DEF Ordered, Offers, Loaded
  <2>2. CASE parked[m.lane] # NoPoll
    <3>1. ReleasePark(jobs, m.lane, m.load, TRUE)
      BY <1>1, <2>2
    <3>2. (m.load # NoPoll) = TRUE
      BY <1>5
    <3>. QED  BY <1>1, <1>5, <2>2, <3>1, <3>2, EmptyReleaseIs
  <2>. QED  BY <2>1, <2>2
<1>7. /\ parked \in [Lanes -> Nat] /\ idle \in [Lanes -> BOOLEAN]
      /\ parked' \in [Lanes -> Nat] /\ idle' \in [Lanes -> BOOLEAN]
      /\ \A k \in Lanes : /\ parked'[k] = IF k = m.lane THEN m.load ELSE parked[k]
                          /\ idle'[k] = IF k = m.lane THEN TRUE ELSE idle[k]
  BY <1>3, <1>5, <1>6, TypedIs
<1>8. Typed'
  BY <1>2, <1>3, <1>4, <1>6, <1>7, TypedIs, TypedNext
<1>9. ParkedLaneIsIdle'
  BY <1>1, <1>3, <1>5, <1>6, <1>7 DEF ParkedLaneIsIdle, Queued
<1>10. Loaded'
  BY <1>2, <1>4, <1>6 DEF Loaded
<1>11. ASSUME faults' = 0
       PROVE  Calm' /\ Held'
  <2>1. Calm /\ Held /\ daemon.named /\ faults = 0
    BY <1>2, <1>4, <1>11
  <2>2. m.load = script.load /\ script.running
    BY <1>1, <1>4, <2>1 DEF Calm
  <2>3. \A k \in Lanes : parked'[k] # NoPoll => parked'[k] = script.load
    BY <1>7, <2>1, <2>2 DEF Calm
  <2>4. \A y \in Range(toScript') : y.gen = daemon.gen
    BY <1>6, <2>1 DEF Calm
  <2>5. Calm'
    BY <1>2, <1>4, <2>1, <2>2, <2>3, <2>4 DEF Calm
  <2>6. Reported(m) = {}
    BY <1>1, <1>4, NothingCarried DEF ReportOK
  <2>7. Held'
    BY <1>2, <1>4, <1>6, <2>1, <2>6 DEF Held, DispatchedIn
  <2>. QED  BY <2>5, <2>7
<1>12. /\ daemon.gen \in Nat /\ script'.gen <= daemon.gen
       /\ \A y \in Range(toScript') : y \in Range(toScript) \/ (y.batch = <<>> /\ y.gen <= daemon.gen)
       /\ \A y \in Range(toDaemon') : y \in Range(toDaemon)
  BY <1>2, <1>3, <1>4, <1>6, TypedIs DEF Messages
<1>. QED  BY <1>2, <1>6, <1>8, <1>9, <1>10, <1>11, <1>12, QuietKeeps

-----------------------------------------------------------------------------
(* Stopping, starting, reading and refusing *)

LEMMA StopKeeps ==
    ASSUME IInv, Stop, faults' \in 0..MaxFaults, faults' # 0
    PROVE  IInv'
<1>1. /\ daemon' = [daemon EXCEPT !.up = FALSE, !.named = FALSE]
      /\ toDaemon' = <<>>
      /\ jobs' = [s \in Slots |-> FreeJob]
      /\ inflight' = [s \in Slots |-> NotInflight]
      /\ parked' = [l \in Lanes |-> NoPoll]
      /\ idle' = [l \in Lanes |-> FALSE]
      /\ UNCHANGED <<kwin, script, toScript, next, relay, sent, ran, answers>>
  BY DEF Stop, history
<1>2. Typed /\ JobsOK(jobs, next, sent) /\ Loaded /\ Ordered /\ Messages /\ Truth
  BY DEF IInv
<1>3. /\ daemon' \in [up: BOOLEAN, named: BOOLEAN, gen: Nat, peer: Nat]
      /\ daemon'.gen = daemon.gen /\ daemon.gen \in Nat /\ sent \in Nat /\ next \in Nat
  BY <1>1, <1>2, TypedIs
<1>4. FreeJob \in JobRecord /\ FreeJob.state = "FREE"
  BY DEF FreeJob, JobRecord, Subjects, Lanes, Statuses, NoRequest
<1>5. jobs' \in [Slots -> JobRecord] /\ \A s \in Slots : jobs'[s] = FreeJob
  BY <1>1, <1>4
<1>6. /\ inflight' \in [Slots -> InflightRecord] /\ \A s \in Slots : ~inflight'[s].active
  BY <1>1 DEF NotInflight, InflightRecord, Subjects, NoRequest
<1>7. /\ parked' \in [Lanes -> Nat] /\ idle' \in [Lanes -> BOOLEAN]
      /\ \A l \in Lanes : parked'[l] = NoPoll /\ ~idle'[l]
  BY <1>1 DEF NoPoll
<1>8. toDaemon' \in Seq(CallMessage) /\ Range(toDaemon') = {}
  BY <1>1, NoOffers
<1>9. Typed'
  BY <1>1, <1>2, <1>3, <1>5, <1>6, <1>7, <1>8, TypedIs, TypedNext
<1>10. Used(jobs') = {} /\ Waiting' = {}
  BY <1>4, <1>5 DEF Used, Waiting, WaitingIn
<1>11. JobsOK(jobs, next, sent)' /\ EntriesOK(jobs, inflight)' /\ Down'
  BY <1>5, <1>6, <1>10 DEF JobsOK, EntriesOK, Down
<1>12. Loaded' /\ ParkedLaneIsIdle'
  BY <1>1, <1>2, <1>7, <1>8 DEF Loaded, ParkedLaneIsIdle
<1>13. Ordered' /\ Onward
  <2>1. BatchesInOrder(toScript') /\ OffersIn(toScript') \subseteq Offers \cup {}
    BY <1>1, <1>2 DEF Ordered, Offers
  <2>2. Before({}, Waiting') /\ {} \subseteq {} /\ Waiting' \subseteq {} /\ sent' \in Nat /\ sent <= sent'
    BY <1>1, <1>3, <1>10, NoOffers
  <2>3. \A r \in {} : r \in Waiting \/ (r \in Nat /\ r > sent /\ r <= sent')
    OBVIOUS
  <2>4. ran' = ran
    BY <1>1
  <2>. QED  BY <1>2, <1>3, <2>1, <2>2, <2>3, <2>4, OrderedKept
<1>14. QueueOnward
  BY <1>1, <1>3, <1>10 DEF QueueOnward
<1>15. Messages'
  <2>1. script'.gen <= daemon'.gen /\ daemon'.gen \in Nat /\ daemon.gen <= daemon'.gen
    BY <1>1, <1>2, <1>3 DEF Messages
  <2>2. \A m \in Range(toScript') : m \in Range(toScript)
    BY <1>1
  <2>. QED  BY <1>2, <1>8, <1>13, <1>14, <2>1, <2>2, MessagesKept
<1>16. Truth'
  <2>1. \A s \in Slots : jobs'[s].state # "DONE"
    BY <1>4, <1>5
  <2>. QED  BY <1>1, <1>2, <1>6, <1>13, <2>1, TruthKept
<1>. QED  BY <1>9, <1>11, <1>12, <1>13, <1>15, <1>16 DEF IInv

LEMMA StopsKeep ==
    ASSUME IInv, StopAfterRelayFailure \/ StopAfterCompositorChange \/ StopOnRequest
    PROVE  IInv'
<1>1. CASE StopAfterRelayFailure
  <2>1. Stop /\ Fault(FALSE) /\ ~relay
    BY <1>1 DEF StopAfterRelayFailure
  <2>2. faults' \in 0..MaxFaults /\ (faults' = 0 => faults = 0)
    BY <2>1, NoFault
  <2>3. faults # 0
    BY <2>1 DEF IInv, Calm
  <2>. QED  BY <2>1, <2>2, <2>3, StopKeeps
<1>2. CASE StopAfterCompositorChange
  <2>1. Stop /\ Fault(FALSE) /\ kwin # daemon.peer
    BY <1>2 DEF StopAfterCompositorChange
  <2>2. faults' \in 0..MaxFaults /\ (faults' = 0 => faults = 0)
    BY <2>1, NoFault
  <2>3. faults # 0
    BY <2>1 DEF IInv, Calm
  <2>. QED  BY <2>1, <2>2, <2>3, StopKeeps
<1>3. CASE StopOnRequest
  <2>1. Stop /\ Fault(TRUE)
    BY <1>3 DEF StopOnRequest
  <2>2. faults' \in 0..MaxFaults /\ faults' # 0
    BY <2>1, NoFault
  <2>. QED  BY <2>1, <2>2, StopKeeps
<1>. QED  BY <1>1, <1>2, <1>3

\* Sequences start over, under a generation no message has.
LEMMA DaemonStartsKeeps ==
    ASSUME IInv, DaemonStarts
    PROVE  IInv'
<1>1. /\ ~daemon.up
      /\ daemon' = [up |-> TRUE, named |-> FALSE, gen |-> daemon.gen + 1, peer |-> kwin]
      /\ relay' = TRUE /\ next' = 1
      /\ UNCHANGED <<kwin, script, toDaemon, toScript, jobs, inflight, parked, idle, sent, ran, answers, faults>>
  BY DEF DaemonStarts, parkVars, history
<1>2. /\ Typed /\ JobsOK(jobs, next, sent) /\ EntriesOK(jobs, inflight) /\ Down /\ Loaded
      /\ ParkedLaneIsIdle /\ Ordered /\ Messages /\ Truth
  BY DEF IInv
<1>3. faults # 0
  BY <1>1 DEF IInv, Calm
<1>4. daemon.gen \in Nat /\ kwin \in Nat /\ sent \in Nat
  BY <1>2, TypedIs
<1>5. /\ daemon' \in [up: BOOLEAN, named: BOOLEAN, gen: Nat, peer: Nat]
      /\ daemon'.gen = daemon.gen + 1 /\ daemon'.up
  BY <1>1, <1>4
<1>6. Typed'
  BY <1>1, <1>2, <1>5, TypedIs, TypedNext
<1>7. Used(jobs) = {}
  BY <1>1, <1>2 DEF Down
<1>8. JobsOK(jobs, next, sent)' /\ EntriesOK(jobs, inflight)' /\ Down'
  BY <1>1, <1>2, <1>5, <1>7 DEF JobsOK, EntriesOK, Down, Used
<1>9. Loaded' /\ ParkedLaneIsIdle'
  BY <1>1, <1>2 DEF Loaded, ParkedLaneIsIdle, Queued
<1>10. Waiting' = Waiting
  BY <1>1 DEF Waiting, WaitingIn
<1>11. Ordered' /\ Onward
  <2>1. BatchesInOrder(toScript') /\ OffersIn(toScript') \subseteq Offers \cup {}
    BY <1>1, <1>2 DEF Ordered, Offers
  <2>2. Before({}, Waiting') /\ {} \subseteq Waiting /\ Waiting' \subseteq Waiting
        /\ sent' \in Nat /\ sent <= sent' /\ ran' = ran
    BY <1>1, <1>4, <1>10, NoOffers
  <2>. QED  BY <1>2, <1>4, <2>1, <2>2, OrderedKept
<1>12. Messages'
  <2>1. script'.gen <= daemon'.gen /\ daemon'.gen \in Nat /\ daemon.gen <= daemon'.gen
        /\ daemon'.gen # daemon.gen
    <3>1. script.gen \in Nat /\ script.gen <= daemon.gen
      BY <1>2, TypedIs DEF Messages
    <3>. QED  BY <1>1, <1>4, <1>5, <3>1
  <2>2. /\ \A m \in Range(toScript') : m \in Range(toScript)
        /\ \A m \in Range(toDaemon') : m \in Range(toDaemon)
    BY <1>1
  <2>. QED  BY <1>2, <1>11, <2>1, <2>2, MessagesKept
<1>13. Truth'
  BY <1>1, <1>2, <1>11, TruthKept
<1>. QED  BY <1>1, <1>3, <1>6, <1>8, <1>9, <1>11, <1>12, <1>13 DEF IInv

\* Only the time of a queued job runs out.
LEMMA DeadlinePassesKeeps ==
    ASSUME IInv, NEW s \in Slots, DeadlinePasses(s)
    PROVE  IInv'
<1>1. /\ jobs[s].state = "QUEUED" /\ jobs' = [jobs EXCEPT ![s].late = TRUE]
      /\ UNCHANGED <<kwin, daemon, relay, script, toDaemon, toScript, next, inflight, parked, idle,
                     sent, ran, answers, faults>>
  BY DEF DeadlinePasses, busVars, parkVars, history
<1>2. /\ Typed /\ JobsOK(jobs, next, sent) /\ EntriesOK(jobs, inflight) /\ Down /\ Loaded
      /\ ParkedLaneIsIdle /\ Ordered /\ Messages /\ Truth
  BY DEF IInv
<1>3. jobs \in [Slots -> JobRecord] /\ sent \in Nat /\ next \in Nat /\ daemon.gen \in Nat
  BY <1>2, TypedIs
<1>4. ASSUME NEW t \in Slots
      PROVE  /\ jobs'[t] \in JobRecord
             /\ jobs'[t].state = jobs[t].state /\ jobs'[t].seq = jobs[t].seq
             /\ jobs'[t].lane = jobs[t].lane /\ jobs'[t].of = jobs[t].of
             /\ jobs'[t].status = jobs[t].status /\ jobs'[t].reply = jobs[t].reply
  <2>1. jobs[t] \in JobRecord
    BY <1>3
  <2>2. CASE t = s
    <3>1. jobs'[t] = [jobs[t] EXCEPT !.late = TRUE]
      BY <1>1, <1>3, <2>2
    <3>. QED  BY <2>1, <3>1 DEF JobRecord
  <2>3. CASE t # s
    <3>1. jobs'[t] = jobs[t]
      BY <1>1, <1>3, <2>3
    <3>. QED  BY <2>1, <3>1
  <2>. QED  BY <2>2, <2>3
<1>5. jobs' \in [Slots -> JobRecord]
  <2>1. jobs' = [t \in Slots |-> jobs'[t]]
    BY <1>1, <1>3
  <2>. QED  BY <1>4, <2>1
<1>6. Typed'
  BY <1>1, <1>2, <1>5, TypedIs, TypedNext
<1>7. Used(jobs') = Used(jobs) /\ Used(jobs) \subseteq Slots
  BY <1>4 DEF Used
<1>8. JobsOK(jobs', next, sent) /\ EntriesOK(jobs', inflight)
  <2>1. JobsOK(jobs', next, sent)
    BY <1>2, <1>4, <1>5, <1>7 DEF JobsOK
  <2>2. \A a \in Slots : inflight[a].active =>
          \E t \in Used(jobs') : jobs'[t].seq = inflight[a].seq /\ jobs'[t].of = inflight[a].request
    BY <1>2, <1>4, <1>7 DEF EntriesOK
  <2>3. \A t \in Used(jobs') : \E a \in Slots : inflight[a].active /\ inflight[a].seq = jobs'[t].seq
    BY <1>2, <1>4, <1>7 DEF EntriesOK
  <2>. QED  BY <1>2, <2>1, <2>2, <2>3 DEF EntriesOK
<1>9. JobsOK(jobs, next, sent)' /\ EntriesOK(jobs, inflight)' /\ Down'
  BY <1>1, <1>2, <1>7, <1>8 DEF Down
<1>10. Waiting' = Waiting /\ DispatchedIn(jobs') = DispatchedIn(jobs)
       /\ \A l \in Lanes : Queued(jobs', l) = Queued(jobs, l)
  BY <1>4 DEF Waiting, WaitingIn, DispatchedIn, Queued
<1>11. Loaded' /\ ParkedLaneIsIdle'
  BY <1>1, <1>2, <1>10 DEF Loaded, ParkedLaneIsIdle
<1>12. Ordered' /\ Onward
  <2>1. BatchesInOrder(toScript') /\ OffersIn(toScript') \subseteq Offers \cup {}
    BY <1>1, <1>2 DEF Ordered, Offers
  <2>2. Before({}, Waiting') /\ {} \subseteq Waiting /\ Waiting' \subseteq Waiting
        /\ sent' \in Nat /\ sent <= sent' /\ ran' = ran
    BY <1>1, <1>3, <1>10, NoOffers
  <2>. QED  BY <1>2, <1>3, <2>1, <2>2, OrderedKept
<1>13. QueueOnward
  <2>1. next' = next /\ next <= next'
    BY <1>1, <1>3
  <2>. QED  BY <1>3, <1>4, <1>7, <2>1 DEF QueueOnward
<1>14. Messages'
  <2>1. script'.gen <= daemon'.gen /\ daemon'.gen \in Nat /\ daemon.gen <= daemon'.gen
    BY <1>1, <1>2, <1>3 DEF Messages
  <2>2. /\ \A m \in Range(toScript') : m \in Range(toScript)
        /\ \A m \in Range(toDaemon') : m \in Range(toDaemon)
    BY <1>1
  <2>. QED  BY <1>2, <1>12, <1>13, <2>1, <2>2, MessagesKept
<1>15. Truth'
  BY <1>1, <1>2, <1>4, <1>12, TruthKept
<1>16. ASSUME faults' = 0
       PROVE  Calm' /\ Held'
  <2>1. Calm /\ Held
    BY <1>1, <1>16 DEF IInv
  <2>2. Calm'
    BY <1>1, <2>1 DEF Calm
  <2>3. Held'
    BY <1>1, <1>10, <2>1 DEF Held
  <2>. QED  BY <2>2, <2>3
<1>. QED  BY <1>6, <1>9, <1>11, <1>12, <1>14, <1>15, <1>16 DEF IInv

\* Everything in the channel is of a request that has been read.
LEMMA AllRead ==
    ASSUME IInv
    PROVE  /\ Live \subseteq 1..sent
           /\ \A s \in Slots : inflight[s].active => inflight[s].request \in 1..sent
           /\ \A r \in Requests : r > sent => answers[r] = <<>>
<1>1. JobsOK(jobs, next, sent) /\ EntriesOK(jobs, inflight) /\ Ordered /\ Messages /\ Truth /\ Typed
  BY DEF IInv
<1>2. Offers \subseteq 1..sent /\ Started \subseteq 1..sent
  BY <1>1, OffersRead DEF Ordered
<1>3. Waiting \subseteq 1..sent
  BY <1>1 DEF Waiting, WaitingIn, JobsOK, Used
<1>4. \A s \in Slots : inflight[s].active => inflight[s].request \in 1..sent
  BY <1>1 DEF EntriesOK, JobsOK
<1>5. \A r \in Requests : r > sent => answers[r] = <<>>
  BY <1>1, Constants, TypedIs DEF Truth, AnswerOK
<1>. QED  BY <1>2, <1>3, <1>4, <1>5 DEF Live

\* A request that is answered as soon as it is read.
LEMMA AnsweredAtOnce ==
    ASSUME IInv, NEW r \in Requests, r = sent + 1, sent' = r,
           NEW status \in {"BUSY", "INVALID_REQUEST"}, NEW fate \in Fates,
           Answer(r, status, NoRequest, fate), next' = next \/ next' = next + 1,
           UNCHANGED <<kwin, script, toDaemon, toScript, daemon, jobs, inflight, parked, idle, ran>>,
           faults' \in 0..MaxFaults, faults' = 0 => faults = 0 /\ fate = "written"
    PROVE  IInv'
<1>1. /\ Typed /\ JobsOK(jobs, next, sent) /\ EntriesOK(jobs, inflight) /\ Down /\ Loaded
      /\ ParkedLaneIsIdle /\ Ordered /\ Messages /\ Truth
  BY DEF IInv
<1>2. /\ sent \in Nat /\ next \in Nat /\ next' \in Nat /\ daemon.gen \in Nat /\ sent' \in Nat
      /\ sent <= sent' /\ next <= next' /\ sent < sent'
  <2>1. sent \in Nat /\ next \in Nat /\ daemon.gen \in Nat
    BY <1>1, TypedIs
  <2>. QED  BY <2>1
<1>3. /\ Live \subseteq 1..sent
      /\ \A s \in Slots : inflight[s].active => inflight[s].request \in 1..sent
      /\ answers[r] = <<>>
  <2>1. r > sent
    BY <1>2
  <2>. QED  BY <2>1, AllRead
<1>4. PICK a \in [status: Statuses, of: Subjects] : a = [status |-> status, of |-> NoRequest]
  BY DEF Statuses, Subjects
<1>5. /\ answers \in [Requests -> Seq([status: Statuses, of: Subjects])]
      /\ answers' = IF fate = "written" THEN [answers EXCEPT ![r] = Append(@, a)] ELSE answers
      /\ relay' = (fate # "broken")
  BY <1>1, <1>4, TypedIs DEF Answer
<1>6. Append(<<>>, a) = <<a>> /\ <<a>> \in Seq([status: Statuses, of: Subjects])
      /\ Len(<<a>>) = 1 /\ Range(<<a>>) = {a} /\ Range(<<>>) = {}
  <2>1. Append(<<>>, a) = <<a>> /\ <<a>> \in Seq([status: Statuses, of: Subjects]) /\ Len(<<a>>) = 1
        /\ DOMAIN <<a>> = 1..1 /\ <<a>>[1] = a
    OBVIOUS
  <2>. QED  BY <2>1, NoOffers DEF Range
<1>7. /\ answers'[r] \in {<<>>, <<a>>}
      /\ \A x \in Requests : x # r => answers'[x] = answers[x]
      /\ answers' \in [Requests -> Seq([status: Statuses, of: Subjects])]
  BY <1>3, <1>5, <1>6
<1>8. Typed'
  <2>1. relay' \in BOOLEAN /\ sent' \in Requests \cup {0}
    BY <1>5
  <2>. QED  BY <1>1, <1>2, <1>7, <2>1, TypedIs, TypedNext
<1>9. Used(jobs') = Used(jobs) /\ jobs' = jobs /\ inflight' = inflight
  BY DEF Used
<1>10. JobsOK(jobs', next', sent')
  <2>1. \A t \in Used(jobs) : jobs[t].of \in 1..sent /\ jobs[t].seq < next /\ jobs[t].seq \in Nat
    BY <1>1, JobFields DEF JobsOK, Used
  <2>2. \A t \in Used(jobs) : jobs[t].of \in 1..sent' /\ jobs[t].seq < next'
    BY <1>2, <2>1
  <2>. QED  BY <1>1, <1>9, <2>2 DEF JobsOK
<1>11. JobsOK(jobs, next, sent)' /\ EntriesOK(jobs, inflight)' /\ Down' /\ Loaded' /\ ParkedLaneIsIdle'
  <2>1. EntriesOK(jobs, inflight)'
    BY <1>1, <1>9
  <2>2. Down' /\ Loaded' /\ ParkedLaneIsIdle'
    BY <1>1, <1>9 DEF Down, Loaded, ParkedLaneIsIdle, Queued
  <2>. QED  BY <1>10, <2>1, <2>2
<1>12. Waiting' = Waiting /\ Live' = Live /\ Started' = Started
  BY DEF Waiting, WaitingIn, Live, Started, Offers
<1>13. Ordered' /\ Onward
  <2>1. BatchesInOrder(toScript') /\ OffersIn(toScript') \subseteq Offers \cup {}
    BY <1>1 DEF Ordered, Offers
  <2>2. Before({}, Waiting') /\ {} \subseteq Waiting /\ Waiting' \subseteq Waiting /\ ran' = ran
    BY <1>12, NoOffers
  <2>. QED  BY <1>1, <1>2, <2>1, <2>2, OrderedKept
<1>14. QueueOnward
  BY <1>2, <1>9 DEF QueueOnward
<1>15. Messages'
  <2>1. script'.gen <= daemon'.gen /\ daemon'.gen \in Nat /\ daemon.gen <= daemon'.gen
    BY <1>1, <1>2 DEF Messages
  <2>. QED  BY <1>1, <1>13, <1>14, <2>1, MessagesKept
<1>16. Truth'
  <2>1. ASSUME NEW s \in Slots, jobs'[s].state = "DONE"
        PROVE  Outcome(jobs[s].of, jobs[s].status)'
    BY <1>1, <1>9, <1>12, <2>1 DEF Truth, Outcome
  <2>2. ASSUME NEW x \in Requests
        PROVE  /\ Len(answers'[x]) <= 1
               /\ answers'[x] # <<>> => x <= sent'
               /\ \A s \in Slots : inflight'[s].active /\ inflight'[s].request = x => answers'[x] = <<>>
               /\ \A b \in Range(answers'[x]) :
                    /\ b.status = "BUSY" => x \notin Live'
                    /\ b.status \in {"OK", "FAILED", "INTERNAL"} => b.of = x /\ x \in Started'
    <3>1. CASE x = r
      <4>1. r \notin 1..sent /\ r <= sent'
        BY <1>2
      <4>2. \A s \in Slots : ~(inflight'[s].active /\ inflight'[s].request = r)
        BY <1>3, <1>9, <4>1
      <4>3. r \notin Live'
        BY <1>3, <1>12, <4>1
      <4>4. a.status \notin {"OK", "FAILED", "INTERNAL"}
        BY <1>4
      <4>5. Len(answers'[r]) <= 1 /\ \A b \in Range(answers'[r]) : b = a
        <5>1. CASE answers'[r] = <<>>
          BY <1>6, <5>1
        <5>2. CASE answers'[r] = <<a>>
          BY <1>6, <5>2
        <5>. QED  BY <1>7, <5>1, <5>2
      <4>. QED  BY <3>1, <4>1, <4>2, <4>3, <4>4, <4>5
    <3>2. CASE x # r
      <4>1. answers'[x] = answers[x] /\ x \in Nat
        BY <1>7, <3>2, Constants
      <4>2. answers[x] # <<>> => x <= sent'
        BY <1>1, <1>2, <4>1 DEF Truth, AnswerOK
      <4>. QED  BY <1>1, <1>9, <1>12, <4>1, <4>2 DEF Truth, AnswerOK, AnswersOf
    <3>. QED  BY <3>1, <3>2
  <2>. QED  BY <2>1, <2>2 DEF Truth, AnswerOK, AnswersOf
<1>17. ASSUME faults' = 0
       PROVE  Calm' /\ Held'
  <2>1. Calm /\ Held
    BY <1>17 DEF IInv
  <2>2. Calm'
    BY <1>5, <1>17, <2>1 DEF Calm
  <2>3. Held'
    BY <2>1 DEF Held
  <2>. QED  BY <2>2, <2>3
<1>. QED  BY <1>8, <1>11, <1>13, <1>15, <1>16, <1>17 DEF IInv

LEMMA RejectRequestKeeps ==
    ASSUME IInv, NEW r \in Requests, RejectRequest(r)
    PROVE  IInv'
<1>1. PICK fate \in Fates : Fault(fate # "written") /\ Answer(r, "INVALID_REQUEST", NoRequest, fate)
  BY DEF RejectRequest
<1>2. /\ r = sent + 1 /\ sent' = r
      /\ UNCHANGED <<kwin, script, toDaemon, toScript, daemon, jobs, next, inflight, parked, idle, ran>>
  BY DEF RejectRequest, queueVars, parkVars
<1>3. faults' \in 0..MaxFaults /\ (faults' = 0 => faults = 0 /\ fate = "written")
  BY <1>1, NoFault
<1>. QED  BY <1>1, <1>2, <1>3, AnsweredAtOnce

LEMMA RefuseRequestKeeps ==
    ASSUME IInv, NEW r \in Requests, RefuseRequest(r)
    PROVE  IInv'
<1>1. PICK fate \in Fates, starved \in BOOLEAN :
        /\ Fault(starved \/ fate # "written")
        /\ next' = IF starved THEN next + 1 ELSE next
        /\ Answer(r, "BUSY", NoRequest, fate)
  <2>1. PICK fate \in Fates :
          /\ Fault((FreeInflight # {} /\ FreeJobs # {}) \/ fate # "written")
          /\ next' = IF FreeInflight # {} /\ FreeJobs # {} THEN next + 1 ELSE next
          /\ Answer(r, "BUSY", NoRequest, fate)
    BY Zenon DEF RefuseRequest
  <2>2. PICK starved \in BOOLEAN : starved = (FreeInflight # {} /\ FreeJobs # {})
    OBVIOUS
  <2>. QED  BY <2>1, <2>2
<1>2. /\ r = sent + 1 /\ sent' = r
      /\ UNCHANGED <<kwin, script, toDaemon, toScript, daemon, jobs, inflight, parked, idle, ran>>
  BY DEF RefuseRequest, parkVars
<1>3. faults' \in 0..MaxFaults /\ (faults' = 0 => faults = 0 /\ fate = "written")
  <2>1. PICK bad \in BOOLEAN : bad = (starved \/ fate # "written")
    OBVIOUS
  <2>2. Fault(bad)
    BY <1>1, <2>1
  <2>3. faults' \in 0..MaxFaults /\ (faults' = 0 => faults = 0 /\ ~bad)
    BY <2>2, NoFault
  <2>. QED  BY <2>1, <2>3
<1>. QED  BY <1>1, <1>2, <1>3, AnsweredAtOnce

-----------------------------------------------------------------------------
(* Submitting and handing out *)

\* A queue to which the step has added jobs it has just numbered, if any.
Grown(js, nx, st) ==
    /\ JobsOK(js, nx, st) /\ nx \in Nat /\ st \in Nat /\ next <= nx /\ sent <= st
    /\ \A s \in Used(js) :
        \/ js[s].seq >= next /\ js[s].state = "QUEUED"
        \/ s \in Used(jobs) /\ js[s] = jobs[s]
    /\ \A x \in WaitingIn(js) : x \in Waiting \/ (x \in Nat /\ x > sent /\ x <= st)
    /\ DispatchedIn(js) = DispatchedIn(jobs)

\* Of that queue, the jobs T of a lane have been marked as handed out.
HandsOut(js, T, l, d) ==
    /\ T \subseteq Queued(js, l) /\ Used(d) = Used(js)
    /\ \A s \in T, t \in Queued(js, l) \ T : js[s].seq < js[t].seq
    /\ \A s \in Slots :
        /\ d[s].seq = js[s].seq /\ d[s].of = js[s].of /\ d[s].lane = js[s].lane
        /\ d[s].status = js[s].status
        /\ d[s].state = IF s \in T THEN "DISPATCHED" ELSE js[s].state

\* The batch of a reply names them.
BatchOf(js, T, b) ==
    /\ \A k \in DOMAIN b : \E s \in T : b[k].seq = js[s].seq /\ b[k].of = js[s].of
    /\ \A k, n \in DOMAIN b : k < n => b[k].of < b[n].of
    /\ \A s \in T : \E k \in DOMAIN b : b[k].seq = js[s].seq

Requested(js, T) == {js[s].of : s \in T}
Numbered(js, T) == {js[s].seq : s \in T}

\* What is handed out waited, and came before what still waits on its lane.
LEMMA HandedOutIs ==
    ASSUME NEW js, NEW nx, NEW st, JobsOK(js, nx, st), NEW l \in Lanes, NEW T, NEW d,
           HandsOut(js, T, l, d)
    PROVE  /\ WaitingIn(d) \subseteq WaitingIn(js)
           /\ Requested(js, T) \subseteq WaitingIn(js)
           /\ Before(Requested(js, T), WaitingIn(d))
           /\ DispatchedIn(d) = DispatchedIn(js) \cup Numbered(js, T)
           /\ DispatchedIn(js) \cap Numbered(js, T) = {}
           /\ \A s \in T : /\ js[s].of \in 1..st /\ LaneOf[js[s].of] = l
                           /\ Handed(d, nx, js[s].seq, js[s].of)
<1>1. T \subseteq Slots /\ T \subseteq Used(js)
      /\ \A s \in T : js[s].state = "QUEUED" /\ js[s].lane = l /\ d[s].state = "DISPATCHED"
  BY DEF HandsOut, Queued, Used
<1>2. \A s \in Slots : d[s].state = "QUEUED" => s \notin T /\ js[s].state = "QUEUED" /\ d[s].of = js[s].of
  BY DEF HandsOut
<1>3. WaitingIn(d) \subseteq WaitingIn(js)
  BY <1>2 DEF WaitingIn
<1>4. {js[s].of : s \in T} \subseteq WaitingIn(js)
  BY <1>1 DEF WaitingIn
<1>5. Before({js[s].of : s \in T}, WaitingIn(d))
  <2>. SUFFICES ASSUME NEW s \in T, NEW t \in Slots, d[t].state = "QUEUED",
                       LaneOf[js[s].of] = LaneOf[d[t].of]
                PROVE  js[s].of < d[t].of
    BY DEF Before, WaitingIn
  <2>1. t \notin T /\ js[t].state = "QUEUED" /\ d[t].of = js[t].of
    BY <1>2
  <2>2. t \in Used(js) /\ s \in Used(js)
    BY <1>1, <2>1 DEF Used
  <2>3. js[t].lane = l
    BY <1>1, <2>1, <2>2 DEF JobsOK
  <2>4. t \in Queued(js, l) \ T
    BY <2>1, <2>3 DEF Queued
  <2>5. js[s].seq < js[t].seq
    BY <2>4 DEF HandsOut
  <2>. QED  BY <2>1, <2>2, <2>5 DEF JobsOK
<1>6. DispatchedIn(d) = DispatchedIn(js) \cup {js[s].seq : s \in T}
  <2>1. \A s \in Slots : d[s].seq = js[s].seq
    BY DEF HandsOut
  <2>2. \A s \in Slots : d[s].state = "DISPATCHED" <=> js[s].state = "DISPATCHED" \/ s \in T
    BY <1>1 DEF HandsOut
  <2>. QED  BY <1>1, <2>1, <2>2 DEF DispatchedIn
<1>7. ASSUME NEW s \in T, NEW t \in Slots, js[t].state # "FREE", js[s].seq = js[t].seq
      PROVE  s = t
  BY <1>1, <1>7 DEF JobsOK, Used
<1>8. DispatchedIn(js) \cap {js[s].seq : s \in T} = {}
  <2>. SUFFICES ASSUME NEW t \in Slots, js[t].state = "DISPATCHED", NEW s \in T, js[s].seq = js[t].seq
                PROVE  FALSE
    BY DEF DispatchedIn
  <2>. QED  BY <1>1, <1>7
<1>9. ASSUME NEW s \in T
      PROVE  /\ js[s].of \in 1..st /\ LaneOf[js[s].of] = l
             /\ Handed(d, nx, js[s].seq, js[s].of)
  <2>1. js[s].of \in 1..st /\ LaneOf[js[s].of] = l /\ js[s].seq < nx
    BY <1>1 DEF JobsOK
  <2>2. ASSUME NEW t \in Used(d), d[t].seq = js[s].seq
        PROVE  d[t].state # "QUEUED" /\ d[t].of = js[s].of
    <3>1. t \in Slots /\ js[t].state # "FREE" /\ d[t].seq = js[t].seq /\ d[t].of = js[t].of
      BY DEF HandsOut, Used
    <3>2. t = s
      BY <1>7, <2>2, <3>1
    <3>. QED  BY <1>1, <3>1, <3>2
  <2>. QED  BY <2>1, <2>2 DEF Handed
<1>. QED  BY <1>3, <1>4, <1>5, <1>6, <1>8, <1>9 DEF Requested, Numbered

\* A step that submits or hands out jobs.
LEMMA HandOutKeeps ==
    ASSUME IInv, NEW js, NEW l \in Lanes, NEW T, Grown(js, next', sent'),
           HandsOut(js, T, l, jobs'), JobsOK(jobs', next', sent'), EntriesOK(jobs', inflight'),
           Typed', Loaded', ParkedLaneIsIdle',
           UNCHANGED <<daemon, script, ran, answers>>, daemon.up,
           \A s \in Slots : inflight'[s].active =>
              \/ inflight[s].active /\ inflight'[s].request = inflight[s].request
              \/ inflight'[s].request > sent,
           \A m \in Range(toDaemon') : m \in Range(toDaemon),
           NEW x \in ReplyMessage, x.kind = "Batch", x.gen = daemon.gen, x.lane = l, BatchOf(js, T, x.batch),
           toScript' = toScript \/ toScript' = Append(toScript, x),
           faults' = 0 => /\ faults = 0 /\ Calm'
                          /\ toScript' = Append(toScript, x) \/ T = {}
                          /\ ReportedIn(toDaemon') = ReportedIn(toDaemon) /\ ReportedOnce(toDaemon')
    PROVE  IInv'
<1>1. Typed /\ JobsOK(jobs, next, sent) /\ Ordered /\ Messages /\ Truth
  BY DEF IInv
<1>2. /\ JobsOK(js, next', sent') /\ next' \in Nat /\ sent' \in Nat /\ next <= next' /\ sent <= sent'
      /\ \A y \in WaitingIn(js) : y \in Waiting \/ (y \in Nat /\ y > sent /\ y <= sent')
      /\ DispatchedIn(js) = DispatchedIn(jobs)
  BY DEF Grown
<1>3. sent \in Nat /\ next \in Nat /\ daemon.gen \in Nat /\ toScript \in Seq(ReplyMessage)
  BY <1>1, TypedIs
<1>0. PICK N, Q : N = Requested(js, T) /\ Q = Numbered(js, T)
  OBVIOUS
<1>4. /\ WaitingIn(jobs') \subseteq WaitingIn(js) /\ N \subseteq WaitingIn(js)
      /\ Before(N, WaitingIn(jobs'))
      /\ DispatchedIn(jobs') = DispatchedIn(js) \cup Q
      /\ DispatchedIn(js) \cap Q = {}
      /\ \A s \in T : /\ js[s].of \in 1..sent' /\ LaneOf[js[s].of] = l
                      /\ Handed(jobs', next', js[s].seq, js[s].of)
  <2>1. PICK d, nx, st : d = jobs' /\ nx = next' /\ st = sent'
    OBVIOUS
  <2>2. JobsOK(js, nx, st) /\ HandsOut(js, T, l, d)
    BY <1>2, <2>1
  <2>3. /\ WaitingIn(d) \subseteq WaitingIn(js) /\ N \subseteq WaitingIn(js)
        /\ Before(N, WaitingIn(d))
        /\ DispatchedIn(d) = DispatchedIn(js) \cup Q
        /\ DispatchedIn(js) \cap Q = {}
        /\ \A s \in T : /\ js[s].of \in 1..st /\ LaneOf[js[s].of] = l
                        /\ Handed(d, nx, js[s].seq, js[s].of)
    BY <1>0, <2>2, HandedOutIs
  <2>. QED  BY <2>1, <2>3
<1>5. Names(x) \subseteq N /\ Carried(x) = Q
  <2>1. Names(x) \subseteq N /\ Carried(x) \subseteq Q
    BY <1>0 DEF BatchOf, Names, Carried, Requested, Numbered
  <2>2. Q \subseteq Carried(x)
    BY <1>0 DEF BatchOf, Carried, Numbered
  <2>. QED  BY <2>1, <2>2
<1>6. Before(OffersIn(toScript), Names(x))
  <2>1. Offers \subseteq 1..sent
    BY <1>1, OffersRead
  <2>. SUFFICES ASSUME NEW a \in Offers, NEW b \in N, LaneOf[a] = LaneOf[b]
                PROVE  a < b
    BY <1>5 DEF Before, Offers
  <2>2. b \in Waiting \/ (b \in Nat /\ b > sent)
    BY <1>2, <1>4
  <2>3. CASE b \in Waiting
    BY <1>1, <2>3 DEF Ordered, Before
  <2>4. CASE b \in Nat /\ b > sent
    BY <1>3, <2>1, <2>4
  <2>. QED  BY <2>2, <2>3, <2>4
<1>7. /\ BatchesInOrder(toScript') /\ OffersIn(toScript') \subseteq Offers \cup N
      /\ \A m \in Range(toScript') : m \in Range(toScript) \/ m = x
  <2>1. CASE toScript' = toScript
    BY <1>1, <2>1 DEF Ordered, Offers
  <2>2. CASE toScript' = Append(toScript, x)
    <3>1. BatchesInOrder(toScript)
      BY <1>1 DEF Ordered
    <3>2. /\ Range(Append(toScript, x)) = Range(toScript) \cup {x}
          /\ BatchesInOrder(Append(toScript, x))
          /\ OffersIn(Append(toScript, x)) = OffersIn(toScript) \cup Names(x)
      BY <1>3, <1>6, <3>1, OffersAfterAppend
    <3>. QED  BY <1>5, <2>2, <3>2 DEF Offers
  <2>. QED  BY <2>1, <2>2
<1>8. Ordered' /\ Onward
  <2>1. Waiting' = WaitingIn(jobs')
    BY DEF Waiting
  <2>. QED  BY <1>1, <1>2, <1>3, <1>4, <1>7, <2>1, OrderedKept
<1>9. QueueOnward
  <2>. SUFFICES ASSUME NEW s \in Used(jobs')
                PROVE  \/ jobs'[s].seq >= next
                       \/ /\ s \in Used(jobs) /\ jobs'[s].seq = jobs[s].seq /\ jobs'[s].of = jobs[s].of
                          /\ jobs'[s].state = "QUEUED" => jobs[s].state = "QUEUED"
    BY <1>2, <1>3 DEF QueueOnward
  <2>1. s \in Used(js) /\ s \in Slots
    BY DEF HandsOut, Used
  <2>2. /\ jobs'[s].seq = js[s].seq /\ jobs'[s].of = js[s].of
        /\ jobs'[s].state = "QUEUED" => js[s].state = "QUEUED"
    BY <2>1 DEF HandsOut
  <2>3. js[s].seq >= next \/ (s \in Used(jobs) /\ js[s] = jobs[s])
    BY <2>1 DEF Grown
  <2>. QED  BY <2>2, <2>3
<1>10. Messages'
  <2>1. OfferOK(x)'
    <3>1. ASSUME NEW k \in DOMAIN x.batch
          PROVE  /\ x.batch[k].of \in 1..sent' /\ LaneOf[x.batch[k].of] = x.lane
                 /\ \A n \in DOMAIN x.batch : k < n => x.batch[k].of < x.batch[n].of
                 /\ Handed(jobs', next', x.batch[k].seq, x.batch[k].of)
      <4>1. PICK s \in T : x.batch[k].seq = js[s].seq /\ x.batch[k].of = js[s].of
        BY DEF BatchOf
      <4>2. \A n \in DOMAIN x.batch : k < n => x.batch[k].of < x.batch[n].of
        BY DEF BatchOf
      <4>. QED  BY <1>4, <4>1, <4>2
    <3>2. daemon'.gen = daemon.gen /\ x.gen <= daemon'.gen
      BY <1>3
    <3>. QED  BY <3>1, <3>2 DEF OfferOK
  <2>2. script'.gen <= daemon'.gen /\ daemon'.gen \in Nat /\ daemon.gen <= daemon'.gen
    BY <1>1, <1>3 DEF Messages
  <2>. QED  BY <1>1, <1>7, <1>8, <1>9, <2>1, <2>2, MessagesKept
<1>11. Truth'
  <2>1. ASSUME NEW s \in Slots, jobs'[s].state = "DONE"
        PROVE  jobs[s].state = "DONE" /\ jobs'[s].of = jobs[s].of /\ jobs'[s].status = jobs[s].status
    <3>1. js[s].state = "DONE" /\ jobs'[s].of = js[s].of /\ jobs'[s].status = js[s].status
      BY <2>1 DEF HandsOut
    <3>2. s \in Used(js)
      BY <3>1 DEF Used
    <3>3. js[s] = jobs[s]
      BY <3>1, <3>2 DEF Grown
    <3>. QED  BY <3>1, <3>3
  <2>. QED  BY <1>1, <1>8, <2>1, TruthKept
<1>12. ASSUME faults' = 0
       PROVE  Calm' /\ Held'
  <2>1. /\ faults = 0 /\ Calm' /\ Calm /\ Held
        /\ toScript' = Append(toScript, x) \/ T = {}
        /\ ReportedIn(toDaemon') = ReportedIn(toDaemon) /\ ReportedOnce(toDaemon')
    BY <1>12 DEF IInv
  <2>2. /\ DispatchedIn(jobs) = CarriedIn(toScript) \cup ReportedIn(toDaemon)
        /\ CarriedIn(toScript) \cap ReportedIn(toDaemon) = {} /\ CarriedOnce(toScript)
    BY <2>1 DEF Held
  <2>3. Carried(x) \cap CarriedIn(toScript) = {} /\ Carried(x) \cap ReportedIn(toDaemon) = {}
    BY <1>2, <1>4, <1>5, <2>2
  <2>4. CarriedIn(toScript') = CarriedIn(toScript) \cup Q /\ CarriedOnce(toScript')
    <3>1. CASE toScript' = Append(toScript, x)
      BY <1>3, <1>5, <2>2, <2>3, <3>1, CarriedAfterAppend
    <3>2. CASE toScript' = toScript /\ T = {}
      <4>1. Q = {}
        BY <1>0, <3>2 DEF Numbered
      <4>. QED  BY <2>2, <3>2, <4>1
    <3>. QED  BY <2>1, <3>1, <3>2
  <2>5. /\ DispatchedIn(jobs') = CarriedIn(toScript') \cup ReportedIn(toDaemon')
        /\ CarriedIn(toScript') \cap ReportedIn(toDaemon') = {}
    BY <1>2, <1>4, <1>5, <2>1, <2>2, <2>3, <2>4
  <2>6. Held'
    BY <2>1, <2>4, <2>5 DEF Held
  <2>. QED  BY <2>1, <2>6
<1>13. Down'
  BY DEF Down
<1>. QED  BY <1>8, <1>10, <1>11, <1>12, <1>13 DEF IInv

\* release_park and the answer to a poll mark what they take, and name it.
LEMMA ReleaseIs ==
    ASSUME NEW js, NEW nx, NEW st, JobsOK(js, nx, st), NEW l \in Lanes, daemon.gen \in Nat,
           NEW T, T = Taken(js, l), NEW d, d = Dispatch(js, l), NEW x, x = BatchReply(js, l)
    PROVE  /\ JobsOK(d, nx, st) /\ HandsOut(js, T, l, d) /\ d \in [Slots -> JobRecord]
           /\ x \in ReplyMessage /\ x.kind = "Batch" /\ x.gen = daemon.gen /\ x.lane = l
           /\ BatchOf(js, T, x.batch)
<1>1. /\ JobsOK(d, nx, st) /\ Used(d) = Used(js)
      /\ \A s \in Slots :
            /\ d[s].seq = js[s].seq /\ d[s].of = js[s].of /\ d[s].lane = js[s].lane
            /\ d[s].status = js[s].status
            /\ d[s].state = IF s \in T THEN "DISPATCHED" ELSE js[s].state
  BY DispatchIs
<1>2. /\ T \subseteq Queued(js, l)
      /\ \A s \in T, t \in Queued(js, l) \ T : js[s].seq < js[t].seq
  BY TakenIs
<1>3. HandsOut(js, T, l, d)
  BY <1>1, <1>2 DEF HandsOut
<1>4. PICK b : b = Batch(js, l)
  OBVIOUS
<1>5. /\ b \in Seq(Dispatched)
      /\ \A k \in DOMAIN b : \E s \in Taken(js, l) : b[k].seq = js[s].seq /\ b[k].of = js[s].of
      /\ \A k, n \in DOMAIN b : k < n => b[k].of < b[n].of
      /\ \A s \in Taken(js, l) : \E k \in DOMAIN b : b[k].seq = js[s].seq
  BY <1>4, BatchIs
<1>6. x = [kind |-> "Batch", gen |-> daemon.gen, lane |-> l, batch |-> b]
  BY <1>4 DEF BatchReply
<1>7. x \in ReplyMessage /\ x.kind = "Batch" /\ x.gen = daemon.gen /\ x.lane = l /\ x.batch = b
  BY <1>5, <1>6 DEF ReplyMessage
<1>8. BatchOf(js, T, b)
  BY <1>5 DEF BatchOf
<1>. QED  BY <1>1, <1>3, <1>7, <1>8 DEF JobsOK

LEMMA EntriesSame ==
    ASSUME NEW js, NEW T, NEW l, NEW d, HandsOut(js, T, l, d), NEW entries, EntriesOK(js, entries)
    PROVE  EntriesOK(d, entries)
<1>1. /\ Used(d) = Used(js) /\ Used(js) \subseteq Slots
      /\ \A s \in Slots : d[s].seq = js[s].seq /\ d[s].of = js[s].of
  BY DEF HandsOut, Used
<1>. QED  BY <1>1 DEF EntriesOK

LEMMA HandlePollWorkKeeps ==
    ASSUME IInv, HandlePollWork
    PROVE  IInv'
<1>1. PICK m \in Range(toDaemon), formatted \in BOOLEAN :
        /\ Receive(m) /\ Allowed(m) /\ m.kind = "Poll"
        /\ Fault(~formatted)
        /\ jobs' = Dispatch(jobs, m.lane)
        /\ IF formatted THEN ReplyTo(m.load, BatchReply(jobs, m.lane))
                        ELSE UNCHANGED toScript
  BY DEF HandlePollWork
<1>2. UNCHANGED <<kwin, daemon, relay, script, next, inflight, parked, idle, sent, ran, answers>>
  BY DEF HandlePollWork, busVars, parkVars, history
<1>3. /\ Typed /\ JobsOK(jobs, next, sent) /\ EntriesOK(jobs, inflight) /\ Loaded /\ ParkedLaneIsIdle
  BY DEF IInv
<1>4. /\ m \in CallMessage /\ m \in Range(toDaemon) /\ ReportOK(m) /\ daemon.up
      /\ m.load # 0 /\ \A y \in Range(toDaemon') : y.load # 0
      /\ toDaemon' \in Seq(CallMessage) /\ Range(toDaemon') \subseteq Range(toDaemon)
      /\ faults = 0 =>
            /\ Calm /\ Held /\ daemon.named
            /\ ReportedIn(toDaemon') = ReportedIn(toDaemon) \ Reported(m)
            /\ ReportedOnce(toDaemon')
  BY <1>1, ReceiveIs
<1>5. PICK l \in Lanes, T \in SUBSET Slots : l = m.lane /\ T = Taken(jobs, l)
  <2>1. m.lane \in Lanes /\ Taken(jobs, m.lane) \in SUBSET Slots
    BY <1>4, CallFields DEF Taken, Queued
  <2>. QED  BY <2>1
<1>6. faults' \in 0..MaxFaults /\ (faults' = 0 => faults = 0 /\ formatted)
  BY <1>1, NoFault
<1>7. PICK x : x = BatchReply(jobs, l)
  OBVIOUS
<1>8. /\ JobsOK(jobs', next', sent') /\ HandsOut(jobs, T, l, jobs') /\ jobs' \in [Slots -> JobRecord]
      /\ x \in ReplyMessage /\ x.kind = "Batch" /\ x.gen = daemon.gen /\ x.lane = l
      /\ BatchOf(jobs, T, x.batch)
  <2>1. PICK d : d = Dispatch(jobs, l)
    OBVIOUS
  <2>2. daemon.gen \in Nat
    BY <1>3, TypedIs
  <2>3. /\ JobsOK(d, next, sent) /\ HandsOut(jobs, T, l, d) /\ d \in [Slots -> JobRecord]
        /\ x \in ReplyMessage /\ x.kind = "Batch" /\ x.gen = daemon.gen /\ x.lane = l
        /\ BatchOf(jobs, T, x.batch)
    BY <1>3, <1>5, <1>7, <2>1, <2>2, ReleaseIs
  <2>4. d = jobs'
    BY <1>1, <1>5, <2>1
  <2>. QED  BY <1>2, <2>3, <2>4
<1>9. Grown(jobs, next', sent')
  <2>1. next \in Nat /\ sent \in Nat /\ next <= next /\ sent <= sent
    BY <1>3, TypedIs
  <2>. QED  BY <1>2, <1>3, <2>1 DEF Grown, Waiting
<1>10. EntriesOK(jobs', inflight')
  <2>1. PICK d : d = jobs'
    OBVIOUS
  <2>2. EntriesOK(d, inflight)
    BY <1>3, <1>8, <2>1, EntriesSame
  <2>. QED  BY <1>2, <2>1, <2>2
<1>11. toScript' = toScript \/ (toScript' = Append(toScript, x) /\ m.load = script.load)
  BY <1>1, <1>5, <1>7 DEF ReplyTo
<1>12. formatted /\ m.load = script.load => toScript' = Append(toScript, x)
  BY <1>1, <1>5, <1>7 DEF ReplyTo
<1>13. toScript' \in Seq(ReplyMessage) /\ (toScript' # <<>> => script.load # 0)
       /\ \A y \in Range(toScript') : y \in Range(toScript) \/ y = x
  <2>1. toScript \in Seq(ReplyMessage)
    BY <1>3, TypedIs
  <2>2. CASE toScript' = toScript
    BY <1>3, <2>1, <2>2 DEF Loaded
  <2>3. CASE toScript' = Append(toScript, x) /\ m.load = script.load
    <3>1. Append(toScript, x) \in Seq(ReplyMessage) /\ Range(Append(toScript, x)) = Range(toScript) \cup {x}
      BY <1>8, <2>1, RangeOfAppend
    <3>. QED  BY <1>4, <2>3, <3>1
  <2>. QED  BY <1>11, <2>2, <2>3
<1>14. Typed' /\ Loaded'
  <2>1. Typed'
    BY <1>2, <1>3, <1>4, <1>6, <1>8, <1>13, TypedIs, TypedNext
  <2>2. Loaded'
    BY <1>2, <1>4, <1>13 DEF Loaded
  <2>. QED  BY <2>1, <2>2
<1>15. ParkedLaneIsIdle'
  <2>1. \A k \in Lanes : Queued(jobs', k) \subseteq Queued(jobs, k)
    BY <1>8 DEF HandsOut, Queued
  <2>. QED  BY <1>2, <1>3, <2>1 DEF ParkedLaneIsIdle
<1>16. ASSUME faults' = 0
       PROVE  /\ faults = 0 /\ Calm'
              /\ toScript' = Append(toScript, x)
              /\ ReportedIn(toDaemon') = ReportedIn(toDaemon) /\ ReportedOnce(toDaemon')
  <2>1. Calm /\ Held /\ daemon.named /\ faults = 0 /\ formatted
    BY <1>4, <1>6, <1>16
  <2>2. m.load = script.load /\ script.running
    BY <1>1, <1>4, <2>1 DEF Calm
  <2>3. \A y \in Range(toScript') : y.gen = daemon.gen
    BY <1>8, <1>13, <2>1 DEF Calm
  <2>4. Calm'
    BY <1>2, <1>4, <2>1, <2>2, <2>3 DEF Calm
  <2>5. Reported(m) = {}
    BY <1>1, <1>4, NothingCarried DEF ReportOK
  <2>. QED  BY <1>4, <1>12, <2>1, <2>2, <2>4, <2>5
<1>17. /\ \A s \in Slots : inflight'[s].active => inflight[s].active /\ inflight'[s].request = inflight[s].request
       /\ \A y \in Range(toDaemon') : y \in Range(toDaemon)
       /\ toScript' = toScript \/ toScript' = Append(toScript, x)
  BY <1>2, <1>4, <1>11
<1>. QED  BY <1>2, <1>4, <1>8, <1>9, <1>10, <1>14, <1>15, <1>16, <1>17, HandOutKeeps

\* A set of slots that is not empty has a first one.
LEMMA FirstIs ==
    ASSUME NEW S \in SUBSET Slots, S # {}
    PROVE  First(S) \in S
<1>1. S \in SUBSET Nat /\ IsFiniteSet(S)
  BY Constants, FS_Subset
<1>2. PICK q : q = Ascending(S)
  OBVIOUS
<1>3. /\ DOMAIN q = 1..Cardinality(S) /\ Cardinality(S) \in Nat
      /\ \A m, n \in DOMAIN q : m < n => q[m] < q[n]
      /\ \A i \in S : \E n \in DOMAIN q : q[n] = i
      /\ Range(q) = S
  BY <1>1, <1>2, AscendingIs
<1>4. 1 \in DOMAIN q /\ q[1] \in S
  <2>1. PICK n \in DOMAIN q : TRUE
    BY <1>3
  <2>2. 1 \in DOMAIN q
    BY <1>3, <2>1
  <2>. QED  BY <1>3, <2>2 DEF Range
<1>5. \A t \in S : q[1] <= t
  <2>. SUFFICES ASSUME NEW t \in S
                PROVE  q[1] <= t
    OBVIOUS
  <2>1. PICK n \in DOMAIN q : q[n] = t
    BY <1>3
  <2>2. n = 1 \/ 1 < n
    BY <1>3
  <2>3. t \in Nat /\ q[1] \in Nat
    BY <1>1, <1>4
  <2>. QED  BY <1>3, <1>4, <2>1, <2>2, <2>3
<1>. QED  BY <1>4, <1>5 DEF First

\* The queue and the bus table after a submission.
LEMMA SubmittedIs ==
    ASSUME IInv, NEW r \in Requests, r = sent + 1, FreeInflight # {}, FreeJobs # {},
           NEW js, js = Submitted(r), NEW entries,
           entries = [inflight EXCEPT ![First(FreeInflight)] =
                        [active |-> TRUE, request |-> r, seq |-> next]]
    PROVE  /\ Grown(js, next + 1, r) /\ EntriesOK(js, entries)
           /\ entries \in [Slots -> InflightRecord]
           /\ \A l \in Lanes : l # LaneOf[r] => Queued(js, l) = Queued(jobs, l)
           /\ \A s \in Slots : entries[s].active =>
                \/ inflight[s].active /\ entries[s].request = inflight[s].request
                \/ entries[s].request > sent
<1>1. PICK s0, e0 : s0 = First(FreeJobs) /\ e0 = First(FreeInflight)
  OBVIOUS
<1>2. s0 \in Slots /\ jobs[s0].state = "FREE" /\ e0 \in Slots /\ ~inflight[e0].active
  <2>1. FreeJobs \in SUBSET Slots /\ FreeInflight \in SUBSET Slots
    BY DEF FreeJobs, FreeInflight
  <2>2. s0 \in FreeJobs /\ e0 \in FreeInflight
    BY <1>1, <2>1, FirstIs
  <2>. QED  BY <2>2 DEF FreeJobs, FreeInflight
<1>3. Typed /\ JobsOK(jobs, next, sent) /\ EntriesOK(jobs, inflight)
  BY DEF IInv
<1>4. /\ jobs \in [Slots -> JobRecord] /\ inflight \in [Slots -> InflightRecord]
      /\ next \in Nat /\ sent \in Nat /\ r \in Nat /\ LaneOf[r] \in Lanes
  BY <1>3, Constants, TypedIs
<1>5. PICK j : j = [FreeJob EXCEPT !.state = "QUEUED", !.seq = next, !.lane = LaneOf[r], !.of = r]
  OBVIOUS
<1>6. /\ j \in JobRecord /\ j.state = "QUEUED" /\ j.seq = next /\ j.lane = LaneOf[r] /\ j.of = r
  BY <1>4, <1>5 DEF FreeJob, JobRecord, Subjects, Statuses, NoRequest
<1>7. /\ js \in [Slots -> JobRecord] /\ js[s0] = j
      /\ \A s \in Slots : s # s0 => js[s] = jobs[s]
  <2>1. js = [jobs EXCEPT ![s0] = j]
    BY <1>1, <1>5 DEF Submitted
  <2>. QED  BY <1>2, <1>4, <1>6, <2>1
<1>8. PICK e : e = [active |-> TRUE, request |-> r, seq |-> next]
  OBVIOUS
<1>9. /\ e \in InflightRecord /\ e.active /\ e.request = r /\ e.seq = next
  BY <1>4, <1>8 DEF InflightRecord, Subjects
<1>10. /\ entries \in [Slots -> InflightRecord] /\ entries[e0] = e
       /\ \A s \in Slots : s # e0 => entries[s] = inflight[s]
  BY <1>1, <1>2, <1>4, <1>8, <1>9
<1>11. Used(js) = Used(jobs) \cup {s0} /\ s0 \notin Used(jobs) /\ Used(jobs) \subseteq Slots
  BY <1>2, <1>6, <1>7 DEF Used
<1>12. \A s \in Used(jobs) : /\ js[s] = jobs[s] /\ jobs[s].seq < next /\ jobs[s].seq \in Nat
                             /\ jobs[s].of \in 1..sent
  BY <1>3, <1>4, <1>7, <1>11, JobFields DEF JobsOK
<1>13. JobsOK(js, next + 1, r)
  <2>1. ASSUME NEW s \in Used(js)
        PROVE  /\ js[s].of \in 1..r /\ js[s].lane = LaneOf[js[s].of] /\ js[s].seq < next + 1
               /\ js[s].state = "DONE" => js[s].reply = js[s].of
    <3>1. CASE s = s0
      BY <1>4, <1>6, <1>7, <3>1, Constants
    <3>2. CASE s \in Used(jobs)
      <4>1. /\ jobs[s].lane = LaneOf[jobs[s].of]
            /\ jobs[s].state = "DONE" => jobs[s].reply = jobs[s].of
        BY <1>3, <3>2 DEF JobsOK
      <4>. QED  BY <1>4, <1>12, <3>2, <4>1
    <3>. QED  BY <1>11, <3>1, <3>2
  <2>2. ASSUME NEW s \in Used(js), NEW t \in Used(js)
        PROVE  /\ js[s].seq = js[t].seq => s = t
               /\ js[s].seq < js[t].seq <=> js[s].of < js[t].of
    <3>1. CASE s = s0 /\ t = s0
      BY <1>4, <1>6, <1>7, <3>1
    <3>2. CASE s = s0 /\ t \in Used(jobs)
      BY <1>4, <1>6, <1>7, <1>12, <3>2
    <3>3. CASE s \in Used(jobs) /\ t = s0
      BY <1>4, <1>6, <1>7, <1>12, <3>3
    <3>4. CASE s \in Used(jobs) /\ t \in Used(jobs)
      BY <1>3, <1>12, <3>4 DEF JobsOK
    <3>. QED  BY <1>11, <3>1, <3>2, <3>3, <3>4
  <2>. QED  BY <1>7, <2>1, <2>2 DEF JobsOK
<1>14. Grown(js, next + 1, r)
  <2>1. \A s \in Used(js) : \/ js[s].seq >= next /\ js[s].state = "QUEUED"
                            \/ s \in Used(jobs) /\ js[s] = jobs[s]
    BY <1>4, <1>6, <1>7, <1>11, <1>12
  <2>2. ASSUME NEW x \in WaitingIn(js)
        PROVE  x \in Waiting \/ (x \in Nat /\ x > sent /\ x <= r)
    <3>1. PICK s \in Slots : js[s].state = "QUEUED" /\ x = js[s].of
      BY DEF WaitingIn
    <3>2. CASE s = s0
      BY <1>4, <1>6, <1>7, <3>1, <3>2
    <3>3. CASE s # s0
      BY <1>7, <3>1, <3>3 DEF Waiting, WaitingIn
    <3>. QED  BY <3>2, <3>3
  <2>3. DispatchedIn(js) = DispatchedIn(jobs)
    <3>1. \A s \in Slots : js[s].state = "DISPATCHED" => s # s0 /\ js[s] = jobs[s]
      BY <1>6, <1>7
    <3>2. \A s \in Slots : jobs[s].state = "DISPATCHED" => js[s] = jobs[s]
      BY <1>2, <1>7
    <3>. QED  BY <3>1, <3>2 DEF DispatchedIn
  <2>4. next + 1 \in Nat /\ r \in Nat /\ next <= next + 1 /\ sent <= r
    BY <1>4
  <2>. QED  BY <1>13, <2>1, <2>2, <2>3, <2>4 DEF Grown
<1>15. \A s \in Slots : inflight[s].active => inflight[s].seq < next /\ inflight[s].seq \in Nat
  BY <1>3, <1>12 DEF EntriesOK
<1>16. EntriesOK(js, entries)
  <2>1. ASSUME NEW s \in Slots, entries[s].active
        PROVE  \E t \in Used(js) : js[t].seq = entries[s].seq /\ js[t].of = entries[s].request
    <3>1. CASE s = e0
      BY <1>6, <1>7, <1>9, <1>10, <1>11, <3>1
    <3>2. CASE s # e0
      <4>1. entries[s] = inflight[s]
        BY <1>10, <3>2
      <4>2. PICK t \in Used(jobs) : jobs[t].seq = inflight[s].seq /\ jobs[t].of = inflight[s].request
        BY <1>3, <2>1, <4>1 DEF EntriesOK
      <4>. QED  BY <1>11, <1>12, <4>1, <4>2
    <3>. QED  BY <3>1, <3>2
  <2>2. ASSUME NEW s \in Slots, NEW t \in Slots, entries[s].active, entries[t].active,
               entries[s].seq = entries[t].seq
        PROVE  s = t
    <3>1. CASE s # e0 /\ t # e0
      BY <1>3, <1>10, <2>2, <3>1 DEF EntriesOK
    <3>2. CASE s = e0 /\ t # e0
      BY <1>4, <1>9, <1>10, <1>15, <2>2, <3>2
    <3>3. CASE s # e0 /\ t = e0
      BY <1>4, <1>9, <1>10, <1>15, <2>2, <3>3
    <3>. QED  BY <3>1, <3>2, <3>3
  <2>3. ASSUME NEW t \in Used(js)
        PROVE  \E s \in Slots : entries[s].active /\ entries[s].seq = js[t].seq
    <3>1. CASE t = s0
      BY <1>2, <1>6, <1>7, <1>9, <1>10, <3>1
    <3>2. CASE t \in Used(jobs)
      <4>1. PICK s \in Slots : inflight[s].active /\ inflight[s].seq = jobs[t].seq
        BY <1>3, <3>2 DEF EntriesOK
      <4>2. s # e0
        BY <1>2, <4>1
      <4>. QED  BY <1>10, <1>12, <3>2, <4>1, <4>2
    <3>. QED  BY <1>11, <3>1, <3>2
  <2>. QED  BY <2>1, <2>2, <2>3 DEF EntriesOK
<1>17. ASSUME NEW l \in Lanes, l # LaneOf[r]
       PROVE  Queued(js, l) = Queued(jobs, l)
  BY <1>2, <1>6, <1>7, <1>17 DEF Queued
<1>18. ASSUME NEW s \in Slots, entries[s].active
       PROVE  \/ inflight[s].active /\ entries[s].request = inflight[s].request
              \/ entries[s].request > sent
  BY <1>4, <1>9, <1>10, <1>18
<1>. QED  BY <1>10, <1>14, <1>16, <1>17, <1>18

LEMMA SubmitRequestKeeps ==
    ASSUME IInv, NEW r \in Requests, SubmitRequest(r)
    PROVE  IInv'
<1>1. /\ daemon.up /\ r = sent + 1 /\ FreeInflight # {} /\ FreeJobs # {} /\ sent' = r /\ next' = next + 1
      /\ inflight' = [inflight EXCEPT ![First(FreeInflight)] =
                        [active |-> TRUE, request |-> r, seq |-> next]]
      /\ UNCHANGED <<kwin, daemon, relay, script, toDaemon, ran, answers>>
  BY DEF SubmitRequest, busVars
<1>2. PICK js, entries, l : js = Submitted(r) /\ entries = inflight' /\ l = LaneOf[r]
  OBVIOUS
<1>3. Typed /\ Loaded /\ ParkedLaneIsIdle /\ (faults = 0 => Calm /\ Held)
  BY DEF IInv
<1>4. /\ Grown(js, next + 1, r) /\ EntriesOK(js, entries)
      /\ entries \in [Slots -> InflightRecord]
      /\ \A k \in Lanes : k # LaneOf[r] => Queued(js, k) = Queued(jobs, k)
      /\ \A s \in Slots : entries[s].active =>
            \/ inflight[s].active /\ entries[s].request = inflight[s].request
            \/ entries[s].request > sent
  BY <1>1, <1>2, SubmittedIs
<1>5. JobsOK(js, next + 1, r) /\ l \in Lanes /\ daemon.gen \in Nat /\ next' \in Nat
      /\ toScript \in Seq(ReplyMessage) /\ sent' \in Requests \cup {0}
  BY <1>1, <1>2, <1>3, <1>4, Constants, TypedIs DEF Grown
<1>6. CASE parked[l] = NoPoll /\ jobs' = js /\ UNCHANGED <<toScript, parked, idle, faults>>
  <2>1. PICK x \in ReplyMessage : x = [kind |-> "Batch", gen |-> daemon.gen, lane |-> l, batch |-> <<>>]
    <3>1. <<>> \in Seq(Dispatched)
      OBVIOUS
    <3>. QED  BY <1>5, <3>1 DEF ReplyMessage
  <2>2. x.kind = "Batch" /\ x.gen = daemon.gen /\ x.lane = l /\ BatchOf(js, {}, x.batch)
    BY <2>1 DEF BatchOf
  <2>3. HandsOut(js, {}, l, jobs')
    BY <1>6 DEF HandsOut
  <2>4. jobs' \in [Slots -> JobRecord]
    BY <1>5, <1>6 DEF JobsOK
  <2>5. Typed'
    BY <1>1, <1>2, <1>3, <1>4, <1>5, <1>6, <2>4, TypedIs, TypedNext
  <2>6. Loaded'
    BY <1>1, <1>3, <1>6 DEF Loaded
  <2>7. ParkedLaneIsIdle'
    <3>. SUFFICES ASSUME NEW k \in Lanes
                  PROVE  /\ parked[k] # NoPoll => Queued(jobs', k) = {}
                         /\ idle[k] <=> parked[k] # NoPoll
      BY <1>6 DEF ParkedLaneIsIdle
    <3>1. parked[k] # NoPoll => k # LaneOf[r]
      BY <1>2, <1>6
    <3>. QED  BY <1>3, <1>4, <1>6, <3>1 DEF ParkedLaneIsIdle
  <2>8. ASSUME faults' = 0
        PROVE  /\ faults = 0 /\ Calm'
               /\ ReportedIn(toDaemon') = ReportedIn(toDaemon) /\ ReportedOnce(toDaemon')
    <3>1. faults = 0 /\ Calm /\ Held
      BY <1>3, <1>6, <2>8
    <3>2. Calm'
      BY <1>1, <1>6, <3>1 DEF Calm
    <3>3. ReportedIn(toDaemon') = ReportedIn(toDaemon) /\ ReportedOnce(toDaemon')
      BY <1>1, <3>1 DEF Held
    <3>. QED  BY <3>1, <3>2, <3>3
  <2>9. /\ Grown(js, next', sent') /\ JobsOK(jobs', next', sent') /\ EntriesOK(jobs', inflight')
        /\ \A m \in Range(toDaemon') : m \in Range(toDaemon)
        /\ \A s \in Slots : inflight'[s].active =>
              \/ inflight[s].active /\ inflight'[s].request = inflight[s].request
              \/ inflight'[s].request > sent
    BY <1>1, <1>2, <1>4, <1>5, <1>6
  <2>10. toScript' = toScript
    BY <1>6
  <2>. QED  BY <1>1, <1>5, <2>2, <2>3, <2>5, <2>6, <2>7, <2>8, <2>9, <2>10, HandOutKeeps
<1>7. ASSUME NEW formatted \in BOOLEAN, parked[l] # NoPoll, Fault(~formatted),
             ReleasePark(js, l, NoPoll, formatted)
      PROVE  IInv'
  <2>1. PICK x, T, d : x = BatchReply(js, l) /\ T = Taken(js, l) /\ d = Dispatch(js, l)
    OBVIOUS
  <2>2. /\ JobsOK(d, next + 1, r) /\ HandsOut(js, T, l, d) /\ d \in [Slots -> JobRecord]
        /\ x \in ReplyMessage /\ x.kind = "Batch" /\ x.gen = daemon.gen /\ x.lane = l
        /\ BatchOf(js, T, x.batch)
    BY <1>5, <2>1, ReleaseIs
  <2>3. EntriesOK(d, entries)
    BY <1>4, <2>2, EntriesSame
  <2>4. /\ jobs' = d /\ parked' = [parked EXCEPT ![l] = NoPoll]
        /\ idle' = [idle EXCEPT ![l] = NoPoll # NoPoll]
        /\ IF formatted THEN ReplyTo(parked[l], x) ELSE toScript' = toScript
    BY <1>7, <2>1 DEF ReleasePark
  <2>5. faults' \in 0..MaxFaults /\ (faults' = 0 => faults = 0 /\ formatted)
    BY <1>7, NoFault
  <2>6. toScript' = toScript \/ (toScript' = Append(toScript, x) /\ parked[l] = script.load)
    BY <2>4 DEF ReplyTo
  <2>7. formatted /\ parked[l] = script.load => toScript' = Append(toScript, x)
    BY <2>4 DEF ReplyTo
  <2>8. toScript' \in Seq(ReplyMessage) /\ (toScript' # <<>> => script.load # 0)
        /\ \A y \in Range(toScript') : y \in Range(toScript) \/ y = x
    <3>1. CASE toScript' = toScript
      BY <1>3, <1>5, <3>1 DEF Loaded
    <3>2. CASE toScript' = Append(toScript, x) /\ parked[l] = script.load
      <4>1. Append(toScript, x) \in Seq(ReplyMessage) /\ Range(Append(toScript, x)) = Range(toScript) \cup {x}
        BY <1>5, <2>2, RangeOfAppend
      <4>2. script.load # 0
        BY <1>7, <3>2 DEF NoPoll
      <4>. QED  BY <3>2, <4>1, <4>2
    <3>. QED  BY <2>6, <3>1, <3>2
  <2>9. /\ parked \in [Lanes -> Nat] /\ idle \in [Lanes -> BOOLEAN]
        /\ parked' \in [Lanes -> Nat] /\ idle' \in [Lanes -> BOOLEAN]
        /\ \A k \in Lanes : /\ parked'[k] = IF k = l THEN NoPoll ELSE parked[k]
                            /\ idle'[k] = IF k = l THEN FALSE ELSE idle[k]
    BY <1>3, <1>5, <2>4, TypedIs DEF NoPoll
  <2>10. Typed'
    BY <1>1, <1>2, <1>3, <1>4, <1>5, <2>2, <2>4, <2>5, <2>8, <2>9, TypedIs, TypedNext
  <2>11. Loaded'
    BY <1>1, <1>3, <2>8 DEF Loaded
  <2>12. ParkedLaneIsIdle'
    <3>. SUFFICES ASSUME NEW k \in Lanes
                  PROVE  /\ parked'[k] # NoPoll => Queued(jobs', k) = {}
                         /\ idle'[k] <=> parked'[k] # NoPoll
      BY DEF ParkedLaneIsIdle
    <3>1. CASE k = l
      <4>1. parked'[k] = NoPoll /\ ~idle'[k]
        BY <2>9, <3>1
      <4>. QED  BY <4>1
    <3>2. CASE k # l
      <4>1. parked'[k] = parked[k] /\ idle'[k] = idle[k]
        BY <2>9, <3>2
      <4>2. Queued(jobs', k) \subseteq Queued(js, k)
        BY <2>2, <2>4 DEF HandsOut, Queued
      <4>3. Queued(js, k) = Queued(jobs, k)
        BY <1>2, <1>4, <3>2
      <4>. QED  BY <1>3, <4>1, <4>2, <4>3 DEF ParkedLaneIsIdle
    <3>. QED  BY <3>1, <3>2
  <2>13. ASSUME faults' = 0
         PROVE  /\ faults = 0 /\ Calm' /\ toScript' = Append(toScript, x)
                /\ ReportedIn(toDaemon') = ReportedIn(toDaemon) /\ ReportedOnce(toDaemon')
    <3>1. Calm /\ Held /\ faults = 0 /\ formatted
      BY <1>3, <2>5, <2>13
    <3>2. parked[l] = script.load /\ script.running /\ daemon.named
      BY <1>5, <1>7, <3>1 DEF Calm
    <3>3. \A y \in Range(toScript') : y.gen = daemon.gen
      BY <2>2, <2>8, <3>1 DEF Calm
    <3>4. \A k \in Lanes : parked'[k] # NoPoll => parked'[k] = script.load
      BY <2>9, <3>1 DEF Calm
    <3>5. Calm'
      BY <1>1, <3>1, <3>2, <3>3, <3>4 DEF Calm
    <3>6. ReportedIn(toDaemon') = ReportedIn(toDaemon) /\ ReportedOnce(toDaemon')
      BY <1>1, <3>1 DEF Held
    <3>. QED  BY <2>7, <3>1, <3>2, <3>5, <3>6
  <2>14. /\ Grown(js, next', sent') /\ JobsOK(jobs', next', sent') /\ EntriesOK(jobs', inflight')
         /\ HandsOut(js, T, l, jobs')
         /\ \A m \in Range(toDaemon') : m \in Range(toDaemon)
         /\ \A s \in Slots : inflight'[s].active =>
               \/ inflight[s].active /\ inflight'[s].request = inflight[s].request
               \/ inflight'[s].request > sent
    BY <1>1, <1>2, <1>4, <2>2, <2>3, <2>4
  <2>15. toScript' = toScript \/ toScript' = Append(toScript, x)
    BY <2>6
  <2>. QED  BY <1>1, <1>5, <2>2, <2>10, <2>11, <2>12, <2>13, <2>14, <2>15, HandOutKeeps
<1>8. \/ parked[l] = NoPoll /\ jobs' = js /\ UNCHANGED <<toScript, parked, idle, faults>>
      \/ /\ parked[l] # NoPoll
         /\ \E formatted \in BOOLEAN : Fault(~formatted) /\ ReleasePark(js, l, NoPoll, formatted)
  BY <1>2 DEF SubmitRequest, parkVars
<1>. QED  BY <1>6, <1>7, <1>8

-----------------------------------------------------------------------------
(* Reports *)

\* A report finishes the jobs it names, with results of their own.
LEMMA CompletedIs ==
    ASSUME IInv, NEW m \in CallMessage, ReportOK(m), m.gen = daemon.gen,
           NEW n \in 0..Len(m.results), NEW js, js = Completed(m.results, n)
    PROVE  /\ JobsOK(js, next, sent) /\ EntriesOK(js, inflight)
           /\ \A s \in Slots :
                \/ js[s] = jobs[s]
                \/ /\ jobs[s].state = "DISPATCHED" /\ js[s].state = "DONE"
                   /\ js[s].of = jobs[s].of /\ jobs[s].of \in 1..sent /\ js[s].seq = jobs[s].seq
                   /\ Outcome(js[s].of, js[s].status) /\ jobs[s].seq \in Reported(m)
           /\ \A s \in Slots, i \in 1..n :
                jobs[s].state = "DISPATCHED" /\ jobs[s].seq = m.results[i].seq => js[s].state = "DONE"
<1>1. Typed /\ JobsOK(jobs, next, sent) /\ EntriesOK(jobs, inflight)
  BY DEF IInv
<1>2. jobs \in [Slots -> JobRecord] /\ m.results \in Seq(Results)
  BY <1>1, CallFields, TypedIs
<1>3. Len(m.results) \in Nat /\ DOMAIN m.results = 1..Len(m.results)
      /\ \A i \in 1..n : i \in DOMAIN m.results /\ m.results[i] \in Results
  BY <1>2
<1>4. ASSUME NEW s \in Slots, NEW i \in 1..n, jobs[s].state = "DISPATCHED", jobs[s].seq = m.results[i].seq
      PROVE  m.results[i].of = jobs[s].of /\ jobs[s].of \in 1..sent /\ Outcome(jobs[s].of, m.results[i].status)
  <2>1. s \in Used(jobs)
    BY <1>4 DEF Used
  <2>2. /\ Handed(jobs, next, m.results[i].seq, m.results[i].of)
        /\ Outcome(m.results[i].of, m.results[i].status)
    BY <1>3 DEF ReportOK
  <2>. QED  BY <1>1, <1>4, <2>1, <2>2 DEF Handed, JobsOK
<1>5. ASSUME NEW s \in Slots
      PROVE  /\ js[s] \in JobRecord /\ js[s].seq = jobs[s].seq /\ js[s].of = jobs[s].of
             /\ js[s].lane = jobs[s].lane
             /\ \/ js[s] = jobs[s]
                \/ /\ jobs[s].state = "DISPATCHED" /\ js[s].state = "DONE" /\ js[s].reply = js[s].of
                   /\ jobs[s].of \in 1..sent
                   /\ Outcome(js[s].of, js[s].status) /\ jobs[s].seq \in Reported(m)
             /\ \A i \in 1..n : jobs[s].state = "DISPATCHED" /\ jobs[s].seq = m.results[i].seq
                    => js[s].state = "DONE"
  <2>1. jobs[s] \in JobRecord
    BY <1>2
  <2>2. CASE \E i \in 1..n : s \in Named(m.results[i].seq)
    <3>1. PICK i : i = CHOOSE k \in 1..n : s \in Named(m.results[k].seq)
      OBVIOUS
    <3>2. i \in 1..n /\ s \in Named(m.results[i].seq)
      BY <2>2, <3>1
    <3>3. js[s] = [jobs[s] EXCEPT !.state = "DONE", !.status = m.results[i].status,
                                  !.reply = m.results[i].of]
      BY <2>2, <3>1 DEF Completed
    <3>4. jobs[s].state = "DISPATCHED" /\ jobs[s].seq = m.results[i].seq
      BY <3>2 DEF Named
    <3>5. m.results[i].of = jobs[s].of /\ jobs[s].of \in 1..sent /\ Outcome(jobs[s].of, m.results[i].status)
      BY <1>4, <3>2, <3>4
    <3>6. m.results[i].status \in Statuses /\ m.results[i].of \in Subjects
      BY <1>3, <3>2 DEF Results
    <3>7. /\ js[s] \in JobRecord /\ js[s].state = "DONE" /\ js[s].seq = jobs[s].seq /\ js[s].of = jobs[s].of
          /\ js[s].lane = jobs[s].lane /\ js[s].status = m.results[i].status /\ js[s].reply = m.results[i].of
      BY <2>1, <3>3, <3>6 DEF JobRecord
    <3>8. jobs[s].seq \in Reported(m)
      BY <1>3, <3>2, <3>4 DEF Reported
    <3>. QED  BY <3>4, <3>5, <3>7, <3>8
  <2>3. CASE ~ \E i \in 1..n : s \in Named(m.results[i].seq)
    <3>1. js[s] = jobs[s]
      BY <2>3 DEF Completed
    <3>2. \A i \in 1..n : ~(jobs[s].state = "DISPATCHED" /\ jobs[s].seq = m.results[i].seq)
      BY <2>3 DEF Named
    <3>. QED  BY <2>1, <3>1, <3>2
  <2>. QED  BY <2>2, <2>3
<1>6. js \in [Slots -> JobRecord]
  <2>1. js = [s \in Slots |-> js[s]]
    BY DEF Completed
  <2>. QED  BY <1>5, <2>1
<1>7. Used(js) = Used(jobs) /\ Used(jobs) \subseteq Slots
  <2>1. \A s \in Slots : js[s].state # "FREE" <=> jobs[s].state # "FREE"
    BY <1>5
  <2>. QED  BY <2>1 DEF Used
<1>8. JobsOK(js, next, sent)
  <2>1. \A s \in Used(js) : js[s].state = "DONE" => js[s].reply = js[s].of
    BY <1>1, <1>5, <1>7 DEF JobsOK
  <2>. QED  BY <1>1, <1>5, <1>6, <1>7, <2>1 DEF JobsOK
<1>9. EntriesOK(js, inflight)
  BY <1>1, <1>5, <1>7 DEF EntriesOK
<1>. QED  BY <1>5, <1>8, <1>9

LEMMA ReportInterruptedKeeps ==
    ASSUME IInv, ReportInterrupted
    PROVE  IInv'
<1>1. PICK m \in Range(toDaemon) :
        /\ Receive(m) /\ Allowed(m) /\ m.kind = "Report" /\ ReportMatches(m)
        /\ \E n \in 0..Len(m.results) : jobs' = Completed(m.results, n)
  BY DEF ReportInterrupted
<1>2. PICK n \in 0..Len(m.results) : jobs' = Completed(m.results, n)
  BY <1>1
<1>3. /\ UNCHANGED <<kwin, daemon, relay, script, toScript, next, inflight, parked, idle, sent, ran, answers>>
      /\ Fault(TRUE)
  BY DEF ReportInterrupted, busVars, parkVars, history
<1>4. /\ Typed /\ JobsOK(jobs, next, sent) /\ Loaded /\ ParkedLaneIsIdle /\ Ordered /\ Messages /\ Truth
  BY DEF IInv
<1>5. /\ m \in CallMessage /\ ReportOK(m) /\ daemon.up
      /\ \A x \in Range(toDaemon') : x.load # 0
      /\ toDaemon' \in Seq(CallMessage) /\ Range(toDaemon') \subseteq Range(toDaemon)
  BY <1>1, ReceiveIs
<1>6. m.gen = daemon.gen
  BY <1>1 DEF ReportMatches, SameGeneration
<1>7. PICK js : js = jobs'
  OBVIOUS
<1>8. /\ JobsOK(js, next, sent) /\ EntriesOK(js, inflight)
      /\ \A s \in Slots :
            \/ js[s] = jobs[s]
            \/ /\ jobs[s].state = "DISPATCHED" /\ js[s].state = "DONE" /\ js[s].of = jobs[s].of
               /\ js[s].seq = jobs[s].seq
               /\ jobs[s].of \in 1..sent /\ Outcome(js[s].of, js[s].status)
  BY <1>2, <1>5, <1>6, <1>7, CompletedIs
<1>9. faults' \in 0..MaxFaults /\ faults' # 0
  BY <1>3, NoFault
<1>10. sent \in Nat /\ next \in Nat /\ daemon.gen \in Nat
  BY <1>4, TypedIs
<1>11. Typed'
  <2>1. jobs' \in [Slots -> JobRecord]
    BY <1>7, <1>8 DEF JobsOK
  <2>. QED  BY <1>3, <1>4, <1>5, <1>9, <2>1, TypedIs, TypedNext
<1>12. JobsOK(jobs, next, sent)' /\ EntriesOK(jobs, inflight)' /\ Down'
  BY <1>3, <1>5, <1>7, <1>8 DEF Down
<1>13. Loaded' /\ ParkedLaneIsIdle'
  <2>1. \A l \in Lanes : Queued(jobs', l) \subseteq Queued(jobs, l)
    BY <1>7, <1>8 DEF Queued
  <2>2. ParkedLaneIsIdle'
    BY <1>3, <1>4, <2>1 DEF ParkedLaneIsIdle
  <2>3. Loaded'
    BY <1>3, <1>4, <1>5 DEF Loaded
  <2>. QED  BY <2>2, <2>3
<1>14. Waiting' \subseteq Waiting
  BY <1>7, <1>8 DEF Waiting, WaitingIn
<1>15. Ordered' /\ Onward
  <2>1. BatchesInOrder(toScript') /\ OffersIn(toScript') \subseteq Offers \cup {}
    BY <1>3, <1>4 DEF Ordered, Offers
  <2>2. Before({}, Waiting') /\ {} \subseteq Waiting /\ sent' \in Nat /\ sent <= sent' /\ ran' = ran
    BY <1>3, <1>10, NoOffers
  <2>. QED  BY <1>4, <1>10, <1>14, <2>1, <2>2, OrderedKept
<1>16. QueueOnward
  <2>1. next' \in Nat /\ next <= next'
    BY <1>3, <1>10
  <2>2. \A s \in Slots : js[s].seq = jobs[s].seq /\ js[s].of = jobs[s].of
    BY <1>8
  <2>. QED  BY <1>7, <1>8, <1>10, <2>1, <2>2 DEF QueueOnward, Used
<1>17. Messages'
  <2>1. script'.gen <= daemon'.gen /\ daemon'.gen \in Nat /\ daemon.gen <= daemon'.gen
    BY <1>3, <1>4, <1>10 DEF Messages
  <2>2. /\ \A x \in Range(toScript') : x \in Range(toScript)
        /\ \A x \in Range(toDaemon') : x \in Range(toDaemon)
    BY <1>3, <1>5
  <2>. QED  BY <1>4, <1>15, <1>16, <2>1, <2>2, MessagesKept
<1>18. Truth'
  <2>1. ASSUME NEW s \in Slots, jobs'[s].state = "DONE"
        PROVE  Outcome(jobs[s].of, jobs[s].status)'
    <3>1. js[s].of \in 1..sent /\ Outcome(js[s].of, js[s].status)
      <4>1. CASE js[s] = jobs[s]
        BY <1>4, <1>7, <2>1, <4>1 DEF JobsOK, Used, Truth
      <4>2. CASE js[s] # jobs[s]
        BY <1>8, <4>2
      <4>. QED  BY <4>1, <4>2
    <3>2. PICK r \in 1..sent : r = js[s].of
      BY <3>1
    <3>3. PICK status \in {"OK", "FAILED", "BUSY"} : status = js[s].status
      BY <3>1 DEF Outcome
    <3>4. Outcome(r, status)'
      BY <1>15, <3>1, <3>2, <3>3, OutcomeKept
    <3>5. jobs'[s].of = r /\ jobs'[s].status = status
      BY <1>7, <3>2, <3>3
    <3>. QED  BY <3>4, <3>5 DEF Outcome
  <2>2. \A r \in Requests : AnswerOK(r)'
    BY <1>3, <1>4, <1>15, AnswerKept DEF Truth
  <2>. QED  BY <2>1, <2>2 DEF Truth
<1>. QED  BY <1>9, <1>11, <1>12, <1>13, <1>15, <1>17, <1>18 DEF IInv

\* An entry that is done has one job, of its own request, and that job is done.
LEMMA JobOfIs ==
    ASSUME NEW js, JobsOK(js, next, sent), EntriesOK(js, inflight), NEW s \in Done(js)
    PROVE  /\ s \in Slots /\ inflight[s].active /\ JobOf(js, s) \in Used(js)
           /\ js[JobOf(js, s)].state = "DONE" /\ js[JobOf(js, s)].seq = inflight[s].seq
           /\ js[JobOf(js, s)].of = inflight[s].request
<1>1. s \in Slots /\ inflight[s].active
  BY DEF Done
<1>2. PICK t \in Slots : js[t].state = "DONE" /\ js[t].seq = inflight[s].seq
  BY DEF Done
<1>3. PICK u : u = JobOf(js, s)
  OBVIOUS
<1>4. u \in Slots /\ js[u].state # "FREE" /\ js[u].seq = inflight[s].seq
  <2>1. \E v \in Slots : js[v].state # "FREE" /\ js[v].seq = inflight[s].seq
    BY <1>2
  <2>. QED  BY <1>3, <2>1 DEF JobOf
<1>5. t \in Used(js) /\ u \in Used(js)
  BY <1>2, <1>4 DEF Used
<1>6. t = u
  BY <1>2, <1>4, <1>5, OneJob
<1>7. PICK v \in Used(js) : js[v].seq = inflight[s].seq /\ js[v].of = inflight[s].request
  BY <1>1 DEF EntriesOK
<1>8. v = u
  BY <1>4, <1>5, <1>7, OneJob
<1>. QED  BY <1>1, <1>2, <1>3, <1>5, <1>6, <1>7, <1>8

\* relay_drain: every job that is done is answered or lost, and released.
LEMMA DrainIs ==
    ASSUME IInv, NEW js, JobsOK(js, next, sent), EntriesOK(js, inflight), Drain(js)
    PROVE  /\ \E bad \in BOOLEAN : Fault(bad) /\ (~bad => relay' = relay)
           /\ relay' \in BOOLEAN
           /\ \A t \in Slots : jobs'[t] = IF js[t].state = "DONE" THEN FreeJob ELSE js[t]
           /\ JobsOK(jobs', next, sent) /\ EntriesOK(jobs', inflight')
           /\ inflight' \in [Slots -> InflightRecord]
           /\ \A s \in Slots : inflight'[s].active => inflight[s].active /\ inflight'[s] = inflight[s]
           /\ answers' \in [Requests -> Seq([status: Statuses, of: Subjects])]
           /\ \A r \in Requests :
                \/ answers'[r] = answers[r]
                \/ \E s \in Done(js), status \in Statuses :
                    /\ inflight[s].request = r
                    /\ answers'[r] = Append(answers[r], [status |-> status, of |-> r])
                    /\ \/ status = js[JobOf(js, s)].status
                       \/ status = "INTERNAL" /\ js[JobOf(js, s)].status = "OK"
<1>. DEFINE written(cut, dropped) == {s \in Done(js) \ dropped : relay /\ (cut = 0 \/ s < cut)}
            frame(s, garbled) == [status |-> WireStatus(js[JobOf(js, s)].status, s \notin garbled),
                                  of |-> js[JobOf(js, s)].reply]
<1>1. PICK cut \in Done(js) \cup {0}, garbled, dropped \in SUBSET Done(js) :
        /\ cut # 0 => relay
        /\ Fault(cut # 0 \/ dropped # {})
        /\ relay' = (relay /\ cut = 0)
        /\ answers' =
            [r \in Requests |->
                IF \E s \in written(cut, dropped) : inflight[s].request = r
                THEN Append(answers[r],
                       frame(CHOOSE s \in written(cut, dropped) : inflight[s].request = r, garbled))
                ELSE answers[r]]
        /\ jobs' = [t \in Slots |-> IF t \in {JobOf(js, s) : s \in Done(js)} THEN FreeJob ELSE js[t]]
        /\ inflight' = [s \in Slots |-> IF s \in Done(js) THEN NotInflight ELSE inflight[s]]
  BY Zenon DEF Drain
<1>2. PICK bad \in BOOLEAN : bad = (cut # 0 \/ dropped # {})
  OBVIOUS
<1>3. Typed
  BY DEF IInv
<1>4. /\ inflight \in [Slots -> InflightRecord] /\ relay \in BOOLEAN
      /\ answers \in [Requests -> Seq([status: Statuses, of: Subjects])] /\ js \in [Slots -> JobRecord]
  BY <1>3, TypedIs DEF JobsOK
<1>5. Fault(bad) /\ (~bad => relay' = relay) /\ relay' \in BOOLEAN
  <2>1. Fault(bad) /\ relay' \in BOOLEAN
    BY <1>1, <1>2
  <2>2. ~bad => relay' = relay
    BY <1>1, <1>2, <1>4
  <2>. QED  BY <2>1, <2>2
<1>6. ASSUME NEW s \in Done(js)
      PROVE  /\ s \in Slots /\ inflight[s].active /\ JobOf(js, s) \in Used(js)
             /\ js[JobOf(js, s)].state = "DONE" /\ js[JobOf(js, s)].seq = inflight[s].seq
             /\ js[JobOf(js, s)].of = inflight[s].request
  BY JobOfIs
<1>7. ASSUME NEW t \in Slots, js[t].state = "DONE"
      PROVE  \E s \in Done(js) : t = JobOf(js, s)
  <2>1. t \in Used(js)
    BY <1>7 DEF Used
  <2>2. PICK s \in Slots : inflight[s].active /\ inflight[s].seq = js[t].seq
    BY <2>1 DEF EntriesOK
  <2>3. s \in Done(js)
    BY <1>7, <2>2 DEF Done
  <2>4. JobOf(js, s) \in Used(js) /\ js[JobOf(js, s)].seq = js[t].seq
    BY <1>6, <2>2, <2>3
  <2>5. t = JobOf(js, s)
    BY <2>1, <2>4, OneJob
  <2>. QED  BY <2>3, <2>5
<1>8. ASSUME NEW t \in Slots
      PROVE  jobs'[t] = IF js[t].state = "DONE" THEN FreeJob ELSE js[t]
  <2>1. jobs'[t] = IF t \in {JobOf(js, s) : s \in Done(js)} THEN FreeJob ELSE js[t]
    BY <1>1
  <2>2. t \in {JobOf(js, s) : s \in Done(js)} <=> js[t].state = "DONE"
    BY <1>6, <1>7
  <2>. QED  BY <2>1, <2>2
<1>9. FreeJob \in JobRecord /\ FreeJob.state = "FREE"
  BY DEF FreeJob, JobRecord, Subjects, Lanes, Statuses, NoRequest
<1>10. Used(jobs') = {t \in Used(js) : js[t].state # "DONE"} /\ \A t \in Used(jobs') : jobs'[t] = js[t]
  BY <1>8, <1>9 DEF Used
<1>11. jobs' \in [Slots -> JobRecord]
  <2>1. jobs' = [t \in Slots |-> jobs'[t]]
    BY <1>1
  <2>2. \A t \in Slots : jobs'[t] \in JobRecord
    BY <1>4, <1>8, <1>9
  <2>. QED  BY <2>1, <2>2
<1>12. JobsOK(jobs', next, sent)
  BY <1>10, <1>11 DEF JobsOK
<1>13. /\ \A s \in Slots : inflight'[s] = IF s \in Done(js) THEN NotInflight ELSE inflight[s]
       /\ inflight' \in [Slots -> InflightRecord] /\ ~NotInflight.active
  BY <1>1, <1>4 DEF NotInflight, InflightRecord, Subjects, NoRequest
<1>14. \A s \in Slots : inflight'[s].active =>
          s \notin Done(js) /\ inflight[s].active /\ inflight'[s] = inflight[s]
  BY <1>13
<1>15. EntriesOK(jobs', inflight')
  <2>1. ASSUME NEW s \in Slots, inflight'[s].active
        PROVE  \E t \in Used(jobs') : jobs'[t].seq = inflight'[s].seq /\ jobs'[t].of = inflight'[s].request
    <3>1. s \notin Done(js) /\ inflight[s].active /\ inflight'[s] = inflight[s]
      BY <1>14, <2>1
    <3>2. PICK t \in Used(js) : js[t].seq = inflight[s].seq /\ js[t].of = inflight[s].request
      BY <3>1 DEF EntriesOK
    <3>3. js[t].state # "DONE"
      BY <3>1, <3>2 DEF Done, Used
    <3>. QED  BY <1>10, <3>1, <3>2, <3>3
  <2>2. ASSUME NEW s \in Slots, NEW t \in Slots, inflight'[s].active, inflight'[t].active,
               inflight'[s].seq = inflight'[t].seq
        PROVE  s = t
    BY <1>14, <2>2 DEF EntriesOK
  <2>3. ASSUME NEW t \in Used(jobs')
        PROVE  \E s \in Slots : inflight'[s].active /\ inflight'[s].seq = jobs'[t].seq
    <3>1. t \in Used(js) /\ js[t].state # "DONE" /\ jobs'[t] = js[t]
      BY <1>10
    <3>2. PICK s \in Slots : inflight[s].active /\ inflight[s].seq = js[t].seq
      BY <3>1 DEF EntriesOK
    <3>3. s \notin Done(js)
      <4>. SUFFICES ASSUME s \in Done(js)
                    PROVE  FALSE
        OBVIOUS
      <4>1. JobOf(js, s) \in Used(js) /\ js[JobOf(js, s)].seq = js[t].seq /\ js[JobOf(js, s)].state = "DONE"
        BY <1>6, <3>2
      <4>2. t = JobOf(js, s)
        BY <3>1, <4>1, OneJob
      <4>. QED  BY <3>1, <4>1, <4>2
    <3>. QED  BY <1>13, <3>1, <3>2, <3>3
  <2>. QED  BY <2>1, <2>2, <2>3 DEF EntriesOK
<1>16. ASSUME NEW r \in Requests
       PROVE  /\ answers'[r] \in Seq([status: Statuses, of: Subjects])
              /\ \/ answers'[r] = answers[r]
                 \/ \E s \in Done(js), status \in Statuses :
                    /\ inflight[s].request = r
                    /\ answers'[r] = Append(answers[r], [status |-> status, of |-> r])
                    /\ \/ status = js[JobOf(js, s)].status
                       \/ status = "INTERNAL" /\ js[JobOf(js, s)].status = "OK"
  <2>1. CASE \E s \in written(cut, dropped) : inflight[s].request = r
    <3>1. PICK s : s = CHOOSE v \in written(cut, dropped) : inflight[v].request = r
      OBVIOUS
    <3>2. s \in written(cut, dropped) /\ inflight[s].request = r
      BY <2>1, <3>1
    <3>3. answers'[r] = Append(answers[r], frame(s, garbled))
      BY <1>1, <2>1, <3>1
    <3>4. s \in Done(js)
      BY <3>2
    <3>5. PICK j : j = js[JobOf(js, s)]
      OBVIOUS
    <3>6. j \in JobRecord /\ j.state = "DONE" /\ j.of = r /\ j.reply = r
      <4>1. JobOf(js, s) \in Used(js) /\ JobOf(js, s) \in Slots /\ j.state = "DONE" /\ j.of = r
        BY <1>6, <3>2, <3>4, <3>5 DEF Used
      <4>. QED  BY <1>4, <3>5, <4>1 DEF JobsOK
    <3>7. PICK status : status = WireStatus(j.status, s \notin garbled)
      OBVIOUS
    <3>8. /\ status \in Statuses
          /\ status = j.status \/ (status = "INTERNAL" /\ j.status = "OK")
      <4>1. j.status \in Statuses
        BY <3>6, JobFields
      <4>. QED  BY <3>7, <4>1 DEF WireStatus, Statuses
    <3>9. frame(s, garbled) = [status |-> status, of |-> r]
      BY <3>5, <3>6, <3>7
    <3>10. answers'[r] = Append(answers[r], [status |-> status, of |-> r])
      BY <3>3, <3>9
    <3>11. answers'[r] \in Seq([status: Statuses, of: Subjects])
      <4>1. [status |-> status, of |-> r] \in [status: Statuses, of: Subjects]
        BY <3>8 DEF Subjects
      <4>2. answers[r] \in Seq([status: Statuses, of: Subjects])
        BY <1>4
      <4>. QED  BY <3>10, <4>1, <4>2, RangeOfAppend
    <3>. HIDE DEF written, frame
    <3>. QED  BY <3>2, <3>4, <3>5, <3>8, <3>10, <3>11
  <2>2. CASE ~ \E s \in written(cut, dropped) : inflight[s].request = r
    <3>1. answers'[r] = answers[r]
      BY <1>1, <2>2
    <3>. QED  BY <1>4, <3>1
  <2>. QED  BY <2>1, <2>2
<1>17. answers' \in [Requests -> Seq([status: Statuses, of: Subjects])]
  <2>1. answers' = [r \in Requests |-> answers'[r]]
    BY <1>1
  <2>. QED  BY <1>16, <2>1
<1>. HIDE DEF written, frame
<1>. QED  BY <1>5, <1>8, <1>12, <1>13, <1>14, <1>15, <1>16, <1>17

LEMMA HandleReportKeeps ==
    ASSUME IInv, HandleReport
    PROVE  IInv'
<1>1. PICK m \in Range(toDaemon) :
        /\ Receive(m) /\ Allowed(m) /\ m.kind = "Report" /\ ReportMatches(m)
        /\ Drain(Completed(m.results, Len(m.results)))
        /\ ReplyTo(m.load, [kind |-> "Ack", gen |-> daemon.gen, lane |-> m.lane, batch |-> <<>>])
  BY DEF HandleReport
<1>2. UNCHANGED <<kwin, daemon, script, next, parked, idle, sent, ran>>
  BY DEF HandleReport, parkVars
<1>3. /\ Typed /\ JobsOK(jobs, next, sent) /\ EntriesOK(jobs, inflight) /\ Loaded
      /\ ParkedLaneIsIdle /\ Ordered /\ Messages /\ Truth
  BY DEF IInv
<1>4. /\ m \in CallMessage /\ m \in Range(toDaemon) /\ ReportOK(m) /\ daemon.up
      /\ m.load # 0 /\ \A x \in Range(toDaemon') : x.load # 0
      /\ toDaemon' \in Seq(CallMessage) /\ Range(toDaemon') \subseteq Range(toDaemon)
      /\ faults = 0 =>
            /\ Calm /\ Held /\ daemon.named
            /\ ReportedIn(toDaemon') = ReportedIn(toDaemon) \ Reported(m)
            /\ Reported(m) \subseteq ReportedIn(toDaemon)
            /\ ReportedOnce(toDaemon')
  BY <1>1, ReceiveIs
<1>5. m.gen = daemon.gen /\ m.lane \in Lanes /\ m.results \in Seq(Results)
  BY <1>1, <1>4, CallFields DEF ReportMatches, SameGeneration
<1>6. Len(m.results) \in Nat /\ DOMAIN m.results = 1..Len(m.results)
      /\ Len(m.results) \in 0..Len(m.results)
  BY <1>5
<1>7. PICK js : js = Completed(m.results, Len(m.results))
  OBVIOUS
<1>8. /\ JobsOK(js, next, sent) /\ EntriesOK(js, inflight)
      /\ \A s \in Slots :
            \/ js[s] = jobs[s]
            \/ /\ jobs[s].state = "DISPATCHED" /\ js[s].state = "DONE"
               /\ js[s].of = jobs[s].of /\ jobs[s].of \in 1..sent /\ js[s].seq = jobs[s].seq
               /\ Outcome(js[s].of, js[s].status) /\ jobs[s].seq \in Reported(m)
      /\ \A s \in Slots, i \in 1..Len(m.results) :
            jobs[s].state = "DISPATCHED" /\ jobs[s].seq = m.results[i].seq => js[s].state = "DONE"
  BY <1>4, <1>5, <1>6, <1>7, CompletedIs
<1>9. /\ \E bad \in BOOLEAN : Fault(bad) /\ (~bad => relay' = relay)
      /\ relay' \in BOOLEAN
      /\ \A t \in Slots : jobs'[t] = IF js[t].state = "DONE" THEN FreeJob ELSE js[t]
      /\ JobsOK(jobs', next, sent) /\ EntriesOK(jobs', inflight')
      /\ inflight' \in [Slots -> InflightRecord]
      /\ \A s \in Slots : inflight'[s].active => inflight[s].active /\ inflight'[s] = inflight[s]
      /\ answers' \in [Requests -> Seq([status: Statuses, of: Subjects])]
      /\ \A r \in Requests :
            \/ answers'[r] = answers[r]
            \/ \E s \in Done(js), status \in Statuses :
                /\ inflight[s].request = r
                /\ answers'[r] = Append(answers[r], [status |-> status, of |-> r])
                /\ \/ status = js[JobOf(js, s)].status
                   \/ status = "INTERNAL" /\ js[JobOf(js, s)].status = "OK"
  <2>1. Drain(js)
    BY <1>1, <1>7
  <2>2. JobsOK(js, next, sent) /\ EntriesOK(js, inflight)
    BY <1>8
  <2>. QED  BY <2>1, <2>2, DrainIs, ZenonT(40)
<1>10. faults' \in 0..MaxFaults /\ (faults' = 0 => faults = 0 /\ relay' = relay)
  BY <1>9, NoFault
<1>11. PICK x \in ReplyMessage : x = [kind |-> "Ack", gen |-> daemon.gen, lane |-> m.lane, batch |-> <<>>]
  <2>1. daemon.gen \in Nat /\ <<>> \in Seq(Dispatched)
    BY <1>3, TypedIs
  <2>. QED  BY <1>5, <2>1 DEF ReplyMessage
<1>12. /\ toScript' # <<>> => script.load # 0
       /\ toScript' \in Seq(ReplyMessage) /\ BatchesInOrder(toScript')
       /\ OffersIn(toScript') = Offers
       /\ \A y \in Range(toScript') : y \in Range(toScript) \/ y = x
       /\ CarriedIn(toScript') = CarriedIn(toScript)
       /\ CarriedOnce(toScript) => CarriedOnce(toScript')
  BY <1>1, <1>4, <1>11, ReplyIs
<1>13. /\ sent \in Nat /\ next \in Nat /\ daemon.gen \in Nat /\ jobs' \in [Slots -> JobRecord]
       /\ answers \in [Requests -> Seq([status: Statuses, of: Subjects])]
  BY <1>3, <1>9, TypedIs DEF JobsOK
<1>14. Typed'
  BY <1>2, <1>3, <1>4, <1>9, <1>10, <1>12, <1>13, TypedIs, TypedNext
<1>15. FreeJob.state = "FREE"
  BY DEF FreeJob
<1>16. \A t \in Slots :
          /\ jobs'[t].state # "DONE"
          /\ jobs'[t].state # "FREE" => /\ jobs'[t] = js[t] /\ jobs[t].state # "FREE"
                                        /\ jobs'[t].seq = jobs[t].seq /\ jobs'[t].of = jobs[t].of
          /\ jobs'[t].state \in {"QUEUED", "DISPATCHED"} => jobs'[t] = jobs[t]
  BY <1>8, <1>9, <1>15
<1>17. JobsOK(jobs, next, sent)' /\ EntriesOK(jobs, inflight)' /\ Down'
  BY <1>2, <1>4, <1>9 DEF Down
<1>18. Loaded' /\ ParkedLaneIsIdle'
  <2>1. \A l \in Lanes : Queued(jobs', l) \subseteq Queued(jobs, l)
    BY <1>16 DEF Queued
  <2>2. ParkedLaneIsIdle'
    BY <1>2, <1>3, <2>1 DEF ParkedLaneIsIdle
  <2>3. Loaded'
    BY <1>2, <1>4, <1>12 DEF Loaded
  <2>. QED  BY <2>2, <2>3
<1>19. Waiting' \subseteq Waiting
  BY <1>16 DEF Waiting, WaitingIn
<1>20. Ordered' /\ Onward
  <2>1. OffersIn(toScript') \subseteq Offers \cup {}
    BY <1>12
  <2>2. Before({}, Waiting') /\ {} \subseteq Waiting /\ sent' \in Nat /\ sent <= sent' /\ ran' = ran
    BY <1>2, <1>13, NoOffers
  <2>. QED  BY <1>3, <1>12, <1>13, <1>19, <2>1, <2>2, OrderedKept
<1>21. QueueOnward
  <2>1. next' \in Nat /\ next <= next'
    BY <1>2, <1>13
  <2>. QED  BY <1>13, <1>16, <2>1 DEF QueueOnward, Used
<1>22. Messages'
  <2>1. script'.gen <= daemon'.gen /\ daemon'.gen \in Nat /\ daemon.gen <= daemon'.gen
    BY <1>2, <1>3, <1>13 DEF Messages
  <2>2. OfferOK(x)'
    BY <1>2, <1>11, <1>13 DEF OfferOK
  <2>3. /\ \A y \in Range(toScript') : y \in Range(toScript) \/ OfferOK(y)'
        /\ \A y \in Range(toDaemon') : y \in Range(toDaemon)
    BY <1>4, <1>12, <2>2
  <2>. QED  BY <1>3, <1>20, <1>21, <2>1, <2>3, MessagesKept
<1>23. ASSUME NEW r \in Requests
       PROVE  AnswerOK(r)'
  <2>1. CASE answers'[r] = answers[r]
    BY <1>3, <1>9, <1>20, <2>1, AnswerKept DEF Truth
  <2>2. CASE answers'[r] # answers[r]
    <3>1. PICK s \in Done(js), status \in Statuses :
            /\ inflight[s].request = r
            /\ answers'[r] = Append(answers[r], [status |-> status, of |-> r])
            /\ \/ status = js[JobOf(js, s)].status
               \/ status = "INTERNAL" /\ js[JobOf(js, s)].status = "OK"
      BY <1>9, <2>2
    <3>2. PICK t : t = JobOf(js, s)
      OBVIOUS
    <3>3. /\ s \in Slots /\ inflight[s].active /\ t \in Used(js)
          /\ js[t].state = "DONE" /\ js[t].seq = inflight[s].seq /\ js[t].of = r
      BY <1>8, <3>1, <3>2, JobOfIs
    <3>4. t \in Slots /\ r \in 1..sent /\ Outcome(r, js[t].status)
      <4>1. t \in Slots /\ r \in 1..sent
        BY <1>8, <3>3 DEF Used, JobsOK
      <4>2. CASE js[t] = jobs[t]
        BY <1>3, <3>3, <4>1, <4>2 DEF Truth
      <4>3. CASE js[t] # jobs[t]
        BY <1>8, <3>3, <4>1, <4>3
      <4>. QED  BY <4>1, <4>2, <4>3
    <3>5. PICK st \in {"OK", "FAILED", "BUSY"} : st = js[t].status
      BY <3>4 DEF Outcome
    <3>6. Outcome(r, st)'
      BY <1>20, <3>4, <3>5, OutcomeKept
    <3>7. answers[r] = <<>>
      BY <1>3, <3>1, <3>3 DEF Truth, AnswerOK
    <3>8. PICK a : a = [status |-> status, of |-> r]
      OBVIOUS
    <3>9. answers'[r] = <<a>> /\ Len(<<a>>) = 1 /\ DOMAIN <<a>> = 1..1 /\ <<a>>[1] = a
      BY <3>1, <3>7, <3>8
    <3>10. Range(answers'[r]) = {a}
      BY <3>9 DEF Range
    <3>11. /\ a.of = r /\ a.status = status
           /\ status = st \/ (status = "INTERNAL" /\ st = "OK")
      BY <3>1, <3>2, <3>5, <3>8
    <3>12. /\ status = "BUSY" => r \notin Live'
           /\ status \in {"OK", "FAILED", "INTERNAL"} => r \in Started'
      BY <3>6, <3>11 DEF Outcome
    <3>13. ASSUME NEW u \in Slots, inflight'[u].active, inflight'[u].request = r
           PROVE  FALSE
      <4>1. inflight[u].active /\ inflight'[u] = inflight[u]
        BY <1>9, <3>13
      <4>2. PICK v \in Used(js) : js[v].seq = inflight[u].seq /\ js[v].of = inflight[u].request
        BY <1>8, <4>1 DEF EntriesOK
      <4>3. v = t
        BY <1>8, <3>3, <3>13, <4>1, <4>2, OneJob
      <4>4. PICK w \in Used(jobs') : jobs'[w].seq = inflight'[u].seq /\ jobs'[w].of = inflight'[u].request
        BY <1>9, <3>13 DEF EntriesOK
      <4>5. w \in Slots /\ jobs'[w].state # "FREE" /\ jobs'[w] = js[w] /\ js[w].state # "DONE" /\ w \in Used(js)
        BY <1>16, <4>4 DEF Used
      <4>6. w = t
        BY <1>8, <3>3, <4>1, <4>2, <4>3, <4>4, <4>5, OneJob
      <4>. QED  BY <3>3, <4>5, <4>6
    <3>14. r <= sent' /\ Len(answers'[r]) <= 1
      BY <1>2, <1>13, <3>4, <3>9
    <3>. QED  BY <3>10, <3>11, <3>12, <3>13, <3>14 DEF AnswerOK, AnswersOf
  <2>. QED  BY <2>1, <2>2
<1>24. Truth'
  BY <1>16, <1>23 DEF Truth
<1>25. ASSUME faults' = 0
       PROVE  Calm' /\ Held'
  <2>1. /\ Calm /\ Held /\ daemon.named /\ faults = 0 /\ relay' = relay
        /\ ReportedIn(toDaemon') = ReportedIn(toDaemon) \ Reported(m)
        /\ Reported(m) \subseteq ReportedIn(toDaemon)
        /\ ReportedOnce(toDaemon')
    BY <1>4, <1>10, <1>25
  <2>2. script.running
    BY <1>1, <1>4, <2>1 DEF Calm
  <2>3. \A y \in Range(toScript') : y.gen = daemon.gen
    BY <1>11, <1>12, <2>1 DEF Calm
  <2>4. Calm'
    BY <1>2, <1>4, <2>1, <2>2, <2>3 DEF Calm
  <2>5. DispatchedIn(jobs') = DispatchedIn(jobs) \ Reported(m)
    <3>1. ASSUME NEW s \in Slots, jobs'[s].state = "DISPATCHED"
          PROVE  jobs[s].state = "DISPATCHED" /\ jobs'[s].seq = jobs[s].seq /\ jobs[s].seq \notin Reported(m)
      <4>1. jobs'[s] = jobs[s] /\ jobs'[s] = js[s]
        BY <1>16, <3>1
      <4>2. \A i \in 1..Len(m.results) : jobs[s].seq # m.results[i].seq
        BY <1>8, <3>1, <4>1
      <4>. QED  BY <1>6, <3>1, <4>1, <4>2 DEF Reported
    <3>2. ASSUME NEW s \in Slots, jobs[s].state = "DISPATCHED", jobs[s].seq \notin Reported(m)
          PROVE  jobs'[s] = jobs[s]
      BY <1>8, <1>9, <3>2
    <3>3. DispatchedIn(jobs') \subseteq DispatchedIn(jobs) \ Reported(m)
      BY <3>1 DEF DispatchedIn
    <3>4. DispatchedIn(jobs) \ Reported(m) \subseteq DispatchedIn(jobs')
      BY <3>2 DEF DispatchedIn
    <3>. QED  BY <3>3, <3>4
  <2>6. /\ DispatchedIn(jobs) = CarriedIn(toScript) \cup ReportedIn(toDaemon)
        /\ CarriedIn(toScript) \cap ReportedIn(toDaemon) = {} /\ CarriedOnce(toScript)
    BY <2>1 DEF Held
  <2>7. /\ DispatchedIn(jobs') = CarriedIn(toScript') \cup ReportedIn(toDaemon')
        /\ CarriedIn(toScript') \cap ReportedIn(toDaemon') = {}
    BY <1>12, <2>1, <2>5, <2>6
  <2>8. Held'
    BY <1>12, <2>1, <2>6, <2>7 DEF Held
  <2>. QED  BY <2>4, <2>8
<1>. QED  BY <1>14, <1>17, <1>18, <1>20, <1>22, <1>24, <1>25 DEF IInv

-----------------------------------------------------------------------------
(* The script runs a batch *)

\* What pollLane starts of a batch: the jobs that still have time, in order.
Timely(work) == {i \in DOMAIN work : InTime(work[i])}
Begun(work) ==
    [i \in DOMAIN Ascending(Timely(work)) |-> work[Ascending(Timely(work))[i]].of]
BegunIn(work) == {work[k].of : k \in Timely(work)}

LEMMA ReadAreRequests ==
    ASSUME Typed
    PROVE  1..sent \subseteq Requests
<1>1. PICK n \in Nat : n = Cardinality(Requests)
  BY ChannelConstants, FS_CardinalityType
<1>2. Requests = 1..n /\ sent \in Requests \cup {0}
  BY <1>1, ChannelConstants, TypedIs
<1>. QED  BY <1>2

LEMMA IsSequence ==
    ASSUME NEW S, NEW n \in Nat, NEW f \in [1..n -> S]
    PROVE  f \in Seq(S)
OBVIOUS

LEMMA BegunIs ==
    ASSUME NEW work \in Seq(Dispatched), \A k \in DOMAIN work : work[k].of \in Requests,
           \A k, n \in DOMAIN work : k < n => work[k].of < work[n].of,
           NEW b, b = Begun(work)
    PROVE  /\ b \in Seq(Requests) /\ Range(b) = BegunIn(work)
           /\ \A i, j \in DOMAIN b : i < j => b[i] < b[j]
<1>1. PICK S, q : S = Timely(work) /\ q = Ascending(S)
  OBVIOUS
<1>2. DOMAIN work = 1..Len(work) /\ Len(work) \in Nat
  OBVIOUS
<1>3. S \in SUBSET (1..Len(work)) /\ S \in SUBSET Nat
  BY <1>1, <1>2 DEF Timely
<1>4. IsFiniteSet(S)
  <2>1. IsFiniteSet(1..Len(work))
    BY <1>2, FS_Interval
  <2>. QED  BY <1>3, <2>1, FS_Subset
<1>5. /\ q \in Seq(S) /\ DOMAIN q = 1..Cardinality(S) /\ Cardinality(S) \in Nat
      /\ \A m, n \in DOMAIN q : m < n => q[m] < q[n]
      /\ \A i \in S : \E n \in DOMAIN q : q[n] = i
      /\ Range(q) = S
  BY <1>1, <1>3, <1>4, AscendingIs
<1>6. b = [i \in DOMAIN q |-> work[q[i]].of]
  BY <1>1 DEF Begun
<1>7. DOMAIN b = DOMAIN q
      /\ \A i \in DOMAIN q : q[i] \in S /\ q[i] \in DOMAIN work /\ b[i] = work[q[i]].of
  <2>1. \A i \in DOMAIN q : q[i] \in S
    BY <1>5
  <2>. QED  BY <1>2, <1>3, <1>6, <2>1
<1>8. b \in Seq(Requests)
  <2>1. PICK n \in Nat : DOMAIN q = 1..n
    BY <1>5
  <2>2. b \in [1..n -> Requests]
    BY <1>6, <1>7, <2>1
  <2>. QED  BY <2>2
<1>9. Range(b) = BegunIn(work)
  <2>1. Range(b) \subseteq BegunIn(work)
    BY <1>1, <1>7 DEF Range, BegunIn
  <2>2. ASSUME NEW k \in S
        PROVE  work[k].of \in Range(b)
    <3>1. PICK n \in DOMAIN q : q[n] = k
      BY <1>5
    <3>. QED  BY <1>7, <3>1 DEF Range
  <2>3. BegunIn(work) \subseteq Range(b)
    BY <1>1, <2>2 DEF BegunIn
  <2>. QED  BY <2>1, <2>3
<1>10. ASSUME NEW i \in DOMAIN b, NEW j \in DOMAIN b, i < j
       PROVE  b[i] < b[j]
  <2>1. q[i] < q[j]
    BY <1>5, <1>7, <1>10
  <2>. QED  BY <1>7, <2>1
<1>. QED  BY <1>8, <1>9, <1>10

LEMMA NothingBegun ==
    ASSUME Typed
    PROVE  ran \o Begun(<<>>) = ran
<1>1. PICK b : b = Begun(<<>>)
  OBVIOUS
<1>2. <<>> \in Seq(Dispatched) /\ DOMAIN <<>> = {}
  OBVIOUS
<1>3. b \in Seq(Requests) /\ Range(b) = BegunIn(<<>>)
  BY <1>1, <1>2, BegunIs
<1>4. BegunIn(<<>>) = {}
  BY <1>2 DEF BegunIn, Timely
<1>5. DOMAIN b = {}
  BY <1>3, <1>4 DEF Range
<1>6. Len(b) = 0
  BY <1>3, <1>5
<1>7. b = <<>>
  BY <1>3, <1>6
<1>8. ran \o <<>> = ran
  BY TypedIs
<1>. QED  BY <1>1, <1>7, <1>8

\* A batch without work, or one that stops the script: nothing starts.
LEMMA IdleBatchKeeps ==
    ASSUME IInv, Callback("Batch"), NEW h, h = Head(toScript),
           script' = [script EXCEPT !.running = script.running /\ h.gen = script.gen],
           script.running /\ h.gen = script.gen => h.batch = <<>>,
           UNCHANGED ran,
           Call(script.load, script.gen, IF script'.running THEN <<PollCall(h.lane)>> ELSE <<>>),
           UNCHANGED <<busVars, queueVars, parkVars, sent, answers, faults>>
    PROVE  IInv'
<1>2. UNCHANGED <<kwin, daemon, relay, jobs, next, inflight, parked, idle, sent, ran, answers, faults>>
  BY DEF busVars, queueVars, parkVars
<1>3. Typed /\ Ordered /\ ParkedLaneIsIdle /\ Messages
  BY DEF IInv
<1>4. /\ script.load # 0 /\ \A x \in Range(toDaemon) : x.load # 0
      /\ h \in ReplyMessage /\ OfferOK(h) /\ h \in Range(toScript) /\ h.kind = "Batch"
      /\ toScript' \in Seq(ReplyMessage) /\ BatchesInOrder(toScript')
      /\ OffersIn(toScript') \subseteq Offers
      /\ Range(toScript') \subseteq Range(toScript)
      /\ faults = 0 =>
            /\ Calm /\ Held /\ daemon.named
            /\ CarriedIn(toScript') = CarriedIn(toScript) \ Carried(h)
            /\ CarriedOnce(toScript')
  BY CallbackIs
<1>5. h.lane \in Lanes /\ script.gen <= daemon.gen /\ script.gen \in Nat /\ script.running \in BOOLEAN
      /\ script \in [load: Nat, gen: Nat, running: BOOLEAN]
  BY <1>3, <1>4, ReplyFields, TypedIs DEF Messages
<1>6. PICK running \in BOOLEAN : running = (script.running /\ h.gen = script.gen)
  OBVIOUS
<1>7. /\ script' \in [load: Nat, gen: Nat, running: BOOLEAN]
      /\ script'.gen = script.gen /\ script'.running = running /\ script'.load = script.load
  <2>1. script' = [script EXCEPT !.running = running]
    BY <1>6
  <2>. QED  BY <1>5, <2>1
<1>8. /\ toDaemon' \in Seq(CallMessage)
      /\ ReportedOnce(toDaemon) => ReportedOnce(toDaemon') /\ ReportedIn(toDaemon') = ReportedIn(toDaemon)
      /\ \A z \in Range(toDaemon') :
            \/ z \in Range(toDaemon)
            \/ running /\ z.results = <<>> /\ z.gen = script.gen /\ z.from = kwin /\ z.load = script.load
  <2>1. Call(script.load, script.gen, IF running THEN <<PollCall(h.lane)>> ELSE <<>>)
    BY <1>7
  <2>. QED  BY <1>5, <2>1, PolledAgain
<1>9. Typed'
  BY <1>2, <1>3, <1>4, <1>7, <1>8, TypedIs, TypedNext
<1>10. ParkedLaneIsIdle' /\ Loaded'
  BY <1>2, <1>3, <1>4, <1>7, <1>8 DEF ParkedLaneIsIdle, Queued, Loaded
<1>11. ASSUME faults' = 0
      PROVE  Calm' /\ Held'
  <2>1. /\ Calm /\ Held /\ daemon.named /\ faults = 0
        /\ CarriedIn(toScript') = CarriedIn(toScript) \ Carried(h) /\ CarriedOnce(toScript')
    BY <1>2, <1>4, <1>11
  <2>2. h.gen = daemon.gen /\ script.running /\ script.gen = daemon.gen
    BY <1>4, <2>1 DEF Calm
  <2>3. script'.running /\ h.batch = <<>>
    BY <1>6, <1>7, <2>2
  <2>4. \A z \in Range(toDaemon') : /\ z.from = kwin /\ z.load = script.load
                                    /\ z.kind # "Hello" => z.gen = daemon.gen
    BY <1>8, <2>1, <2>2 DEF Calm
  <2>5. \A z \in Range(toScript') : z.gen = daemon.gen
    BY <1>4, <2>1 DEF Calm
  <2>6. Calm'
    BY <1>2, <1>7, <2>1, <2>2, <2>3, <2>4, <2>5 DEF Calm
  <2>7. Carried(h) = {} /\ ReportedOnce(toDaemon)
    BY <2>1, <2>3, NothingCarried DEF Held
  <2>8. Held'
    BY <1>2, <1>8, <2>1, <2>7 DEF Held, DispatchedIn
  <2>. QED  BY <2>6, <2>8
<1>12. \A z \in Range(toDaemon') : z \in Range(toDaemon) \/ (z.results = <<>> /\ z.gen <= daemon.gen)
  BY <1>5, <1>8
<1>. QED  BY <1>2, <1>4, <1>5, <1>7, <1>9, <1>10, <1>11, <1>12, QuietKeeps

\* A batch of work runs and is reported.
LEMMA WorkBatchKeeps ==
    ASSUME IInv, Callback("Batch"), NEW h, h = Head(toScript),
           script' = [script EXCEPT !.running = script.running /\ h.gen = script.gen],
           script.running, h.gen = script.gen,
           ran' = ran \o Begun(h.batch),
           NEW o \in [1..Len(h.batch) -> {"OK", "FAILED"}],
           Call(script.load, script.gen,
                <<ReportCall(h.lane, [i \in 1..Len(h.batch) |-> Result(h.batch[i], o[i])])>>),
           UNCHANGED <<busVars, queueVars, parkVars, sent, answers, faults>>
    PROVE  IInv'
<1>. DEFINE work == h.batch
<1>1. UNCHANGED <<kwin, daemon, relay, jobs, next, inflight, parked, idle, sent, answers, faults>>
  BY DEF busVars, queueVars, parkVars
<1>2. /\ Typed /\ JobsOK(jobs, next, sent) /\ EntriesOK(jobs, inflight) /\ Down
      /\ ParkedLaneIsIdle /\ Ordered /\ Messages /\ Truth
  BY DEF IInv
<1>3. /\ script.load # 0 /\ \A x \in Range(toDaemon) : x.load # 0
      /\ h \in ReplyMessage /\ OfferOK(h) /\ h \in Range(toScript) /\ h.kind = "Batch"
      /\ toScript' \in Seq(ReplyMessage) /\ BatchesInOrder(toScript')
      /\ OffersIn(toScript') \subseteq Offers /\ Names(h) \subseteq Offers
      /\ Before(Names(h), OffersIn(toScript'))
      /\ Range(toScript') \subseteq Range(toScript)
      /\ faults = 0 =>
            /\ Calm /\ Held /\ daemon.named
            /\ CarriedIn(toScript') = CarriedIn(toScript) \ Carried(h)
            /\ Carried(h) \subseteq CarriedIn(toScript)
            /\ CarriedOnce(toScript')
  BY CallbackIs
<1>4. /\ h.lane \in Lanes /\ script.gen <= daemon.gen /\ script.gen \in Nat /\ daemon.gen \in Nat
      /\ sent \in Nat /\ next \in Nat /\ ran \in Seq(Requests)
  BY <1>2, <1>3, ReplyFields, TypedIs DEF Messages
<1>5. script' = script
  <2>1. script \in [load: Nat, gen: Nat, running: BOOLEAN] /\ script.running = TRUE
    BY <1>2, TypedIs
  <2>2. script' = [script EXCEPT !.running = TRUE]
    BY <2>1
  <2>. QED  BY <2>1, <2>2
<1>6. work \in Seq(Dispatched) /\ DOMAIN work = 1..Len(work) /\ Len(work) \in Nat
  BY <1>3, ReplyFields
<1>7. \A k \in DOMAIN work : work[k] \in Dispatched /\ work[k].seq \in Nat /\ work[k].late \in BOOLEAN
  <2>1. \A k \in DOMAIN work : work[k] \in Dispatched
    BY <1>6
  <2>. HIDE DEF work
  <2>. QED  BY <2>1 DEF Dispatched
<1>8. /\ \A k \in DOMAIN work :
            /\ work[k].of \in 1..sent /\ work[k].of \in Requests /\ work[k].of \in Names(h)
            /\ h.gen = daemon.gen => Handed(jobs, next, work[k].seq, work[k].of)
      /\ \A k, n \in DOMAIN work : k < n => work[k].of < work[n].of
  <2>1. 1..sent \subseteq Requests
    BY <1>2, ReadAreRequests
  <2>. QED  BY <1>3, <2>1 DEF OfferOK, Names
<1>9. PICK b : b = Begun(work)
  OBVIOUS
<1>10. /\ b \in Seq(Requests) /\ Range(b) = BegunIn(work)
       /\ \A i, j \in DOMAIN b : i < j => b[i] < b[j]
  BY <1>6, <1>8, <1>9, BegunIs
<1>11. /\ ran' \in Seq(Requests) /\ Started' = Started \cup BegunIn(work)
       /\ DOMAIN ran = 1..Len(ran) /\ DOMAIN b = 1..Len(b) /\ Len(ran) \in Nat /\ Len(b) \in Nat
       /\ DOMAIN ran' = 1..(Len(ran) + Len(b))
       /\ \A i \in 1..Len(ran) : ran'[i] = ran[i]
       /\ \A i \in 1..Len(b) : ran'[Len(ran) + i] = b[i]
  <2>1. ran' = ran \o b
    BY <1>9
  <2>2. b \in Seq(Requests) /\ ran \in Seq(Requests)
    BY <1>4, <1>10
  <2>3. /\ ran \o b \in Seq(Requests) /\ Range(ran \o b) = Range(ran) \cup Range(b)
        /\ DOMAIN ran = 1..Len(ran) /\ DOMAIN b = 1..Len(b) /\ Len(ran) \in Nat /\ Len(b) \in Nat
        /\ DOMAIN (ran \o b) = 1..(Len(ran) + Len(b))
        /\ \A i \in 1..Len(ran) : (ran \o b)[i] = ran[i]
        /\ \A i \in 1..Len(b) : (ran \o b)[Len(ran) + i] = b[i]
    BY <2>2, RangeOfConcat
  <2>4. Started' = Started \cup BegunIn(work)
    BY <1>10, <2>1, <2>3 DEF Started
  <2>. QED  BY <2>1, <2>3, <2>4, Zenon
<1>12. BegunIn(work) \subseteq Names(h)
  BY DEF BegunIn, Timely, Names
<1>13. Offers' \subseteq Offers /\ Waiting' = Waiting /\ Before(Names(h), Offers')
  BY <1>1, <1>3 DEF Offers, Waiting
<1>14. Before(Started, Offers) /\ Before(Started, Waiting) /\ Before(Offers, Waiting)
       /\ Started \subseteq 1..sent
  BY <1>2 DEF Ordered
<1>. HIDE DEF work
<1>15. \A i, j \in DOMAIN ran' : i < j /\ LaneOf[ran'[i]] = LaneOf[ran'[j]] => ran'[i] < ran'[j]
  <2>. SUFFICES ASSUME NEW i \in DOMAIN ran', NEW j \in DOMAIN ran', i < j, LaneOf[ran'[i]] = LaneOf[ran'[j]]
                PROVE  ran'[i] < ran'[j]
    OBVIOUS
  <2>1. CASE j <= Len(ran)
    <3>1. i \in DOMAIN ran /\ j \in DOMAIN ran /\ ran'[i] = ran[i] /\ ran'[j] = ran[j]
      BY <1>11, <2>1
    <3>. QED  BY <1>2, <3>1 DEF Ordered
  <2>2. CASE i <= Len(ran) /\ ~(j <= Len(ran))
    <3>1. i \in DOMAIN ran /\ ran'[i] = ran[i]
      BY <1>11, <2>2
    <3>2. PICK n \in DOMAIN b : n = j - Len(ran)
      BY <1>11, <2>2
    <3>3. ran'[j] = b[n]
      <4>1. j = Len(ran) + n
        BY <1>11, <3>2
      <4>. QED  BY <1>11, <3>2, <4>1
    <3>4. ran'[i] \in Started /\ ran'[j] \in Offers
      BY <1>3, <1>10, <1>12, <3>1, <3>2, <3>3 DEF Started, Range
    <3>. QED  BY <1>14, <3>4 DEF Before
  <2>3. CASE ~(i <= Len(ran))
    <3>1. PICK n \in DOMAIN b : n = j - Len(ran)
      BY <1>11, <2>3
    <3>2. PICK k \in DOMAIN b : k = i - Len(ran)
      BY <1>11, <2>3
    <3>3. ran'[j] = b[n] /\ ran'[i] = b[k] /\ k < n
      <4>1. Len(ran) \in Nat /\ i \in Nat /\ j \in Nat /\ k \in 1..Len(b) /\ n \in 1..Len(b)
        BY <1>11
      <4>2. j = Len(ran) + n /\ i = Len(ran) + k /\ k < n
        BY <3>1, <3>2, <4>1
      <4>. QED  BY <1>11, <4>1, <4>2
    <3>. QED  BY <1>10, <3>3
  <2>. QED  BY <2>1, <2>2, <2>3
<1>16. Before(Started, Offers)' /\ Before(Started, Waiting)' /\ Before(Offers, Waiting)'
  <2>1. Before(Started, Offers') /\ Before(Names(h), Offers')
    BY <1>13, <1>14 DEF Before
  <2>2. Before(Started', Offers')
    BY <1>11, <1>12, <2>1 DEF Before
  <2>3. Before(Started', Waiting')
    BY <1>3, <1>11, <1>12, <1>13, <1>14 DEF Before
  <2>4. Before(Offers', Waiting')
    BY <1>13, <1>14 DEF Before
  <2>. QED  BY <2>2, <2>3, <2>4
<1>17. Started' \subseteq 1..sent'
  <2>1. BegunIn(work) \subseteq 1..sent
    BY <1>8 DEF BegunIn, Timely
  <2>. QED  BY <1>1, <1>11, <1>14, <2>1
<1>18. Ordered'
  BY <1>3, <1>15, <1>16, <1>17 DEF Ordered
<1>19. Onward
  <2>1. Live' \subseteq Live
    BY <1>3, <1>11, <1>12, <1>13 DEF Live
  <2>2. sent' \in Nat /\ sent <= sent' /\ Started \subseteq Started'
    BY <1>1, <1>4, <1>11
  <2>. QED  BY <1>4, <2>1, <2>2 DEF Onward
<1>20. QueueOnward
  BY <1>1, <1>4 DEF QueueOnward
<1>21. PICK rs : rs = [i \in 1..Len(work) |-> Result(work[i], o[i])]
  OBVIOUS
<1>22. \A k \in 1..Len(work) : o[k] \in {"OK", "FAILED"}
  BY DEF work
<1>23. /\ DOMAIN rs = 1..Len(work)
       /\ \A k \in 1..Len(work) :
            /\ rs[k].seq = work[k].seq /\ rs[k].of = work[k].of
            /\ work[k].late => rs[k].status = "BUSY"
            /\ ~work[k].late => rs[k].status \in {"OK", "FAILED"}
  BY <1>21, <1>22 DEF Result
<1>24. rs \in Seq(Results)
  <2>1. ASSUME NEW k \in 1..Len(work)
        PROVE  Result(work[k], o[k]) \in Results
    <3>1. work[k].seq \in Nat /\ work[k].of \in Subjects /\ work[k].late \in BOOLEAN
          /\ o[k] \in Statuses /\ "BUSY" \in Statuses
      BY <1>6, <1>7, <1>8, <1>22 DEF Subjects, Statuses
    <3>. QED  BY <3>1 DEF Result, Results
  <2>2. PICK n \in Nat : n = Len(work)
    BY <1>6
  <2>3. rs \in [1..n -> Results]
    BY <1>21, <2>1, <2>2
  <2>. QED  BY <2>3, IsSequence
<1>25. PICK c : c = ReportCall(h.lane, rs)
  OBVIOUS
<1>26. c \in [kind: {"Hello", "Poll", "Report"}, lane: Lanes, results: Seq(Results)]
  BY <1>4, <1>24, <1>25 DEF ReportCall
<1>27. PICK x : x = Sent(c, script.load, script.gen)
  OBVIOUS
<1>28. /\ x.kind = "Report" /\ x.results = rs /\ x.gen = script.gen /\ x.from = kwin
       /\ x.load = script.load
  BY <1>25, <1>27 DEF Sent, ReportCall
<1>29. /\ x \in CallMessage /\ toDaemon' \in Seq(CallMessage)
       /\ Range(toDaemon') \subseteq Range(toDaemon) \cup {x}
       /\ ReportedOnce(toDaemon) /\ Reported(x) \cap ReportedIn(toDaemon) = {} =>
            /\ ReportedOnce(toDaemon')
            /\ daemon.up => ReportedIn(toDaemon') = ReportedIn(toDaemon) \cup Reported(x)
  <2>1. Call(script.load, script.gen, <<c>>)
    BY <1>21, <1>25 DEF work
  <2>. QED  BY <1>2, <1>4, <1>26, <1>27, <2>1, CallJoins
<1>30. ReportOK(x)'
  <2>1. ASSUME NEW k \in DOMAIN x.results
        PROVE  /\ x.results[k].of \in 1..sent'
               /\ x.gen = daemon'.gen => Handed(jobs, next, x.results[k].seq, x.results[k].of)'
               /\ Outcome(x.results[k].of, x.results[k].status)'
    <3>1. k \in 1..Len(work) /\ k \in DOMAIN work /\ x.results[k] = rs[k]
      BY <1>6, <1>23, <1>28
    <3>2. PICK r \in 1..sent : r = work[k].of
      BY <1>8, <3>1
    <3>3. x.results[k].of = r /\ x.results[k].seq = work[k].seq
      BY <1>23, <3>1, <3>2
    <3>4. x.gen = daemon'.gen => Handed(jobs, next, work[k].seq, r)'
      <4>. SUFFICES ASSUME x.gen = daemon'.gen
                    PROVE  Handed(jobs, next, work[k].seq, r)'
        OBVIOUS
      <4>1. Handed(jobs, next, work[k].seq, r)
        BY <1>1, <1>8, <1>28, <3>1, <3>2
      <4>. QED  BY <1>1, <4>1
    <3>5. CASE work[k].late
      <4>1. x.results[k].status = "BUSY"
        BY <1>23, <3>1, <3>5
      <4>2. r \in Offers /\ r \in Names(h)
        BY <1>3, <1>8, <3>1, <3>2
      <4>3. r \notin Started /\ r \notin Waiting /\ r \notin Offers'
        BY <1>13, <1>14, <4>2 DEF Before
      <4>4. r \notin BegunIn(work)
        <5>. SUFFICES ASSUME NEW n \in Timely(work), r = work[n].of
                      PROVE  FALSE
          BY DEF BegunIn
        <5>1. n \in DOMAIN work /\ ~work[n].late
          BY DEF Timely, InTime
        <5>2. n < k \/ k < n
          BY <1>6, <3>1, <3>5, <5>1
        <5>3. work[n].of < work[k].of \/ work[k].of < work[n].of
          BY <1>8, <3>1, <5>1, <5>2
        <5>. QED  BY <3>2, <5>3
      <4>5. r \notin Live'
        BY <1>11, <1>13, <4>3, <4>4 DEF Live
      <4>. QED  BY <1>1, <3>3, <3>4, <4>1, <4>5 DEF Outcome
    <3>6. CASE ~work[k].late
      <4>1. x.results[k].status \in {"OK", "FAILED"}
        BY <1>23, <3>1, <3>6
      <4>2. r \in BegunIn(work)
        BY <3>1, <3>2, <3>6 DEF BegunIn, Timely, InTime
      <4>. QED  BY <1>1, <1>11, <3>3, <3>4, <4>1, <4>2 DEF Outcome
    <3>. QED  BY <3>5, <3>6
  <2>. QED  BY <1>1, <1>4, <1>28, <2>1 DEF ReportOK
<1>31. Typed'
  BY <1>1, <1>2, <1>3, <1>5, <1>11, <1>29, TypedIs, TypedNext
<1>32. Messages'
  <2>1. script'.gen <= daemon'.gen /\ daemon'.gen \in Nat /\ daemon.gen <= daemon'.gen
    BY <1>1, <1>4, <1>5
  <2>2. /\ \A y \in Range(toScript') : y \in Range(toScript)
        /\ \A y \in Range(toDaemon') : y \in Range(toDaemon) \/ ReportOK(y)'
    BY <1>3, <1>29, <1>30
  <2>. QED  BY <1>2, <1>19, <1>20, <2>1, <2>2, MessagesKept
<1>33. JobsOK(jobs, next, sent)' /\ EntriesOK(jobs, inflight)' /\ Down'
  BY <1>1, <1>2 DEF Down, JobsOK, EntriesOK, Used
<1>34. Truth'
  <2>1. \A s \in Slots : jobs'[s].state = "DONE" =>
              jobs[s].state = "DONE" /\ jobs'[s].of = jobs[s].of /\ jobs'[s].status = jobs[s].status
    BY <1>1
  <2>2. \A s \in Slots : inflight'[s].active =>
              \/ inflight[s].active /\ inflight'[s].request = inflight[s].request
              \/ inflight'[s].request > sent
    BY <1>1
  <2>3. answers' = answers
    BY <1>1
  <2>. QED  BY <1>2, <1>19, <2>1, <2>2, <2>3, TruthKept
<1>35. ParkedLaneIsIdle' /\ Loaded'
  BY <1>1, <1>2, <1>3, <1>5, <1>28, <1>29 DEF ParkedLaneIsIdle, Queued, Loaded
<1>36. ASSUME faults' = 0
       PROVE  Calm' /\ Held'
  <2>1. /\ Calm /\ Held /\ daemon.named /\ faults = 0 /\ daemon.up
        /\ CarriedIn(toScript') = CarriedIn(toScript) \ Carried(h)
        /\ Carried(h) \subseteq CarriedIn(toScript) /\ CarriedOnce(toScript')
    BY <1>1, <1>3, <1>36 DEF Calm
  <2>2. script.gen = daemon.gen
    BY <2>1 DEF Calm
  <2>3. \A z \in Range(toDaemon') : /\ z.from = kwin /\ z.load = script.load
                                    /\ z.kind # "Hello" => z.gen = daemon.gen
    BY <1>28, <1>29, <2>1, <2>2 DEF Calm
  <2>4. \A z \in Range(toScript') : z.gen = daemon.gen
    BY <1>3, <2>1 DEF Calm
  <2>5. Calm'
    BY <1>1, <1>5, <2>1, <2>2, <2>3, <2>4 DEF Calm
  <2>6. Reported(x) = Carried(h)
    <3>1. Reported(x) = {rs[i].seq : i \in 1..Len(work)}
      BY <1>23, <1>28 DEF Reported
    <3>2. Carried(h) = {work[i].seq : i \in 1..Len(work)}
      BY <1>6 DEF Carried, work
    <3>3. \A i \in 1..Len(work) : rs[i].seq = work[i].seq
      BY <1>23
    <3>. QED  BY <3>1, <3>2, <3>3
  <2>7. /\ DispatchedIn(jobs) = CarriedIn(toScript) \cup ReportedIn(toDaemon)
        /\ CarriedIn(toScript) \cap ReportedIn(toDaemon) = {} /\ ReportedOnce(toDaemon)
    BY <2>1 DEF Held
  <2>8. ReportedOnce(toDaemon') /\ ReportedIn(toDaemon') = ReportedIn(toDaemon) \cup Carried(h)
    BY <1>29, <2>1, <2>6, <2>7
  <2>9. DispatchedIn(jobs') = DispatchedIn(jobs)
    BY <1>1
  <2>10. /\ DispatchedIn(jobs') = CarriedIn(toScript') \cup ReportedIn(toDaemon')
         /\ CarriedIn(toScript') \cap ReportedIn(toDaemon') = {}
    BY <2>1, <2>7, <2>8, <2>9
  <2>11. Held'
    BY <2>1, <2>8, <2>10 DEF Held
  <2>. QED  BY <2>5, <2>11
<1>. QED  BY <1>18, <1>31, <1>32, <1>33, <1>34, <1>35, <1>36 DEF IInv

LEMMA OnBatchKeeps ==
    ASSUME IInv, OnBatch
    PROVE  IInv'
<1>. DEFINE h == Head(toScript)
            readable == h.gen = script.gen
            work == IF script.running /\ readable THEN h.batch ELSE <<>>
<1>1. /\ Callback("Batch")
      /\ script' = [script EXCEPT !.running = script.running /\ readable]
      /\ ran' = ran \o Begun(work)
      /\ \/ work # <<>> /\ \E o \in [1..Len(work) -> {"OK", "FAILED"}] :
                Call(script.load, script.gen,
                     <<ReportCall(h.lane, [i \in 1..Len(work) |-> Result(work[i], o[i])])>>)
         \/ /\ work = <<>>
            /\ Call(script.load, script.gen,
                    IF script'.running THEN <<PollCall(h.lane)>> ELSE <<>>)
      /\ UNCHANGED <<busVars, queueVars, parkVars, sent, answers, faults>>
  BY Zenon DEF OnBatch, Begun, Timely
<1>2. PICK g, w : g = h /\ w = work
  OBVIOUS
<1>3. /\ g = Head(toScript) /\ script' = [script EXCEPT !.running = script.running /\ g.gen = script.gen]
      /\ w = IF script.running /\ g.gen = script.gen THEN g.batch ELSE <<>>
      /\ ran' = ran \o Begun(w)
  BY <1>1, <1>2
<1>4. CASE w # <<>>
  <2>1. script.running /\ g.gen = script.gen /\ w = g.batch
    BY <1>3, <1>4
  <2>2. PICK o \in [1..Len(w) -> {"OK", "FAILED"}] :
            Call(script.load, script.gen,
                 <<ReportCall(g.lane, [i \in 1..Len(w) |-> Result(w[i], o[i])])>>)
    BY <1>1, <1>2, <1>4
  <2>. HIDE DEF h, readable, work
  <2>3. /\ Callback("Batch") /\ UNCHANGED <<busVars, queueVars, parkVars, sent, answers, faults>>
        /\ ran' = ran \o Begun(g.batch)
    BY <1>1, <1>3, <2>1
  <2>4. PICK u \in [1..Len(g.batch) -> {"OK", "FAILED"}] :
            Call(script.load, script.gen,
                 <<ReportCall(g.lane, [i \in 1..Len(g.batch) |-> Result(g.batch[i], u[i])])>>)
    BY <2>1, <2>2
  <2>. QED  BY <1>3, <2>1, <2>3, <2>4, WorkBatchKeeps
<1>5. CASE w = <<>>
  <2>1. Call(script.load, script.gen, IF script'.running THEN <<PollCall(g.lane)>> ELSE <<>>)
    BY <1>1, <1>2, <1>5
  <2>2. Typed
    BY DEF IInv
  <2>3. ran' = ran
    BY <1>3, <1>5, <2>2, NothingBegun
  <2>. HIDE DEF h, readable, work
  <2>4. /\ Callback("Batch") /\ UNCHANGED <<busVars, queueVars, parkVars, sent, answers, faults>>
        /\ script.running /\ g.gen = script.gen => g.batch = <<>>
    BY <1>1, <1>3, <1>5
  <2>. QED  BY <1>3, <2>1, <2>3, <2>4, IdleBatchKeeps
<1>. QED  BY <1>4, <1>5

-----------------------------------------------------------------------------
(* The theorems *)

LEMMA InitInductive ==
    ASSUME Init
    PROVE  IInv
<1>1. /\ kwin \in Nat /\ script \in [load: Nat, gen: Nat, running: BOOLEAN]
      /\ toDaemon \in Seq(CallMessage) /\ toScript \in Seq(ReplyMessage)
      /\ daemon \in [up: BOOLEAN, named: BOOLEAN, gen: Nat, peer: Nat]
      /\ next \in Nat /\ sent \in Requests \cup {0} /\ ran \in Seq(Requests)
      /\ relay \in BOOLEAN
  BY DEF Init
<1>2. parked \in [Lanes -> Nat] /\ idle \in [Lanes -> BOOLEAN]
  BY DEF Init, NoPoll
<1>3. answers \in [Requests -> Seq([status: Statuses, of: Subjects])] /\ faults \in 0..MaxFaults
  <2>1. faults \in 0..MaxFaults
    BY ChannelConstants DEF Init
  <2>. QED  BY <2>1 DEF Init
<1>4. FreeJob \in JobRecord /\ FreeJob.state = "FREE"
  BY DEF FreeJob, JobRecord, Subjects, Lanes, Statuses, NoRequest
<1>5. NotInflight \in InflightRecord /\ ~NotInflight.active
  BY DEF NotInflight, InflightRecord, Subjects, NoRequest
<1>6. jobs \in [Slots -> JobRecord] /\ \A s \in Slots : jobs[s].state = "FREE"
  BY <1>4 DEF Init
<1>7. inflight \in [Slots -> InflightRecord] /\ \A s \in Slots : ~inflight[s].active
  BY <1>5 DEF Init
<1>8. Typed
  <2>1. toDaemon = <<>> /\ toScript = <<>>
    BY DEF Init
  <2>2. /\ \A i \in DOMAIN toDaemon : toDaemon[i] \in CallMessage
        /\ \A i \in DOMAIN toScript : toScript[i] \in ReplyMessage
    BY <2>1
  <2>. QED  BY <1>1, <1>2, <1>3, <1>6, <1>7, <2>2 DEF Typed, TypeOK
<1>9. Used(jobs) = {} /\ Waiting = {}
  BY <1>6 DEF Used, Waiting, WaitingIn
<1>10. JobsOK(jobs, next, sent) /\ EntriesOK(jobs, inflight) /\ Down
  BY <1>6, <1>7, <1>9 DEF JobsOK, EntriesOK, Down
<1>11. Range(toDaemon) = {} /\ Range(toScript) = {} /\ Started = {} /\ Offers = {}
       /\ BatchesInOrder(toScript)
  BY NoOffers DEF Init, Started, Offers
<1>12. Loaded
  BY <1>11 DEF Init, Loaded
<1>13. ParkedLaneIsIdle
  BY <1>6 DEF Init, ParkedLaneIsIdle, Queued
<1>14. Ordered
  <2>1. DOMAIN ran = {}
    BY DEF Init
  <2>. QED  BY <1>9, <1>11, <2>1, NoOffers DEF Ordered
<1>15. Messages
  BY <1>11 DEF Init, Messages
<1>16. Truth
  <2>1. ASSUME NEW r \in Requests
        PROVE  AnswerOK(r)
    <3>1. answers[r] = <<>> /\ Len(<<>>) = 0
      BY DEF Init
    <3>2. AnswersOf(r) = {}
      BY <3>1, NoOffers DEF AnswersOf
    <3>. QED  BY <3>1, <3>2 DEF AnswerOK
  <2>. QED  BY <1>6, <2>1 DEF Truth
<1>17. Calm
  BY <1>11 DEF Init, Calm
<1>18. Held
  <2>1. DispatchedIn(jobs) = {} /\ CarriedIn(toScript) = {} /\ ReportedIn(toDaemon) = {}
    BY <1>6, <1>11 DEF DispatchedIn, CarriedIn, ReportedIn
  <2>2. CarriedOnce(toScript) /\ ReportedOnce(toDaemon)
    BY DEF Init, CarriedOnce, ReportedOnce
  <2>. QED  BY <2>1, <2>2 DEF Held
<1>. QED  BY <1>8, <1>10, <1>12, <1>13, <1>14, <1>15, <1>16, <1>17, <1>18 DEF IInv

LEMMA StutterKeeps ==
    ASSUME IInv, UNCHANGED vars
    PROVE  IInv'
<1>1. UNCHANGED <<kwin, script, toDaemon, toScript, daemon, jobs, next, inflight, parked, idle, relay,
                  sent, ran, answers, faults>>
  BY DEF vars
<1>2. Typed /\ Ordered /\ Loaded /\ ParkedLaneIsIdle /\ Messages /\ (faults = 0 => Calm /\ Held)
  BY DEF IInv
<1>3. Typed'
  BY <1>1, <1>2, TypedIs, TypedNext
<1>4. ParkedLaneIsIdle' /\ Loaded'
  BY <1>1, <1>2 DEF ParkedLaneIsIdle, Queued, Loaded
<1>5. ASSUME faults' = 0
      PROVE  Calm' /\ Held'
  <2>1. Calm /\ Held
    BY <1>1, <1>2, <1>5
  <2>2. Calm'
    BY <1>1, <2>1 DEF Calm
  <2>3. Held'
    BY <1>1, <2>1 DEF Held, DispatchedIn
  <2>. QED  BY <2>2, <2>3
<1>6. /\ BatchesInOrder(toScript') /\ OffersIn(toScript') \subseteq Offers
      /\ script'.gen <= daemon.gen /\ daemon'.gen = daemon.gen /\ (daemon.up => daemon'.up)
      /\ \A y \in Range(toScript') : y \in Range(toScript)
      /\ \A y \in Range(toDaemon') : y \in Range(toDaemon)
  BY <1>1, <1>2 DEF Ordered, Offers, Messages
<1>. QED  BY <1>1, <1>3, <1>4, <1>5, <1>6, QuietKeeps

LEMMA StepInductive ==
    ASSUME IInv, [Next]_vars
    PROVE  IInv'
<1>1. ASSUME NEW r \in Requests, RejectRequest(r)
      PROVE  IInv'
  BY <1>1, RejectRequestKeeps
<1>2. ASSUME NEW r \in Requests, RefuseRequest(r)
      PROVE  IInv'
  BY <1>2, RefuseRequestKeeps
<1>3. ASSUME NEW r \in Requests, SubmitRequest(r)
      PROVE  IInv'
  BY <1>3, SubmitRequestKeeps
<1>4. ASSUME NEW s \in Slots, DeadlinePasses(s)
      PROVE  IInv'
  BY <1>4, DeadlinePassesKeeps
<1>5. ASSUME NEW l \in Lanes, IdleTimer(l)
      PROVE  IInv'
  BY <1>5, IdleTimerKeeps
<1>6. CASE RelayBreaks
  BY <1>6, RelayBreaksKeeps
<1>7. CASE DaemonStep
  <2>1. CASE RefuseCall
    BY <2>1, RefuseCallKeeps
  <2>2. CASE HandleHello
    BY <2>2, HandleHelloKeeps
  <2>3. CASE HandlePollWork
    BY <2>3, HandlePollWorkKeeps
  <2>4. CASE HandlePollPark
    BY <2>4, HandlePollParkKeeps
  <2>5. CASE ReportInterrupted
    BY <2>5, ReportInterruptedKeeps
  <2>6. CASE HandleReport
    BY <2>6, HandleReportKeeps
  <2>. QED  BY <1>7, <2>1, <2>2, <2>3, <2>4, <2>5, <2>6 DEF DaemonStep
<1>8. CASE ScriptStep
  <2>1. CASE OnHello
    BY <2>1, OnHelloKeeps
  <2>2. CASE OnBatch
    BY <2>2, OnBatchKeeps
  <2>3. CASE OnAck
    BY <2>3, OnAckKeeps
  <2>. QED  BY <1>8, <2>1, <2>2, <2>3 DEF ScriptStep
<1>9. CASE Restart
  <2>1. CASE NameAcquired
    BY <2>1, NameAcquiredKeeps
  <2>2. CASE ScriptReloaded
    BY <2>2, ScriptReloadedKeeps
  <2>3. CASE CompositorRestarts
    BY <2>3, CompositorRestartsKeeps
  <2>4. CASE StopAfterRelayFailure \/ StopAfterCompositorChange \/ StopOnRequest
    BY <2>4, StopsKeep
  <2>5. CASE DaemonStarts
    BY <2>5, DaemonStartsKeeps
  <2>. QED  BY <1>9, <2>1, <2>2, <2>3, <2>4, <2>5 DEF Restart
<1>10. CASE UNCHANGED vars
  BY <1>10, StutterKeeps
<1>. QED  BY <1>1, <1>2, <1>3, <1>4, <1>5, <1>6, <1>7, <1>8, <1>9, <1>10 DEF Next

\* The invariant holds of every behaviour of the daemon, the script and the
\* compositor, whatever fails and however often.
THEOREM InductiveCorrect == Spec => []IInv
<1>1. Init => IInv
  BY InitInductive
<1>2. IInv /\ [Next]_vars => IInv'
  BY StepInductive
<1>. QED  BY <1>1, <1>2, PTL DEF Spec

\* An operation is started at most once, and answered at most once, whatever is
\* restarted between the two, and a lane starts its operations in the order in
\* which their requests arrived (ksd_kwin_queue_take, pollLane, relay_drain).
THEOREM StartedOnceCorrect == Spec => []StartedOnceInOrder
<1>1. IInv => StartedOnceInOrder
  <2>. SUFFICES ASSUME IInv
                PROVE  StartedOnceInOrder
    OBVIOUS
  <2>1. Typed /\ Ordered /\ Truth
    BY DEF IInv
  <2>2. \A i, j \in DOMAIN ran :
            i < j /\ LaneOf[ran[i]] = LaneOf[ran[j]] => ran[i] < ran[j]
    BY <2>1 DEF Ordered
  <2>3. ASSUME NEW i \in DOMAIN ran, NEW j \in DOMAIN ran, ran[i] = ran[j]
        PROVE  i = j
    <3>1. ran \in Seq(Requests)
      BY <2>1, TypedIs
    <3>2. i \in Nat /\ j \in Nat /\ ran[i] \in Nat
      BY <3>1, Constants
    <3>. QED  BY <2>2, <2>3, <3>2
  <2>4. \A r \in Requests : Len(answers[r]) <= 1
    BY <2>1 DEF Truth, AnswerOK
  <2>. QED  BY <2>2, <2>3, <2>4 DEF StartedOnceInOrder
<1>. QED  BY <1>1, InductiveCorrect, PTL

\* BUSY means that the operation never starts and a result describes the
\* operation it answers, across restarts in which sequence numbers start over
\* (executeJob, ksd_kwin_queue_complete, relay_drain, relay_readable).
THEOREM AnswersTrueCorrect == Spec => []AnswersTrue
<1>1. IInv => AnswersTrue
  <2>. SUFFICES ASSUME IInv, NEW r \in Requests, NEW a \in AnswersOf(r)
                PROVE  /\ a.status = "BUSY" => r \notin Range(ran)
                       /\ a.status \in {"OK", "FAILED", "INTERNAL"} => a.of = r /\ r \in Range(ran)
    BY DEF AnswersTrue
  <2>1. AnswerOK(r)
    BY DEF IInv, Truth
  <2>. QED  BY <2>1 DEF AnswerOK, Live, Started
<1>. QED  BY <1>1, InductiveCorrect, PTL

\* One to one, the two tables have as many free slots.
LEMMA TablesAgreeHold ==
    ASSUME IInv
    PROVE  TablesAgree
<1>1. JobsOK(jobs, next, sent) /\ EntriesOK(jobs, inflight)
  BY DEF IInv
<1>2. PICK A : A = {s \in Slots : inflight[s].active}
  OBVIOUS
<1>3. ASSUME NEW s \in A
      PROVE  \E t \in Used(jobs) : jobs[t].seq = inflight[s].seq /\ jobs[t].of = inflight[s].request
  BY <1>1, <1>2 DEF EntriesOK
<1>4. PICK f : f = [s \in A |-> CHOOSE t \in Used(jobs) : jobs[t].seq = inflight[s].seq]
  OBVIOUS
<1>5. ASSUME NEW s \in A
      PROVE  f[s] \in Used(jobs) /\ jobs[f[s]].seq = inflight[s].seq
  <2>1. \E t \in Used(jobs) : jobs[t].seq = inflight[s].seq
    BY <1>3
  <2>. QED  BY <1>4, <2>1
<1>6. f \in [A -> Used(jobs)]
  BY <1>4, <1>5
<1>7. ASSUME NEW s \in A, NEW t \in A, f[s] = f[t]
      PROVE  s = t
  <2>1. inflight[s].seq = inflight[t].seq
    BY <1>5, <1>7
  <2>. QED  BY <1>1, <1>2, <2>1 DEF EntriesOK
<1>8. ASSUME NEW t \in Used(jobs)
      PROVE  \E s \in A : f[s] = t
  <2>1. PICK s \in Slots : inflight[s].active /\ inflight[s].seq = jobs[t].seq
    BY <1>1 DEF EntriesOK
  <2>2. s \in A
    BY <1>2, <2>1
  <2>3. f[s] \in Used(jobs) /\ jobs[f[s]].seq = jobs[t].seq
    BY <1>5, <2>1, <2>2
  <2>4. f[s] = t
    BY <1>1, <2>3, OneJob
  <2>. QED  BY <2>2, <2>4
<1>9. ExistsBijection(A, Used(jobs))
  <2>1. f \in Injection(A, Used(jobs))
    BY <1>6, <1>7 DEF Injection, IsInjective
  <2>2. f \in Surjection(A, Used(jobs))
    BY <1>6, <1>8 DEF Surjection
  <2>. QED  BY <2>1, <2>2 DEF ExistsBijection, Bijection
<1>10. A \in SUBSET Slots /\ Used(jobs) \in SUBSET Slots /\ IsFiniteSet(Slots)
  BY <1>2, Constants DEF Used
<1>11. IsFiniteSet(A)
  BY <1>10, FS_Subset
<1>12. Cardinality(Used(jobs)) = Cardinality(A)
  BY <1>9, <1>11, FS_Bijection
<1>13. FreeJobs = Slots \ Used(jobs) /\ FreeInflight = Slots \ A
  BY <1>2 DEF FreeJobs, FreeInflight, Used
<1>14. Slots \cap A = A /\ Slots \cap Used(jobs) = Used(jobs)
  BY <1>10
<1>15. Cardinality(Slots \ A) = Cardinality(Slots) - Cardinality(Slots \cap A)
  BY <1>10, FS_Difference
<1>16. Cardinality(Slots \ Used(jobs)) = Cardinality(Slots) - Cardinality(Slots \cap Used(jobs))
  BY <1>10, FS_Difference
<1>17. Cardinality(FreeJobs) = Cardinality(FreeInflight)
  BY <1>12, <1>13, <1>14, <1>15, <1>16
<1>18. ASSUME NEW s \in Slots, inflight[s].active
       PROVE  \E t \in Slots : /\ jobs[t].state # "FREE"
                               /\ jobs[t].seq = inflight[s].seq
                               /\ jobs[t].of = inflight[s].request
  <2>1. s \in A
    BY <1>2, <1>18
  <2>. QED  BY <1>3, <2>1 DEF Used
<1>. QED  BY <1>17, <1>18 DEF TablesAgree

\* The queue and the bus table agree, a parked lane has nothing queued and its
\* timer armed, and without a fault every job that was handed out is in one
\* message (ksd_kwin_queue_submit, release_park, relay_drain).
THEOREM QueueConsistentCorrect == Spec => []QueueConsistent
<1>1. IInv => QueueConsistent
  <2>. SUFFICES ASSUME IInv
                PROVE  QueueConsistent
    OBVIOUS
  <2>1. TypeOK /\ ParkedLaneIsIdle
    BY DEF IInv, Typed
  <2>2. TablesAgree
    BY TablesAgreeHold
  <2>3. DispatchedIsHeld
    <3>1. InBatches = CarriedIn(toScript) /\ InReports = ReportedIn(toDaemon)
      BY DEF InBatches, InReports, CarriedIn, ReportedIn, Carried, Reported
    <3>2. faults = 0 => Held
      BY DEF IInv
    <3>. QED  BY <3>1, <3>2 DEF DispatchedIsHeld, Held, DispatchedIn
  <2>. QED  BY <2>1, <2>2, <2>3 DEF QueueConsistent
<1>. QED  BY <1>1, InductiveCorrect, PTL

-----------------------------------------------------------------------------
(* A healthy channel *)

\* How many messages of a queue are of one sort.
Count(q, C) == Cardinality({i \in DOMAIN q : q[i] \in C})
Mark(p) == IF p THEN 1 ELSE 0

HelloCalls(load) == {m \in CallMessage : m.kind = "Hello" /\ m.load = load}
HelloReplies == {m \in ReplyMessage : m.kind = "Hello"}
CallsOn(l, load) == {m \in CallMessage : m.load = load /\ m.kind # "Hello" /\ m.lane = l}
RepliesOn(l) == {m \in ReplyMessage : m.kind # "Hello" /\ m.lane = l}

\* Where the handshake of the loaded script is: asked for, answered or over.
Greetings ==
    Count(toDaemon, HelloCalls(script.load)) + Count(toScript, HelloReplies)
        + Mark(script.gen # 0)

\* The loaded script calls as its compositor, with the generation it learnt.
CallFits(m) ==
    /\ m.load <= script.load
    /\ m.load = script.load =>
        m.from = kwin /\ (m.kind # "Hello" => m.gen = script.gen /\ script.gen # 0)

ReplyFits(m) == m.gen # 0 /\ (m.kind # "Hello" => m.gen = script.gen)

PollFits(p) ==
    p # NoPoll => daemon.up /\ p <= script.load /\ (p = script.load => script.gen = daemon.gen)

\* Who may talk to whom: a load of the script shakes hands once, before
\* anything else, and from then on it and the daemon use one generation.
Wires ==
    /\ \A m \in Range(toDaemon) : CallFits(m)
    /\ \A m \in Range(toScript) : ReplyFits(m)
    /\ \A l \in Lanes : PollFits(parked[l])
    /\ script.running <=> script.gen # 0
    /\ daemon.gen # 0
    /\ Greetings <= 1

\* A sequence that stands for a job in the hands of the script.
InHand(js, q) == \E s \in Slots : js[s].state = "DISPATCHED" /\ js[s].seq = q
AllInHand(js, Q) == \A q \in Q : InHand(js, q)

Described(m) == {m.results[k].of : k \in DOMAIN m.results}
DescribedOnce(ms) == \A i, j \in DOMAIN ms : i # j => Described(ms[i]) \cap Described(ms[j]) = {}

\* Whatever has failed, no job of this daemon's is in two messages, and what a
\* message names is still waiting for its result.
Grip ==
    /\ DescribedOnce(toDaemon)
    /\ \A m \in Range(toScript) : daemon.up /\ m.gen = daemon.gen => AllInHand(jobs, Carried(m))
    /\ \A m \in Range(toDaemon) : daemon.up /\ m.gen = daemon.gen => AllInHand(jobs, Reported(m))

LEMMA CountIs ==
    ASSUME NEW S, NEW q \in Seq(S), NEW C
    PROVE  /\ IsFiniteSet({i \in DOMAIN q : q[i] \in C}) /\ Count(q, C) \in Nat
           /\ (\E m \in Range(q) : m \in C) => Count(q, C) >= 1
           /\ (\A m \in Range(q) : m \notin C) => Count(q, C) = 0
<1>1. PICK I : I = {i \in DOMAIN q : q[i] \in C}
  OBVIOUS
<1>2. DOMAIN q = 1..Len(q) /\ Len(q) \in Nat
  OBVIOUS
<1>3. IsFiniteSet(1..Len(q)) /\ I \in SUBSET (1..Len(q))
  BY <1>1, <1>2, FS_Interval
<1>4. IsFiniteSet(I)
  BY <1>3, FS_Subset
<1>5. Cardinality(I) \in Nat /\ (Cardinality(I) = 0 <=> I = {})
  BY <1>4, FS_CardinalityType, FS_EmptySet
<1>6. Count(q, C) = Cardinality(I)
  BY <1>1 DEF Count
<1>7. (\E m \in Range(q) : m \in C) => I # {}
  BY <1>1 DEF Range
<1>8. (\A m \in Range(q) : m \notin C) => I = {}
  BY <1>1 DEF Range
<1>. QED  BY <1>1, <1>4, <1>5, <1>6, <1>7, <1>8

LEMMA CountOfAppend ==
    ASSUME NEW S, NEW q \in Seq(S), NEW m \in S, NEW C
    PROVE  Count(Append(q, m), C) = Count(q, C) + Mark(m \in C)
<1>1. PICK I, J : I = {i \in DOMAIN q : q[i] \in C} /\ J = {i \in DOMAIN Append(q, m) : Append(q, m)[i] \in C}
  OBVIOUS
<1>2. /\ Len(q) \in Nat /\ DOMAIN q = 1..Len(q) /\ DOMAIN Append(q, m) = 1..(Len(q) + 1)
      /\ \A k \in 1..Len(q) : Append(q, m)[k] = q[k]
      /\ Append(q, m)[Len(q) + 1] = m
  OBVIOUS
<1>3. IsFiniteSet(I) /\ Count(q, C) = Cardinality(I) /\ Cardinality(I) \in Nat
  BY <1>1, CountIs DEF Count
<1>4. Count(Append(q, m), C) = Cardinality(J)
  BY <1>1 DEF Count
<1>5. Len(q) + 1 \notin I
  BY <1>1, <1>2
<1>6. CASE m \in C
  <2>1. J = I \cup {Len(q) + 1}
    <3>1. \A i \in 1..(Len(q) + 1) : i \in 1..Len(q) \/ i = Len(q) + 1
      BY <1>2
    <3>2. \A i \in 1..Len(q) : i \in 1..(Len(q) + 1)
      BY <1>2
    <3>3. Len(q) + 1 \in 1..(Len(q) + 1)
      BY <1>2
    <3>. QED  BY <1>1, <1>2, <1>6, <3>1, <3>2, <3>3
  <2>2. Cardinality(J) = Cardinality(I) + 1
    BY <1>3, <1>5, <2>1, FS_AddElement
  <2>. QED  BY <1>3, <1>4, <1>6, <2>2 DEF Mark
<1>7. CASE m \notin C
  <2>1. J = I
    <3>1. \A i \in 1..(Len(q) + 1) : i \in 1..Len(q) \/ i = Len(q) + 1
      BY <1>2
    <3>2. \A i \in 1..Len(q) : i \in 1..(Len(q) + 1)
      BY <1>2
    <3>. QED  BY <1>1, <1>2, <1>7, <3>1, <3>2
  <2>. QED  BY <1>3, <1>4, <1>7, <2>1 DEF Mark
<1>. QED  BY <1>6, <1>7

LEMMA CountOfTail ==
    ASSUME NEW S, NEW q \in Seq(S), q # <<>>, NEW C
    PROVE  Count(q, C) = Count(Tail(q), C) + Mark(Head(q) \in C)
<1>1. /\ DOMAIN q = 1..Len(q) /\ Len(q) \in Nat /\ Len(q) >= 1
      /\ Tail(q) \in Seq(S) /\ DOMAIN Tail(q) = 1..(Len(q) - 1) /\ Head(q) = q[1]
      /\ \A i \in 1..(Len(q) - 1) : Tail(q)[i] = q[i + 1]
  OBVIOUS
<1>2. PICK I, J, K : /\ I = {i \in DOMAIN q : q[i] \in C}
                     /\ J = {i \in DOMAIN Tail(q) : Tail(q)[i] \in C}
                     /\ K = I \ {1}
  OBVIOUS
<1>3. /\ IsFiniteSet(I) /\ Count(q, C) = Cardinality(I) /\ Cardinality(I) \in Nat
      /\ IsFiniteSet(J) /\ Count(Tail(q), C) = Cardinality(J) /\ Cardinality(J) \in Nat
  BY <1>1, <1>2, CountIs DEF Count
<1>4. PICK f : f = [j \in J |-> j + 1]
  OBVIOUS
<1>5. \A j \in J : j \in Nat /\ j + 1 \in K /\ f[j] = j + 1
  BY <1>1, <1>2, <1>4
<1>6. \A k \in K : k - 1 \in J /\ (k - 1) + 1 = k
  <2>. SUFFICES ASSUME NEW k \in K
                PROVE  k - 1 \in J /\ (k - 1) + 1 = k
    OBVIOUS
  <2>1. k \in 1..Len(q) /\ k # 1 /\ q[k] \in C
    BY <1>1, <1>2
  <2>2. k - 1 \in 1..(Len(q) - 1) /\ (k - 1) + 1 = k
    BY <1>1, <2>1
  <2>. QED  BY <1>1, <1>2, <2>1, <2>2
<1>7. ExistsBijection(J, K)
  <2>1. f \in [J -> K]
    BY <1>4, <1>5
  <2>2. f \in Injection(J, K)
    BY <1>5, <2>1 DEF Injection, IsInjective
  <2>3. f \in Surjection(J, K)
    <3>1. \A k \in K : \E j \in J : f[j] = k
      BY <1>5, <1>6
    <3>. QED  BY <2>1, <3>1 DEF Surjection
  <2>. QED  BY <2>2, <2>3 DEF ExistsBijection, Bijection
<1>8. Cardinality(K) = Cardinality(J)
  BY <1>3, <1>7, FS_Bijection
<1>9. CASE Head(q) \in C
  <2>1. 1 \in I
    BY <1>1, <1>2, <1>9
  <2>2. Cardinality(K) = Cardinality(I) - 1
    BY <1>2, <1>3, <2>1, FS_RemoveElement
  <2>. QED  BY <1>3, <1>8, <1>9, <2>2 DEF Mark
<1>10. CASE Head(q) \notin C
  <2>1. K = I
    BY <1>1, <1>2, <1>10
  <2>. QED  BY <1>3, <1>8, <1>10, <2>1 DEF Mark
<1>. QED  BY <1>9, <1>10

\* The calls that are outstanding on a lane, counted by where they are.
Tokens(calls, replies, p, load, l) ==
    Count(calls, CallsOn(l, load)) + Count(replies, RepliesOn(l)) + Mark(p = load /\ load # 0)

LEMMA OutstandingCounts ==
    ASSUME NEW l \in Lanes
    PROVE  /\ Typed => Outstanding(l) = Tokens(toDaemon, toScript, parked[l], script.load, l)
           /\ Typed' => Outstanding(l)' = Tokens(toDaemon', toScript', parked'[l], script'.load, l)
<1>1. ASSUME Typed
      PROVE  Outstanding(l) = Tokens(toDaemon, toScript, parked[l], script.load, l)
  <2>1. /\ \A i \in DOMAIN toDaemon : toDaemon[i] \in CallMessage
        /\ \A i \in DOMAIN toScript : toScript[i] \in ReplyMessage
    BY <1>1 DEF Typed, TypeOK
  <2>2. PICK A, B, c :
          /\ A = {i \in DOMAIN toDaemon : /\ toDaemon[i].load = script.load
                                           /\ toDaemon[i].kind # "Hello"
                                           /\ toDaemon[i].lane = l}
          /\ B = {i \in DOMAIN toScript : toScript[i].kind # "Hello" /\ toScript[i].lane = l}
          /\ c = Mark(parked[l] = script.load /\ script.load # 0)
    OBVIOUS
  <2>3. /\ A = {i \in DOMAIN toDaemon : toDaemon[i] \in CallsOn(l, script.load)}
        /\ B = {i \in DOMAIN toScript : toScript[i] \in RepliesOn(l)}
    BY <2>1, <2>2 DEF CallsOn, RepliesOn
  <2>4. Outstanding(l) = Cardinality(A) + Cardinality(B) + c
    BY <2>2, Zenon DEF Outstanding, Mark
  <2>5. Tokens(toDaemon, toScript, parked[l], script.load, l) = Cardinality(A) + Cardinality(B) + c
    BY <2>2, <2>3, Zenon DEF Tokens, Count
  <2>. QED  BY <2>4, <2>5
<1>2. ASSUME Typed'
      PROVE  Outstanding(l)' = Tokens(toDaemon', toScript', parked'[l], script'.load, l)
  <2>1. /\ \A i \in DOMAIN toDaemon' : toDaemon'[i] \in CallMessage
        /\ \A i \in DOMAIN toScript' : toScript'[i] \in ReplyMessage
    BY <1>2 DEF Typed, TypeOK
  <2>2. PICK A, B, c :
          /\ A = {i \in DOMAIN toDaemon' : /\ toDaemon'[i].load = script'.load
                                           /\ toDaemon'[i].kind # "Hello"
                                           /\ toDaemon'[i].lane = l}
          /\ B = {i \in DOMAIN toScript' : toScript'[i].kind # "Hello" /\ toScript'[i].lane = l}
          /\ c = Mark(parked'[l] = script'.load /\ script'.load # 0)
    OBVIOUS
  <2>3. /\ A = {i \in DOMAIN toDaemon' : toDaemon'[i] \in CallsOn(l, script'.load)}
        /\ B = {i \in DOMAIN toScript' : toScript'[i] \in RepliesOn(l)}
    BY <2>1, <2>2 DEF CallsOn, RepliesOn
  <2>4. Outstanding(l)' = Cardinality(A) + Cardinality(B) + c
    BY <2>2, Zenon DEF Outstanding, Mark
  <2>5. Tokens(toDaemon', toScript', parked'[l], script'.load, l) = Cardinality(A) + Cardinality(B) + c
    BY <2>2, <2>3, Zenon DEF Tokens, Count
  <2>. QED  BY <2>4, <2>5
<1>. QED  BY <1>1, <1>2

\* The moves of messages, whatever they say.  The daemon drops a call.
Drops ==
    /\ toDaemon # <<>> /\ toDaemon' = Tail(toDaemon)
    /\ UNCHANGED <<kwin, script, daemon, toScript, parked>>

\* It answers a call, if the reply can be put together.
Serves(m, x, given) ==
    /\ toDaemon # <<>> /\ m = Head(toDaemon) /\ toDaemon' = Tail(toDaemon)
    /\ x \in ReplyMessage /\ x.gen = daemon.gen
    /\ m.kind = "Hello" <=> x.kind = "Hello"
    /\ m.kind # "Hello" => m.gen = daemon.gen /\ x.lane = m.lane
    /\ toScript' = IF given /\ m.load = script.load THEN Append(toScript, x) ELSE toScript
    /\ UNCHANGED <<kwin, script, daemon, parked>>

\* It answers the poll that is parked on a lane, and may park the one it takes.
Turns(l, p, x, given) ==
    /\ x \in ReplyMessage /\ x.gen = daemon.gen /\ x.kind # "Hello" /\ x.lane = l
    /\ \/ p = NoPoll /\ toDaemon' = toDaemon /\ parked[l] # NoPoll
       \/ /\ toDaemon # <<>> /\ toDaemon' = Tail(toDaemon) /\ p = Head(toDaemon).load
          /\ Head(toDaemon).kind # "Hello" /\ Head(toDaemon).lane = l
          /\ Head(toDaemon).gen = daemon.gen /\ daemon.up
    /\ parked' = [parked EXCEPT ![l] = p]
    /\ toScript' = IF given /\ parked[l] # NoPoll /\ parked[l] = script.load
                   THEN Append(toScript, x) ELSE toScript
    /\ UNCHANGED <<kwin, script, daemon>>

\* The script answers a reply with a call of the same lane.
Responds(x) ==
    /\ toScript # <<>> /\ toScript' = Tail(toScript) /\ Head(toScript).kind # "Hello"
    /\ x \in CallMessage /\ x.kind # "Hello" /\ x.lane = Head(toScript).lane
    /\ x.load = script.load /\ x.gen = script.gen /\ x.from = kwin
    /\ toDaemon' = IF daemon.up THEN Append(toDaemon, x) ELSE toDaemon
    /\ UNCHANGED <<kwin, script, daemon, parked>>

LEMMA GreetingsIs ==
    ASSUME Typed, Wires
    PROVE  /\ Count(toDaemon, HelloCalls(script.load)) \in Nat /\ Count(toScript, HelloReplies) \in Nat
           /\ Greetings \in Nat
           /\ (\E m \in Range(toScript) : m.kind = "Hello") => script.gen = 0
           /\ (\E m \in Range(toDaemon) : m.kind = "Hello" /\ m.load = script.load) => script.gen = 0
<1>1. toDaemon \in Seq(CallMessage) /\ toScript \in Seq(ReplyMessage)
  BY TypedIs
<1>2. PICK a, b, c : /\ a = Count(toDaemon, HelloCalls(script.load))
                     /\ b = Count(toScript, HelloReplies) /\ c = Mark(script.gen # 0)
  OBVIOUS
<1>3. a \in Nat /\ b \in Nat
  BY <1>1, <1>2, CountIs
<1>4. c \in Nat /\ (script.gen # 0 => c = 1)
  BY <1>2 DEF Mark
<1>5. Greetings = a + b + c /\ a + b + c <= 1
  BY <1>2 DEF Greetings, Wires
<1>6. ASSUME NEW m \in Range(toScript), m.kind = "Hello"
      PROVE  b >= 1
  <2>1. m \in HelloReplies
    BY <1>1, <1>6 DEF HelloReplies, Range
  <2>. QED  BY <1>1, <1>2, <2>1, CountIs
<1>7. ASSUME NEW m \in Range(toDaemon), m.kind = "Hello", m.load = script.load
      PROVE  a >= 1
  <2>1. m \in HelloCalls(script.load)
    BY <1>1, <1>7 DEF HelloCalls, Range
  <2>. QED  BY <1>1, <1>2, <2>1, CountIs
<1>. QED  BY <1>2, <1>3, <1>4, <1>5, <1>6, <1>7

LEMMA WiresKept ==
    ASSUME Wires, UNCHANGED <<kwin, script, daemon>>,
           \A m \in Range(toDaemon') : m \in Range(toDaemon) \/ CallFits(m),
           \A m \in Range(toScript') : m \in Range(toScript) \/ ReplyFits(m),
           \A l \in Lanes : PollFits(parked'[l]),
           Greetings' <= 1
    PROVE  Wires'
<1>1. \A m \in Range(toDaemon') : CallFits(m)'
  BY DEF Wires, CallFits
<1>2. \A m \in Range(toScript') : ReplyFits(m)'
  BY DEF Wires, ReplyFits
<1>3. \A l \in Lanes : PollFits(parked[l])'
  BY DEF PollFits
<1>. QED  BY <1>1, <1>2, <1>3 DEF Wires

\* One message more or less, by its kind.
LEMMA Joined ==
    ASSUME Typed, NEW x
    PROVE  /\ x \in ReplyMessage =>
                /\ Append(toScript, x) \in Seq(ReplyMessage) /\ Range(Append(toScript, x)) = Range(toScript) \cup {x}
                /\ \A C : Count(Append(toScript, x), C) = Count(toScript, C) + Mark(x \in C)
           /\ x \in CallMessage =>
                /\ Append(toDaemon, x) \in Seq(CallMessage) /\ Range(Append(toDaemon, x)) = Range(toDaemon) \cup {x}
                /\ \A C : Count(Append(toDaemon, x), C) = Count(toDaemon, C) + Mark(x \in C)
<1>1. toDaemon \in Seq(CallMessage) /\ toScript \in Seq(ReplyMessage)
  BY TypedIs
<1>2. ASSUME x \in ReplyMessage
      PROVE  /\ Append(toScript, x) \in Seq(ReplyMessage) /\ Range(Append(toScript, x)) = Range(toScript) \cup {x}
             /\ \A C : Count(Append(toScript, x), C) = Count(toScript, C) + Mark(x \in C)
  BY <1>1, <1>2, RangeOfAppend, CountOfAppend
<1>3. ASSUME x \in CallMessage
      PROVE  /\ Append(toDaemon, x) \in Seq(CallMessage) /\ Range(Append(toDaemon, x)) = Range(toDaemon) \cup {x}
             /\ \A C : Count(Append(toDaemon, x), C) = Count(toDaemon, C) + Mark(x \in C)
  BY <1>1, <1>3, RangeOfAppend, CountOfAppend
<1>. QED  BY <1>2, <1>3

LEMMA Left ==
    ASSUME Typed
    PROVE  /\ toDaemon # <<>> =>
                /\ Head(toDaemon) \in CallMessage /\ Tail(toDaemon) \in Seq(CallMessage)
                /\ Range(toDaemon) = {Head(toDaemon)} \cup Range(Tail(toDaemon))
                /\ \A C : Count(toDaemon, C) = Count(Tail(toDaemon), C) + Mark(Head(toDaemon) \in C)
           /\ toScript # <<>> =>
                /\ Head(toScript) \in ReplyMessage /\ Tail(toScript) \in Seq(ReplyMessage)
                /\ Range(toScript) = {Head(toScript)} \cup Range(Tail(toScript))
                /\ \A C : Count(toScript, C) = Count(Tail(toScript), C) + Mark(Head(toScript) \in C)
<1>1. toDaemon \in Seq(CallMessage) /\ toScript \in Seq(ReplyMessage)
  BY TypedIs
<1>2. ASSUME toDaemon # <<>>
      PROVE  /\ Head(toDaemon) \in CallMessage /\ Tail(toDaemon) \in Seq(CallMessage)
             /\ Range(toDaemon) = {Head(toDaemon)} \cup Range(Tail(toDaemon))
             /\ \A C : Count(toDaemon, C) = Count(Tail(toDaemon), C) + Mark(Head(toDaemon) \in C)
  BY <1>1, <1>2, RangeOfTail, CountOfTail
<1>3. ASSUME toScript # <<>>
      PROVE  /\ Head(toScript) \in ReplyMessage /\ Tail(toScript) \in Seq(ReplyMessage)
             /\ Range(toScript) = {Head(toScript)} \cup Range(Tail(toScript))
             /\ \A C : Count(toScript, C) = Count(Tail(toScript), C) + Mark(Head(toScript) \in C)
  BY <1>1, <1>3, RangeOfTail, CountOfTail
<1>. QED  BY <1>2, <1>3

LEMMA DropsKeeps ==
    ASSUME Typed, Wires, Drops
    PROVE  Wires'
<1>1. /\ Tail(toDaemon) \in Seq(CallMessage)
      /\ Range(toDaemon) = {Head(toDaemon)} \cup Range(Tail(toDaemon))
      /\ \A C : Count(toDaemon, C) = Count(Tail(toDaemon), C) + Mark(Head(toDaemon) \in C)
  BY Left DEF Drops
<1>2. Greetings' <= 1
  <2>1. PICK a, b, c, d, e : /\ a = Count(toDaemon, HelloCalls(script.load))
                             /\ b = Count(toScript, HelloReplies) /\ c = Mark(script.gen # 0)
                             /\ d = Count(Tail(toDaemon), HelloCalls(script.load))
                             /\ e = Mark(Head(toDaemon) \in HelloCalls(script.load))
    OBVIOUS
  <2>2. a = d + e /\ d \in Nat /\ b \in Nat /\ c \in Nat /\ e \in Nat
    BY <1>1, <2>1, CountIs, GreetingsIs DEF Mark
  <2>3. Greetings = a + b + c /\ Greetings' = d + b + c /\ Greetings <= 1
    BY <2>1 DEF Greetings, Wires, Drops
  <2>. QED  BY <2>2, <2>3
<1>3. \A l \in Lanes : PollFits(parked'[l])
  BY DEF Drops, Wires
<1>. QED  BY <1>1, <1>2, <1>3, WiresKept DEF Drops

LEMMA ServesKeeps ==
    ASSUME Typed, Wires, NEW m, NEW x, NEW given \in BOOLEAN, Serves(m, x, given)
    PROVE  Wires'
<1>1. /\ m \in CallMessage /\ Tail(toDaemon) \in Seq(CallMessage)
      /\ Range(toDaemon) = {m} \cup Range(Tail(toDaemon))
      /\ \A C : Count(toDaemon, C) = Count(Tail(toDaemon), C) + Mark(m \in C)
  BY Left DEF Serves
<1>2. /\ Range(Append(toScript, x)) = Range(toScript) \cup {x}
      /\ \A C : Count(Append(toScript, x), C) = Count(toScript, C) + Mark(x \in C)
  BY Joined DEF Serves
<1>3. PICK a, b, c, d, e : /\ a = Count(toDaemon, HelloCalls(script.load))
                           /\ b = Count(toScript, HelloReplies) /\ c = Mark(script.gen # 0)
                           /\ d = Count(Tail(toDaemon), HelloCalls(script.load))
                           /\ e = Mark(m \in HelloCalls(script.load))
  OBVIOUS
<1>4. a = d + e /\ d \in Nat /\ b \in Nat /\ c \in Nat /\ e \in Nat
  BY <1>1, <1>3, CountIs, GreetingsIs DEF Mark
<1>5. Greetings = a + b + c /\ a + b + c <= 1
  BY <1>3 DEF Greetings, Wires
<1>6. \A l \in Lanes : PollFits(parked'[l])
  BY DEF Serves, Wires
<1>7. CASE given /\ m.load = script.load
  <2>1. toScript' = Append(toScript, x) /\ UNCHANGED <<kwin, script, daemon>> /\ toDaemon' = Tail(toDaemon)
    BY <1>7 DEF Serves
  <2>2. ReplyFits(x)
    <3>1. x.gen # 0 /\ x.gen = daemon.gen
      BY DEF Serves, Wires
    <3>2. x.kind # "Hello" => m.kind # "Hello" /\ m.gen = daemon.gen /\ m \in Range(toDaemon)
      BY <1>1 DEF Serves
    <3>. QED  BY <1>7, <3>1, <3>2 DEF ReplyFits, Wires, CallFits
  <2>3. Mark(x \in HelloReplies) = e
    <3>1. x \in HelloReplies <=> m \in HelloCalls(script.load)
      BY <1>1, <1>7 DEF Serves, HelloReplies, HelloCalls
    <3>. QED  BY <1>3, <3>1 DEF Mark
  <2>4. Greetings' = d + (b + e) + c
    BY <1>2, <1>3, <2>1, <2>3 DEF Greetings
  <2>5. Greetings' <= 1
    BY <1>4, <1>5, <2>4
  <2>. QED  BY <1>1, <1>2, <1>6, <2>1, <2>2, <2>5, WiresKept
<1>8. CASE ~(given /\ m.load = script.load)
  <2>1. toScript' = toScript /\ UNCHANGED <<kwin, script, daemon>> /\ toDaemon' = Tail(toDaemon)
    BY <1>8 DEF Serves
  <2>2. Greetings' = d + b + c
    BY <1>3, <2>1 DEF Greetings
  <2>3. Greetings' <= 1
    BY <1>4, <1>5, <2>2
  <2>. QED  BY <1>1, <1>6, <2>1, <2>3, WiresKept
<1>. QED  BY <1>7, <1>8

LEMMA TurnsKeeps ==
    ASSUME Typed, Wires, NEW l \in Lanes, NEW p, NEW x, NEW given \in BOOLEAN, Turns(l, p, x, given)
    PROVE  Wires'
<1>1. /\ Range(Append(toScript, x)) = Range(toScript) \cup {x}
      /\ \A C : Count(Append(toScript, x), C) = Count(toScript, C) + Mark(x \in C)
  BY Joined DEF Turns
<1>2. x \notin HelloReplies /\ Mark(x \in HelloReplies) = 0
  BY DEF Turns, HelloReplies, Mark
<1>3. PICK a, b, c : /\ a = Count(toDaemon, HelloCalls(script.load))
                     /\ b = Count(toScript, HelloReplies) /\ c = Mark(script.gen # 0)
  OBVIOUS
<1>4. a \in Nat /\ b \in Nat /\ c \in Nat /\ a + b + c <= 1
  BY <1>3, GreetingsIs DEF Mark, Greetings, Wires
<1>5. UNCHANGED <<kwin, script, daemon>>
  BY DEF Turns
<1>6. /\ \A y \in Range(toDaemon') : y \in Range(toDaemon)
      /\ Count(toDaemon', HelloCalls(script.load)) = a
      /\ PollFits(p)
  <2>1. CASE p = NoPoll /\ toDaemon' = toDaemon
    BY <1>3, <2>1 DEF PollFits
  <2>2. CASE /\ toDaemon # <<>> /\ toDaemon' = Tail(toDaemon) /\ p = Head(toDaemon).load
             /\ Head(toDaemon).kind # "Hello" /\ Head(toDaemon).lane = l
             /\ Head(toDaemon).gen = daemon.gen /\ daemon.up
    <3>1. /\ Head(toDaemon) \in CallMessage /\ Tail(toDaemon) \in Seq(CallMessage)
          /\ Range(toDaemon) = {Head(toDaemon)} \cup Range(Tail(toDaemon))
          /\ \A C : Count(toDaemon, C) = Count(Tail(toDaemon), C) + Mark(Head(toDaemon) \in C)
      BY <2>2, Left
    <3>2. Mark(Head(toDaemon) \in HelloCalls(script.load)) = 0
      BY <2>2 DEF HelloCalls, Mark
    <3>3. Count(Tail(toDaemon), HelloCalls(script.load)) \in Nat
      BY <3>1, CountIs
    <3>4. CallFits(Head(toDaemon))
      BY <3>1 DEF Wires
    <3>. QED  BY <1>3, <2>2, <3>1, <3>2, <3>3, <3>4 DEF CallFits, PollFits
  <2>. QED  BY <2>1, <2>2 DEF Turns
<1>7. \A k \in Lanes : PollFits(parked'[k])
  <2>1. parked \in [Lanes -> Nat] /\ parked' = [parked EXCEPT ![l] = p]
    BY TypedIs DEF Turns
  <2>. QED  BY <1>6, <2>1 DEF Wires
<1>8. CASE given /\ parked[l] # NoPoll /\ parked[l] = script.load
  <2>1. toScript' = Append(toScript, x)
    BY <1>8 DEF Turns
  <2>2. ReplyFits(x)
    BY <1>8 DEF Turns, ReplyFits, Wires, PollFits
  <2>3. Greetings' = a + (b + 0) + c
    BY <1>1, <1>2, <1>3, <1>5, <1>6, <2>1 DEF Greetings
  <2>4. Greetings' <= 1
    BY <1>4, <2>3
  <2>. QED  BY <1>1, <1>5, <1>6, <1>7, <2>1, <2>2, <2>4, WiresKept
<1>9. CASE ~(given /\ parked[l] # NoPoll /\ parked[l] = script.load)
  <2>1. toScript' = toScript
    BY <1>9 DEF Turns
  <2>2. Greetings' = a + b + c
    BY <1>3, <1>5, <1>6, <2>1 DEF Greetings
  <2>3. Greetings' <= 1
    BY <1>4, <2>2
  <2>. QED  BY <1>5, <1>6, <1>7, <2>1, <2>3, WiresKept
<1>. QED  BY <1>8, <1>9

LEMMA RespondsKeeps ==
    ASSUME Typed, Wires, NEW x, Responds(x)
    PROVE  Wires'
<1>1. /\ Head(toScript) \in ReplyMessage /\ Tail(toScript) \in Seq(ReplyMessage)
      /\ Range(toScript) = {Head(toScript)} \cup Range(Tail(toScript))
      /\ \A C : Count(toScript, C) = Count(Tail(toScript), C) + Mark(Head(toScript) \in C)
  BY Left DEF Responds
<1>2. /\ Range(Append(toDaemon, x)) = Range(toDaemon) \cup {x}
      /\ \A C : Count(Append(toDaemon, x), C) = Count(toDaemon, C) + Mark(x \in C)
  BY Joined DEF Responds
<1>3. PICK a, b, c : /\ a = Count(toDaemon, HelloCalls(script.load))
                     /\ b = Count(toScript, HelloReplies) /\ c = Mark(script.gen # 0)
  OBVIOUS
<1>4. a \in Nat /\ b \in Nat /\ c \in Nat /\ a + b + c <= 1
  BY <1>3, GreetingsIs DEF Mark, Greetings, Wires
<1>5. UNCHANGED <<kwin, script, daemon, parked>> /\ toScript' = Tail(toScript)
  BY DEF Responds
<1>6. Mark(Head(toScript) \in HelloReplies) = 0 /\ Mark(x \in HelloCalls(script.load)) = 0
  BY DEF Responds, HelloReplies, HelloCalls, Mark
<1>7. Count(toScript', HelloReplies) = b
  <2>1. Count(Tail(toScript), HelloReplies) \in Nat
    BY <1>1, CountIs
  <2>. QED  BY <1>1, <1>3, <1>5, <1>6, <2>1
<1>8. CallFits(x)
  <2>1. ReplyFits(Head(toScript))
    BY <1>1 DEF Wires
  <2>2. script.load \in Nat
    BY TypedIs
  <2>. QED  BY <2>1, <2>2 DEF Responds, CallFits, ReplyFits
<1>9. /\ \A y \in Range(toDaemon') : y \in Range(toDaemon) \/ CallFits(y)
      /\ Count(toDaemon', HelloCalls(script.load)) = a
  <2>1. CASE daemon.up
    <3>1. toDaemon' = Append(toDaemon, x)
      BY <2>1 DEF Responds
    <3>. QED  BY <1>2, <1>3, <1>4, <1>6, <1>8, <3>1
  <2>2. CASE ~daemon.up
    BY <1>3, <2>2 DEF Responds
  <2>. QED  BY <2>1, <2>2
<1>10. Greetings' = a + b + c
  BY <1>3, <1>5, <1>7, <1>9 DEF Greetings
<1>11. \A l \in Lanes : PollFits(parked'[l])
  BY <1>5 DEF Wires
<1>12. Greetings' <= 1
  BY <1>4, <1>10
<1>. QED  BY <1>1, <1>5, <1>9, <1>11, <1>12, WiresKept

\* On each lane there are as many calls after such a move as before it.
Steady == \A l \in Lanes : Outstanding(l)' = Outstanding(l)

LEMMA TokensAre ==
    ASSUME Typed, NEW l \in Lanes
    PROVE  Count(toDaemon, CallsOn(l, script.load)) \in Nat /\ Count(toScript, RepliesOn(l)) \in Nat
BY TypedIs, CountIs

LEMMA ServesSteady ==
    ASSUME Typed, Typed', NEW m, NEW x, Serves(m, x, TRUE)
    PROVE  Steady
<1>. SUFFICES ASSUME NEW l \in Lanes
              PROVE  Outstanding(l)' = Outstanding(l)
  BY DEF Steady
<1>1. /\ m \in CallMessage /\ Tail(toDaemon) \in Seq(CallMessage)
      /\ \A C : Count(toDaemon, C) = Count(Tail(toDaemon), C) + Mark(m \in C)
  BY Left DEF Serves
<1>2. \A C : Count(Append(toScript, x), C) = Count(toScript, C) + Mark(x \in C)
  BY Joined DEF Serves
<1>3. PICK a, b, c, d, e : /\ a = Count(toDaemon, CallsOn(l, script.load))
                           /\ b = Count(toScript, RepliesOn(l))
                           /\ c = Mark(parked[l] = script.load /\ script.load # 0)
                           /\ d = Count(Tail(toDaemon), CallsOn(l, script.load))
                           /\ e = Mark(m \in CallsOn(l, script.load))
  OBVIOUS
<1>4. a = d + e /\ d \in Nat /\ b \in Nat /\ c \in Nat /\ e \in Nat
  BY <1>1, <1>3, CountIs, TokensAre DEF Mark
<1>5. Outstanding(l) = a + b + c
  BY <1>3, OutstandingCounts DEF Tokens
<1>6. Outstanding(l)' = d + Count(toScript', RepliesOn(l)) + c
  BY <1>3, OutstandingCounts DEF Tokens, Serves
<1>7. Count(toScript', RepliesOn(l)) = b + e
  <2>1. CASE m.load = script.load
    <3>1. toScript' = Append(toScript, x)
      BY <2>1 DEF Serves
    <3>2. x \in RepliesOn(l) <=> m \in CallsOn(l, script.load)
      BY <1>1, <2>1 DEF Serves, RepliesOn, CallsOn
    <3>3. Mark(x \in RepliesOn(l)) = e
      BY <1>3, <3>2 DEF Mark
    <3>. QED  BY <1>2, <1>3, <3>1, <3>3
  <2>2. CASE m.load # script.load
    <3>1. toScript' = toScript
      BY <2>2 DEF Serves
    <3>2. e = 0
      BY <1>3, <2>2 DEF CallsOn, Mark
    <3>. QED  BY <1>3, <1>4, <3>1, <3>2
  <2>. QED  BY <2>1, <2>2
<1>. QED  BY <1>4, <1>5, <1>6, <1>7

LEMMA TurnsSteady ==
    ASSUME Typed, Typed', Loaded, NEW l \in Lanes, NEW p, NEW x, Turns(l, p, x, TRUE)
    PROVE  Steady
<1>. SUFFICES ASSUME NEW k \in Lanes
              PROVE  Outstanding(k)' = Outstanding(k)
  BY DEF Steady
<1>1. \A C : Count(Append(toScript, x), C) = Count(toScript, C) + Mark(x \in C)
  BY Joined DEF Turns
<1>2. PICK a, b, c, d, e : /\ a = Count(toDaemon, CallsOn(k, script.load))
                           /\ b = Count(toScript, RepliesOn(k))
                           /\ c = Mark(parked[k] = script.load /\ script.load # 0)
                           /\ d = Count(toDaemon', CallsOn(k, script.load))
                           /\ e = Mark(parked'[k] = script.load /\ script.load # 0)
  OBVIOUS
<1>3. a \in Nat /\ b \in Nat /\ c \in Nat /\ e \in Nat
  BY <1>2, TokensAre DEF Mark
<1>4. d \in Nat
  <2>1. toDaemon' \in Seq(CallMessage)
    BY DEF Typed
  <2>. QED  BY <1>2, <2>1, CountIs
<1>5. Outstanding(k) = a + b + c
  BY <1>2, OutstandingCounts DEF Tokens
<1>6. Outstanding(k)' = d + Count(toScript', RepliesOn(k)) + e
  BY <1>2, OutstandingCounts DEF Tokens, Turns
<1>7. parked' = [parked EXCEPT ![l] = p] /\ parked \in [Lanes -> Nat]
  BY TypedIs DEF Turns
<1>8. CASE k = l
  <2>1. Count(toScript', RepliesOn(k)) = b + c
    <3>1. x \in RepliesOn(k)
      BY <1>8 DEF Turns, RepliesOn
    <3>2. CASE parked[l] # NoPoll /\ parked[l] = script.load
      <4>1. toScript' = Append(toScript, x)
        BY <3>2 DEF Turns
      <4>2. c = 1
        BY <1>2, <1>8, <3>2 DEF Mark, NoPoll
      <4>. QED  BY <1>1, <1>2, <3>1, <4>1, <4>2 DEF Mark
    <3>3. CASE ~(parked[l] # NoPoll /\ parked[l] = script.load)
      <4>1. toScript' = toScript
        BY <3>3 DEF Turns
      <4>2. c = 0
        BY <1>2, <1>8, <3>3 DEF Mark, NoPoll
      <4>. QED  BY <1>2, <1>3, <4>1, <4>2
    <3>. QED  BY <3>2, <3>3
  <2>2. d + e = a
    <3>1. CASE p = NoPoll /\ toDaemon' = toDaemon
      <4>1. e = 0
        BY <1>2, <1>7, <1>8, <3>1 DEF Mark, NoPoll
      <4>. QED  BY <1>2, <1>3, <3>1, <4>1
    <3>2. CASE /\ toDaemon # <<>> /\ toDaemon' = Tail(toDaemon) /\ p = Head(toDaemon).load
               /\ Head(toDaemon).kind # "Hello" /\ Head(toDaemon).lane = l
      <4>1. /\ Head(toDaemon) \in CallMessage /\ Head(toDaemon) \in Range(toDaemon)
            /\ \A C : Count(toDaemon, C) = Count(Tail(toDaemon), C) + Mark(Head(toDaemon) \in C)
        BY <3>2, Left
      <4>2. p # 0
        BY <3>2, <4>1 DEF Loaded
      <4>3. Head(toDaemon) \in CallsOn(k, script.load) <=> p = script.load
        BY <1>8, <3>2, <4>1 DEF CallsOn
      <4>4. parked'[k] = p
        BY <1>7, <1>8
      <4>5. e = Mark(Head(toDaemon) \in CallsOn(k, script.load))
        BY <1>2, <4>2, <4>3, <4>4 DEF Mark
      <4>. QED  BY <1>2, <3>2, <4>1, <4>5
    <3>. QED  BY <3>1, <3>2 DEF Turns
  <2>. QED  BY <1>3, <1>4, <1>5, <1>6, <2>1, <2>2
<1>9. CASE k # l
  <2>1. Count(toScript', RepliesOn(k)) = b
    <3>1. Mark(x \in RepliesOn(k)) = 0
      BY <1>9 DEF Turns, RepliesOn, Mark
    <3>2. toScript' = toScript \/ toScript' = Append(toScript, x)
      BY DEF Turns
    <3>3. Count(Append(toScript, x), RepliesOn(k)) = b
      BY <1>1, <1>2, <1>3, <3>1
    <3>. QED  BY <1>2, <3>2, <3>3
  <2>2. d = a
    <3>1. CASE toDaemon' = toDaemon
      BY <1>2, <3>1
    <3>2. CASE toDaemon # <<>> /\ toDaemon' = Tail(toDaemon) /\ Head(toDaemon).lane = l
      <4>1. \A C : Count(toDaemon, C) = Count(Tail(toDaemon), C) + Mark(Head(toDaemon) \in C)
        BY <3>2, Left
      <4>2. Mark(Head(toDaemon) \in CallsOn(k, script.load)) = 0
        BY <1>9, <3>2 DEF CallsOn, Mark
      <4>. QED  BY <1>2, <1>4, <3>2, <4>1, <4>2
    <3>. QED  BY <3>1, <3>2 DEF Turns
  <2>3. e = c
    BY <1>2, <1>7, <1>9
  <2>. QED  BY <1>5, <1>6, <2>1, <2>2, <2>3
<1>. QED  BY <1>8, <1>9

LEMMA RespondsSteady ==
    ASSUME Typed, Typed', daemon.up, NEW x, Responds(x)
    PROVE  Steady
<1>. SUFFICES ASSUME NEW l \in Lanes
              PROVE  Outstanding(l)' = Outstanding(l)
  BY DEF Steady
<1>1. /\ Head(toScript) \in ReplyMessage /\ Tail(toScript) \in Seq(ReplyMessage)
      /\ \A C : Count(toScript, C) = Count(Tail(toScript), C) + Mark(Head(toScript) \in C)
  BY Left DEF Responds
<1>2. /\ \A C : Count(Append(toDaemon, x), C) = Count(toDaemon, C) + Mark(x \in C)
      /\ toDaemon' = Append(toDaemon, x)
  BY Joined DEF Responds
<1>3. PICK a, b, c, d, e : /\ a = Count(toDaemon, CallsOn(l, script.load))
                           /\ b = Count(toScript, RepliesOn(l))
                           /\ c = Mark(parked[l] = script.load /\ script.load # 0)
                           /\ d = Count(Tail(toScript), RepliesOn(l))
                           /\ e = Mark(Head(toScript) \in RepliesOn(l))
  OBVIOUS
<1>4. b = d + e /\ d \in Nat /\ a \in Nat /\ c \in Nat /\ e \in Nat
  BY <1>1, <1>3, CountIs, TokensAre DEF Mark
<1>5. Outstanding(l) = a + b + c
  BY <1>3, OutstandingCounts DEF Tokens
<1>6. Outstanding(l)' = Count(toDaemon', CallsOn(l, script.load)) + d + c
  BY <1>3, OutstandingCounts DEF Tokens, Responds
<1>7. Count(toDaemon', CallsOn(l, script.load)) = a + e
  <2>1. x \in CallsOn(l, script.load) <=> Head(toScript) \in RepliesOn(l)
    BY <1>1 DEF Responds, RepliesOn, CallsOn
  <2>2. Mark(x \in CallsOn(l, script.load)) = e
    BY <1>3, <2>1 DEF Mark
  <2>. QED  BY <1>2, <1>3, <2>2
<1>. QED  BY <1>4, <1>5, <1>6, <1>7

\* A call that is refused is not one the loaded script waits for.
LEMMA DropsSteady ==
    ASSUME Typed, Typed', Drops, Head(toDaemon).load = script.load => Head(toDaemon).kind = "Hello"
    PROVE  Steady
<1>. SUFFICES ASSUME NEW l \in Lanes
              PROVE  Outstanding(l)' = Outstanding(l)
  BY DEF Steady
<1>1. /\ Tail(toDaemon) \in Seq(CallMessage)
      /\ \A C : Count(toDaemon, C) = Count(Tail(toDaemon), C) + Mark(Head(toDaemon) \in C)
  BY Left DEF Drops
<1>2. Mark(Head(toDaemon) \in CallsOn(l, script.load)) = 0
  BY DEF CallsOn, Mark
<1>3. Count(Tail(toDaemon), CallsOn(l, script.load)) \in Nat
  BY <1>1, CountIs
<1>4. Count(toDaemon, CallsOn(l, script.load)) = Count(toDaemon', CallsOn(l, script.load))
  BY <1>1, <1>2, <1>3 DEF Drops
<1>. QED  BY <1>4, OutstandingCounts DEF Tokens, Drops

LEMMA NothingMovesSteady ==
    ASSUME Typed, Typed', UNCHANGED <<script, toDaemon, toScript, parked>>
    PROVE  Steady
BY DEF Steady, Outstanding

\* A new load of the script starts with a greeting of its own, if any.
LEMMA ReloadWires ==
    ASSUME Typed, Typed', Wires, NEW owned \in BOOLEAN, Load(owned, kwin'),
           daemon'.up = daemon.up, daemon'.gen = daemon.gen, UNCHANGED parked
    PROVE  Wires'
<1>1. /\ script.load \in Nat /\ toDaemon \in Seq(CallMessage) /\ kwin' \in Nat
      /\ toDaemon' \in Seq(CallMessage) /\ parked \in [Lanes -> Nat]
  BY TypedIs DEF Typed, TypeOK
<1>2. /\ script' = [load |-> script.load + 1, gen |-> 0, running |-> FALSE] /\ toScript' = <<>>
      /\ script'.load = script.load + 1 /\ script'.gen = 0 /\ script'.running = FALSE
  BY DEF Load
<1>3. PICK x : x = [kind |-> "Hello", from |-> kwin', load |-> script.load + 1, gen |-> 0,
                    lane |-> "fast", results |-> <<>>]
  OBVIOUS
<1>4. x \in CallMessage /\ x.kind = "Hello" /\ x.load = script.load + 1 /\ x.from = kwin'
  BY <1>1, <1>3 DEF CallMessage, Lanes
<1>5. /\ Range(Append(toDaemon, x)) = Range(toDaemon) \cup {x}
      /\ \A C : Count(Append(toDaemon, x), C) = Count(toDaemon, C) + Mark(x \in C)
  BY <1>4, Joined
<1>6. toDaemon' = IF owned THEN Append(toDaemon, x) ELSE toDaemon
  BY <1>3 DEF Load
<1>7. \A m \in Range(toDaemon) : m \in CallMessage /\ m.load \in Nat /\ m.load <= script.load
  BY <1>1, CallFields DEF Wires, CallFits, Range
<1>8. Count(toDaemon, HelloCalls(script.load + 1)) = 0
  <2>1. \A m \in Range(toDaemon) : m \notin HelloCalls(script.load + 1)
    BY <1>1, <1>7 DEF HelloCalls
  <2>. QED  BY <1>1, <2>1, CountIs
<1>9. \A m \in Range(toDaemon') : CallFits(m)'
  <2>1. ASSUME NEW m \in Range(toDaemon)
        PROVE  CallFits(m)'
    BY <1>1, <1>2, <1>7 DEF CallFits
  <2>2. CallFits(x)'
    BY <1>1, <1>2, <1>4 DEF CallFits
  <2>3. \A m \in Range(toDaemon') : m \in Range(toDaemon) \/ m = x
    BY <1>5, <1>6
  <2>. QED  BY <2>1, <2>2, <2>3
<1>10. \A l \in Lanes : PollFits(parked[l])'
  <2>. SUFFICES ASSUME NEW l \in Lanes
                PROVE  PollFits(parked[l])'
    OBVIOUS
  <2>1. PollFits(parked[l]) /\ parked[l] \in Nat
    BY <1>1 DEF Wires
  <2>. QED  BY <1>1, <1>2, <2>1 DEF PollFits
<1>11. Range(toScript') = {} /\ Count(toScript', HelloReplies) = 0
  <2>1. Range(toScript') = {}
    BY <1>2, NoOffers
  <2>2. toScript' \in Seq(ReplyMessage)
    BY <1>2
  <2>. QED  BY <2>1, <2>2, CountIs
<1>12. Greetings' <= 1
  <2>1. Greetings' = Count(toDaemon', HelloCalls(script.load + 1)) + 0 + 0
    BY <1>2, <1>11 DEF Greetings, Mark
  <2>2. Count(toDaemon', HelloCalls(script.load + 1)) \in {0, 1}
    BY <1>5, <1>6, <1>8 DEF Mark
  <2>. QED  BY <2>1, <2>2
<1>. QED  BY <1>2, <1>9, <1>10, <1>11, <1>12 DEF Wires

\* The daemon stops: its calls and polls go, the script and its replies stay.
LEMMA StopWires ==
    ASSUME Typed, Wires, Stop
    PROVE  Wires'
<1>1. /\ toDaemon' = <<>> /\ UNCHANGED <<kwin, script, toScript>> /\ daemon'.gen = daemon.gen
      /\ parked' = [l \in Lanes |-> NoPoll]
  BY TypedIs DEF Stop
<1>2. Range(toDaemon') = {} /\ toDaemon' \in Seq(CallMessage)
  BY <1>1, NoOffers
<1>3. Count(toDaemon', HelloCalls(script.load)) = 0
  BY <1>2, CountIs
<1>4. PICK a, b, c : /\ a = Count(toDaemon, HelloCalls(script.load))
                     /\ b = Count(toScript, HelloReplies) /\ c = Mark(script.gen # 0)
  OBVIOUS
<1>5. a \in Nat /\ b \in Nat /\ c \in Nat /\ a + b + c <= 1
  BY <1>4, GreetingsIs DEF Mark, Greetings, Wires
<1>6. Greetings' = 0 + b + c
  BY <1>1, <1>3, <1>4 DEF Greetings
<1>7. Greetings' <= 1
  BY <1>5, <1>6
<1>8. \A l \in Lanes : PollFits(parked[l])'
  BY <1>1 DEF PollFits
<1>. QED  BY <1>1, <1>2, <1>7, <1>8 DEF Wires, ReplyFits

LEMMA StartWires ==
    ASSUME Typed, Wires, DaemonStarts
    PROVE  Wires'
<1>1. /\ ~daemon.up /\ daemon' = [up |-> TRUE, named |-> FALSE, gen |-> daemon.gen + 1, peer |-> kwin]
      /\ UNCHANGED <<kwin, script, toDaemon, toScript, parked>>
  BY DEF DaemonStarts, parkVars
<1>2. daemon'.gen # 0
  BY <1>1, TypedIs
<1>3. \A l \in Lanes : PollFits(parked[l])'
  BY <1>1 DEF Wires, PollFits
<1>4. Greetings' = Greetings
  BY <1>1 DEF Greetings
<1>. QED  BY <1>1, <1>2, <1>3, <1>4 DEF Wires, ReplyFits, CallFits

\* The handshake ends: nothing else of this load was under way.
LEMMA GreetWires ==
    ASSUME IInv, Wires, OnHello
    PROVE  Wires'
<1>1. Typed /\ Messages
  BY DEF IInv
<1>2. PICK h : h = Head(toScript)
  OBVIOUS
<1>3. /\ toScript # <<>> /\ h.kind = "Hello" /\ toScript' = Tail(toScript)
      /\ script' = [script EXCEPT !.gen = h.gen, !.running = TRUE]
      /\ Call(script.load, h.gen, <<PollCall("fast"), PollCall("slow")>>)
      /\ UNCHANGED <<kwin, daemon, parked>>
  BY <1>2 DEF OnHello, Callback, busVars, parkVars
<1>4. /\ h \in ReplyMessage /\ Tail(toScript) \in Seq(ReplyMessage)
      /\ Range(toScript) = {h} \cup Range(Tail(toScript))
      /\ \A C : Count(toScript, C) = Count(Tail(toScript), C) + Mark(h \in C)
  BY <1>1, <1>2, <1>3, Left
<1>5. h.gen \in Nat /\ h.gen # 0
  BY <1>4, ReplyFields DEF Wires, ReplyFits
<1>6. /\ script'.gen = h.gen /\ script'.running /\ script'.load = script.load
      /\ script.load \in Nat /\ kwin \in Nat
  BY <1>1, <1>3, TypedIs
<1>7. script.gen = 0
  BY <1>1, <1>3, <1>4, GreetingsIs
<1>8. PICK a, b, d : /\ a = Count(toDaemon, HelloCalls(script.load)) /\ b = Count(toScript, HelloReplies)
                     /\ d = Count(Tail(toScript), HelloReplies)
  OBVIOUS
<1>9. a \in Nat /\ d \in Nat /\ b = d + 1 /\ a + b <= 1
  <2>1. h \in HelloReplies
    BY <1>3, <1>4 DEF HelloReplies
  <2>2. a \in Nat /\ b \in Nat /\ d \in Nat
    BY <1>1, <1>4, <1>8, CountIs, GreetingsIs
  <2>3. b = d + 1
    BY <1>4, <1>8, <2>1 DEF Mark
  <2>4. Greetings = a + b + Mark(script.gen # 0) /\ Greetings <= 1
    BY <1>8 DEF Greetings, Wires
  <2>. QED  BY <1>7, <2>2, <2>3, <2>4 DEF Mark
<1>10. a = 0 /\ d = 0
  BY <1>9
<1>11. Range(toScript') = {}
  <2>. SUFFICES ASSUME NEW m \in Range(Tail(toScript))
                PROVE  FALSE
    BY <1>3
  <2>1. m \in ReplyMessage /\ ReplyFits(m)
    BY <1>4 DEF Wires, Range
  <2>2. m.kind = "Hello"
    BY <1>7, <2>1 DEF ReplyFits
  <2>3. m \in HelloReplies
    BY <2>1, <2>2 DEF HelloReplies
  <2>4. d >= 1
    BY <1>4, <1>8, <2>3, CountIs
  <2>. QED  BY <1>10, <2>4
<1>12. \A l \in Lanes : PollFits(parked[l])'
  BY <1>3, <1>6, <1>7 DEF Wires, PollFits
<1>13. PICK x, y : x = Sent(PollCall("fast"), script.load, h.gen) /\ y = Sent(PollCall("slow"), script.load, h.gen)
  OBVIOUS
<1>14. /\ x \in CallMessage /\ y \in CallMessage
       /\ toDaemon' = IF daemon.up THEN Append(Append(toDaemon, x), y) ELSE toDaemon
  <2>1. {PollCall("fast"), PollCall("slow")} \subseteq [kind: {"Hello", "Poll", "Report"}, lane: Lanes, results: Seq(Results)]
    BY DEF PollCall, Lanes
  <2>. QED  BY <1>1, <1>3, <1>5, <1>6, <1>13, <2>1, CallsAre
<1>15. \A z \in {x, y} : z.kind = "Poll" /\ z.load = script.load /\ z.gen = h.gen /\ z.from = kwin
  BY <1>13 DEF Sent, PollCall
<1>16. /\ \A m \in Range(toDaemon') : m \in Range(toDaemon) \/ m \in {x, y}
       /\ Count(toDaemon', HelloCalls(script.load)) = a
  <2>1. toDaemon \in Seq(CallMessage)
    BY <1>1, TypedIs
  <2>2. /\ Append(toDaemon, x) \in Seq(CallMessage) /\ Range(Append(toDaemon, x)) = Range(toDaemon) \cup {x}
        /\ Count(Append(toDaemon, x), HelloCalls(script.load)) = a + Mark(x \in HelloCalls(script.load))
    BY <1>1, <1>8, <1>14, Joined
  <2>3. /\ Range(Append(Append(toDaemon, x), y)) = Range(Append(toDaemon, x)) \cup {y}
        /\ Count(Append(Append(toDaemon, x), y), HelloCalls(script.load))
             = Count(Append(toDaemon, x), HelloCalls(script.load)) + Mark(y \in HelloCalls(script.load))
    <3>1. PICK q \in Seq(CallMessage) : q = Append(toDaemon, x)
      BY <2>2
    <3>2. Range(Append(q, y)) = Range(q) \cup {y}
      BY <1>14, RangeOfAppend
    <3>3. Count(Append(q, y), HelloCalls(script.load))
            = Count(q, HelloCalls(script.load)) + Mark(y \in HelloCalls(script.load))
      BY <1>14, CountOfAppend
    <3>. QED  BY <3>1, <3>2, <3>3
  <2>4. Mark(x \in HelloCalls(script.load)) = 0 /\ Mark(y \in HelloCalls(script.load)) = 0
    BY <1>15 DEF HelloCalls, Mark
  <2>5. CASE daemon.up
    BY <1>9, <1>14, <2>2, <2>3, <2>4, <2>5
  <2>6. CASE ~daemon.up
    BY <1>8, <1>14, <2>6
  <2>. QED  BY <2>5, <2>6
<1>17. \A m \in Range(toDaemon') : CallFits(m)'
  <2>1. ASSUME NEW m \in Range(toDaemon)
        PROVE  CallFits(m)'
    BY <1>3, <1>6, <1>7 DEF Wires, CallFits
  <2>2. ASSUME NEW m \in {x, y}
        PROVE  CallFits(m)'
    BY <1>3, <1>5, <1>6, <1>15 DEF CallFits
  <2>. QED  BY <1>16, <2>1, <2>2
<1>18. Greetings' <= 1
  <2>1. Greetings' = a + d + 1
    BY <1>3, <1>5, <1>6, <1>8, <1>16 DEF Greetings, Mark
  <2>. QED  BY <1>10, <2>1
<1>. QED  BY <1>3, <1>5, <1>6, <1>11, <1>12, <1>17, <1>18 DEF Wires

\* What the actions do with messages.
LEMMA HelloServes ==
    ASSUME IInv, HandleHello
    PROVE  \E m, x : \E given \in BOOLEAN :
                Serves(m, x, given) /\ (given \/ faults' > faults) /\ jobs' = jobs /\ relay' = relay
                /\ x.batch = <<>>
<1>1. PICK m \in Range(toDaemon), given \in BOOLEAN :
        /\ Receive(m) /\ m.kind = "Hello" /\ Fault(~given)
        /\ IF given
           THEN ReplyTo(m.load, [kind |-> "Hello", gen |-> daemon.gen, lane |-> "fast", batch |-> <<>>])
           ELSE UNCHANGED toScript
  BY DEF HandleHello
<1>2. Typed /\ daemon.gen \in Nat /\ faults \in Nat
  BY TypedIs DEF IInv
<1>3. PICK x : x = [kind |-> "Hello", gen |-> daemon.gen, lane |-> "fast", batch |-> <<>>]
  OBVIOUS
<1>4. x \in ReplyMessage /\ x.kind = "Hello" /\ x.gen = daemon.gen /\ x.batch = <<>>
  BY <1>2, <1>3 DEF ReplyMessage, Lanes
<1>5. toScript' = IF given /\ m.load = script.load THEN Append(toScript, x) ELSE toScript
  BY <1>1, <1>3 DEF ReplyTo
<1>6. UNCHANGED <<kwin, script, daemon, parked, relay, jobs>>
  BY DEF HandleHello, busVars, queueVars, parkVars
<1>7. given \/ faults' > faults
  BY <1>1, <1>2 DEF Fault
<1>8. Serves(m, x, given)
  BY <1>1, <1>4, <1>5, <1>6 DEF Serves, Receive
<1>. QED  BY <1>4, <1>6, <1>7, <1>8

LEMMA PollServes ==
    ASSUME IInv, HandlePollWork
    PROVE  \E m, x : \E given \in BOOLEAN :
                /\ Serves(m, x, given) /\ (given \/ faults' > faults) /\ relay' = relay
                /\ \E l \in Lanes : jobs' = Dispatch(jobs, l) /\ x = BatchReply(jobs, l)
<1>1. PICK m \in Range(toDaemon), given \in BOOLEAN :
        /\ Receive(m) /\ Allowed(m) /\ m.kind = "Poll" /\ Fault(~given)
        /\ jobs' = Dispatch(jobs, m.lane)
        /\ IF given THEN ReplyTo(m.load, BatchReply(jobs, m.lane)) ELSE UNCHANGED toScript
  BY DEF HandlePollWork
<1>2. Typed /\ daemon.gen \in Nat /\ faults \in Nat /\ JobsOK(jobs, next, sent)
  BY TypedIs DEF IInv
<1>3. m.lane \in Lanes
  BY <1>1, ReceiveIs, CallFields
<1>4. PICK x : x = BatchReply(jobs, m.lane)
  OBVIOUS
<1>5. x \in ReplyMessage /\ x.kind = "Batch" /\ x.gen = daemon.gen /\ x.lane = m.lane
  BY <1>2, <1>3, <1>4, ReleaseIs
<1>6. toScript' = IF given /\ m.load = script.load THEN Append(toScript, x) ELSE toScript
  BY <1>1, <1>4 DEF ReplyTo
<1>7. UNCHANGED <<kwin, script, daemon, parked, relay>>
  BY DEF HandlePollWork, busVars, parkVars
<1>8. given \/ faults' > faults
  BY <1>1, <1>2 DEF Fault
<1>9. m.gen = daemon.gen
  BY <1>1 DEF Allowed, SameGeneration
<1>10. Serves(m, x, given)
  BY <1>1, <1>5, <1>6, <1>7, <1>9 DEF Serves, Receive
<1>. QED  BY <1>1, <1>3, <1>4, <1>7, <1>8, <1>10

LEMMA ReportServes ==
    ASSUME IInv, HandleReport
    PROVE  \E m, x, js :
                /\ Serves(m, x, TRUE) /\ (relay' = relay \/ faults' > faults) /\ x.batch = <<>>
                /\ m \in CallMessage /\ ReportOK(m) /\ m.gen = daemon.gen
                /\ js = Completed(m.results, Len(m.results))
                /\ \A t \in Slots : jobs'[t] = IF js[t].state = "DONE" THEN FreeJob ELSE js[t]
<1>1. PICK m \in Range(toDaemon) :
        /\ Receive(m) /\ Allowed(m) /\ m.kind = "Report" /\ ReportMatches(m)
        /\ Drain(Completed(m.results, Len(m.results)))
        /\ ReplyTo(m.load, [kind |-> "Ack", gen |-> daemon.gen, lane |-> m.lane, batch |-> <<>>])
  BY DEF HandleReport
<1>2. Typed /\ daemon.gen \in Nat /\ faults \in Nat
  BY TypedIs DEF IInv
<1>3. m \in CallMessage /\ ReportOK(m) /\ m.lane \in Lanes /\ m.results \in Seq(Results)
  BY <1>1, ReceiveIs, CallFields
<1>4. m.gen = daemon.gen
  BY <1>1 DEF ReportMatches, SameGeneration
<1>5. PICK x : x = [kind |-> "Ack", gen |-> daemon.gen, lane |-> m.lane, batch |-> <<>>]
  OBVIOUS
<1>6. x \in ReplyMessage /\ x.kind = "Ack" /\ x.gen = daemon.gen /\ x.lane = m.lane /\ x.batch = <<>>
  BY <1>2, <1>3, <1>5 DEF ReplyMessage
<1>7. toScript' = IF m.load = script.load THEN Append(toScript, x) ELSE toScript
  BY <1>1, <1>5 DEF ReplyTo
<1>8. UNCHANGED <<kwin, script, daemon, parked>>
  BY DEF HandleReport, parkVars
<1>9. Serves(m, x, TRUE)
  BY <1>1, <1>4, <1>6, <1>7, <1>8 DEF Serves, Receive
<1>10. PICK js : js = Completed(m.results, Len(m.results))
  OBVIOUS
<1>11. JobsOK(js, next, sent) /\ EntriesOK(js, inflight)
  <2>1. Len(m.results) \in 0..Len(m.results)
    BY <1>3
  <2>. QED  BY <1>3, <1>4, <1>10, <2>1, CompletedIs
<1>12. /\ \E bad \in BOOLEAN : Fault(bad) /\ (~bad => relay' = relay)
       /\ \A t \in Slots : jobs'[t] = IF js[t].state = "DONE" THEN FreeJob ELSE js[t]
  BY <1>1, <1>10, <1>11, DrainIs
<1>13. relay' = relay \/ faults' > faults
  BY <1>2, <1>12 DEF Fault
<1>. QED  BY <1>3, <1>4, <1>6, <1>9, <1>10, <1>12, <1>13

LEMMA IdleTurns ==
    ASSUME IInv, NEW l \in Lanes, IdleTimer(l)
    PROVE  \E x : \E given \in BOOLEAN :
                Turns(l, NoPoll, x, given) /\ (given \/ faults' > faults) /\ jobs' = jobs /\ relay' = relay
                /\ x.batch = <<>>
<1>1. PICK given \in BOOLEAN : Fault(~given) /\ ReleasePark(jobs, l, NoPoll, given)
  BY DEF IdleTimer
<1>2. Typed /\ daemon.gen \in Nat /\ faults \in Nat /\ JobsOK(jobs, next, sent) /\ ParkedLaneIsIdle
  BY TypedIs DEF IInv
<1>3. UNCHANGED <<kwin, daemon, relay, script, toDaemon>> /\ idle[l]
  BY DEF IdleTimer, busVars
<1>4. parked[l] # NoPoll /\ Queued(jobs, l) = {}
  BY <1>2, <1>3 DEF ParkedLaneIsIdle
<1>5. PICK x : x = BatchReply(jobs, l)
  OBVIOUS
<1>6. x \in ReplyMessage /\ x.kind = "Batch" /\ x.gen = daemon.gen /\ x.lane = l
  BY <1>2, <1>5, ReleaseIs
<1>7. x.batch = <<>> /\ jobs' = jobs
  BY <1>1, <1>4, <1>5, NothingToTake DEF BatchReply, ReleasePark
<1>8. toScript' = IF given /\ parked[l] # NoPoll /\ parked[l] = script.load
                  THEN Append(toScript, x) ELSE toScript
  BY <1>1, <1>4, <1>5 DEF ReleasePark, ReplyTo
<1>9. given \/ faults' > faults
  BY <1>1, <1>2 DEF Fault
<1>10. Turns(l, NoPoll, x, given)
  BY <1>1, <1>3, <1>4, <1>6, <1>8 DEF Turns, ReleasePark
<1>. QED  BY <1>3, <1>7, <1>9, <1>10

LEMMA ParkTurns ==
    ASSUME IInv, HandlePollPark
    PROVE  \E x : \E l \in Lanes, p \in Nat :
                Turns(l, p, x, TRUE) /\ jobs' = jobs /\ relay' = relay /\ x.batch = <<>>
<1>1. PICK m \in Range(toDaemon) :
        /\ Receive(m) /\ Allowed(m) /\ m.kind = "Poll" /\ Queued(jobs, m.lane) = {}
        /\ \/ /\ parked[m.lane] = NoPoll
              /\ parked' = [parked EXCEPT ![m.lane] = m.load]
              /\ UNCHANGED <<jobs, toScript>>
           \/ /\ parked[m.lane] # NoPoll
              /\ ReleasePark(jobs, m.lane, m.load, TRUE)
  BY DEF HandlePollPark
<1>2. Typed /\ daemon.gen \in Nat /\ JobsOK(jobs, next, sent)
  BY TypedIs DEF IInv
<1>3. UNCHANGED <<kwin, daemon, relay, script>>
  BY DEF HandlePollPark, busVars
<1>4. PICK l \in Lanes, p \in Nat : l = m.lane /\ p = m.load
  BY <1>1, ReceiveIs, CallFields
<1>5. PICK x : x = BatchReply(jobs, l)
  OBVIOUS
<1>6. x \in ReplyMessage /\ x.kind = "Batch" /\ x.gen = daemon.gen /\ x.lane = l
  BY <1>2, <1>5, ReleaseIs
<1>7. x.batch = <<>> /\ Dispatch(jobs, l) = jobs
  BY <1>1, <1>4, <1>5, NothingToTake DEF BatchReply
<1>8. /\ toScript' = IF parked[l] # NoPoll /\ parked[l] = script.load
                     THEN Append(toScript, x) ELSE toScript
      /\ jobs' = jobs /\ parked' = [parked EXCEPT ![l] = p]
  BY <1>1, <1>4, <1>5, <1>7 DEF ReleasePark, ReplyTo
<1>9. /\ toDaemon # <<>> /\ toDaemon' = Tail(toDaemon) /\ p = Head(toDaemon).load
      /\ Head(toDaemon).kind # "Hello" /\ Head(toDaemon).lane = l
      /\ Head(toDaemon).gen = daemon.gen /\ daemon.up
  BY <1>1, <1>4 DEF Receive, Allowed, SameGeneration
<1>10. Turns(l, p, x, TRUE)
  BY <1>3, <1>6, <1>8, <1>9 DEF Turns
<1>. QED  BY <1>3, <1>7, <1>8, <1>10

LEMMA SubmitTurns ==
    ASSUME IInv, NEW r \in Requests, SubmitRequest(r)
    PROVE  /\ relay' = relay
           /\ \/ UNCHANGED <<kwin, script, daemon, toDaemon, toScript, parked>> /\ jobs' = Submitted(r)
              \/ \E x : \E l \in Lanes, given \in BOOLEAN :
                    /\ Turns(l, NoPoll, x, given) /\ (given \/ faults' > faults)
                    /\ jobs' = Dispatch(Submitted(r), l) /\ x = BatchReply(Submitted(r), l)
<1>1. /\ r = sent + 1 /\ FreeInflight # {} /\ FreeJobs # {}
      /\ UNCHANGED <<kwin, daemon, relay, script, toDaemon>>
  BY DEF SubmitRequest, busVars
<1>2. PICK js, entries, l :
        /\ js = Submitted(r) /\ l = LaneOf[r] /\ l \in Lanes
        /\ entries = [inflight EXCEPT ![First(FreeInflight)] = [active |-> TRUE, request |-> r, seq |-> next]]
  BY Constants
<1>3. Typed /\ daemon.gen \in Nat /\ faults \in Nat
  BY TypedIs DEF IInv
<1>4. JobsOK(js, next + 1, r)
  BY <1>1, <1>2, SubmittedIs DEF Grown
<1>5. CASE parked[l] = NoPoll /\ jobs' = js /\ UNCHANGED <<toScript, parked>>
  BY <1>1, <1>2, <1>5
<1>6. ASSUME NEW given \in BOOLEAN, parked[l] # NoPoll, Fault(~given), ReleasePark(js, l, NoPoll, given)
      PROVE  \E x : /\ Turns(l, NoPoll, x, given) /\ (given \/ faults' > faults)
                    /\ jobs' = Dispatch(js, l) /\ x = BatchReply(js, l)
  <2>1. PICK x : x = BatchReply(js, l)
    OBVIOUS
  <2>2. x \in ReplyMessage /\ x.kind = "Batch" /\ x.gen = daemon.gen /\ x.lane = l
    BY <1>2, <1>3, <1>4, <2>1, ReleaseIs
  <2>3. toScript' = IF given /\ parked[l] # NoPoll /\ parked[l] = script.load
                    THEN Append(toScript, x) ELSE toScript
    BY <1>6, <2>1 DEF ReleasePark, ReplyTo
  <2>4. given \/ faults' > faults
    BY <1>3, <1>6 DEF Fault
  <2>5. Turns(l, NoPoll, x, given)
    BY <1>1, <1>6, <2>2, <2>3 DEF Turns, ReleasePark
  <2>. QED  BY <1>6, <2>1, <2>4, <2>5 DEF ReleasePark
<1>7. \/ parked[l] = NoPoll /\ jobs' = js /\ UNCHANGED <<toScript, parked>>
      \/ /\ parked[l] # NoPoll
         /\ \E given \in BOOLEAN : Fault(~given) /\ ReleasePark(js, l, NoPoll, given)
  BY <1>2 DEF SubmitRequest, parkVars
<1>. QED  BY <1>1, <1>2, <1>5, <1>6, <1>7

LEMMA AckResponds ==
    ASSUME IInv, Wires, OnAck
    PROVE  \E x : /\ Responds(x) /\ jobs' = jobs /\ relay' = relay
                  /\ Described(x) = {} /\ Reported(x) = {}
<1>1. /\ Callback("Ack") /\ UNCHANGED <<kwin, script, daemon, parked, jobs, relay>>
      /\ Call(script.load, script.gen, IF script.running THEN <<PollCall(Head(toScript).lane)>> ELSE <<>>)
  BY DEF OnAck, busVars, queueVars, parkVars
<1>2. PICK h : h = Head(toScript)
  OBVIOUS
<1>3. h \in ReplyMessage /\ h \in Range(toScript) /\ h.kind = "Ack" /\ h.lane \in Lanes
  BY <1>1, <1>2, CallbackIs, ReplyFields
<1>4. script.running
  BY <1>3 DEF Wires, ReplyFits
<1>5. Typed /\ script.load \in Nat /\ script.gen \in Nat
  BY TypedIs DEF IInv
<1>6. PICK c : c = PollCall(h.lane)
  OBVIOUS
<1>7. c \in [kind: {"Hello", "Poll", "Report"}, lane: Lanes, results: Seq(Results)]
  BY <1>3, <1>6 DEF PollCall
<1>8. Call(script.load, script.gen, <<c>>)
  BY <1>1, <1>2, <1>4, <1>6
<1>9. PICK x : x = Sent(c, script.load, script.gen)
  OBVIOUS
<1>10. x \in CallMessage /\ toDaemon' = IF daemon.up THEN Append(toDaemon, x) ELSE toDaemon
  BY <1>5, <1>7, <1>8, <1>9, CallIs
<1>11. /\ x.kind = "Poll" /\ x.lane = h.lane /\ x.load = script.load /\ x.gen = script.gen /\ x.from = kwin
       /\ x.results = <<>>
  BY <1>6, <1>9 DEF Sent, PollCall
<1>12. Described(x) = {} /\ Reported(x) = {}
  BY <1>11 DEF Described, Reported
<1>13. Responds(x)
  BY <1>1, <1>2, <1>3, <1>10, <1>11 DEF Responds, Callback
<1>. QED  BY <1>1, <1>12, <1>13

\* The report of a batch describes what the batch asked for.
LEMMA BatchResponds ==
    ASSUME IInv, Wires, OnBatch
    PROVE  \E x : /\ Responds(x) /\ jobs' = jobs /\ relay' = relay
                  /\ Described(x) \subseteq Names(Head(toScript))
                  /\ Reported(x) \subseteq Carried(Head(toScript))
<1>. DEFINE h == Head(toScript)
            readable == h.gen = script.gen
            work == IF script.running /\ readable THEN h.batch ELSE <<>>
<1>1. /\ Callback("Batch")
      /\ script' = [script EXCEPT !.running = script.running /\ readable]
      /\ \/ work # <<>> /\ \E o \in [1..Len(work) -> {"OK", "FAILED"}] :
                Call(script.load, script.gen,
                     <<ReportCall(h.lane, [i \in 1..Len(work) |-> Result(work[i], o[i])])>>)
         \/ /\ work = <<>>
            /\ Call(script.load, script.gen,
                    IF script'.running THEN <<PollCall(h.lane)>> ELSE <<>>)
  BY Zenon DEF OnBatch
<1>2. UNCHANGED <<kwin, daemon, parked, jobs, relay>>
  BY DEF OnBatch, busVars, queueVars, parkVars
<1>3. h \in ReplyMessage /\ h \in Range(toScript) /\ h.kind = "Batch"
  BY <1>1, CallbackIs
<1>4. script.running /\ readable
  BY <1>3 DEF Wires, ReplyFits
<1>5. Typed /\ script.load \in Nat /\ script.gen \in Nat /\ script \in [load: Nat, gen: Nat, running: BOOLEAN]
  BY TypedIs DEF IInv
<1>6. script' = script
  BY <1>1, <1>4, <1>5
<1>7. PICK g, w : g = h /\ w = g.batch
  OBVIOUS
<1>8. g \in ReplyMessage /\ g.kind = "Batch" /\ g.lane \in Lanes /\ w \in Seq(Dispatched) /\ work = w
  BY <1>3, <1>4, <1>7, ReplyFields
<1>9. \E c \in [kind: {"Hello", "Poll", "Report"}, lane: Lanes, results: Seq(Results)] :
         /\ Call(script.load, script.gen, <<c>>) /\ c.kind # "Hello" /\ c.lane = g.lane
         /\ {c.results[k].of : k \in DOMAIN c.results} \subseteq Names(g)
         /\ {c.results[k].seq : k \in DOMAIN c.results} \subseteq Carried(g)
  <2>1. CASE w # <<>>
    <3>1. PICK o \in [1..Len(w) -> {"OK", "FAILED"}] :
            Call(script.load, script.gen, <<ReportCall(g.lane, [i \in 1..Len(w) |-> Result(w[i], o[i])])>>)
      BY <1>1, <1>7, <1>8, <2>1
    <3>2. PICK rs : rs = [i \in 1..Len(w) |-> Result(w[i], o[i])]
      OBVIOUS
    <3>3. DOMAIN w = 1..Len(w) /\ Len(w) \in Nat
      BY <1>8
    <3>4. ASSUME NEW k \in 1..Len(w)
          PROVE  rs[k] \in Results /\ rs[k].seq = w[k].seq /\ rs[k].of = w[k].of
      <4>1. w[k] \in Dispatched /\ o[k] \in Statuses /\ "BUSY" \in Statuses
        BY <1>8, <3>3 DEF Statuses
      <4>2. rs[k] = Result(w[k], o[k])
        BY <3>2
      <4>. QED  BY <4>1, <4>2 DEF Result, Results, Dispatched
    <3>5. rs \in Seq(Results) /\ DOMAIN rs = 1..Len(w)
      <4>1. PICK n \in Nat : n = Len(w)
        BY <3>3
      <4>2. rs \in [1..n -> Results]
        BY <3>2, <3>4, <4>1
      <4>. QED  BY <4>1, <4>2, IsSequence
    <3>6. PICK c : c = ReportCall(g.lane, rs)
      OBVIOUS
    <3>7. /\ c \in [kind: {"Hello", "Poll", "Report"}, lane: Lanes, results: Seq(Results)]
          /\ c.kind # "Hello" /\ c.lane = g.lane /\ c.results = rs
      BY <1>8, <3>5, <3>6 DEF ReportCall
    <3>8. /\ {rs[k].of : k \in DOMAIN rs} \subseteq Names(g)
          /\ {rs[k].seq : k \in DOMAIN rs} \subseteq Carried(g)
      BY <1>7, <3>3, <3>4, <3>5 DEF Names, Carried
    <3>9. Call(script.load, script.gen, <<c>>)
      BY <3>1, <3>2, <3>6
    <3>10. /\ {c.results[k].of : k \in DOMAIN c.results} \subseteq Names(g)
           /\ {c.results[k].seq : k \in DOMAIN c.results} \subseteq Carried(g)
      BY <3>7, <3>8
    <3>. QED  BY <3>7, <3>9, <3>10
  <2>2. CASE w = <<>>
    <3>1. Call(script.load, script.gen, IF script'.running THEN <<PollCall(g.lane)>> ELSE <<>>)
      BY <1>1, <1>7, <1>8, <2>2
    <3>2. PICK c : c = PollCall(g.lane)
      OBVIOUS
    <3>3. /\ c \in [kind: {"Hello", "Poll", "Report"}, lane: Lanes, results: Seq(Results)]
          /\ c.kind # "Hello" /\ c.lane = g.lane /\ c.results = <<>>
      BY <1>8, <3>2 DEF PollCall
    <3>. QED  BY <1>4, <1>6, <3>1, <3>2, <3>3
  <2>. QED  BY <2>1, <2>2
<1>10. PICK c \in [kind: {"Hello", "Poll", "Report"}, lane: Lanes, results: Seq(Results)] :
         /\ Call(script.load, script.gen, <<c>>) /\ c.kind # "Hello" /\ c.lane = g.lane
         /\ {c.results[k].of : k \in DOMAIN c.results} \subseteq Names(g)
         /\ {c.results[k].seq : k \in DOMAIN c.results} \subseteq Carried(g)
  BY <1>9
<1>11. PICK x : x = Sent(c, script.load, script.gen)
  OBVIOUS
<1>12. x \in CallMessage /\ toDaemon' = IF daemon.up THEN Append(toDaemon, x) ELSE toDaemon
  BY <1>5, <1>10, <1>11, CallIs
<1>13. /\ x.kind # "Hello" /\ x.lane = g.lane /\ x.load = script.load /\ x.gen = script.gen /\ x.from = kwin
       /\ x.results = c.results
  BY <1>10, <1>11 DEF Sent
<1>14. Described(x) \subseteq Names(g) /\ Reported(x) \subseteq Carried(g)
  BY <1>10, <1>13 DEF Described, Reported
<1>15. Responds(x)
  BY <1>1, <1>2, <1>6, <1>7, <1>8, <1>12, <1>13 DEF Responds, Callback
<1>. QED  BY <1>2, <1>7, <1>14, <1>15

LEMMA RefusalDrops ==
    ASSUME IInv, RefuseCall \/ ReportInterrupted
    PROVE  Drops /\ relay' = relay /\ Head(toDaemon) \in CallMessage /\ daemon.up
BY ReceiveIs DEF RefuseCall, ReportInterrupted, Drops, Receive, busVars, parkVars

\* Nothing is sent, taken or parked.
Quiet == UNCHANGED <<kwin, script, toDaemon, toScript, parked>> /\ daemon'.gen = daemon.gen
         /\ daemon'.up = daemon.up

LEMMA QuietWires ==
    ASSUME Wires, Quiet
    PROVE  Wires'
BY DEF Quiet, Wires, CallFits, ReplyFits, PollFits, Greetings

LEMMA NameAcquiredWires ==
    ASSUME Typed, Typed', Wires, NameAcquired
    PROVE  Wires'
<1>1. /\ daemon'.up = daemon.up /\ daemon'.gen = daemon.gen /\ UNCHANGED <<kwin, parked>>
      /\ Load(TRUE, kwin) \/ Unload \/ UNCHANGED <<script, toDaemon, toScript>>
  BY TypedIs DEF NameAcquired, parkVars
<1>2. CASE Load(TRUE, kwin)
  BY <1>1, <1>2, ReloadWires
<1>3. CASE Unload
  <2>1. Load(FALSE, kwin)
    BY <1>3 DEF Load, Unload
  <2>. QED  BY <1>1, <2>1, ReloadWires
<1>4. CASE UNCHANGED <<script, toDaemon, toScript>>
  BY <1>1, <1>4, QuietWires DEF Quiet
<1>. QED  BY <1>1, <1>2, <1>3, <1>4

\* Every step keeps the channel wired.
LEMMA StepWires ==
    ASSUME IInv, IInv', Wires, [Next]_vars
    PROVE  Wires'
<1>1. Typed /\ Typed'
  BY DEF IInv
<1>2. ASSUME NEW r \in Requests, RejectRequest(r) \/ RefuseRequest(r) \/ SubmitRequest(r)
      PROVE  Wires'
  <2>1. CASE RejectRequest(r) \/ RefuseRequest(r)
    BY <2>1, QuietWires DEF Quiet, RejectRequest, RefuseRequest, parkVars
  <2>2. CASE SubmitRequest(r)
    BY <1>1, <2>2, SubmitTurns, TurnsKeeps, QuietWires DEF Quiet
  <2>. QED  BY <1>2, <2>1, <2>2
<1>3. ASSUME NEW s \in Slots, DeadlinePasses(s)
      PROVE  Wires'
  BY <1>3, QuietWires DEF Quiet, DeadlinePasses, busVars, parkVars
<1>4. ASSUME NEW l \in Lanes, IdleTimer(l)
      PROVE  Wires'
  BY <1>1, <1>4, IdleTurns, TurnsKeeps
<1>5. CASE RelayBreaks
  BY <1>5, QuietWires DEF Quiet, RelayBreaks, parkVars
<1>6. CASE DaemonStep
  <2>1. CASE RefuseCall \/ ReportInterrupted
    BY <1>1, <2>1, RefusalDrops, DropsKeeps
  <2>2. CASE HandleHello
    BY <1>1, <2>2, HelloServes, ServesKeeps
  <2>3. CASE HandlePollWork
    BY <1>1, <2>3, PollServes, ServesKeeps
  <2>4. CASE HandlePollPark
    BY <1>1, <2>4, ParkTurns, TurnsKeeps
  <2>5. CASE HandleReport
    BY <1>1, <2>5, ReportServes, ServesKeeps
  <2>. QED  BY <1>6, <2>1, <2>2, <2>3, <2>4, <2>5 DEF DaemonStep
<1>7. CASE ScriptStep
  <2>1. CASE OnHello
    BY <2>1, GreetWires
  <2>2. CASE OnBatch
    BY <1>1, <2>2, BatchResponds, RespondsKeeps
  <2>3. CASE OnAck
    BY <1>1, <2>3, AckResponds, RespondsKeeps
  <2>. QED  BY <1>7, <2>1, <2>2, <2>3 DEF ScriptStep
<1>8. CASE Restart
  <2>1. CASE NameAcquired
    BY <1>1, <2>1, NameAcquiredWires
  <2>2. CASE ScriptReloaded
    <3>1. Load(daemon.up, kwin') /\ UNCHANGED <<kwin, daemon, parked>> /\ daemon.up \in BOOLEAN
      BY <1>1, <2>2, TypedIs DEF ScriptReloaded, busVars, parkVars
    <3>. QED  BY <1>1, <3>1, ReloadWires
  <2>3. CASE CompositorRestarts
    <3>1. Load(daemon.up, kwin') /\ UNCHANGED <<daemon, parked>> /\ daemon.up \in BOOLEAN
      BY <1>1, <2>3, TypedIs DEF CompositorRestarts, parkVars
    <3>. QED  BY <1>1, <3>1, ReloadWires
  <2>4. CASE StopAfterRelayFailure \/ StopAfterCompositorChange \/ StopOnRequest
    BY <1>1, <2>4, StopWires DEF StopAfterRelayFailure, StopAfterCompositorChange, StopOnRequest
  <2>5. CASE DaemonStarts
    BY <1>1, <2>5, StartWires
  <2>. QED  BY <1>8, <2>1, <2>2, <2>3, <2>4, <2>5 DEF Restart
<1>9. CASE UNCHANGED vars
  BY <1>9, QuietWires DEF Quiet, vars
<1>. QED  BY <1>2, <1>3, <1>4, <1>5, <1>6, <1>7, <1>8, <1>9 DEF Next

-----------------------------------------------------------------------------
(* Jobs in the hands of the script *)

\* What a report describes is neither on its way to the script nor waiting.
LEMMA DescribedIsOver ==
    ASSUME IInv, NEW m \in Range(toDaemon), NEW r \in Described(m)
    PROVE  r \notin Offers /\ r \notin Waiting
<1>1. Typed /\ Ordered /\ ReportOK(m)
  BY DEF IInv, Messages
<1>2. PICK k \in DOMAIN m.results : r = m.results[k].of
  BY DEF Described
<1>3. r \in 1..sent /\ Outcome(r, m.results[k].status)
  BY <1>1, <1>2 DEF ReportOK
<1>4. r \notin Live \/ r \in Started
  BY <1>3 DEF Outcome
<1>5. CASE r \notin Live
  BY <1>5 DEF Live
<1>6. CASE r \in Started
  <2>1. Before(Started, Offers) /\ Before(Started, Waiting) /\ ~(r < r)
    BY <1>1, <1>3, TypedIs DEF Ordered
  <2>. QED  BY <1>6, <2>1 DEF Before
<1>. QED  BY <1>4, <1>5, <1>6

\* The job of a sequence in a message of this daemon is the one it names.
LEMMA HandedIs ==
    ASSUME NEW js, NEW nx, NEW st, JobsOK(js, nx, st), NEW q, NEW r, NEW p,
           Handed(js, nx, q, r), Handed(js, nx, q, p), InHand(js, q)
    PROVE  r = p
BY DEF Handed, InHand, Used

LEMMA DescribedAfterAppend ==
    ASSUME NEW ms \in Seq(CallMessage), NEW m \in CallMessage, DescribedOnce(ms),
           \A x \in Range(ms) : Described(m) \cap Described(x) = {}
    PROVE  DescribedOnce(Append(ms, m))
<1>1. /\ Len(ms) \in Nat /\ DOMAIN ms = 1..Len(ms) /\ DOMAIN Append(ms, m) = 1..(Len(ms) + 1)
      /\ \A k \in 1..Len(ms) : Append(ms, m)[k] = ms[k]
      /\ Append(ms, m)[Len(ms) + 1] = m
  OBVIOUS
<1>2. \A i \in DOMAIN ms : Described(m) \cap Described(ms[i]) = {}
  BY DEF Range
<1>. SUFFICES ASSUME NEW i \in DOMAIN Append(ms, m), NEW j \in DOMAIN Append(ms, m), i # j
              PROVE  Described(Append(ms, m)[i]) \cap Described(Append(ms, m)[j]) = {}
  BY DEF DescribedOnce
<1>3. CASE i \in DOMAIN ms /\ j \in DOMAIN ms
  BY <1>1, <1>3 DEF DescribedOnce
<1>4. CASE i \notin DOMAIN ms
  <2>1. i = Len(ms) + 1 /\ j \in DOMAIN ms
    BY <1>1, <1>4
  <2>. QED  BY <1>1, <1>2, <2>1
<1>5. CASE j \notin DOMAIN ms
  <2>1. j = Len(ms) + 1 /\ i \in DOMAIN ms
    BY <1>1, <1>5
  <2>. QED  BY <1>1, <1>2, <2>1
<1>. QED  BY <1>3, <1>4, <1>5

LEMMA DescribedAfterTail ==
    ASSUME NEW ms \in Seq(CallMessage), ms # <<>>, DescribedOnce(ms)
    PROVE  /\ DescribedOnce(Tail(ms))
           /\ \A x \in Range(Tail(ms)) : Described(Head(ms)) \cap Described(x) = {}
<1>1. /\ DOMAIN ms = 1..Len(ms) /\ Len(ms) \in Nat /\ Len(ms) >= 1
      /\ DOMAIN Tail(ms) = 1..(Len(ms) - 1) /\ Head(ms) = ms[1]
      /\ \A i \in DOMAIN Tail(ms) : Tail(ms)[i] = ms[i + 1] /\ i + 1 \in DOMAIN ms
  OBVIOUS
<1>2. ASSUME NEW i \in DOMAIN Tail(ms), NEW j \in DOMAIN Tail(ms), i # j
      PROVE  Described(Tail(ms)[i]) \cap Described(Tail(ms)[j]) = {}
  <2>1. i + 1 \in DOMAIN ms /\ j + 1 \in DOMAIN ms /\ i + 1 # j + 1
    BY <1>1, <1>2
  <2>. QED  BY <1>1, <2>1 DEF DescribedOnce
<1>3. ASSUME NEW i \in DOMAIN Tail(ms)
      PROVE  Described(Head(ms)) \cap Described(Tail(ms)[i]) = {}
  <2>1. i + 1 \in DOMAIN ms /\ 1 \in DOMAIN ms /\ 1 # i + 1
    BY <1>1
  <2>. QED  BY <1>1, <2>1 DEF DescribedOnce
<1>. QED  BY <1>2, <1>3 DEF DescribedOnce, Range

\* The jobs that were handed out stay so, and a message that joins holds
\* jobs that are.
LEMMA GripKept ==
    ASSUME Grip, daemon'.gen = daemon.gen, daemon'.up => daemon.up, DescribedOnce(toDaemon'),
           \A m \in Range(toScript') : m \in Range(toScript) \/ AllInHand(jobs', Carried(m)),
           \A m \in Range(toDaemon') :
              m \in Range(toDaemon) \/ (daemon.up /\ m.gen = daemon.gen => AllInHand(jobs', Reported(m))),
           \A q : InHand(jobs, q) => InHand(jobs', q)
    PROVE  Grip'
<1>1. \A m \in Range(toScript') : daemon'.up /\ m.gen = daemon'.gen => AllInHand(jobs', Carried(m))
  BY DEF Grip, AllInHand
<1>2. \A m \in Range(toDaemon') : daemon'.up /\ m.gen = daemon'.gen => AllInHand(jobs', Reported(m))
  BY DEF Grip, AllInHand
<1>. QED  BY <1>1, <1>2 DEF Grip

\* What is handed out is in hand.
LEMMA ReleasedInHand ==
    ASSUME NEW js, NEW nx, NEW st, JobsOK(js, nx, st), NEW l \in Lanes, daemon.gen \in Nat,
           NEW d, d = Dispatch(js, l), NEW x, x = BatchReply(js, l)
    PROVE  AllInHand(d, Carried(x)) /\ \A q : InHand(js, q) => InHand(d, q)
<1>1. PICK T : T = Taken(js, l)
  OBVIOUS
<1>2. HandsOut(js, T, l, d) /\ BatchOf(js, T, x.batch)
  BY <1>1, ReleaseIs
<1>3. /\ T \subseteq Slots
      /\ \A s \in Slots : d[s].seq = js[s].seq /\ d[s].state = IF s \in T THEN "DISPATCHED" ELSE js[s].state
  BY <1>2 DEF HandsOut, Queued
<1>4. ASSUME NEW k \in DOMAIN x.batch
      PROVE  InHand(d, x.batch[k].seq)
  <2>1. PICK s \in T : x.batch[k].seq = js[s].seq
    BY <1>2 DEF BatchOf
  <2>. QED  BY <1>3, <2>1 DEF InHand
<1>5. AllInHand(d, Carried(x))
  BY <1>4 DEF AllInHand, Carried
<1>6. ASSUME NEW q, InHand(js, q)
      PROVE  InHand(d, q)
  <2>1. PICK s \in Slots : js[s].state = "DISPATCHED" /\ js[s].seq = q
    BY <1>6 DEF InHand
  <2>. QED  BY <1>3, <2>1 DEF InHand
<1>. QED  BY <1>5, <1>6

LEMMA SubmittedInHand ==
    ASSUME IInv, NEW r \in Requests, r = sent + 1, FreeInflight # {}, FreeJobs # {},
           NEW js, js = Submitted(r)
    PROVE  JobsOK(js, next + 1, r) /\ \A q : InHand(jobs, q) => InHand(js, q)
<1>1. PICK entries : entries = [inflight EXCEPT ![First(FreeInflight)] =
                                  [active |-> TRUE, request |-> r, seq |-> next]]
  OBVIOUS
<1>2. Grown(js, next + 1, r)
  BY <1>1, SubmittedIs
<1>3. DispatchedIn(js) = DispatchedIn(jobs) /\ JobsOK(js, next + 1, r)
  BY <1>2 DEF Grown
<1>4. \A q : /\ InHand(jobs, q) <=> q \in DispatchedIn(jobs)
             /\ InHand(js, q) <=> q \in DispatchedIn(js)
  BY DEF InHand, DispatchedIn
<1>. QED  BY <1>3, <1>4

\* Nothing that was handed out is taken back.
Holds == \A q : InHand(jobs, q) => InHand(jobs', q)

LEMMA CallsGrip ==
    ASSUME Typed, Grip
    PROVE  /\ toDaemon # <<>> => DescribedOnce(Tail(toDaemon)) /\ Range(Tail(toDaemon)) \subseteq Range(toDaemon)
           /\ \A x \in CallMessage : x.results = <<>> => DescribedOnce(Append(toDaemon, x))
<1>1. toDaemon \in Seq(CallMessage) /\ DescribedOnce(toDaemon)
  BY TypedIs DEF Grip
<1>2. ASSUME NEW x \in CallMessage, x.results = <<>>
      PROVE  DescribedOnce(Append(toDaemon, x))
  <2>1. Described(x) = {}
    BY <1>2 DEF Described
  <2>. QED  BY <1>1, <2>1, DescribedAfterAppend
<1>3. ASSUME toDaemon # <<>>
      PROVE  DescribedOnce(Tail(toDaemon)) /\ Range(Tail(toDaemon)) \subseteq Range(toDaemon)
  BY <1>1, <1>3, DescribedAfterTail, Left
<1>. QED  BY <1>2, <1>3

LEMMA ServesGrip ==
    ASSUME Typed, Grip, NEW m, NEW x, NEW given \in BOOLEAN, Serves(m, x, given), Holds,
           AllInHand(jobs', Carried(x))
    PROVE  Grip'
<1>1. /\ DescribedOnce(toDaemon') /\ Range(toDaemon') \subseteq Range(toDaemon) /\ daemon' = daemon
  BY CallsGrip DEF Serves
<1>2. \A y \in Range(toScript') : y \in Range(toScript) \/ y = x
  BY Joined DEF Serves
<1>. QED  BY <1>1, <1>2, GripKept DEF Holds

LEMMA TurnsGrip ==
    ASSUME Typed, Grip, NEW l, NEW p, NEW x, NEW given \in BOOLEAN, Turns(l, p, x, given), Holds,
           AllInHand(jobs', Carried(x))
    PROVE  Grip'
<1>1. /\ DescribedOnce(toDaemon') /\ Range(toDaemon') \subseteq Range(toDaemon) /\ daemon' = daemon
  BY CallsGrip DEF Turns, Grip
<1>2. \A y \in Range(toScript') : y \in Range(toScript) \/ y = x
  BY Joined DEF Turns
<1>. QED  BY <1>1, <1>2, GripKept DEF Holds

\* Half a report or a whole one: only the jobs it names are finished.
LEMMA FinishedGrip ==
    ASSUME IInv, Grip, toDaemon # <<>>, NEW m, m = Head(toDaemon), toDaemon' = Tail(toDaemon),
           m.gen = daemon.gen, daemon' = daemon,
           \A y \in Range(toScript') : y \in Range(toScript) \/ Carried(y) = {},
           \A s \in Slots : jobs[s].state = "DISPATCHED" /\ jobs[s].seq \notin Reported(m) => jobs'[s] = jobs[s]
    PROVE  Grip'
<1>1. Typed /\ JobsOK(jobs, next, sent) /\ Messages /\ toDaemon \in Seq(CallMessage)
  BY TypedIs DEF IInv
<1>2. m \in Range(toDaemon) /\ Range(toDaemon') \subseteq Range(toDaemon) /\ ReportOK(m)
  BY <1>1, Left DEF Messages
<1>3. DescribedOnce(toDaemon') /\ \A x \in Range(toDaemon') : Described(m) \cap Described(x) = {}
  BY <1>1, DescribedAfterTail DEF Grip
<1>4. ASSUME NEW q, InHand(jobs, q), q \notin Reported(m)
      PROVE  InHand(jobs', q)
  <2>1. PICK s \in Slots : jobs[s].state = "DISPATCHED" /\ jobs[s].seq = q
    BY <1>4 DEF InHand
  <2>2. jobs'[s] = jobs[s]
    BY <1>4, <2>1
  <2>. QED  BY <2>1, <2>2 DEF InHand
<1>5. ASSUME NEW q \in Reported(m), InHand(jobs, q), NEW r, Handed(jobs, next, q, r)
      PROVE  r \in Described(m)
  <2>1. PICK k \in DOMAIN m.results : q = m.results[k].seq
    BY <1>5 DEF Reported
  <2>2. Handed(jobs, next, q, m.results[k].of)
    BY <1>2, <2>1 DEF ReportOK
  <2>3. r = m.results[k].of
    BY <1>1, <1>5, <2>2, HandedIs
  <2>. QED  BY <2>3 DEF Described
<1>6. ASSUME NEW y \in Range(toScript'), daemon.up, y.gen = daemon.gen, NEW q \in Carried(y)
      PROVE  InHand(jobs', q)
  <2>1. y \in Range(toScript) /\ OfferOK(y) /\ InHand(jobs, q)
    BY <1>1, <1>6 DEF Messages, Grip, AllInHand
  <2>2. PICK k \in DOMAIN y.batch : q = y.batch[k].seq
    BY <1>6 DEF Carried
  <2>3. Handed(jobs, next, q, y.batch[k].of) /\ y.batch[k].of \in Offers
    BY <1>6, <2>1, <2>2 DEF OfferOK, Offers, OffersIn, Names
  <2>4. q \notin Reported(m)
    BY <1>2, <1>5, <2>1, <2>3, DescribedIsOver
  <2>. QED  BY <1>4, <2>1, <2>4
<1>7. ASSUME NEW y \in Range(toDaemon'), daemon.up, y.gen = daemon.gen, NEW q \in Reported(y)
      PROVE  InHand(jobs', q)
  <2>1. y \in Range(toDaemon) /\ ReportOK(y) /\ InHand(jobs, q)
    BY <1>1, <1>2, <1>7 DEF Messages, Grip, AllInHand
  <2>2. PICK k \in DOMAIN y.results : q = y.results[k].seq
    BY <1>7 DEF Reported
  <2>3. Handed(jobs, next, q, y.results[k].of) /\ y.results[k].of \in Described(y)
    BY <1>7, <2>1, <2>2 DEF ReportOK, Described
  <2>4. q \notin Reported(m)
    BY <1>3, <1>5, <1>7, <2>1, <2>3
  <2>. QED  BY <1>4, <2>1, <2>4
<1>. QED  BY <1>3, <1>6, <1>7 DEF Grip, AllInHand

LEMMA ReportGrip ==
    ASSUME IInv, Grip, HandleReport
    PROVE  Grip'
<1>1. PICK m, x, js :
        /\ Serves(m, x, TRUE) /\ x.batch = <<>>
        /\ m \in CallMessage /\ ReportOK(m) /\ m.gen = daemon.gen
        /\ js = Completed(m.results, Len(m.results))
        /\ \A t \in Slots : jobs'[t] = IF js[t].state = "DONE" THEN FreeJob ELSE js[t]
  BY ReportServes
<1>2. Typed
  BY DEF IInv
<1>3. \A s \in Slots : js[s] = jobs[s] \/ jobs[s].seq \in Reported(m)
  <2>1. Len(m.results) \in 0..Len(m.results)
    BY <1>1, CallFields
  <2>. QED  BY <1>1, <2>1, CompletedIs
<1>4. ASSUME NEW s \in Slots, jobs[s].state = "DISPATCHED", jobs[s].seq \notin Reported(m)
      PROVE  jobs'[s] = jobs[s]
  BY <1>1, <1>3, <1>4
<1>5. \A y \in Range(toScript') : y \in Range(toScript) \/ Carried(y) = {}
  BY <1>1, <1>2, Joined, NothingCarried DEF Serves
<1>6. toDaemon # <<>> /\ m = Head(toDaemon) /\ toDaemon' = Tail(toDaemon) /\ daemon' = daemon
  BY <1>1 DEF Serves
<1>. QED  BY <1>1, <1>4, <1>5, <1>6, FinishedGrip

LEMMA InterruptedGrip ==
    ASSUME IInv, Grip, ReportInterrupted
    PROVE  Grip'
<1>1. PICK m \in Range(toDaemon) :
        /\ Receive(m) /\ ReportMatches(m)
        /\ \E n \in 0..Len(m.results) : jobs' = Completed(m.results, n)
  BY DEF ReportInterrupted
<1>2. PICK n \in 0..Len(m.results) : jobs' = Completed(m.results, n)
  BY <1>1
<1>3. m \in CallMessage /\ ReportOK(m) /\ m.gen = daemon.gen
  BY <1>1, ReceiveIs DEF ReportMatches, SameGeneration
<1>4. \A s \in Slots : jobs'[s] = jobs[s] \/ jobs[s].seq \in Reported(m)
  <2>1. PICK js : js = jobs'
    OBVIOUS
  <2>. QED  BY <1>2, <1>3, <2>1, CompletedIs
<1>5. toDaemon # <<>> /\ m = Head(toDaemon) /\ toDaemon' = Tail(toDaemon) /\ toScript' = toScript /\ daemon' = daemon
  BY <1>1 DEF Receive, ReportInterrupted, busVars
<1>. QED  BY <1>3, <1>4, <1>5, FinishedGrip

LEMMA RespondsGrip ==
    ASSUME IInv, Wires, Grip, NEW x, Responds(x), jobs' = jobs,
           Described(x) \subseteq Names(Head(toScript)), Reported(x) \subseteq Carried(Head(toScript))
    PROVE  Grip'
<1>1. Typed /\ toDaemon \in Seq(CallMessage)
  BY TypedIs DEF IInv
<1>2. /\ Head(toScript) \in Range(toScript) /\ Range(toScript') \subseteq Range(toScript)
  BY <1>1, Left DEF Responds
<1>3. x.gen = daemon.gen /\ daemon.up => AllInHand(jobs', Reported(x))
  <2>1. Head(toScript).gen = x.gen
    BY <1>2 DEF Wires, ReplyFits, Responds
  <2>. QED  BY <1>2, <2>1 DEF Grip, AllInHand
<1>4. \A y \in Range(toDaemon) : Described(x) \cap Described(y) = {}
  <2>1. Names(Head(toScript)) \subseteq Offers
    BY <1>2 DEF Offers, OffersIn
  <2>. QED  BY <2>1, DescribedIsOver
<1>5. DescribedOnce(toDaemon') /\ \A y \in Range(toDaemon') : y \in Range(toDaemon) \/ y = x
  <2>1. CASE daemon.up
    <3>1. toDaemon' = Append(toDaemon, x) /\ x \in CallMessage /\ DescribedOnce(toDaemon)
      BY <2>1 DEF Responds, Grip
    <3>. QED  BY <1>1, <1>4, <3>1, Joined, DescribedAfterAppend
  <2>2. CASE ~daemon.up
    BY <2>2 DEF Responds, Grip
  <2>. QED  BY <2>1, <2>2
<1>. QED  BY <1>2, <1>3, <1>5, GripKept DEF Responds

\* A greeting and the polls that follow it name no job.
LEMMA GreetGrip ==
    ASSUME IInv, Grip, OnHello
    PROVE  Grip'
<1>1. Typed /\ toDaemon \in Seq(CallMessage)
  BY TypedIs DEF IInv
<1>2. PICK h : h = Head(toScript)
  OBVIOUS
<1>3. /\ Callback("Hello") /\ UNCHANGED <<daemon, jobs>>
      /\ Call(script.load, h.gen, <<PollCall("fast"), PollCall("slow")>>)
  BY <1>2 DEF OnHello, busVars, queueVars
<1>4. h.gen \in Nat /\ script.load \in Nat /\ Range(toScript') \subseteq Range(toScript)
  BY <1>1, <1>2, <1>3, CallbackIs, ReplyFields, TypedIs
<1>5. PICK x, y : x = Sent(PollCall("fast"), script.load, h.gen) /\ y = Sent(PollCall("slow"), script.load, h.gen)
  OBVIOUS
<1>6. /\ x \in CallMessage /\ y \in CallMessage
      /\ toDaemon' = IF daemon.up THEN Append(Append(toDaemon, x), y) ELSE toDaemon
  <2>1. {PollCall("fast"), PollCall("slow")} \subseteq [kind: {"Hello", "Poll", "Report"}, lane: Lanes, results: Seq(Results)]
    BY DEF PollCall, Lanes
  <2>. QED  BY <1>1, <1>3, <1>4, <1>5, <2>1, CallsAre
<1>7. x.results = <<>> /\ y.results = <<>>
  BY <1>5 DEF Sent, PollCall
<1>8. Described(y) = {} /\ Reported(x) = {} /\ Reported(y) = {}
  BY <1>7 DEF Described, Reported
<1>9. PICK q \in Seq(CallMessage) : q = Append(toDaemon, x)
  <2>1. Append(toDaemon, x) \in Seq(CallMessage)
    BY <1>1, <1>6, Joined
  <2>. QED  BY <2>1
<1>10. DescribedOnce(q) /\ Range(q) = Range(toDaemon) \cup {x}
  BY <1>1, <1>6, <1>7, <1>9, CallsGrip, Joined
<1>11. DescribedOnce(Append(q, y)) /\ Range(Append(q, y)) = Range(q) \cup {y}
  BY <1>6, <1>8, <1>10, DescribedAfterAppend, RangeOfAppend
<1>12. DescribedOnce(toDaemon') /\ \A z \in Range(toDaemon') : z \in Range(toDaemon) \/ Reported(z) = {}
  <2>1. CASE daemon.up
    BY <1>6, <1>8, <1>9, <1>10, <1>11, <2>1
  <2>2. CASE ~daemon.up
    BY <1>6, <2>2 DEF Grip
  <2>. QED  BY <2>1, <2>2
<1>. QED  BY <1>3, <1>4, <1>12, GripKept DEF AllInHand

LEMMA ReloadGrip ==
    ASSUME IInv, Grip, NEW owned \in BOOLEAN, NEW from \in Nat, Load(owned, from),
           daemon'.up = daemon.up, daemon'.gen = daemon.gen, jobs' = jobs
    PROVE  Grip'
<1>1. Typed /\ script.load \in Nat
  BY TypedIs DEF IInv
<1>2. PICK x : x = [kind |-> "Hello", from |-> from, load |-> script.load + 1, gen |-> 0,
                    lane |-> "fast", results |-> <<>>]
  OBVIOUS
<1>3. x \in CallMessage /\ x.results = <<>>
  BY <1>1, <1>2 DEF CallMessage, Lanes
<1>4. toDaemon' = IF owned THEN Append(toDaemon, x) ELSE toDaemon
  BY <1>2 DEF Load
<1>5. Reported(x) = {}
  BY <1>3, NothingCarried
<1>6. DescribedOnce(toDaemon') /\ \A z \in Range(toDaemon') : z \in Range(toDaemon) \/ Reported(z) = {}
  BY <1>1, <1>3, <1>4, <1>5, CallsGrip, Joined DEF Grip
<1>7. Range(toScript') = {}
  BY NoOffers DEF Load
<1>. QED  BY <1>6, <1>7, GripKept DEF AllInHand

LEMMA StopGrip ==
    ASSUME Typed, Stop
    PROVE  Grip'
<1>1. toDaemon' = <<>> /\ ~daemon'.up
  BY TypedIs DEF Stop
<1>. QED  BY <1>1 DEF Grip, DescribedOnce

LEMMA StartGrip ==
    ASSUME IInv, Grip, DaemonStarts
    PROVE  Grip'
<1>1. Typed /\ Messages /\ daemon.gen \in Nat
  BY TypedIs DEF IInv
<1>2. daemon'.gen = daemon.gen + 1 /\ UNCHANGED <<toDaemon, toScript>>
  BY DEF DaemonStarts
<1>3. /\ \A m \in Range(toScript) : m.gen \in Nat /\ m.gen <= daemon.gen
      /\ \A m \in Range(toDaemon) : m.gen \in Nat /\ m.gen <= daemon.gen
  <2>1. /\ \A m \in Range(toScript) : m \in ReplyMessage
        /\ \A m \in Range(toDaemon) : m \in CallMessage
    BY <1>1 DEF Typed, TypeOK, Range
  <2>. QED  BY <1>1, <2>1, CallFields, ReplyFields DEF Messages, OfferOK, ReportOK
<1>4. /\ \A m \in Range(toScript') : m.gen # daemon'.gen
      /\ \A m \in Range(toDaemon') : m.gen # daemon'.gen
  BY <1>1, <1>2, <1>3
<1>. QED  BY <1>2, <1>4 DEF Grip

\* No message moves and every job that was handed out stays so.
LEMMA StillGrip ==
    ASSUME Grip, UNCHANGED <<toDaemon, toScript>>, daemon'.gen = daemon.gen, daemon'.up = daemon.up, Holds
    PROVE  Grip'
<1>1. DescribedOnce(toDaemon')
  BY DEF Grip
<1>. QED  BY <1>1, GripKept DEF Holds

LEMMA SubmitGrip ==
    ASSUME IInv, Grip, NEW r \in Requests, SubmitRequest(r)
    PROVE  Grip'
<1>1. r = sent + 1 /\ FreeInflight # {} /\ FreeJobs # {} /\ Typed /\ daemon.gen \in Nat
  BY TypedIs DEF SubmitRequest, IInv
<1>2. PICK js : js = Submitted(r)
  OBVIOUS
<1>3. JobsOK(js, next + 1, r) /\ \A q : InHand(jobs, q) => InHand(js, q)
  BY <1>1, <1>2, SubmittedInHand
<1>4. CASE UNCHANGED <<daemon, toDaemon, toScript>> /\ jobs' = js
  BY <1>3, <1>4, StillGrip DEF Holds
<1>5. ASSUME NEW x, NEW l \in Lanes, NEW given \in BOOLEAN, Turns(l, NoPoll, x, given),
             jobs' = Dispatch(js, l), x = BatchReply(js, l)
      PROVE  Grip'
  <2>1. AllInHand(jobs', Carried(x)) /\ \A q : InHand(js, q) => InHand(jobs', q)
    BY <1>1, <1>3, <1>5, ReleasedInHand
  <2>2. Holds
    BY <1>3, <2>1 DEF Holds
  <2>. QED  BY <1>1, <1>5, <2>1, <2>2, TurnsGrip
<1>6. \/ UNCHANGED <<daemon, toDaemon, toScript>> /\ jobs' = js
      \/ \E x : \E l \in Lanes, given \in BOOLEAN :
            Turns(l, NoPoll, x, given) /\ jobs' = Dispatch(js, l) /\ x = BatchReply(js, l)
  BY <1>2, SubmitTurns
<1>. QED  BY <1>4, <1>5, <1>6

LEMMA PollGrip ==
    ASSUME IInv, Grip, HandlePollWork
    PROVE  Grip'
<1>1. PICK m, x : \E given \in BOOLEAN, l \in Lanes :
        Serves(m, x, given) /\ jobs' = Dispatch(jobs, l) /\ x = BatchReply(jobs, l)
  BY PollServes
<1>2. Typed /\ JobsOK(jobs, next, sent) /\ daemon.gen \in Nat
  BY TypedIs DEF IInv
<1>3. AllInHand(jobs', Carried(x)) /\ Holds
  BY <1>1, <1>2, ReleasedInHand DEF Holds
<1>. QED  BY <1>1, <1>2, <1>3, ServesGrip

\* A deadline is of a job that still waits.
LEMMA DeadlineGrip ==
    ASSUME IInv, Grip, NEW s \in Slots, DeadlinePasses(s)
    PROVE  Grip'
<1>1. UNCHANGED <<daemon, toDaemon, toScript>> /\ jobs[s].state = "QUEUED" /\ jobs' = [jobs EXCEPT ![s].late = TRUE]
  BY DEF DeadlinePasses, busVars
<1>2. \A t \in Slots : jobs[t].state = "DISPATCHED" => jobs'[t] = jobs[t]
  BY <1>1, TypedIs DEF IInv
<1>3. Holds
  BY <1>2 DEF Holds, InHand
<1>. QED  BY <1>1, <1>3, StillGrip

LEMMA NameAcquiredGrip ==
    ASSUME IInv, Grip, NameAcquired
    PROVE  Grip'
<1>1. /\ daemon'.up = daemon.up /\ daemon'.gen = daemon.gen /\ jobs' = jobs /\ kwin \in Nat
      /\ Load(TRUE, kwin) \/ Unload \/ UNCHANGED <<script, toDaemon, toScript>>
  BY TypedIs DEF NameAcquired, queueVars, IInv
<1>2. CASE Load(TRUE, kwin)
  BY <1>1, <1>2, ReloadGrip
<1>3. CASE Unload
  <2>1. Load(FALSE, kwin)
    BY <1>3 DEF Load, Unload
  <2>. QED  BY <1>1, <2>1, ReloadGrip
<1>4. CASE UNCHANGED <<script, toDaemon, toScript>>
  BY <1>1, <1>4, StillGrip DEF Holds
<1>. QED  BY <1>1, <1>2, <1>3, <1>4

\* Every step keeps the jobs in hand.
LEMMA StepGrip ==
    ASSUME IInv, Wires, Grip, [Next]_vars
    PROVE  Grip'
<1>1. Typed
  BY DEF IInv
<1>2. jobs' = jobs => Holds
  BY DEF Holds
<1>3. \A x : x.batch = <<>> => AllInHand(jobs', Carried(x))
  BY NothingCarried DEF AllInHand
<1>4. ASSUME NEW r \in Requests, RejectRequest(r) \/ RefuseRequest(r) \/ SubmitRequest(r)
      PROVE  Grip'
  <2>1. CASE RejectRequest(r) \/ RefuseRequest(r)
    BY <1>2, <2>1, StillGrip DEF RejectRequest, RefuseRequest, queueVars
  <2>. QED  BY <1>4, <2>1, SubmitGrip
<1>5. ASSUME NEW s \in Slots, DeadlinePasses(s)
      PROVE  Grip'
  BY <1>5, DeadlineGrip
<1>6. ASSUME NEW l \in Lanes, IdleTimer(l)
      PROVE  Grip'
  BY <1>1, <1>2, <1>3, <1>6, IdleTurns, TurnsGrip
<1>7. CASE RelayBreaks
  BY <1>2, <1>7, StillGrip DEF RelayBreaks, queueVars
<1>8. CASE DaemonStep
  <2>1. CASE RefuseCall
    <3>1. Drops /\ jobs' = jobs
      BY <2>1, RefusalDrops DEF RefuseCall, queueVars
    <3>2. UNCHANGED <<daemon, toScript>> /\ toDaemon # <<>> /\ toDaemon' = Tail(toDaemon)
      BY <3>1 DEF Drops
    <3>3. DescribedOnce(toDaemon') /\ Range(toDaemon') \subseteq Range(toDaemon)
      BY <1>1, <3>2, CallsGrip
    <3>. QED  BY <3>1, <3>2, <3>3, GripKept
  <2>2. CASE HandleHello
    BY <1>1, <1>2, <1>3, <2>2, HelloServes, ServesGrip
  <2>3. CASE HandlePollPark
    BY <1>1, <1>2, <1>3, <2>3, ParkTurns, TurnsGrip
  <2>. QED  BY <1>8, <2>1, <2>2, <2>3, PollGrip, ReportGrip, InterruptedGrip DEF DaemonStep
<1>9. CASE ScriptStep
  <2>1. CASE OnBatch
    BY <2>1, BatchResponds, RespondsGrip
  <2>2. CASE OnAck
    <3>1. PICK x : Responds(x) /\ jobs' = jobs /\ Described(x) = {} /\ Reported(x) = {}
      BY <2>2, AckResponds
    <3>. QED  BY <3>1, RespondsGrip
  <2>. QED  BY <1>9, <2>1, <2>2, GreetGrip DEF ScriptStep
<1>10. CASE Restart
  <2>1. kwin \in Nat /\ kwin + 1 \in Nat /\ daemon.up \in BOOLEAN
    BY <1>1, TypedIs
  <2>2. CASE ScriptReloaded
    BY <2>1, <2>2, ReloadGrip DEF ScriptReloaded, busVars, queueVars
  <2>3. CASE CompositorRestarts
    BY <2>1, <2>3, ReloadGrip DEF CompositorRestarts, queueVars
  <2>4. CASE StopAfterRelayFailure \/ StopAfterCompositorChange \/ StopOnRequest
    BY <1>1, <2>4, StopGrip DEF StopAfterRelayFailure, StopAfterCompositorChange, StopOnRequest
  <2>. QED  BY <1>10, <2>2, <2>3, <2>4, NameAcquiredGrip, StartGrip DEF Restart
<1>11. CASE UNCHANGED vars
  BY <1>2, <1>11, StillGrip DEF vars
<1>. QED  BY <1>4, <1>5, <1>6, <1>7, <1>8, <1>9, <1>10, <1>11 DEF Next

-----------------------------------------------------------------------------
(* Only a fault takes a lane away *)

\* Nobody has gone and no lane has gained or lost a call.
LEMMA StaysSo ==
    ASSUME Healthy, UNCHANGED <<kwin, script, daemon, relay>>, Steady
    PROVE  Healthy'
<1>1. /\ daemon'.up /\ daemon'.named /\ relay' /\ daemon'.peer = kwin' /\ script'.gen = daemon'.gen
  BY DEF Healthy
<1>2. \A l \in Lanes : Outstanding(l)' = 1
  BY DEF Healthy, Steady
<1>. QED  BY <1>1, <1>2 DEF Healthy

\* A call that the daemon of a healthy channel refuses is not one of the
\* loaded script's, or it is the greeting of another load.
LEMMA RefusedIsForeign ==
    ASSUME IInv, Wires, Grip, Healthy, RefuseCall
    PROVE  Head(toDaemon).load = script.load => Head(toDaemon).kind = "Hello"
<1>. SUFFICES ASSUME Head(toDaemon).load = script.load, Head(toDaemon).kind # "Hello"
              PROVE  FALSE
  OBVIOUS
<1>1. PICK m : /\ Receive(m) /\ m = Head(toDaemon)
               /\ ~Allowed(m) \/ (m.kind = "Report" /\ ~ReportMatches(m))
  BY DEF RefuseCall, Receive
<1>2. m \in Range(toDaemon) /\ daemon.up
  BY <1>1, ReceiveIs
<1>3. m.from = kwin /\ m.gen = script.gen
  BY <1>1, <1>2 DEF Wires, CallFits
<1>4. daemon.peer = kwin /\ script.gen = daemon.gen
  BY DEF Healthy
<1>5. Allowed(m) /\ SameGeneration(m.gen)
  BY <1>3, <1>4 DEF Allowed, SameGeneration
<1>6. AllInHand(jobs, Reported(m))
  BY <1>2, <1>3, <1>4 DEF Grip
<1>7. ReportMatches(m)
  BY <1>5, <1>6 DEF ReportMatches, AllInHand, InHand, Reported, Named
<1>. QED  BY <1>1, <1>5, <1>7

\* What the relay does to the socket, it counts.
LEMMA AnswerCounted ==
    ASSUME Typed, NEW bad \in BOOLEAN, NEW fate, Fault(bad), bad \/ fate = "written",
           NEW r, NEW st, NEW of, Answer(r, st, of, fate), relay
    PROVE  relay' = relay \/ faults' > faults
<1>1. relay = TRUE
  BY DEF Typed, TypeOK
<1>2. CASE bad
  <2>1. faults' = faults + 1
    BY <1>2, Zenon DEF Fault
  <2>2. faults \in Nat
    BY TypedIs
  <2>3. faults' > faults
    BY <2>1, <2>2, SMT
  <2>. QED  BY <2>3, Zenon
<1>3. CASE fate = "written"
  <2>1. relay' = (fate # "broken") /\ (fate # "broken") = TRUE
    BY <1>3 DEF Answer
  <2>. QED  BY <1>1, <2>1
<1>. QED  BY <1>2, <1>3

LEMMA FaultCounted ==
    ASSUME Typed, Fault(TRUE)
    PROVE  faults' > faults
BY TypedIs DEF Fault

\* One step of a healthy channel.
LEMMA StepHealthy ==
    ASSUME IInv, IInv', Wires, Grip, Healthy, Next
    PROVE  Healthy' \/ faults' > faults
<1>1. Typed /\ Typed' /\ Loaded
  BY DEF IInv
<1>2. daemon.up /\ daemon.named /\ relay /\ daemon.peer = kwin /\ script.gen = daemon.gen
  BY DEF Healthy
<1>3. ASSUME NEW r \in Requests, RejectRequest(r) \/ RefuseRequest(r) \/ SubmitRequest(r)
      PROVE  Healthy' \/ faults' > faults
  <2>1. CASE RejectRequest(r)
    <3>1. relay' = relay \/ faults' > faults
      BY <1>1, <2>1, AnswerCounted DEF RejectRequest
    <3>2. UNCHANGED <<kwin, script, daemon, toDaemon, toScript, parked>>
      BY <2>1 DEF RejectRequest, parkVars
    <3>. QED  BY <1>1, <3>1, <3>2, NothingMovesSteady, StaysSo
  <2>2. CASE RefuseRequest(r)
    <3>1. PICK fate \in Fates, bad \in BOOLEAN :
            Fault(bad) /\ (bad \/ fate = "written") /\ Answer(r, "BUSY", NoRequest, fate) /\ relay
      BY <2>2, Zenon DEF RefuseRequest
    <3>2. relay' = relay \/ faults' > faults
      BY <1>1, <3>1, AnswerCounted
    <3>3. UNCHANGED <<kwin, script, daemon, toDaemon, toScript, parked>>
      BY <2>2 DEF RefuseRequest, parkVars
    <3>. QED  BY <1>1, <3>2, <3>3, NothingMovesSteady, StaysSo
  <2>3. CASE SubmitRequest(r)
    <3>1. relay' = relay
      BY <2>3, SubmitTurns
    <3>2. CASE UNCHANGED <<kwin, script, daemon, toDaemon, toScript, parked>>
      BY <1>1, <3>1, <3>2, NothingMovesSteady, StaysSo
    <3>3. ASSUME NEW x, NEW l \in Lanes, Turns(l, NoPoll, x, TRUE)
          PROVE  Healthy'
      <4>1. Steady /\ UNCHANGED <<kwin, script, daemon>>
        BY <1>1, <3>3, TurnsSteady DEF Turns
      <4>. QED  BY <3>1, <4>1, StaysSo
    <3>4. \/ UNCHANGED <<kwin, script, daemon, toDaemon, toScript, parked>>
          \/ \E x : \E l \in Lanes, given \in BOOLEAN :
                Turns(l, NoPoll, x, given) /\ (given \/ faults' > faults)
      BY <2>3, SubmitTurns
    <3>. QED  BY <3>2, <3>3, <3>4
  <2>. QED  BY <1>3, <2>1, <2>2, <2>3
<1>4. ASSUME NEW s \in Slots, DeadlinePasses(s)
      PROVE  Healthy'
  <2>1. UNCHANGED <<kwin, script, daemon, relay, toDaemon, toScript, parked>>
    BY <1>4 DEF DeadlinePasses, busVars, parkVars
  <2>. QED  BY <1>1, <2>1, NothingMovesSteady, StaysSo
<1>5. ASSUME NEW l \in Lanes, IdleTimer(l)
      PROVE  Healthy' \/ faults' > faults
  <2>1. PICK x : \E given \in BOOLEAN :
            Turns(l, NoPoll, x, given) /\ (given \/ faults' > faults) /\ relay' = relay
    BY <1>5, IdleTurns
  <2>2. CASE Turns(l, NoPoll, x, TRUE)
    <3>1. Steady /\ UNCHANGED <<kwin, script, daemon>>
      BY <1>1, <2>2, TurnsSteady DEF Turns
    <3>. QED  BY <2>1, <3>1, StaysSo
  <2>. QED  BY <2>1, <2>2
<1>6. CASE RelayBreaks
  BY <1>1, <1>6, FaultCounted DEF RelayBreaks
<1>7. CASE DaemonStep
  <2>1. CASE RefuseCall
    <3>1. Drops /\ relay' = relay
      BY <2>1, RefusalDrops
    <3>2. Steady
      BY <1>1, <2>1, <3>1, DropsSteady, RefusedIsForeign
    <3>. QED  BY <3>1, <3>2, StaysSo DEF Drops
  <2>2. CASE ReportInterrupted
    BY <1>1, <2>2, FaultCounted DEF ReportInterrupted
  <2>3. ASSUME NEW m, NEW x, Serves(m, x, TRUE), relay' = relay
        PROVE  Healthy'
    <3>1. Steady /\ UNCHANGED <<kwin, script, daemon>>
      BY <1>1, <2>3, ServesSteady DEF Serves
    <3>. QED  BY <2>3, <3>1, StaysSo
  <2>4. CASE HandleHello
    <3>1. PICK m, x : \E given \in BOOLEAN :
            Serves(m, x, given) /\ (given \/ faults' > faults) /\ relay' = relay
      BY <2>4, HelloServes
    <3>. QED  BY <2>3, <3>1
  <2>5. CASE HandlePollWork
    <3>1. PICK m, x : \E given \in BOOLEAN :
            Serves(m, x, given) /\ (given \/ faults' > faults) /\ relay' = relay
      BY <2>5, PollServes
    <3>. QED  BY <2>3, <3>1
  <2>6. CASE HandleReport
    <3>1. PICK m, x : Serves(m, x, TRUE) /\ (relay' = relay \/ faults' > faults)
      BY <2>6, ReportServes
    <3>. QED  BY <2>3, <3>1
  <2>7. CASE HandlePollPark
    <3>1. PICK x : \E l \in Lanes, p \in Nat : Turns(l, p, x, TRUE) /\ relay' = relay
      BY <2>7, ParkTurns
    <3>2. PICK l \in Lanes, p \in Nat : Turns(l, p, x, TRUE) /\ relay' = relay
      BY <3>1
    <3>3. Steady
      BY <1>1, <3>2, TurnsSteady
    <3>4. UNCHANGED <<kwin, script, daemon>>
      BY <3>2 DEF Turns
    <3>. QED  BY <3>2, <3>3, <3>4, StaysSo
  <2>. QED  BY <1>7, <2>1, <2>2, <2>4, <2>5, <2>6, <2>7 DEF DaemonStep
<1>8. CASE ScriptStep
  <2>1. ~OnHello
    <3>1. ASSUME OnHello
          PROVE  FALSE
      <4>1. Head(toScript) \in Range(toScript) /\ Head(toScript).kind = "Hello"
        BY <1>1, <3>1, Left DEF OnHello, Callback
      <4>2. script.gen = 0 /\ daemon.gen # 0
        BY <1>1, <4>1, GreetingsIs DEF Wires
      <4>. QED  BY <1>2, <4>2
    <3>. QED  BY <3>1
  <2>2. ASSUME NEW x, Responds(x), relay' = relay
        PROVE  Healthy'
    <3>1. Steady /\ UNCHANGED <<kwin, script, daemon>>
      BY <1>1, <1>2, <2>2, RespondsSteady DEF Responds
    <3>. QED  BY <2>2, <3>1, StaysSo
  <2>. QED  BY <1>8, <2>1, <2>2, BatchResponds, AckResponds DEF ScriptStep
<1>9. CASE Restart
  <2>1. CASE ScriptReloaded \/ CompositorRestarts \/ StopOnRequest
    BY <1>1, <2>1, FaultCounted DEF ScriptReloaded, CompositorRestarts, StopOnRequest
  <2>2. ~NameAcquired /\ ~StopAfterRelayFailure /\ ~StopAfterCompositorChange /\ ~DaemonStarts
    BY <1>2 DEF NameAcquired, StopAfterRelayFailure, StopAfterCompositorChange, DaemonStarts
  <2>. QED  BY <1>9, <2>1, <2>2 DEF Restart
<1>. QED  BY <1>3, <1>4, <1>5, <1>6, <1>7, <1>8, <1>9 DEF Next

LEMMA InitWires ==
    ASSUME Init
    PROVE  Wires /\ Grip
<1>1. /\ toDaemon = <<>> /\ toScript = <<>> /\ daemon.gen = 1 /\ script.gen = 0 /\ ~script.running
      /\ \A l \in Lanes : parked[l] = NoPoll
  BY DEF Init
<1>2. Range(toDaemon) = {} /\ Range(toScript) = {}
  BY <1>1, NoOffers
<1>3. Count(toDaemon, HelloCalls(script.load)) = 0 /\ Count(toScript, HelloReplies) = 0
  <2>1. \A C : Count(<<>>, C) = 0
    BY FS_EmptySet DEF Count
  <2>. QED  BY <1>1, <2>1
<1>4. Greetings <= 1
  BY <1>1, <1>3 DEF Greetings, Mark
<1>5. Wires
  BY <1>1, <1>2, <1>4 DEF Wires, PollFits
<1>6. Grip
  BY <1>1, <1>2 DEF Grip, DescribedOnce
<1>. QED  BY <1>5, <1>6

\* Only a fault takes a lane away: a step of a healthy channel leaves each lane
\* of the script with exactly one call, on its way, parked or being answered,
\* or it is a fault (handle_call, release_park, pollLane, on_name_acquired).
THEOREM StaysHealthyCorrect == Spec => StaysHealthy
<1>1. Init => IInv /\ Wires /\ Grip
  BY InitInductive, InitWires
<1>2. IInv /\ Wires /\ Grip /\ [Next]_vars => (IInv /\ Wires /\ Grip)'
  BY StepInductive, StepWires, StepGrip
<1>3. IInv /\ Wires /\ Grip /\ [Next]_vars => [Healthy => Healthy' \/ faults' > faults]_vars
  BY StepInductive, StepHealthy
<1>. QED  BY <1>1, <1>2, <1>3, PTL DEF Spec, StaysHealthy
=============================================================================
