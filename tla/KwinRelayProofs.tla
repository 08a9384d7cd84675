-------------------------- MODULE KwinRelayProofs --------------------------
(***************************************************************************)
(* Proofs about KwinRelay, for every finite set of threads, every set of   *)
(* slots and any number of calls.                                          *)
(***************************************************************************)
EXTENDS KwinRelay, FiniteSetTheorems, TLAPS

-----------------------------------------------------------------------------
(* The invariants the properties follow from. *)

\* A thread holds the writer's or the reader's role.
IsWriter(c) == caller[c].pc \in {"writing", "written"}
IsReader(c) == caller[c].pc \in {"reading", "deliver", "readback"}

\* The flags name the one thread that holds a role, if any, and sleepers wait
\* for a role that is taken, on a relay that works.
Roles ==
    /\ \A c \in Callers : IsWriter(c) => relay.writing
    /\ \A c, d \in Callers : IsWriter(c) /\ IsWriter(d) => c = d
    /\ relay.writing => \E c \in Callers : IsWriter(c)
    /\ \A c \in Callers : IsReader(c) => relay.reading
    /\ \A c, d \in Callers : IsReader(c) /\ IsReader(d) => c = d
    /\ relay.reading => \E c \in Callers : IsReader(c)
    /\ \A c \in Callers :
        /\ caller[c].pc = "sleep" => relay.reading
        /\ caller[c].pc = "sendsleep" => relay.writing
        /\ caller[c].pc \in {"sleep", "sendsleep"} => ~relay.broken

\* A thread inside the call has a slot of its own, which is active and whose id
\* no other active slot has.
Ownership ==
    /\ relay.next_id > 0
    /\ \A c \in Callers :
        /\ caller[c].pc \in {"out", "held", "returned"} <=> caller[c].slot = NoSlot
        /\ caller[c].slot # NoSlot => pending[caller[c].slot].active
    /\ \A c, d \in Callers :
        caller[c].slot # NoSlot /\ caller[c].slot = caller[d].slot => c = d
    /\ \A s \in Slots : pending[s].active =>
        pending[s].id > 0 /\ pending[s].id < relay.next_id
    /\ \A s, t \in Slots :
        pending[s].active /\ pending[t].active /\ pending[s].id = pending[t].id
        => s = t

\* The frames between the writer's hands and the reader's.
FramesIn(queue) == {queue[i] : i \in 1 .. Len(queue)}
InFlight ==
    FramesIn(requests) \cup work \cup FramesIn(responses)
        \cup {caller[c].frame : c \in {d \in Callers : caller[d].pc = "deliver"}}

\* A frame whose id a waiting call has belongs to that call, and so does the
\* answer that was put into its slot.
Matching ==
    /\ \A f \in InFlight : f.id < relay.next_id /\ f.call \in reached
    /\ \A f \in InFlight, c \in Callers :
        caller[c].slot # NoSlot /\ pending[caller[c].slot].id = f.id
        => f.call = Call(c)
    /\ \A c \in Callers :
        caller[c].slot # NoSlot /\ pending[caller[c].slot].done
        => pending[caller[c].slot].answer = Call(c) /\ Call(c) \in reached

\* What was written is known from the thread's own record; the numbers of a
\* thread's calls grow.
Written ==
    /\ \A call \in reached : call \in Callers \X Nat /\ call[2] <= caller[call[1]].n
    /\ \A c \in Callers :
        /\ caller[c].pc # "out" /\ ~caller[c].attempted => Call(c) \notin reached
        /\ caller[c].attempted /\ caller[c].pc \notin {"writing", "written"}
           => Call(c) \in reached \/ relay.broken
        /\ caller[c].sent => Call(c) \in reached
        /\ caller[c].pc \in {"held", "send", "sendsleep"} => ~caller[c].attempted
        /\ caller[c].pc \in {"writing", "written"} => caller[c].attempted
        /\ caller[c].sent => caller[c].attempted
        /\ caller[c].outcome # "none" => caller[c].pc = "returned"

\* The threads that hold a reference.
Users == {c \in Callers : caller[c].pc # "out"}

IInv ==
    /\ TypeOK
    /\ Roles
    /\ Ownership
    /\ Matching
    /\ Written
    /\ RefsExact
    /\ AnswersMatch
    /\ BusyMeansNeverWritten

-----------------------------------------------------------------------------
(* Type correctness. *)

LEMMA CallerTyped ==
    ASSUME TypeOK, NEW c \in Callers
    PROVE  caller[c] \in CallerRecord
BY DEF TypeOK

LEMMA EmptyRecords ==
    FreeSlot \in SlotRecord /\ NewCaller \in CallerRecord /\ NoFrame \in Frames
BY DEF FreeSlot, SlotRecord, NewCaller, CallerRecord, NoFrame, Frames, Calls,
       NoCall, Stages, Outcomes, NoSlot

\* A broadcast moves sleepers and changes nothing else.
LEMMA AwakeType ==
    ASSUME NEW f \in [Callers -> CallerRecord]
    PROVE  Awake(f) \in [Callers -> CallerRecord]
BY DEF Awake, CallerRecord, Stages

\* The call a thread is making is a call.
LEMMA CallType ==
    ASSUME TypeOK, NEW c \in Callers
    PROVE  Call(c) \in Calls
BY DEF TypeOK, CallerRecord, Call, Calls

\* A thread's step keeps the records' type if its new record has it.
LEMMA StepType ==
    ASSUME TypeOK, NEW c \in Callers, NEW r \in CallerRecord,
           Step(c, r) \/ StepAndBroadcast(c, r)
    PROVE  caller' \in [Callers -> CallerRecord]
<1>1. [caller EXCEPT ![c] = r] \in [Callers -> CallerRecord]
  BY DEF TypeOK
<1>. QED  BY <1>1, AwakeType DEF Step, StepAndBroadcast

RelayType ==
    [writing: BOOLEAN, reading: BOOLEAN, broken: BOOLEAN, shut: BOOLEAN,
     refs: Nat, next_id: Nat, freed: BOOLEAN]

\* The lowest free slot is a slot.
LEMMA LowestSlot ==
    ASSUME NEW free \in SUBSET Slots, free # {}
    PROVE  (CHOOSE s \in free : \A t \in free : s <= t) \in free
<1>1. free \subseteq Nat
  BY SlotsOK
<1>2. \E s \in free : \A t \in free : s <= t
  <2>. DEFINE less == OpToRel(<, Nat)
  <2>1. PICK s \in free : \A t \in free : <<t, s>> \notin less
    BY <1>1, NatLessThanWellFounded, WFMin
  <2>2. less = {ss \in Nat \X Nat : ss[1] < ss[2]}
    BY DEF OpToRel
  <2>. HIDE DEF less
  <2>3. ASSUME NEW t \in free PROVE s <= t
    <3>1. <<t, s>> \in Nat \X Nat /\ ~(t < s)
      BY <1>1, <2>1, <2>2
    <3>. QED  BY <3>1
  <2>. QED  BY <2>3
<1>. QED  BY <1>2

\* What Begin does: it refuses, or takes the slot s.
LEMMA BeginCases ==
    ASSUME TypeOK, NEW c \in Callers, Begin(c)
    PROVE  \/ /\ relay.broken
              /\ Return(c, "UNAVAILABLE") /\ UNCHANGED <<relay, pending>>
           \/ Return(c, "BUSY") /\ UNCHANGED <<relay, pending>>
           \/ \E s \in Slots :
                /\ ~relay.broken /\ ~pending[s].active
                /\ pending' = [pending EXCEPT ![s] =
                     [FreeSlot EXCEPT !.active = TRUE, !.id = relay.next_id]]
                /\ relay' = [relay EXCEPT !.next_id = @ + 1]
                /\ Step(c, [caller[c] EXCEPT !.pc = "send", !.slot = s])
<1>. DEFINE free == {s \in Slots : ~pending[s].active}
            s == CHOOSE s \in free : \A t \in free : s <= t
<1>1. free # {} => s \in free
  BY LowestSlot
<1>2. CASE ~relay.broken /\ free # {}
  BY <1>1, <1>2 DEF Begin, RequestId
<1>. QED  BY <1>2 DEF Begin

\* A reference that exists can be dropped.
LEMMA DroppedType ==
    ASSUME relay \in RelayType, relay.refs > 0
    PROVE  /\ Dropped \in RelayType
           /\ Dropped = [relay EXCEPT !.refs = relay.refs - 1,
                                      !.freed = relay.refs = 1]
<1>1. \A n \in Nat, b \in BOOLEAN : [relay EXCEPT !.refs = n, !.freed = b] \in RelayType
  BY DEF RelayType
<1>2. relay.refs - 1 \in Nat /\ (relay.refs = 1) \in BOOLEAN
  BY DEF RelayType
<1>. QED  BY <1>1, <1>2 DEF Dropped

\* Whoever holds a reference is counted.
LEMMA Counted ==
    ASSUME TypeOK, RefsExact
    PROVE  /\ IsFiniteSet(Users) /\ Cardinality(Users) \in Nat
           /\ \A c \in Callers : caller[c].pc # "out" => Cardinality(Users) > 0
           /\ relay.refs = Cardinality(Users) + (IF registered = "no" THEN 0 ELSE 1)
<1>1. IsFiniteSet(Users) /\ Cardinality(Users) \in Nat
  BY CallersFinite, FS_Subset, FS_CardinalityType DEF Users
<1>2. ASSUME NEW c \in Callers, caller[c].pc # "out"
      PROVE  Cardinality(Users) > 0
  <2>1. Users # {}
    BY <1>2 DEF Users
  <2>. QED  BY <1>1, <2>1, FS_EmptySet
<1>. QED  BY <1>1, <1>2 DEF RefsExact, Users

LEMMA ThreadStepType ==
    ASSUME TypeOK, Ownership, RefsExact, NEW c \in Callers, ThreadStep(c)
    PROVE  TypeOK'
<1>. DEFINE r == caller[c]
<1>a. /\ r \in CallerRecord
      /\ relay \in RelayType
  BY DEF TypeOK, RelayType
<1>b. caller[c].pc \in {"writing", "wait"} =>
        r.slot \in Slots /\ pending[r.slot] \in SlotRecord
  BY <1>a DEF Ownership, CallerRecord, TypeOK
<1>. USE DEF channel
<1>1. CASE Begin(c)
  <2>0. UNCHANGED <<registered, channel, reached>>
    BY <1>1 DEF Begin
  <2>1. \A o \in Outcomes : [r EXCEPT !.pc = "returned", !.outcome = o] \in CallerRecord
    BY <1>a DEF CallerRecord, Stages
  <2>2. CASE \E o \in {"UNAVAILABLE", "BUSY"} : Return(c, o) /\ UNCHANGED <<relay, pending>>
    <3>1. caller' \in [Callers -> CallerRecord]
      BY <2>1, <2>2, StepType DEF Return, Outcomes
    <3>. QED  BY <2>0, <2>2, <3>1 DEF TypeOK
  <2>3. ASSUME NEW s \in Slots,
               pending' = [pending EXCEPT ![s] =
                  [FreeSlot EXCEPT !.active = TRUE, !.id = relay.next_id]],
               relay' = [relay EXCEPT !.next_id = @ + 1],
               Step(c, [r EXCEPT !.pc = "send", !.slot = s])
        PROVE  TypeOK'
    <3>1. [FreeSlot EXCEPT !.active = TRUE, !.id = relay.next_id] \in SlotRecord
      BY <1>a, EmptyRecords DEF SlotRecord, RelayType
    <3>2. pending' \in [Slots -> SlotRecord]
      BY <2>3, <3>1 DEF TypeOK
    <3>3. [r EXCEPT !.pc = "send", !.slot = s] \in CallerRecord
      BY <1>a DEF CallerRecord, Stages
    <3>4. caller' \in [Callers -> CallerRecord]
      BY <2>3, <3>3, StepType
    <3>5. relay' \in RelayType
      BY <1>a, <2>3 DEF RelayType
    <3>. QED  BY <2>0, <3>2, <3>4, <3>5 DEF TypeOK, RelayType
  <2>. QED  BY <1>1, <2>2, <2>3, BeginCases
<1>2. CASE SendWait(c)
  <2>1. [r EXCEPT !.pc = "sendsleep"] \in CallerRecord
    BY <1>a DEF CallerRecord, Stages
  <2>2. caller' \in [Callers -> CallerRecord]
    BY <1>2, <2>1, StepType DEF SendWait
  <2>. QED  BY <1>2, <2>2 DEF SendWait, TypeOK
<1>3. CASE SendGate(c)
  <2>1. /\ [r EXCEPT !.pc = "writing", !.attempted = TRUE] \in CallerRecord
        /\ [r EXCEPT !.pc = "wait"] \in CallerRecord
    BY <1>a DEF CallerRecord, Stages
  <2>2. caller' \in [Callers -> CallerRecord]
    BY <1>3, <2>1, StepType DEF SendGate
  <2>3. relay' \in RelayType
    BY <1>a, <1>3 DEF SendGate, RelayType
  <2>. QED  BY <1>3, <2>2, <2>3 DEF SendGate, TypeOK, RelayType
<1>4. CASE Write(c)
  <2>1. /\ [r EXCEPT !.pc = "written", !.sent = TRUE] \in CallerRecord
        /\ [r EXCEPT !.pc = "written"] \in CallerRecord
    BY <1>a DEF CallerRecord, Stages
  <2>2. caller' \in [Callers -> CallerRecord]
    BY <1>4, <2>1, StepType DEF Write
  <2>3. reached' \subseteq Calls
    BY <1>4, CallType DEF Write, TypeOK
  <2>4. requests' \in Seq(Frames)
    <3>1. CASE UNCHANGED requests
      BY <3>1 DEF TypeOK
    <3>2. CASE requests' = Append(requests,
                 [id |-> pending[caller[c].slot].id, call |-> Call(c)])
      <4>1. pending[caller[c].slot].id \in Nat
        BY <1>4, <1>b DEF Write, SlotRecord
      <4>2. [id |-> pending[caller[c].slot].id, call |-> Call(c)] \in Frames
        BY <4>1, CallType DEF Frames
      <4>. QED  BY <3>2, <4>2 DEF TypeOK
    <3>. QED  BY <1>4, <3>1, <3>2 DEF Write
  <2>. QED  BY <1>4, <2>2, <2>3, <2>4 DEF Write, TypeOK
<1>5. CASE WriteDone(c)
  <2>1. [r EXCEPT !.pc = "wait"] \in CallerRecord
    BY <1>a DEF CallerRecord, Stages
  <2>2. caller' \in [Callers -> CallerRecord]
    BY <1>5, <2>1, StepType DEF WriteDone
  <2>3. relay' \in RelayType
    BY <1>a, <1>5 DEF WriteDone, RelayType, CallerRecord
  <2>. QED  BY <1>5, <2>2, <2>3 DEF WriteDone, TypeOK, RelayType
<1>6. CASE StartRead(c)
  <2>1. [r EXCEPT !.pc = "reading"] \in CallerRecord
    BY <1>a DEF CallerRecord, Stages
  <2>2. caller' \in [Callers -> CallerRecord]
    BY <1>6, <2>1, StepType DEF StartRead
  <2>3. relay' \in RelayType
    BY <1>a, <1>6 DEF StartRead, RelayType
  <2>. QED  BY <1>6, <2>2, <2>3 DEF StartRead, TypeOK, RelayType
<1>7. CASE Sleep(c)
  <2>1. [r EXCEPT !.pc = "sleep"] \in CallerRecord
    BY <1>a DEF CallerRecord, Stages
  <2>2. caller' \in [Callers -> CallerRecord]
    BY <1>7, <2>1, StepType DEF Sleep
  <2>. QED  BY <1>7, <2>2 DEF Sleep, TypeOK
<1>8. CASE ReadFrame(c)
  <2>1. Head(responses) \in Frames /\ Tail(responses) \in Seq(Frames)
    BY <1>8 DEF ReadFrame, TypeOK
  <2>2. [r EXCEPT !.pc = "deliver", !.frame = Head(responses)] \in CallerRecord
    BY <1>a, <2>1 DEF CallerRecord, Stages
  <2>3. caller' \in [Callers -> CallerRecord]
    BY <1>8, <2>2, StepType DEF ReadFrame
  <2>. QED  BY <1>8, <2>1, <2>3 DEF ReadFrame, TypeOK
<1>9. CASE ReadNothing(c)
  <2>1. \A ok \in BOOLEAN : [r EXCEPT !.pc = "readback", !.ok = ok] \in CallerRecord
    BY <1>a DEF CallerRecord, Stages
  <2>2. caller' \in [Callers -> CallerRecord]
    BY <1>9, <2>1, StepType DEF ReadNothing
  <2>. QED  BY <1>9, <2>2 DEF ReadNothing, TypeOK
<1>10. CASE Deliver(c)
  <2>1. [r EXCEPT !.pc = "readback", !.frame = NoFrame] \in CallerRecord
    BY <1>a, EmptyRecords DEF CallerRecord, Stages
  <2>2. caller' \in [Callers -> CallerRecord]
    BY <1>10, <2>1, StepType DEF Deliver
  <2>3. ASSUME NEW s \in Slots
        PROVE  [pending[s] EXCEPT !.done = TRUE, !.answer = r.frame.call] \in SlotRecord
    <3>1. r.frame.call \in Calls
      BY <1>a DEF CallerRecord, Frames
    <3>2. pending[s] \in SlotRecord
      BY DEF TypeOK
    <3>. QED  BY <3>1, <3>2 DEF SlotRecord
  <2>4. pending' \in [Slots -> SlotRecord]
    BY <1>10, <2>3 DEF Deliver, TypeOK
  <2>. QED  BY <1>10, <2>2, <2>4 DEF Deliver, TypeOK
<1>11. CASE ReadBack(c)
  <2>1. [r EXCEPT !.pc = "wait", !.ok = TRUE] \in CallerRecord
    BY <1>a DEF CallerRecord, Stages
  <2>2. caller' \in [Callers -> CallerRecord]
    BY <1>11, <2>1, StepType DEF ReadBack
  <2>3. relay' \in RelayType
    BY <1>a, <1>11 DEF ReadBack, RelayType, CallerRecord
  <2>. QED  BY <1>11, <2>2, <2>3 DEF ReadBack, TypeOK, RelayType
<1>12. CASE Finish(c)
  <2>1. r.slot \in Slots
    BY <1>12, <1>b DEF Finish
  <2>2. PICK o \in Reports(c) :
          StepAndBroadcast(c, [r EXCEPT !.pc = "returned", !.slot = NoSlot,
                                 !.outcome = o, !.answer = pending[r.slot].answer])
    BY <1>12 DEF Finish
  <2>3. o \in Outcomes
    BY DEF Reports, Outcomes
  <2>4. pending[r.slot].answer \in Calls
    BY <2>1 DEF TypeOK, SlotRecord
  <2>5. [r EXCEPT !.pc = "returned", !.slot = NoSlot, !.outcome = o,
                  !.answer = pending[r.slot].answer] \in CallerRecord
    BY <1>a, <2>3, <2>4 DEF CallerRecord, Stages
  <2>6. caller' \in [Callers -> CallerRecord]
    BY <2>2, <2>5, StepType
  <2>7. pending' \in [Slots -> SlotRecord]
    BY <1>12, EmptyRecords DEF Finish, TypeOK
  <2>. QED  BY <1>12, <2>6, <2>7 DEF Finish, TypeOK
<1>13. CASE Release(c)
  <2>1. [NewCaller EXCEPT !.n = r.n] \in CallerRecord
    BY <1>a, EmptyRecords DEF CallerRecord
  <2>2. caller' \in [Callers -> CallerRecord]
    BY <1>13, <2>1, StepType DEF Release
  <2>3. relay' \in RelayType
    <3>1. relay.refs \in Nat /\ relay.refs > 0
      BY <1>13, <1>a, Counted DEF Release, RelayType
    <3>. QED  BY <1>a, <1>13, <3>1, DroppedType DEF Release
  <2>. QED  BY <1>13, <2>2, <2>3 DEF Release, TypeOK, RelayType
<1>. QED
  BY <1>1, <1>2, <1>3, <1>4, <1>5, <1>6, <1>7, <1>8, <1>9, <1>10, <1>11,
     <1>12, <1>13 DEF ThreadStep

LEMMA NextType ==
    ASSUME TypeOK, Ownership, RefsExact, [Next]_vars
    PROVE  TypeOK'
<1>a. relay \in RelayType
  BY DEF TypeOK, RelayType
<1>. USE DEF channel
<1>1. ASSUME NEW c \in Callers, ThreadStep(c) PROVE TypeOK'
  BY <1>1, ThreadStepType
<1>2. ASSUME NEW c \in Callers, Acquire(c) PROVE TypeOK'
  <2>1. [NewCaller EXCEPT !.pc = "held", !.n = caller[c].n + 1] \in CallerRecord
    <3>1. caller[c].n + 1 \in Nat
      BY DEF TypeOK, CallerRecord
    <3>. QED  BY <3>1, EmptyRecords DEF CallerRecord, Stages
  <2>2. caller' \in [Callers -> CallerRecord]
    BY <1>2, <2>1, StepType DEF Acquire
  <2>3. relay' \in RelayType
    BY <1>a, <1>2 DEF Acquire, RelayType
  <2>. QED  BY <1>2, <2>2, <2>3 DEF Acquire, TypeOK, RelayType
<1>3. ASSUME NEW c \in Callers, Expire(c) PROVE TypeOK'
  <2>1. [caller[c] EXCEPT !.expired = TRUE] \in CallerRecord
    BY CallerTyped DEF CallerRecord
  <2>2. caller' \in [Callers -> CallerRecord]
    BY <1>3, <2>1, StepType DEF Expire
  <2>. QED  BY <1>3, <2>2 DEF Expire, TypeOK
<1>4. ASSUME NEW c \in Callers, Wake(c) PROVE TypeOK'
  <2>1. \A p \in {"wait", "send"} : [caller[c] EXCEPT !.pc = p] \in CallerRecord
    BY CallerTyped DEF CallerRecord, Stages
  <2>2. caller' \in [Callers -> CallerRecord]
    BY <1>4, <2>1, StepType DEF Wake
  <2>. QED  BY <1>4, <2>2 DEF Wake, TypeOK
<1>5. CASE Retire
  <2>1. relay' \in RelayType
    BY <1>a, <1>5 DEF Retire, RelayType
  <2>. QED  BY <1>5, <2>1, AwakeType DEF Retire, TypeOK, RelayType
<1>6. CASE RetireRelease
  <2>1. relay.refs > 0
    BY <1>6, Counted DEF RetireRelease
  <2>. QED  BY <1>a, <1>6, <2>1, DroppedType DEF RetireRelease, TypeOK, RelayType
<1>7. CASE DaemonReceives
  BY <1>7 DEF DaemonReceives, TypeOK
<1>8. CASE DaemonAnswers
  BY <1>8 DEF DaemonAnswers, TypeOK
<1>9. CASE DaemonCloses
  BY <1>9 DEF DaemonCloses, TypeOK
<1>10. CASE UNCHANGED vars
  BY <1>10 DEF vars, TypeOK
<1>. QED
  BY <1>1, <1>2, <1>3, <1>4, <1>5, <1>6, <1>7, <1>8, <1>9, <1>10
     DEF Next, Terminated

-----------------------------------------------------------------------------
(* What a step leaves alone. *)

\* How a record may differ from an older one after a broadcast.
Woken(old, new) ==
    /\ new.slot = old.slot /\ new.n = old.n /\ new.attempted = old.attempted
    /\ new.sent = old.sent /\ new.frame = old.frame
    /\ new.outcome = old.outcome /\ new.answer = old.answer
    /\ \/ new.pc = old.pc
       \/ old.pc = "sleep" /\ new.pc = "wait"
       \/ old.pc = "sendsleep" /\ new.pc = "send"
Kept(d) == Woken(caller[d], caller'[d])

\* A broadcast, thread by thread.
LEMMA AwakeEffect ==
    ASSUME NEW f \in [Callers -> CallerRecord], NEW d \in Callers
    PROVE  /\ Woken(f[d], Awake(f)[d])
           /\ Awake(f)[d].pc \notin {"sleep", "sendsleep"}
           /\ f[d].pc \notin {"sleep", "sendsleep"} => Awake(f)[d] = f[d]
<1>1. f[d] \in CallerRecord
  OBVIOUS
<1>2. [f[d] EXCEPT !.pc = f[d].pc] = f[d]
  BY <1>1 DEF CallerRecord
<1>3. CASE f[d].pc = "sleep"
  <2>1. Awake(f)[d] = [f[d] EXCEPT !.pc = "wait"]
    BY <1>3 DEF Awake
  <2>. QED  BY <1>1, <1>3, <2>1 DEF CallerRecord, Woken
<1>4. CASE f[d].pc = "sendsleep"
  <2>1. Awake(f)[d] = [f[d] EXCEPT !.pc = "send"]
    BY <1>4 DEF Awake
  <2>. QED  BY <1>1, <1>4, <2>1 DEF CallerRecord, Woken
<1>5. CASE f[d].pc \notin {"sleep", "sendsleep"}
  <2>1. Awake(f)[d] = f[d]
    BY <1>2, <1>5 DEF Awake
  <2>. QED  BY <1>5, <2>1 DEF Woken
<1>. QED  BY <1>3, <1>4, <1>5

\* A thread's step gives it its new record and leaves the others theirs.
LEMMA StepEffect ==
    ASSUME TypeOK, NEW c \in Callers, NEW r \in CallerRecord, Step(c, r)
    PROVE  /\ caller'[c] = r
           /\ \A d \in Callers : d # c => caller'[d] = caller[d]
           /\ \A d \in Callers : d # c => Kept(d)
<1>1. caller'[c] = r /\ \A d \in Callers : d # c => caller'[d] = caller[d]
  BY DEF TypeOK, Step
<1>. QED  BY <1>1 DEF Kept, Woken

\* With a broadcast it also wakes them.
LEMMA BroadcastEffect ==
    ASSUME TypeOK, NEW c \in Callers, NEW r \in CallerRecord,
           StepAndBroadcast(c, r), r.pc \notin {"sleep", "sendsleep"}
    PROVE  /\ caller'[c] = r
           /\ \A d \in Callers : d # c => Kept(d)
           /\ \A d \in Callers : caller'[d].pc \notin {"sleep", "sendsleep"}
<1>. DEFINE f == [caller EXCEPT ![c] = r]
<1>1. f \in [Callers -> CallerRecord] /\ f[c] = r
  BY DEF TypeOK
<1>2. \A d \in Callers : d # c => f[d] = caller[d]
  BY DEF TypeOK
<1>3. caller' = Awake(f)
  BY DEF StepAndBroadcast
<1>. HIDE DEF f
<1>. QED  BY <1>1, <1>2, <1>3, AwakeEffect DEF Kept


\* A thread's record after its step: only where it is has changed, or that and
\* the fields named.
Same(c) ==
    /\ caller'[c].slot = caller[c].slot /\ caller'[c].n = caller[c].n
    /\ caller'[c].frame = caller[c].frame
    /\ caller'[c].outcome = caller[c].outcome /\ caller'[c].answer = caller[c].answer
Flags(c) == caller'[c].attempted = caller[c].attempted /\ caller'[c].sent = caller[c].sent
Others(c) == \A d \in Callers : d # c => caller'[d] = caller[d]
OthersKept(c) == \A d \in Callers : d # c => Kept(d)
NobodySleeps == \A d \in Callers : caller'[d].pc \notin {"sleep", "sendsleep"}

\* A step that leaves the others alone keeps their records.
LEMMA OthersAreKept ==
    ASSUME NEW c, Others(c)
    PROVE  OthersKept(c)
BY DEF Others, OthersKept, Kept, Woken

\* What each step of a thread does to the threads' records.
LEMMA RefusedEffect ==
    ASSUME TypeOK, NEW c \in Callers, NEW o \in Outcomes, Return(c, o)
    PROVE  /\ caller'[c].pc = "returned" /\ caller'[c].outcome = o
           /\ caller'[c].slot = caller[c].slot /\ caller'[c].n = caller[c].n
           /\ caller'[c].answer = caller[c].answer
           /\ Flags(c) /\ Others(c)
<1>1. [caller[c] EXCEPT !.pc = "returned", !.outcome = o] \in CallerRecord
  BY CallerTyped DEF CallerRecord, Stages
<1>2. caller'[c] = [caller[c] EXCEPT !.pc = "returned", !.outcome = o] /\ Others(c)
  BY <1>1, StepEffect DEF Return, Others
<1>3. caller[c] \in CallerRecord
  BY DEF TypeOK
<1>. QED  BY <1>2, <1>3 DEF Flags, CallerRecord

LEMMA TakenEffect ==
    ASSUME TypeOK, NEW c \in Callers, NEW s \in Slots,
           Step(c, [caller[c] EXCEPT !.pc = "send", !.slot = s])
    PROVE  /\ caller'[c].pc = "send" /\ caller'[c].slot = s
           /\ caller'[c].n = caller[c].n /\ caller'[c].outcome = caller[c].outcome
           /\ caller'[c].answer = caller[c].answer
           /\ Flags(c) /\ Others(c)
<1>1. [caller[c] EXCEPT !.pc = "send", !.slot = s] \in CallerRecord
  BY CallerTyped DEF CallerRecord, Stages
<1>2. caller'[c] = [caller[c] EXCEPT !.pc = "send", !.slot = s] /\ Others(c)
  BY <1>1, StepEffect DEF Others
<1>3. caller[c] \in CallerRecord
  BY DEF TypeOK
<1>. QED  BY <1>2, <1>3 DEF Flags, CallerRecord

LEMMA SendWaitEffect ==
    ASSUME TypeOK, NEW c \in Callers, SendWait(c)
    PROVE  caller'[c].pc = "sendsleep" /\ Same(c) /\ Flags(c) /\ Others(c)
<1>1. [caller[c] EXCEPT !.pc = "sendsleep"] \in CallerRecord
  BY CallerTyped DEF CallerRecord, Stages
<1>2. caller'[c] = [caller[c] EXCEPT !.pc = "sendsleep"] /\ Others(c)
  BY <1>1, StepEffect DEF SendWait, Others
<1>3. caller[c] \in CallerRecord
  BY DEF TypeOK
<1>. QED  BY <1>2, <1>3 DEF SendWait, Same, Flags, CallerRecord

LEMMA SendGateEffect ==
    ASSUME TypeOK, NEW c \in Callers, SendGate(c)
    PROVE  /\ Same(c) /\ Others(c) /\ caller'[c].sent = caller[c].sent
           /\ \/ /\ caller'[c].pc = "writing" /\ caller'[c].attempted
                 /\ ~relay.writing /\ ~relay.broken
                 /\ relay' = [relay EXCEPT !.writing = TRUE]
              \/ /\ caller'[c].pc = "wait" /\ Flags(c)
                 /\ UNCHANGED relay
<1>1. /\ [caller[c] EXCEPT !.pc = "writing", !.attempted = TRUE] \in CallerRecord
      /\ [caller[c] EXCEPT !.pc = "wait"] \in CallerRecord
  BY CallerTyped DEF CallerRecord, Stages
<1>2. caller[c] \in CallerRecord
  BY DEF TypeOK
<1>3. CASE UNCHANGED relay /\ Step(c, [caller[c] EXCEPT !.pc = "wait"])
  <2>1. caller'[c] = [caller[c] EXCEPT !.pc = "wait"] /\ Others(c)
    BY <1>1, <1>3, StepEffect DEF Others
  <2>. QED  BY <1>2, <1>3, <2>1 DEF Same, Flags, CallerRecord
<1>4. CASE /\ ~relay.writing /\ ~relay.broken
           /\ relay' = [relay EXCEPT !.writing = TRUE]
           /\ Step(c, [caller[c] EXCEPT !.pc = "writing", !.attempted = TRUE])
  <2>1. /\ caller'[c] = [caller[c] EXCEPT !.pc = "writing", !.attempted = TRUE]
        /\ Others(c)
    BY <1>1, <1>4, StepEffect DEF Others
  <2>. QED  BY <1>2, <1>4, <2>1 DEF Same, CallerRecord
<1>. QED  BY <1>3, <1>4 DEF SendGate

LEMMA WriteEffect ==
    ASSUME TypeOK, NEW c \in Callers, Write(c)
    PROVE  /\ caller'[c].pc = "written" /\ Same(c) /\ Others(c)
           /\ caller'[c].attempted = caller[c].attempted
           /\ \/ /\ requests' = Append(requests,
                        [id |-> pending[caller[c].slot].id, call |-> Call(c)])
                 /\ caller'[c].sent /\ reached' = reached \cup {Call(c)}
              \/ /\ UNCHANGED requests /\ Flags(c)
                 /\ reached' = reached \/ reached' = reached \cup {Call(c)}
<1>1. /\ [caller[c] EXCEPT !.pc = "written", !.sent = TRUE] \in CallerRecord
      /\ [caller[c] EXCEPT !.pc = "written"] \in CallerRecord
  BY CallerTyped DEF CallerRecord, Stages
<1>2. caller[c] \in CallerRecord
  BY DEF TypeOK
<1>3. CASE /\ requests' = Append(requests,
                  [id |-> pending[caller[c].slot].id, call |-> Call(c)])
           /\ reached' = reached \cup {Call(c)}
           /\ Step(c, [caller[c] EXCEPT !.pc = "written", !.sent = TRUE])
  <2>1. /\ caller'[c] = [caller[c] EXCEPT !.pc = "written", !.sent = TRUE]
        /\ Others(c)
    BY <1>1, <1>3, StepEffect DEF Others
  <2>. QED  BY <1>2, <1>3, <2>1 DEF Same, CallerRecord
<1>4. CASE /\ UNCHANGED requests /\ Step(c, [caller[c] EXCEPT !.pc = "written"])
           /\ reached' = reached \/ reached' = reached \cup {Call(c)}
  <2>1. caller'[c] = [caller[c] EXCEPT !.pc = "written"] /\ Others(c)
    BY <1>1, <1>4, StepEffect DEF Others
  <2>. QED  BY <1>2, <1>4, <2>1 DEF Same, Flags, CallerRecord
<1>. QED  BY <1>3, <1>4 DEF Write

LEMMA WriteDoneEffect ==
    ASSUME TypeOK, NEW c \in Callers, WriteDone(c)
    PROVE  caller'[c].pc = "wait" /\ Same(c) /\ Flags(c) /\ OthersKept(c) /\ NobodySleeps
<1>1. [caller[c] EXCEPT !.pc = "wait"] \in CallerRecord
  BY CallerTyped DEF CallerRecord, Stages
<1>2. caller'[c] = [caller[c] EXCEPT !.pc = "wait"] /\ OthersKept(c) /\ NobodySleeps
  <2>1. ([caller[c] EXCEPT !.pc = "wait"]).pc \notin {"sleep", "sendsleep"}
    BY DEF TypeOK, CallerRecord
  <2>. QED  BY <1>1, <2>1, BroadcastEffect DEF WriteDone, Others, OthersKept, NobodySleeps
<1>3. caller[c] \in CallerRecord
  BY DEF TypeOK
<1>. QED  BY <1>2, <1>3 DEF WriteDone, Same, Flags, CallerRecord

LEMMA StartReadEffect ==
    ASSUME TypeOK, NEW c \in Callers, StartRead(c)
    PROVE  caller'[c].pc = "reading" /\ Same(c) /\ Flags(c) /\ Others(c)
<1>1. [caller[c] EXCEPT !.pc = "reading"] \in CallerRecord
  BY CallerTyped DEF CallerRecord, Stages
<1>2. caller'[c] = [caller[c] EXCEPT !.pc = "reading"] /\ Others(c)
  BY <1>1, StepEffect DEF StartRead, Others
<1>3. caller[c] \in CallerRecord
  BY DEF TypeOK
<1>. QED  BY <1>2, <1>3 DEF StartRead, Same, Flags, CallerRecord

LEMMA SleepEffect ==
    ASSUME TypeOK, NEW c \in Callers, Sleep(c)
    PROVE  caller'[c].pc = "sleep" /\ Same(c) /\ Flags(c) /\ Others(c)
<1>1. [caller[c] EXCEPT !.pc = "sleep"] \in CallerRecord
  BY CallerTyped DEF CallerRecord, Stages
<1>2. caller'[c] = [caller[c] EXCEPT !.pc = "sleep"] /\ Others(c)
  BY <1>1, StepEffect DEF Sleep, Others
<1>3. caller[c] \in CallerRecord
  BY DEF TypeOK
<1>. QED  BY <1>2, <1>3 DEF Sleep, Same, Flags, CallerRecord

LEMMA ReadFrameEffect ==
    ASSUME TypeOK, NEW c \in Callers, ReadFrame(c)
    PROVE  /\ caller'[c].pc = "deliver" /\ caller'[c].frame = Head(responses)
           /\ caller'[c].slot = caller[c].slot /\ caller'[c].n = caller[c].n
           /\ caller'[c].outcome = caller[c].outcome
           /\ caller'[c].answer = caller[c].answer
           /\ Flags(c) /\ Others(c)
<1>1. [caller[c] EXCEPT !.pc = "deliver", !.frame = Head(responses)] \in CallerRecord
  <2>1. Head(responses) \in Frames
    BY DEF ReadFrame, TypeOK
  <2>. QED  BY <2>1, CallerTyped DEF CallerRecord, Stages
<1>2. caller'[c] = [caller[c] EXCEPT !.pc = "deliver", !.frame = Head(responses)] /\ Others(c)
  BY <1>1, StepEffect DEF ReadFrame, Others
<1>3. caller[c] \in CallerRecord
  BY DEF TypeOK
<1>. QED  BY <1>2, <1>3 DEF ReadFrame, Same, Flags, CallerRecord

LEMMA ReadNothingEffect ==
    ASSUME TypeOK, NEW c \in Callers, ReadNothing(c)
    PROVE  caller'[c].pc = "readback" /\ Same(c) /\ Flags(c) /\ Others(c)
<1>1. PICK ok \in BOOLEAN : Step(c, [caller[c] EXCEPT !.pc = "readback", !.ok = ok])
  BY DEF ReadNothing
<1>2. [caller[c] EXCEPT !.pc = "readback", !.ok = ok] \in CallerRecord
  BY CallerTyped DEF CallerRecord, Stages
<1>3. caller'[c] = [caller[c] EXCEPT !.pc = "readback", !.ok = ok] /\ Others(c)
  BY <1>1, <1>2, StepEffect DEF Others
<1>4. caller[c] \in CallerRecord
  BY DEF TypeOK
<1>. QED  BY <1>3, <1>4 DEF Same, Flags, CallerRecord

LEMMA DeliverEffect ==
    ASSUME TypeOK, NEW c \in Callers, Deliver(c)
    PROVE  /\ caller'[c].pc = "readback"
           /\ caller'[c].slot = caller[c].slot /\ caller'[c].n = caller[c].n
           /\ caller'[c].outcome = caller[c].outcome
           /\ caller'[c].answer = caller[c].answer
           /\ Flags(c) /\ Others(c)
<1>1. [caller[c] EXCEPT !.pc = "readback", !.frame = NoFrame] \in CallerRecord
  BY CallerTyped, EmptyRecords DEF CallerRecord, Stages
<1>2. caller'[c] = [caller[c] EXCEPT !.pc = "readback", !.frame = NoFrame] /\ Others(c)
  BY <1>1, StepEffect DEF Deliver, Others
<1>3. caller[c] \in CallerRecord
  BY DEF TypeOK
<1>. QED  BY <1>2, <1>3 DEF Deliver, Same, Flags, CallerRecord

LEMMA ReadBackEffect ==
    ASSUME TypeOK, NEW c \in Callers, ReadBack(c)
    PROVE  caller'[c].pc = "wait" /\ Same(c) /\ Flags(c) /\ OthersKept(c) /\ NobodySleeps
<1>1. [caller[c] EXCEPT !.pc = "wait", !.ok = TRUE] \in CallerRecord
  BY CallerTyped DEF CallerRecord, Stages
<1>2. caller'[c] = [caller[c] EXCEPT !.pc = "wait", !.ok = TRUE] /\ OthersKept(c) /\ NobodySleeps
  <2>1. ([caller[c] EXCEPT !.pc = "wait", !.ok = TRUE]).pc \notin {"sleep", "sendsleep"}
    BY DEF TypeOK, CallerRecord
  <2>. QED  BY <1>1, <2>1, BroadcastEffect DEF ReadBack, Others, OthersKept, NobodySleeps
<1>3. caller[c] \in CallerRecord
  BY DEF TypeOK
<1>. QED  BY <1>2, <1>3 DEF ReadBack, Same, Flags, CallerRecord

LEMMA FinishEffect ==
    ASSUME TypeOK, Ownership, NEW c \in Callers, Finish(c)
    PROVE  /\ caller'[c].pc = "returned" /\ caller'[c].slot = NoSlot
           /\ caller'[c].n = caller[c].n /\ caller'[c].outcome \in Reports(c)
           /\ caller'[c].answer = pending[caller[c].slot].answer
           /\ Flags(c) /\ OthersKept(c) /\ NobodySleeps
<1>. DEFINE a == pending[caller[c].slot].answer
            done(o) == [caller[c] EXCEPT !.pc = "returned", !.slot = NoSlot,
                                         !.outcome = o, !.answer = a]
<1>1. caller[c] \in CallerRecord
  BY DEF TypeOK
<1>2. a \in Calls
  <2>1. caller[c].slot \in Slots
    BY <1>1 DEF Finish, Ownership, CallerRecord
  <2>. QED  BY <2>1 DEF TypeOK, SlotRecord
<1>3. PICK o \in Reports(c) : StepAndBroadcast(c, done(o))
  BY DEF Finish
<1>4. o \in Outcomes
  BY DEF Reports, Outcomes
<1>. HIDE DEF a
<1>5. done(o) \in CallerRecord /\ done(o).pc = "returned"
  BY <1>1, <1>2, <1>4 DEF CallerRecord, Stages
<1>6. caller'[c] = done(o) /\ OthersKept(c) /\ NobodySleeps
  BY <1>3, <1>5, BroadcastEffect DEF OthersKept, NobodySleeps
<1>. QED  BY <1>1, <1>6 DEF Flags, CallerRecord, a

LEMMA ReleaseEffect ==
    ASSUME TypeOK, NEW c \in Callers, Release(c)
    PROVE  /\ caller'[c].pc = "out" /\ caller'[c].slot = NoSlot
           /\ caller'[c].n = caller[c].n /\ caller'[c].outcome = "none"
           /\ ~caller'[c].attempted /\ ~caller'[c].sent /\ Others(c)
<1>1. [NewCaller EXCEPT !.n = caller[c].n] \in CallerRecord
  BY EmptyRecords DEF TypeOK, CallerRecord
<1>2. caller'[c] = [NewCaller EXCEPT !.n = caller[c].n] /\ Others(c)
  BY <1>1, StepEffect DEF Release, Others
<1>3. caller[c] \in CallerRecord
  BY DEF TypeOK
<1>. QED  BY <1>2, <1>3 DEF Release, Same, Flags, CallerRecord, NewCaller

LEMMA AcquireEffect ==
    ASSUME TypeOK, NEW c \in Callers, Acquire(c)
    PROVE  /\ caller'[c].pc = "held" /\ caller'[c].slot = NoSlot
           /\ caller'[c].n = caller[c].n + 1 /\ caller'[c].outcome = "none"
           /\ ~caller'[c].attempted /\ ~caller'[c].sent /\ Others(c)
<1>1. [NewCaller EXCEPT !.pc = "held", !.n = caller[c].n + 1] \in CallerRecord
  <2>1. caller[c].n + 1 \in Nat
    BY DEF TypeOK, CallerRecord
  <2>. QED  BY <2>1, EmptyRecords DEF CallerRecord, Stages
<1>2. caller'[c] = [NewCaller EXCEPT !.pc = "held", !.n = caller[c].n + 1] /\ Others(c)
  BY <1>1, StepEffect DEF Acquire, Others
<1>3. caller[c] \in CallerRecord
  BY DEF TypeOK
<1>. QED  BY <1>2, <1>3 DEF Acquire, Same, Flags, CallerRecord, NewCaller

LEMMA ExpireEffect ==
    ASSUME TypeOK, NEW c \in Callers, Expire(c)
    PROVE  caller'[c].pc = caller[c].pc /\ Same(c) /\ Flags(c) /\ Others(c)
<1>1. [caller[c] EXCEPT !.expired = TRUE] \in CallerRecord
  BY CallerTyped DEF CallerRecord, Stages
<1>2. caller'[c] = [caller[c] EXCEPT !.expired = TRUE] /\ Others(c)
  BY <1>1, StepEffect DEF Expire, Others
<1>3. caller[c] \in CallerRecord
  BY DEF TypeOK
<1>. QED  BY <1>2, <1>3 DEF Expire, Same, Flags, CallerRecord

LEMMA WakeEffect ==
    ASSUME TypeOK, NEW c \in Callers, Wake(c)
    PROVE  Kept(c) /\ Others(c)
<1>1. PICK p \in {"wait", "send"} : /\ Step(c, [caller[c] EXCEPT !.pc = p])
                                    /\ caller[c].pc = "sleep" => p = "wait"
                                    /\ caller[c].pc = "sendsleep" => p = "send"
  BY DEF Wake
<1>2. caller[c] \in CallerRecord
  BY DEF TypeOK
<1>3. [caller[c] EXCEPT !.pc = p] \in CallerRecord
  BY <1>2 DEF CallerRecord, Stages
<1>4. caller'[c] = [caller[c] EXCEPT !.pc = p] /\ Others(c)
  BY <1>1, <1>3, StepEffect DEF Others
<1>. QED  BY <1>1, <1>2, <1>4 DEF Kept, Woken, CallerRecord, Wake

-----------------------------------------------------------------------------
(* The roles. *)

\* The flags of the relay that the roles are about.
RoleFlags(writing, reading, broken) ==
    /\ relay'.writing = writing /\ relay'.reading = reading
    /\ relay'.broken = broken
SameRoleFlags == RoleFlags(relay.writing, relay.reading, relay.broken)

LEMMA ThreadStepRoles ==
    ASSUME TypeOK, Ownership, Roles, NEW c \in Callers, ThreadStep(c)
    PROVE  Roles'
<1>a. relay \in RelayType
  BY DEF TypeOK, RelayType
<1>. USE DEF Roles, IsWriter, IsReader, Others, OthersKept, NobodySleeps, RoleFlags,
             SameRoleFlags
<1>1. CASE Begin(c)
  <2>1. caller[c].pc = "held"
    BY <1>1 DEF Begin
  <2>2. CASE \E o \in {"UNAVAILABLE", "BUSY"} : Return(c, o) /\ UNCHANGED <<relay, pending>>
    BY <2>1, <2>2, RefusedEffect DEF Outcomes
  <2>3. ASSUME NEW s \in Slots, relay' = [relay EXCEPT !.next_id = @ + 1],
               Step(c, [caller[c] EXCEPT !.pc = "send", !.slot = s])
        PROVE  Roles'
    <3>1. SameRoleFlags
      BY <1>a, <2>3 DEF RelayType
    <3>2. caller'[c].pc = "send" /\ Others(c)
      BY <2>3, TakenEffect
    <3>. QED  BY <2>1, <3>1, <3>2
  <2>. QED  BY <1>1, <2>2, <2>3, BeginCases
<1>2. CASE SendWait(c)
  BY <1>2, SendWaitEffect DEF SendWait
<1>3. CASE SendGate(c)
  <2>1. CASE caller'[c].pc = "wait" /\ UNCHANGED relay
    <3>1. Others(c)
      BY <1>3, SendGateEffect
    <3>2. caller[c].pc = "send"
      BY <1>3 DEF SendGate
    <3>. QED  BY <2>1, <3>1, <3>2
  <2>2. CASE /\ caller'[c].pc = "writing" /\ ~relay.writing
             /\ relay' = [relay EXCEPT !.writing = TRUE]
    <3>1. RoleFlags(TRUE, relay.reading, relay.broken)
      BY <1>a, <2>2 DEF RelayType
    <3>2. Others(c)
      BY <1>3, SendGateEffect
    <3>. QED  BY <1>3, <2>2, <3>1, <3>2 DEF SendGate
  <2>. QED  BY <1>3, <2>1, <2>2, SendGateEffect
<1>4. CASE Write(c)
  <2>1. caller'[c].pc = "written" /\ Others(c)
    BY <1>4, WriteEffect
  <2>2. caller[c].pc = "writing" /\ UNCHANGED relay
    BY <1>4 DEF Write
  <2>. QED  BY <2>1, <2>2
<1>5. CASE WriteDone(c)
  <2>1. RoleFlags(FALSE, relay.reading, relay.broken \/ ~caller[c].sent)
    BY <1>5, <1>a DEF WriteDone, RelayType
  <2>2. caller'[c].pc = "wait" /\ OthersKept(c) /\ NobodySleeps
    BY <1>5, WriteDoneEffect
  <2>. QED  BY <1>5, <2>1, <2>2 DEF WriteDone, Kept, Woken
<1>6. CASE StartRead(c)
  <2>1. RoleFlags(relay.writing, TRUE, relay.broken)
    BY <1>6, <1>a DEF StartRead, RelayType
  <2>2. caller'[c].pc = "reading" /\ Others(c)
    BY <1>6, StartReadEffect
  <2>. QED  BY <1>6, <2>1, <2>2 DEF StartRead
<1>7. CASE Sleep(c)
  BY <1>7, SleepEffect DEF Sleep, Finished
<1>8. CASE ReadFrame(c)
  <2>1. /\ caller[c].pc = "reading" /\ caller'[c].pc = "deliver"
        /\ Others(c) /\ UNCHANGED relay
    BY <1>8, ReadFrameEffect DEF ReadFrame
  <2>. QED  BY <2>1
<1>9. CASE ReadNothing(c)
  <2>1. /\ caller[c].pc = "reading" /\ caller'[c].pc = "readback"
        /\ Others(c) /\ UNCHANGED relay
    BY <1>9, ReadNothingEffect DEF ReadNothing
  <2>. QED  BY <2>1
<1>10. CASE Deliver(c)
  <2>1. /\ caller[c].pc = "deliver" /\ caller'[c].pc = "readback"
        /\ Others(c) /\ UNCHANGED relay
    BY <1>10, DeliverEffect DEF Deliver
  <2>. QED  BY <2>1
<1>11. CASE ReadBack(c)
  <2>1. RoleFlags(relay.writing, FALSE, relay.broken \/ ~caller[c].ok)
    BY <1>11, <1>a DEF ReadBack, RelayType
  <2>2. caller'[c].pc = "wait" /\ OthersKept(c) /\ NobodySleeps
    BY <1>11, ReadBackEffect
  <2>. QED  BY <1>11, <2>1, <2>2 DEF ReadBack, Kept, Woken
<1>12. CASE Finish(c)
  <2>1. caller'[c].pc = "returned" /\ OthersKept(c) /\ NobodySleeps
    BY <1>12, FinishEffect
  <2>. QED  BY <1>12, <2>1 DEF Finish, Kept, Woken
<1>13. CASE Release(c)
  <2>1. SameRoleFlags
    BY <1>13, <1>a DEF Release, Dropped, RelayType
  <2>2. caller'[c].pc = "out" /\ Others(c)
    BY <1>13, ReleaseEffect
  <2>. QED  BY <1>13, <2>1, <2>2 DEF Release
<1>. QED
  BY <1>1, <1>2, <1>3, <1>4, <1>5, <1>6, <1>7, <1>8, <1>9, <1>10, <1>11,
     <1>12, <1>13 DEF ThreadStep

LEMMA NextRoles ==
    ASSUME TypeOK, Ownership, Roles, [Next]_vars
    PROVE  Roles'
<1>a. relay \in RelayType
  BY DEF TypeOK, RelayType
<1>. USE DEF Roles, IsWriter, IsReader, Others, RoleFlags, SameRoleFlags
<1>1. ASSUME NEW c \in Callers, ThreadStep(c) PROVE Roles'
  BY <1>1, ThreadStepRoles
<1>2. ASSUME NEW c \in Callers, Acquire(c) PROVE Roles'
  <2>1. SameRoleFlags
    BY <1>a, <1>2 DEF Acquire, RelayType
  <2>2. caller'[c].pc = "held" /\ Others(c)
    BY <1>2, AcquireEffect
  <2>. QED  BY <1>2, <2>1, <2>2 DEF Acquire
<1>3. ASSUME NEW c \in Callers, Expire(c) PROVE Roles'
  <2>1. \A d \in Callers : caller'[d].pc = caller[d].pc
    BY <1>3, ExpireEffect
  <2>. QED  BY <1>3, <2>1 DEF Expire
<1>4. ASSUME NEW c \in Callers, Wake(c) PROVE Roles'
  <2>1. \A d \in Callers : caller'[d].pc = caller[d].pc \/ caller'[d].pc \in {"wait", "send"}
    BY <1>4, WakeEffect DEF Kept, Woken
  <2>2. Kept(c) /\ Others(c)
    BY <1>4, WakeEffect
  <2>. QED  BY <1>4, <2>1, <2>2 DEF Wake, Kept, Woken
<1>5. CASE Retire
  <2>1. \A d \in Callers : Kept(d) /\ caller'[d].pc \notin {"sleep", "sendsleep"}
    BY <1>5, AwakeEffect DEF Retire, TypeOK, Kept
  <2>2. relay'.writing = relay.writing /\ relay'.reading = relay.reading
    BY <1>a, <1>5 DEF Retire, RelayType
  <2>. QED  BY <2>1, <2>2 DEF Kept, Woken
<1>6. CASE RetireRelease
  <2>1. SameRoleFlags
    BY <1>a, <1>6 DEF RetireRelease, Dropped, RelayType
  <2>. QED  BY <1>6, <2>1 DEF RetireRelease
<1>7. CASE UNCHANGED <<caller, relay>>
  BY <1>7
<1>. QED
  BY <1>1, <1>2, <1>3, <1>4, <1>5, <1>6, <1>7
     DEF Next, Terminated, vars, DaemonReceives, DaemonAnswers, DaemonCloses

-----------------------------------------------------------------------------
(* Slots. *)

Outside == {"out", "held", "returned"}

\* A step in which nobody enters or leaves the call keeps who owns what.
LEMMA OwnershipKept ==
    ASSUME TypeOK, Ownership, relay'.next_id = relay.next_id,
           \A d \in Callers : /\ caller'[d].slot = caller[d].slot
                              /\ caller'[d].pc \in Outside <=> caller[d].pc \in Outside,
           \A s \in Slots : /\ pending'[s].active = pending[s].active
                            /\ pending'[s].id = pending[s].id
    PROVE  Ownership'
<1>1. \A d \in Callers : caller[d].slot \in Slots \cup {NoSlot}
  BY DEF TypeOK, CallerRecord
<1>. QED  BY <1>1 DEF Ownership, Outside

\* Records that are kept are on the same side.
LEMMA KeptSides ==
    ASSUME NEW d, Kept(d)
    PROVE  /\ caller'[d].slot = caller[d].slot
           /\ caller'[d].pc \in Outside <=> caller[d].pc \in Outside
BY DEF Kept, Woken, Outside

LEMMA NextOwnership ==
    ASSUME TypeOK, Ownership, [Next]_vars
    PROVE  Ownership'
<1>a. relay \in RelayType
  BY DEF TypeOK, RelayType
<1>b. \A d \in Callers : caller[d].slot \in Slots \cup {NoSlot}
  BY DEF TypeOK, CallerRecord
<1>. DEFINE Side(c) == /\ caller'[c].slot = caller[c].slot
                       /\ caller'[c].pc \in Outside <=> caller[c].pc \in Outside
<1>1. ASSUME NEW c \in Callers, Begin(c) PROVE Ownership'
  <2>1. caller[c].pc = "held"
    BY <1>1 DEF Begin
  <2>2. CASE \E o \in {"UNAVAILABLE", "BUSY"} : Return(c, o) /\ UNCHANGED <<relay, pending>>
    <3>1. Side(c) /\ OthersKept(c)
      BY <2>1, <2>2, RefusedEffect, OthersAreKept DEF Outcomes, Outside
    <3>. QED  BY <2>2, <3>1, KeptSides, OwnershipKept DEF OthersKept
  <2>3. ASSUME NEW s \in Slots, ~pending[s].active,
               pending' = [pending EXCEPT ![s] =
                  [FreeSlot EXCEPT !.active = TRUE, !.id = relay.next_id]],
               relay' = [relay EXCEPT !.next_id = @ + 1],
               Step(c, [caller[c] EXCEPT !.pc = "send", !.slot = s])
        PROVE  Ownership'
    <3>1. caller'[c].pc = "send" /\ caller'[c].slot = s /\ Others(c)
      BY <2>3, TakenEffect
    <3>2. relay'.next_id = relay.next_id + 1 /\ relay.next_id \in Nat
      BY <1>a, <2>3 DEF RelayType
    <3>3. /\ pending'[s].active /\ pending'[s].id = relay.next_id
          /\ \A t \in Slots : t # s => pending'[t] = pending[t]
      BY <2>3 DEF TypeOK, FreeSlot
    <3>4. s # NoSlot /\ \A t \in Slots : pending[t].id \in Nat
      BY SlotsOK DEF NoSlot, TypeOK, SlotRecord
    <3>. QED  BY <1>b, <2>1, <2>3, <3>1, <3>2, <3>3, <3>4 DEF Ownership, Others
  <2>. QED  BY <1>1, <2>2, <2>3, BeginCases
<1>2. ASSUME NEW c \in Callers, Finish(c) PROVE Ownership'
  <2>1. caller'[c].pc = "returned" /\ caller'[c].slot = NoSlot /\ OthersKept(c)
    BY <1>2, FinishEffect
  <2>2. \A d \in Callers : d # c => Side(d)
    BY <2>1, KeptSides DEF OthersKept
  <2>3. /\ ~pending'[caller[c].slot].active
        /\ \A t \in Slots : t # caller[c].slot => pending'[t] = pending[t]
        /\ caller[c].slot \in Slots
    BY <1>2, <1>b DEF Finish, TypeOK, FreeSlot, Ownership
  <2>. QED  BY <1>2, <1>b, <2>1, <2>2, <2>3 DEF Finish, Ownership, Outside
<1>3. ASSUME NEW c \in Callers, Deliver(c) PROVE Ownership'
  <2>1. Side(c) /\ OthersKept(c)
    BY <1>3, DeliverEffect, OthersAreKept DEF Deliver, Outside
  <2>2. \A t \in Slots : pending'[t].active = pending[t].active /\ pending'[t].id = pending[t].id
    BY <1>3 DEF Deliver, TypeOK, SlotRecord
  <2>. QED  BY <1>3, <2>1, <2>2, KeptSides, OwnershipKept DEF Deliver, OthersKept
<1>4. ASSUME NEW c \in Callers, Acquire(c) \/ Release(c) PROVE Ownership'
  <2>1. Side(c) /\ OthersKept(c)
    BY <1>4, AcquireEffect, ReleaseEffect, OthersAreKept
       DEF Acquire, Release, Outside, Ownership
  <2>2. relay'.next_id = relay.next_id /\ UNCHANGED pending
    BY <1>4, <1>a DEF Acquire, Release, Dropped, RelayType
  <2>. QED  BY <2>1, <2>2, KeptSides, OwnershipKept DEF OthersKept
<1>5. ASSUME NEW c \in Callers,
             SendWait(c) \/ SendGate(c) \/ Write(c) \/ WriteDone(c) \/ StartRead(c)
             \/ Sleep(c) \/ ReadFrame(c) \/ ReadNothing(c) \/ ReadBack(c) \/ Expire(c)
      PROVE  Ownership'
  <2>1. Side(c) /\ OthersKept(c)
    <3>. USE OthersAreKept DEF Same, Outside
    <3>1. CASE SendWait(c)     BY <3>1, SendWaitEffect DEF SendWait
    <3>2. CASE SendGate(c)     BY <3>2, SendGateEffect DEF SendGate
    <3>3. CASE Write(c)        BY <3>3, WriteEffect DEF Write
    <3>4. CASE WriteDone(c)    BY <3>4, WriteDoneEffect DEF WriteDone
    <3>5. CASE StartRead(c)    BY <3>5, StartReadEffect DEF StartRead
    <3>6. CASE Sleep(c)        BY <3>6, SleepEffect DEF Sleep
    <3>7. CASE ReadFrame(c)    BY <3>7, ReadFrameEffect DEF ReadFrame
    <3>8. CASE ReadNothing(c)  BY <3>8, ReadNothingEffect DEF ReadNothing
    <3>9. CASE ReadBack(c)     BY <3>9, ReadBackEffect DEF ReadBack
    <3>10. CASE Expire(c)      BY <3>10, ExpireEffect
    <3>. QED  BY <1>5, <3>1, <3>2, <3>3, <3>4, <3>5, <3>6, <3>7, <3>8, <3>9, <3>10
  <2>2. relay'.next_id = relay.next_id
    BY <1>5, <1>a DEF SendWait, SendGate, Write, WriteDone, StartRead, Sleep,
                      ReadFrame, ReadNothing, ReadBack, Expire, RelayType
  <2>3. UNCHANGED pending
    BY <1>5 DEF SendWait, SendGate, Write, WriteDone, StartRead, Sleep,
                ReadFrame, ReadNothing, ReadBack, Expire
  <2>. QED  BY <2>1, <2>2, <2>3, KeptSides, OwnershipKept DEF OthersKept
<1>6. ASSUME NEW c \in Callers, Wake(c) PROVE Ownership'
  <2>1. Kept(c) /\ OthersKept(c)
    BY <1>6, WakeEffect, OthersAreKept
  <2>. QED  BY <1>6, <2>1, KeptSides, OwnershipKept DEF OthersKept, Wake
<1>7. CASE Retire
  <2>1. \A d \in Callers : Kept(d)
    BY <1>7, AwakeEffect DEF Retire, TypeOK, Kept
  <2>2. relay'.next_id = relay.next_id
    BY <1>a, <1>7 DEF Retire, RelayType
  <2>. QED  BY <1>7, <2>1, <2>2, KeptSides, OwnershipKept DEF Retire
<1>8. CASE RetireRelease
  <2>1. relay'.next_id = relay.next_id
    BY <1>a, <1>8 DEF RetireRelease, Dropped, RelayType
  <2>. QED  BY <1>8, <2>1, OwnershipKept DEF RetireRelease
<1>9. CASE UNCHANGED <<relay, pending, caller>>
  BY <1>9, OwnershipKept
<1>. QED
  BY <1>1, <1>2, <1>3, <1>4, <1>5, <1>6, <1>7, <1>8, <1>9
     DEF Next, ThreadStep, Terminated, vars, DaemonReceives, DaemonAnswers,
         DaemonCloses

-----------------------------------------------------------------------------
(* Frames. *)

\* What a queue holds after one is added or taken.
LEMMA QueueFrames ==
    ASSUME NEW q \in Seq(Frames)
    PROVE  /\ \A f \in Frames : FramesIn(Append(q, f)) \subseteq FramesIn(q) \cup {f}
           /\ q # <<>> => Head(q) \in FramesIn(q) /\ FramesIn(Tail(q)) \subseteq FramesIn(q)
BY DEF FramesIn

\* The frame a thread is about to deliver.
Carried == {caller[c].frame : c \in {d \in Callers : caller[d].pc = "deliver"}}

\* Threads other than c keep what they carry.
LEMMA CarriedKept ==
    ASSUME NEW c \in Callers, OthersKept(c),
           caller'[c].pc = "deliver" => caller'[c].frame \in InFlight
    PROVE  Carried' \subseteq InFlight
<1>1. ASSUME NEW d \in Callers, d # c, caller'[d].pc = "deliver"
      PROVE  caller'[d].frame \in Carried
  <2>1. caller[d].pc = "deliver" /\ caller'[d].frame = caller[d].frame
    BY <1>1 DEF OthersKept, Kept, Woken
  <2>. QED  BY <2>1 DEF Carried
<1>2. Carried \subseteq InFlight
  BY DEF Carried, InFlight
<1>. QED  BY <1>1, <1>2 DEF Carried

\* The steps of a thread that put no frame on the socket.
QuietStep(c) ==
    \/ Begin(c) \/ SendWait(c) \/ SendGate(c) \/ WriteDone(c) \/ StartRead(c)
    \/ Sleep(c) \/ ReadNothing(c) \/ Deliver(c) \/ ReadBack(c)
    \/ Finish(c) \/ Release(c) \/ Acquire(c) \/ Expire(c) \/ Wake(c)

\* What is in flight depends on the channel and on what threads carry.
LEMMA StillFrames ==
    ASSUME UNCHANGED channel, Carried' \subseteq InFlight
    PROVE  InFlight' \subseteq InFlight
BY DEF InFlight, Carried, FramesIn, channel

\* The steps of a thread that do not use the socket add no frame.
LEMMA QuietFrames ==
    ASSUME TypeOK, Ownership, NEW c \in Callers, QuietStep(c)
    PROVE  InFlight' \subseteq InFlight
<1>1. UNCHANGED channel
  BY DEF QuietStep, Begin, SendWait, SendGate, WriteDone, StartRead, Sleep, ReadNothing,
              Deliver, ReadBack, Finish, Release, Acquire, Expire, Wake
<1>2. OthersKept(c) /\ (caller'[c].pc = "deliver" =>
            caller[c].pc = "deliver" /\ caller'[c].frame = caller[c].frame)
  <2>. USE OthersAreKept DEF Same
  <2>1. CASE Begin(c)
    BY <2>1, BeginCases, RefusedEffect, TakenEffect DEF Outcomes
  <2>2. CASE SendWait(c)     BY <2>2, SendWaitEffect
  <2>3. CASE SendGate(c)     BY <2>3, SendGateEffect
  <2>4. CASE WriteDone(c)    BY <2>4, WriteDoneEffect
  <2>5. CASE StartRead(c)    BY <2>5, StartReadEffect
  <2>6. CASE Sleep(c)        BY <2>6, SleepEffect
  <2>8. CASE ReadNothing(c)  BY <2>8, ReadNothingEffect
  <2>9. CASE Deliver(c)      BY <2>9, DeliverEffect
  <2>10. CASE ReadBack(c)    BY <2>10, ReadBackEffect
  <2>11. CASE Finish(c)      BY <2>11, FinishEffect
  <2>12. CASE Release(c)     BY <2>12, ReleaseEffect
  <2>13. CASE Acquire(c)     BY <2>13, AcquireEffect
  <2>14. CASE Expire(c)      BY <2>14, ExpireEffect
  <2>15. CASE Wake(c)        BY <2>15, WakeEffect DEF Kept, Woken
  <2>. QED  BY <2>1, <2>2, <2>3, <2>4, <2>5, <2>6, <2>8, <2>9, <2>10, <2>11,
               <2>12, <2>13, <2>14, <2>15 DEF QuietStep
<1>3. caller'[c].pc = "deliver" => caller'[c].frame \in InFlight
  BY <1>2 DEF InFlight
<1>. QED  BY <1>1, <1>2, <1>3, CarriedKept, StillFrames

\* Reading moves a frame from the socket into the reader's hands.
LEMMA ReadFrames ==
    ASSUME TypeOK, NEW c \in Callers, ReadFrame(c)
    PROVE  InFlight' \subseteq InFlight
<1>1. /\ Head(responses) \in FramesIn(responses)
      /\ FramesIn(responses') \subseteq FramesIn(responses)
  BY QueueFrames DEF ReadFrame, TypeOK
<1>2. Carried' \subseteq InFlight
  <2>1. OthersKept(c) /\ caller'[c].frame = Head(responses)
    BY ReadFrameEffect, OthersAreKept
  <2>2. Head(responses) \in InFlight
    BY <1>1 DEF InFlight
  <2>. QED  BY <2>1, <2>2, CarriedKept
<1>. QED  BY <1>1, <1>2 DEF ReadFrame, InFlight, Carried, FramesIn

\* The steps that no thread takes add none either: the daemon only moves them.
LEMMA DaemonFrames ==
    ASSUME TypeOK, Retire \/ RetireRelease \/ DaemonReceives \/ DaemonAnswers
                   \/ DaemonCloses \/ UNCHANGED vars
    PROVE  InFlight' \subseteq InFlight
<1>1. CASE Retire
  <2>1. \A d \in Callers : Kept(d)
    BY <1>1, AwakeEffect DEF Retire, TypeOK, Kept
  <2>2. Carried' \subseteq Carried
    BY <2>1 DEF Carried, Kept, Woken
  <2>3. Carried \subseteq InFlight
    BY DEF Carried, InFlight
  <2>. QED  BY <1>1, <2>2, <2>3, StillFrames DEF Retire
<1>2. CASE DaemonReceives
  <2>1. Head(requests) \in FramesIn(requests) /\ FramesIn(requests') \subseteq FramesIn(requests)
    BY <1>2, QueueFrames DEF DaemonReceives, TypeOK
  <2>. QED  BY <1>2, <2>1 DEF DaemonReceives, InFlight, FramesIn
<1>3. CASE DaemonAnswers
  <2>1. PICK f \in work : /\ work' = work \ {f}
                          /\ responses' = IF relay.shut THEN responses
                                          ELSE Append(responses, f)
                          /\ UNCHANGED <<requests, caller>>
    BY <1>3 DEF DaemonAnswers
  <2>2. FramesIn(responses') \subseteq FramesIn(responses) \cup {f}
    BY <2>1, QueueFrames DEF TypeOK
  <2>. QED  BY <2>1, <2>2 DEF InFlight, FramesIn
<1>4. CASE UNCHANGED <<caller, requests, work, responses>>
  BY <1>4 DEF InFlight, FramesIn
<1>. QED
  BY <1>1, <1>2, <1>3, <1>4 DEF vars, channel, RetireRelease, DaemonCloses

\* Every frame in flight is a frame.
LEMMA InFlightType ==
    ASSUME TypeOK
    PROVE  \A f \in InFlight : f.id \in Nat
<1>1. \A f \in Frames : f.id \in Nat
  BY DEF Frames
<1>2. FramesIn(requests) \subseteq Frames /\ FramesIn(responses) \subseteq Frames
  BY DEF TypeOK, FramesIn
<1>3. \A c \in Callers : caller[c].frame \in Frames
  BY DEF TypeOK, CallerRecord
<1>. QED  BY <1>1, <1>2, <1>3 DEF InFlight, TypeOK

\* A step that adds no frame and no waiting call, and leaves the slots of the
\* waiting calls alone, keeps frames and calls matched.
LEMMA MatchingKept ==
    ASSUME TypeOK, Matching, InFlight' \subseteq InFlight, reached \subseteq reached',
           relay'.next_id = relay.next_id,
           \A d \in Callers : caller'[d].slot # NoSlot =>
              /\ caller'[d].slot = caller[d].slot /\ caller'[d].n = caller[d].n
              /\ pending'[caller[d].slot] = pending[caller[d].slot]
    PROVE  Matching'
<1>1. \A f \in InFlight' : f.id < relay'.next_id /\ f.call \in reached'
  BY DEF Matching
<1>2. \A d \in Callers : caller'[d].slot # NoSlot =>
        /\ caller[d].slot # NoSlot /\ Call(d)' = Call(d)
        /\ pending'[caller'[d].slot] = pending[caller[d].slot]
  BY DEF Call
<1>3. \A f \in InFlight', d \in Callers :
        caller'[d].slot # NoSlot /\ pending'[caller'[d].slot].id = f.id
        => f.call = Call(d)'
  BY <1>2 DEF Matching
<1>4. \A d \in Callers :
        caller'[d].slot # NoSlot /\ pending'[caller'[d].slot].done
        => pending'[caller'[d].slot].answer = Call(d)' /\ Call(d)' \in reached'
  BY <1>2 DEF Matching
<1>. QED  BY <1>1, <1>3, <1>4 DEF Matching

LEMMA BeginMatching ==
    ASSUME TypeOK, Ownership, Matching, NEW c \in Callers, Begin(c)
    PROVE  Matching'
<1>1. InFlight' \subseteq InFlight
  BY QuietFrames DEF QuietStep
<1>2. CASE \E o \in {"UNAVAILABLE", "BUSY"} : Return(c, o) /\ UNCHANGED <<relay, pending>>
  <2>1. \A d \in Callers : caller'[d].slot = caller[d].slot /\ caller'[d].n = caller[d].n
    BY <1>2, RefusedEffect DEF Outcomes, Others
  <2>. QED  BY <1>1, <1>2, <2>1, MatchingKept DEF Begin
<1>3. ASSUME NEW s \in Slots, ~pending[s].active,
             pending' = [pending EXCEPT ![s] =
                [FreeSlot EXCEPT !.active = TRUE, !.id = relay.next_id]],
             relay' = [relay EXCEPT !.next_id = @ + 1],
             Step(c, [caller[c] EXCEPT !.pc = "send", !.slot = s])
      PROVE  Matching'
  <2>1. caller'[c].slot = s /\ caller'[c].n = caller[c].n /\ Others(c)
    BY <1>3, TakenEffect
  <2>2. relay'.next_id = relay.next_id + 1 /\ relay.next_id \in Nat
    BY <1>3 DEF TypeOK
  <2>3. /\ pending'[s].id = relay.next_id /\ ~pending'[s].done
        /\ \A t \in Slots : t # s => pending'[t] = pending[t]
    BY <1>3 DEF TypeOK, FreeSlot
  <2>4. \A d \in Callers : d # c /\ caller[d].slot # NoSlot =>
          /\ caller[d].slot \in Slots /\ caller[d].slot # s
          /\ pending'[caller[d].slot] = pending[caller[d].slot]
          /\ caller'[d] = caller[d]
    BY <1>3, <2>1, <2>3 DEF Ownership, TypeOK, CallerRecord, Others
  <2>5. \A f \in InFlight : f.id \in Nat /\ f.id < relay.next_id
    BY InFlightType DEF Matching
  <2>6. \A d \in Callers : Call(d)' = Call(d)
    BY <2>1 DEF Call, Others
  <2>7. reached' = reached
    BY DEF Begin
  <2>8. \A f \in InFlight' : f.id < relay'.next_id /\ f.call \in reached'
    BY <1>1, <2>2, <2>5, <2>7 DEF Matching
  <2>9. ASSUME NEW f \in InFlight', NEW d \in Callers,
               caller'[d].slot # NoSlot /\ pending'[caller'[d].slot].id = f.id
        PROVE  f.call = Call(d)'
    <3>1. d # c
      BY <1>1, <2>1, <2>2, <2>3, <2>5, <2>9
    <3>2. caller[d].slot # NoSlot /\ pending[caller[d].slot].id = f.id
      BY <2>1, <2>4, <2>9, <3>1 DEF Others
    <3>. QED  BY <1>1, <2>6, <3>2 DEF Matching
  <2>10. ASSUME NEW d \in Callers,
                caller'[d].slot # NoSlot /\ pending'[caller'[d].slot].done
         PROVE  pending'[caller'[d].slot].answer = Call(d)' /\ Call(d)' \in reached'
    <3>1. d # c
      BY <2>1, <2>3, <2>10
    <3>. QED  BY <2>1, <2>4, <2>6, <2>7, <2>10, <3>1 DEF Matching, Others
  <2>. QED  BY <2>8, <2>9, <2>10 DEF Matching
<1>. QED  BY <1>2, <1>3, BeginCases

LEMMA WriteMatching ==
    ASSUME TypeOK, Ownership, Matching, NEW c \in Callers, Write(c)
    PROVE  Matching'
<1>. DEFINE new == [id |-> pending[caller[c].slot].id, call |-> Call(c)]
<1>1. /\ caller[c].slot \in Slots /\ caller[c].slot # NoSlot
      /\ pending[caller[c].slot].active
  BY DEF Write, Ownership, TypeOK, CallerRecord
<1>2. new \in Frames
  BY <1>1, CallType DEF Frames, TypeOK, SlotRecord
<1>3. /\ Same(c) /\ Others(c) /\ caller'[c].pc = "written"
      /\ \/ requests' = Append(requests, new) /\ reached' = reached \cup {Call(c)}
         \/ UNCHANGED requests /\ reached \subseteq reached'
      /\ UNCHANGED <<relay, pending, work, responses>>
  BY WriteEffect DEF Write
<1>. HIDE DEF new
<1>q. CASE UNCHANGED requests
  <2>1. Carried' \subseteq InFlight
    BY <1>3, CarriedKept, OthersAreKept
  <2>2. InFlight' \subseteq InFlight
    BY <1>3, <1>q, <2>1 DEF InFlight, Carried, FramesIn
  <2>3. \A d \in Callers : /\ caller'[d].slot = caller[d].slot /\ Call(d)' = Call(d)
    BY <1>3 DEF Same, Others, Call
  <2>4. reached \subseteq reached'
    BY <1>3
  <2>. QED  BY <1>3, <2>2, <2>3, <2>4 DEF Matching
<1>p. CASE requests' = Append(requests, new) /\ reached' = reached \cup {Call(c)}
  <2>4. InFlight' \subseteq InFlight \cup {new}
    <3>1. FramesIn(requests') \subseteq FramesIn(requests) \cup {new}
      BY <1>2, <1>p, QueueFrames DEF TypeOK
    <3>2. Carried' \subseteq InFlight
      BY <1>3, CarriedKept, OthersAreKept
    <3>. QED  BY <1>3, <3>1, <3>2 DEF InFlight, Carried, FramesIn
  <2>5. \A d \in Callers : /\ caller'[d].slot = caller[d].slot /\ Call(d)' = Call(d)
    BY <1>3 DEF Same, Others, Call
  <2>6. \A d \in Callers : caller[d].slot # NoSlot =>
          caller[d].slot \in Slots /\ pending[caller[d].slot].active
    BY DEF Ownership, TypeOK, CallerRecord
  <2>7. new.id = pending[caller[c].slot].id /\ new.call = Call(c)
    BY DEF new
  <2>8. new.id < relay.next_id
    BY <1>1, <2>7 DEF Ownership
  <2>9. ASSUME NEW d \in Callers, caller[d].slot # NoSlot,
               pending[caller[d].slot].id = new.id
        PROVE  new.call = Call(d)
    <3>1. caller[d].slot = caller[c].slot
      BY <1>1, <2>6, <2>7, <2>9 DEF Ownership
    <3>2. d = c
      BY <1>1, <3>1 DEF Ownership
    <3>. QED  BY <2>7, <3>2
  <2>. QED  BY <1>3, <1>p, <2>4, <2>5, <2>7, <2>8, <2>9 DEF Matching
<1>. QED  BY <1>3, <1>p, <1>q

LEMMA DeliverMatching ==
    ASSUME TypeOK, Ownership, Matching, NEW c \in Callers, Deliver(c)
    PROVE  Matching'
<1>. DEFINE f == caller[c].frame
<1>1. f \in InFlight
  BY DEF Deliver, InFlight
<1>. HIDE DEF f
<1>2. InFlight' \subseteq InFlight
  BY QuietFrames DEF QuietStep
<1>3. \A d \in Callers : caller'[d].slot = caller[d].slot /\ Call(d)' = Call(d)
  BY DeliverEffect DEF Others, Call
<1>4. relay' = relay /\ reached' = reached
  BY DEF Deliver
<1>5. \A s \in Slots :
        /\ pending'[s].id = pending[s].id
        /\ \/ pending'[s] = pending[s]
           \/ pending[s].id = f.id /\ pending'[s].answer = f.call
  BY DEF Deliver, TypeOK, SlotRecord, f
<1>6. \A d \in Callers : caller[d].slot # NoSlot => caller[d].slot \in Slots
  BY DEF TypeOK, CallerRecord
<1>7. ASSUME NEW d \in Callers, caller[d].slot # NoSlot, pending'[caller[d].slot].done
      PROVE  pending'[caller[d].slot].answer = Call(d) /\ Call(d) \in reached
  BY <1>1, <1>5, <1>6, <1>7 DEF Matching
<1>. QED  BY <1>2, <1>3, <1>4, <1>5, <1>6, <1>7 DEF Matching

\* Frames and calls stay matched by every step.
LEMMA NextMatching ==
    ASSUME TypeOK, Ownership, Matching, [Next]_vars
    PROVE  Matching'
<1>a. relay \in RelayType
  BY DEF TypeOK, RelayType
<1>. DEFINE Quiet(d) == caller'[d].slot # NoSlot =>
                          /\ caller'[d].slot = caller[d].slot
                          /\ caller'[d].n = caller[d].n
<1>b. \A d : Kept(d) => Quiet(d)
  BY DEF Kept, Woken
<1>1. ASSUME NEW c \in Callers, Begin(c) PROVE Matching'
  BY <1>1, BeginMatching
<1>2. ASSUME NEW c \in Callers, Write(c) PROVE Matching'
  BY <1>2, WriteMatching
<1>3. ASSUME NEW c \in Callers, Deliver(c) PROVE Matching'
  BY <1>3, DeliverMatching
<1>4. ASSUME NEW c \in Callers, Finish(c) PROVE Matching'
  <2>1. InFlight' \subseteq InFlight
    BY <1>4, QuietFrames DEF QuietStep
  <2>2. caller'[c].slot = NoSlot /\ OthersKept(c)
    BY <1>4, FinishEffect
  <2>3. \A d \in Callers : d # c /\ caller[d].slot # NoSlot =>
          caller[d].slot \in Slots /\ caller[d].slot # caller[c].slot
    BY DEF Ownership, TypeOK, CallerRecord
  <2>4. ASSUME NEW d \in Callers, caller'[d].slot # NoSlot
        PROVE  /\ caller'[d].slot = caller[d].slot /\ caller'[d].n = caller[d].n
               /\ pending'[caller[d].slot] = pending[caller[d].slot]
    <3>1. d # c /\ Kept(d)
      BY <2>2, <2>4 DEF OthersKept
    <3>2. caller'[d].slot = caller[d].slot /\ caller'[d].n = caller[d].n
      BY <3>1 DEF Kept, Woken
    <3>. QED  BY <1>4, <2>3, <2>4, <3>1, <3>2 DEF Finish, TypeOK
  <2>5. relay' = relay /\ reached' = reached
    BY <1>4 DEF Finish
  <2>. QED  BY <2>1, <2>4, <2>5, MatchingKept
<1>5. ASSUME NEW c \in Callers,
             SendWait(c) \/ SendGate(c) \/ WriteDone(c) \/ StartRead(c) \/ Sleep(c)
             \/ ReadFrame(c) \/ ReadNothing(c) \/ ReadBack(c) \/ Release(c)
             \/ Acquire(c) \/ Expire(c) \/ Wake(c)
      PROVE  Matching'
  <2>1. InFlight' \subseteq InFlight
    BY <1>5, QuietFrames, ReadFrames DEF QuietStep
  <2>2. relay'.next_id = relay.next_id
    BY <1>5, <1>a DEF SendWait, SendGate, WriteDone, StartRead, Sleep, ReadFrame,
         ReadNothing, ReadBack, Release, Acquire, Expire, Wake, Dropped, RelayType
  <2>3. UNCHANGED <<pending, reached>>
    BY <1>5 DEF SendWait, SendGate, WriteDone, StartRead, Sleep, ReadFrame,
         ReadNothing, ReadBack, Release, Acquire, Expire, Wake
  <2>4. Quiet(c) /\ OthersKept(c)
    <3>. USE OthersAreKept DEF Same
    <3>1. CASE SendWait(c)     BY <3>1, SendWaitEffect
    <3>2. CASE SendGate(c)     BY <3>2, SendGateEffect
    <3>3. CASE WriteDone(c)    BY <3>3, WriteDoneEffect
    <3>4. CASE StartRead(c)    BY <3>4, StartReadEffect
    <3>5. CASE Sleep(c)        BY <3>5, SleepEffect
    <3>6. CASE ReadFrame(c)    BY <3>6, ReadFrameEffect
    <3>7. CASE ReadNothing(c)  BY <3>7, ReadNothingEffect
    <3>8. CASE ReadBack(c)     BY <3>8, ReadBackEffect
    <3>9. CASE Release(c)      BY <3>9, ReleaseEffect
    <3>10. CASE Acquire(c)     BY <3>10, AcquireEffect
    <3>11. CASE Expire(c)      BY <3>11, ExpireEffect
    <3>12. CASE Wake(c)        BY <3>12, <1>b, WakeEffect
    <3>. QED  BY <1>5, <3>1, <3>2, <3>3, <3>4, <3>5, <3>6, <3>7, <3>8, <3>9, <3>10,
                 <3>11, <3>12
  <2>5. \A d \in Callers : Quiet(d)
    BY <1>b, <2>4 DEF OthersKept
  <2>. QED  BY <2>1, <2>2, <2>3, <2>5, MatchingKept
<1>6. CASE Retire \/ RetireRelease \/ DaemonReceives \/ DaemonAnswers
           \/ DaemonCloses \/ UNCHANGED vars
  <2>1. InFlight' \subseteq InFlight
    BY <1>6, DaemonFrames
  <2>2. relay'.next_id = relay.next_id
    BY <1>6, <1>a DEF Retire, RetireRelease, Dropped, DaemonReceives, DaemonAnswers,
                      DaemonCloses, vars, RelayType
  <2>3. UNCHANGED <<pending, reached>>
    BY <1>6 DEF Retire, RetireRelease, DaemonReceives, DaemonAnswers, DaemonCloses, vars
  <2>4. \A d \in Callers : Quiet(d)
    <3>1. CASE Retire
      BY <1>b, <3>1, AwakeEffect DEF Retire, TypeOK, Kept
    <3>2. CASE UNCHANGED caller
      BY <3>2
    <3>. QED  BY <1>6, <3>1, <3>2 DEF RetireRelease, DaemonReceives, DaemonAnswers,
                                      DaemonCloses, vars
  <2>. QED  BY <2>1, <2>2, <2>3, <2>4, MatchingKept
<1>. QED
  BY <1>1, <1>2, <1>3, <1>4, <1>5, <1>6 DEF Next, ThreadStep, Terminated

-----------------------------------------------------------------------------
(* What was written, and what a call reports. *)

\* What Written, AnswersMatch and BusyMeansNeverWritten say of one thread.
Accounted(c) ==
    /\ caller[c].pc # "out" /\ ~caller[c].attempted => Call(c) \notin reached
    /\ caller[c].attempted /\ caller[c].pc \notin {"writing", "written"}
       => Call(c) \in reached \/ relay.broken
    /\ caller[c].sent => Call(c) \in reached
    /\ caller[c].pc \in {"held", "send", "sendsleep"} => ~caller[c].attempted
    /\ caller[c].pc \in {"writing", "written"} => caller[c].attempted
    /\ caller[c].sent => caller[c].attempted
    /\ caller[c].outcome # "none" => caller[c].pc = "returned"
    /\ caller[c].outcome = "ANSWER" => caller[c].answer = Call(c)
    /\ caller[c].outcome \in {"BUSY", "UNAVAILABLE"} => Call(c) \notin reached
    /\ caller[c].outcome = "ANSWER" => Call(c) \in reached
    /\ caller[c].outcome = "TIMEOUT" /\ Call(c) \notin reached => relay.broken
Numbered ==
    \A call \in reached : call \in Callers \X Nat /\ call[2] <= caller[call[1]].n

LEMMA AccountsAre ==
    Numbered /\ (\A c \in Callers : Accounted(c))
    <=> Written /\ AnswersMatch /\ BusyMeansNeverWritten
BY DEF Numbered, Accounted, Written, AnswersMatch, BusyMeansNeverWritten

\* A broken relay stays broken.
Breaking == relay.broken => relay'.broken

LEMMA StaysBroken ==
    ASSUME TypeOK, [Next]_vars
    PROVE  Breaking
<1>. USE DEF Breaking
<1>a. relay \in RelayType
  BY DEF TypeOK, RelayType
<1>1. ASSUME NEW c \in Callers, Begin(c) PROVE Breaking
  BY <1>1, <1>a, BeginCases DEF RelayType
<1>2. ASSUME NEW c \in Callers,
             SendWait(c) \/ SendGate(c) \/ Write(c) \/ WriteDone(c)
             \/ StartRead(c) \/ Sleep(c) \/ ReadFrame(c) \/ ReadNothing(c)
             \/ Deliver(c) \/ ReadBack(c) \/ Finish(c) \/ Expire(c) \/ Wake(c)
      PROVE  Breaking
  BY <1>2, <1>a DEF SendWait, SendGate, Write, WriteDone, StartRead, Sleep,
       ReadFrame, ReadNothing, Deliver, ReadBack, Finish, Expire, Wake, RelayType
<1>3. ASSUME NEW c \in Callers, Acquire(c) \/ Release(c) PROVE Breaking
  BY <1>3, <1>a DEF Acquire, Release, Dropped, RelayType
<1>4. CASE Retire \/ RetireRelease
  BY <1>4, <1>a DEF Retire, RetireRelease, Dropped, RelayType
<1>5. CASE UNCHANGED relay
  BY <1>5
<1>. QED
  BY <1>1, <1>2, <1>3, <1>4, <1>5
     DEF Next, ThreadStep, Terminated, vars, DaemonReceives, DaemonAnswers, DaemonCloses

\* A thread that is at most woken stays accounted for.
LEMMA AccountKept ==
    ASSUME NEW d \in Callers, Accounted(d), Kept(d),
           Call(d) \in reached' <=> Call(d) \in reached, Breaking
    PROVE  Accounted(d)'
<1>1. Call(d)' = Call(d)
  BY DEF Kept, Woken, Call
<1>. QED  BY <1>1 DEF Kept, Woken, Accounted, Breaking

\* The steps that write nothing and begin no call keep the accounts.
LEMMA AccountsKept ==
    ASSUME \A d \in Callers : Accounted(d), Numbered, UNCHANGED reached, Breaking,
           NEW c \in Callers, OthersKept(c), caller'[c].n = caller[c].n,
           Accounted(c)'
    PROVE  Numbered' /\ \A d \in Callers : Accounted(d)'
<1>1. \A d \in Callers : caller'[d].n = caller[d].n
  BY DEF OthersKept, Kept, Woken
<1>2. Numbered'
  BY <1>1 DEF Numbered
<1>. QED  BY <1>2, AccountKept DEF OthersKept

LEMMA NextAccounts ==
    ASSUME TypeOK, Ownership, Matching, Numbered, \A d \in Callers : Accounted(d),
           [Next]_vars
    PROVE  Numbered' /\ \A d \in Callers : Accounted(d)'
<1>. DEFINE Goal == Numbered' /\ \A d \in Callers : Accounted(d)'
            Silent(c) == UNCHANGED reached /\ OthersKept(c) /\ caller'[c].n = caller[c].n
<1>br. Breaking
  BY StaysBroken
<1>a. ASSUME NEW c \in Callers, Silent(c), Accounted(c)' PROVE Goal
  BY <1>a, <1>br, AccountsKept
<1>b. \A c \in Callers : caller'[c].n = caller[c].n => Call(c)' = Call(c)
  BY DEF Call
<1>1. ASSUME NEW c \in Callers, Begin(c) PROVE Goal
  <2>1. caller[c].pc = "held" /\ UNCHANGED reached
    BY <1>1 DEF Begin
  <2>2. ASSUME NEW o \in {"UNAVAILABLE", "BUSY"}, Return(c, o) PROVE Goal
    <3>1. /\ caller'[c].pc = "returned" /\ caller'[c].outcome = o
          /\ Flags(c) /\ Silent(c)
      BY <2>1, <2>2, RefusedEffect, OthersAreKept DEF Outcomes
    <3>2. Accounted(c)'
      BY <1>b, <2>1, <3>1 DEF Accounted, Flags
    <3>. QED  BY <1>a, <3>1, <3>2
  <2>3. ASSUME NEW s \in Slots, Step(c, [caller[c] EXCEPT !.pc = "send", !.slot = s])
        PROVE  Goal
    <3>1. /\ caller'[c].pc = "send" /\ caller'[c].outcome = caller[c].outcome
          /\ Flags(c) /\ Silent(c)
      BY <2>1, <2>3, TakenEffect, OthersAreKept
    <3>2. Accounted(c)'
      BY <1>b, <2>1, <3>1 DEF Accounted, Flags
    <3>. QED  BY <1>a, <3>1, <3>2
  <2>. QED  BY <1>1, <2>2, <2>3, BeginCases
<1>2. ASSUME NEW c \in Callers, SendGate(c) PROVE Goal
  <2>1. caller[c].pc = "send" /\ Silent(c)
    BY <1>2, SendGateEffect, OthersAreKept DEF SendGate, Same
  <2>2. /\ caller'[c].outcome = caller[c].outcome
        /\ caller'[c].sent = caller[c].sent
        /\ \/ caller'[c].pc = "writing" /\ caller'[c].attempted
           \/ caller'[c].pc = "wait" /\ caller'[c].attempted = caller[c].attempted
    BY <1>2, SendGateEffect DEF Same, Flags
  <2>3. Accounted(c)'
    BY <1>b, <2>1, <2>2 DEF Accounted
  <2>. QED  BY <1>a, <2>1, <2>3
<1>3. ASSUME NEW c \in Callers, Write(c) PROVE Goal
  <2>1. /\ caller[c].pc = "writing" /\ caller'[c].pc = "written"
        /\ Same(c) /\ OthersKept(c) /\ caller'[c].attempted = caller[c].attempted
        /\ reached' = reached \/ reached' = reached \cup {Call(c)}
        /\ caller'[c].sent => caller[c].sent \/ Call(c) \in reached'
    BY <1>3, WriteEffect, OthersAreKept DEF Write, Flags
  <2>2. \A d \in Callers : caller'[d].n = caller[d].n
    BY <2>1 DEF Same, OthersKept, Kept, Woken
  <2>3. Call(c) \in Callers \X Nat /\ Call(c)[2] = caller[c].n /\ Call(c)[1] = c
    BY DEF Call, TypeOK, CallerRecord
  <2>4. caller[c].n \in Nat
    BY DEF TypeOK, CallerRecord
  <2>5. Numbered'
    BY <2>1, <2>2, <2>3, <2>4 DEF Numbered
  <2>6. Accounted(c)'
    BY <1>b, <2>1 DEF Accounted, Same
  <2>7. \A d \in Callers : d # c => Call(d) # Call(c)
    BY DEF Call
  <2>. QED  BY <1>br, <2>1, <2>5, <2>6, <2>7, AccountKept DEF OthersKept
<1>4. ASSUME NEW c \in Callers, Finish(c) PROVE Goal
  <2>1. /\ caller[c].pc = "wait" /\ caller'[c].pc = "returned" /\ Silent(c)
        /\ caller'[c].outcome \in Reports(c)
        /\ caller'[c].answer = pending[caller[c].slot].answer /\ Flags(c)
    BY <1>4, FinishEffect DEF Finish
  <2>2. caller[c].slot # NoSlot
    BY <2>1 DEF Ownership
  <2>3. CASE pending[caller[c].slot].done
    <3>1. caller'[c].outcome \in {"ANSWER", "TIMEOUT"}
      BY <2>1, <2>3 DEF Reports
    <3>2. caller'[c].answer = Call(c) /\ Call(c) \in reached
      BY <2>1, <2>2, <2>3 DEF Matching
    <3>3. Accounted(c)'
      BY <1>b, <2>1, <3>1, <3>2 DEF Accounted, Flags
    <3>. QED  BY <1>a, <2>1, <3>3
  <2>4. CASE ~pending[caller[c].slot].done
    <3>1. \/ caller'[c].outcome = "BUSY" /\ ~caller[c].attempted
          \/ caller'[c].outcome = "TIMEOUT" /\ (caller[c].attempted \/ caller[c].sent)
      BY <2>1, <2>4 DEF Reports
    <3>2. Accounted(c)'
      BY <1>b, <1>br, <2>1, <3>1 DEF Accounted, Flags, Breaking
    <3>. QED  BY <1>a, <2>1, <3>2
  <2>. QED  BY <2>3, <2>4
<1>5. ASSUME NEW c \in Callers, Release(c) PROVE Goal
  <2>1. /\ caller'[c].pc = "out" /\ caller'[c].outcome = "none"
        /\ ~caller'[c].attempted /\ ~caller'[c].sent /\ Silent(c)
    BY <1>5, ReleaseEffect, OthersAreKept DEF Release
  <2>2. Accounted(c)'
    BY <2>1 DEF Accounted
  <2>. QED  BY <1>a, <2>1, <2>2
<1>6. ASSUME NEW c \in Callers, Acquire(c) PROVE Goal
  <2>1. /\ caller'[c].pc = "held" /\ caller'[c].outcome = "none"
        /\ ~caller'[c].attempted /\ ~caller'[c].sent /\ OthersKept(c)
        /\ caller'[c].n = caller[c].n + 1 /\ UNCHANGED reached
    BY <1>6, AcquireEffect, OthersAreKept DEF Acquire
  <2>2. caller[c].n \in Nat
    BY DEF TypeOK, CallerRecord
  <2>3. Call(c)' \notin reached
    <3>1. Call(c)' = <<c, caller[c].n + 1>>
      BY <2>1 DEF Call
    <3>2. SUFFICES ASSUME <<c, caller[c].n + 1>> \in reached PROVE FALSE
      BY <3>1
    <3>3. <<c, caller[c].n + 1>>[2] <= caller[<<c, caller[c].n + 1>>[1]].n
      BY <3>2 DEF Numbered
    <3>. QED  BY <2>2, <3>3
  <2>4. Accounted(c)'
    BY <2>1, <2>3 DEF Accounted
  <2>5. \A d \in Callers : caller'[d].n \in Int /\ caller[d].n \in Int
                           /\ caller[d].n <= caller'[d].n
    BY <2>1, <2>2 DEF OthersKept, Kept, Woken, TypeOK, CallerRecord
  <2>6. Numbered'
    <3>1. SUFFICES ASSUME NEW call \in reached
                   PROVE  call \in Callers \X Nat /\ call[2] <= caller'[call[1]].n
      BY <2>1 DEF Numbered
    <3>2. call \in Callers \X Nat /\ call[2] <= caller[call[1]].n
      BY DEF Numbered
    <3>3. call[1] \in Callers /\ call[2] \in Int
      BY <3>2
    <3>. QED  BY <2>5, <3>2, <3>3
  <2>. QED  BY <1>br, <2>1, <2>4, <2>6, AccountKept DEF OthersKept
<1>7. ASSUME NEW c \in Callers,
             SendWait(c) \/ WriteDone(c) \/ StartRead(c) \/ Sleep(c)
             \/ ReadFrame(c) \/ ReadNothing(c) \/ Deliver(c) \/ ReadBack(c) \/ Expire(c)
      PROVE  Goal
  <2>1. /\ Silent(c) /\ Flags(c) /\ caller'[c].outcome = caller[c].outcome
        /\ caller'[c].answer = caller[c].answer
        /\ \/ caller'[c].pc = caller[c].pc
           \/ caller[c].pc = "send" /\ caller'[c].pc = "sendsleep"
           \/ /\ caller[c].pc = "written" /\ (caller[c].sent \/ relay'.broken)
              /\ caller'[c].pc = "wait"
           \/ /\ caller[c].pc \in {"wait", "reading", "deliver", "readback"}
              /\ caller'[c].pc \in {"wait", "sleep", "reading", "deliver", "readback"}
    <3>. USE OthersAreKept DEF Same
    <3>1. CASE SendWait(c)     BY <3>1, SendWaitEffect DEF SendWait
    <3>2. CASE WriteDone(c)
      <4>1. relay \in RelayType
        BY DEF TypeOK, RelayType
      <4>2. caller[c].sent \/ relay'.broken
        BY <3>2, <4>1 DEF WriteDone, RelayType
      <4>. QED  BY <3>2, <4>2, WriteDoneEffect DEF WriteDone
    <3>3. CASE StartRead(c)    BY <3>3, StartReadEffect DEF StartRead
    <3>4. CASE Sleep(c)        BY <3>4, SleepEffect DEF Sleep
    <3>5. CASE ReadFrame(c)    BY <3>5, ReadFrameEffect DEF ReadFrame
    <3>6. CASE ReadNothing(c)  BY <3>6, ReadNothingEffect DEF ReadNothing
    <3>7. CASE Deliver(c)      BY <3>7, DeliverEffect DEF Deliver
    <3>8. CASE ReadBack(c)     BY <3>8, ReadBackEffect DEF ReadBack
    <3>9. CASE Expire(c)       BY <3>9, ExpireEffect DEF Expire
    <3>. QED  BY <1>7, <3>1, <3>2, <3>3, <3>4, <3>5, <3>6, <3>7, <3>8, <3>9
  <2>2. Accounted(c)'
    BY <1>b, <1>br, <2>1 DEF Accounted, Flags, Breaking
  <2>. QED  BY <1>a, <2>1, <2>2
<1>8. ASSUME UNCHANGED reached, \A d \in Callers : Kept(d) PROVE Goal
  <2>1. Numbered'
    BY <1>8 DEF Numbered, Kept, Woken
  <2>. QED  BY <1>8, <1>br, <2>1, AccountKept
<1>9. ASSUME NEW c \in Callers, Wake(c) PROVE Goal
  BY <1>8, <1>9, WakeEffect, OthersAreKept DEF Wake, OthersKept
<1>10. CASE Retire
  BY <1>8, <1>10, AwakeEffect DEF Retire, TypeOK, Kept
<1>11. CASE UNCHANGED <<caller, reached>>
  BY <1>8, <1>11 DEF Kept, Woken
<1>. QED
  BY <1>1, <1>2, <1>3, <1>4, <1>5, <1>6, <1>7, <1>9, <1>10, <1>11
     DEF Next, ThreadStep, Terminated, vars, RetireRelease, DaemonReceives,
         DaemonAnswers, DaemonCloses

-----------------------------------------------------------------------------
(* References. *)

\* Who holds a reference follows from where each thread is.
LEMMA SameUsers ==
    ASSUME \A d \in Callers : caller'[d].pc = "out" <=> caller[d].pc = "out"
    PROVE  Users' = Users
BY DEF Users

\* A thread that is at most woken keeps its reference.
LEMMA KeptUser ==
    ASSUME NEW d, Kept(d)
    PROVE  caller'[d].pc = "out" <=> caller[d].pc = "out"
BY DEF Kept, Woken

\* What a step leaves alone when it neither takes nor drops a reference.
LEMMA RefsKept ==
    ASSUME TypeOK', RefsExact, Users' = Users,
           relay'.refs = relay.refs, relay'.freed = relay.freed,
           registered' = "no" <=> registered = "no"
    PROVE  RefsExact'
BY DEF RefsExact, Users

LEMMA NextRefs ==
    ASSUME TypeOK, TypeOK', Ownership, RefsExact, [Next]_vars
    PROVE  RefsExact'
<1>a. relay \in RelayType
  BY DEF TypeOK, RelayType
<1>b. /\ IsFiniteSet(Users) /\ Cardinality(Users) \in Nat
      /\ relay.refs = Cardinality(Users) + (IF registered = "no" THEN 0 ELSE 1)
      /\ relay.freed = (relay.refs = 0)
  BY Counted DEF RefsExact
<1>1. ASSUME NEW c \in Callers, Acquire(c) PROVE RefsExact'
  <2>1. caller'[c].pc = "held" /\ Others(c) /\ caller[c].pc = "out"
    BY <1>1, AcquireEffect DEF Acquire
  <2>2. Users' = Users \cup {c} /\ c \notin Users
    BY <2>1 DEF Users, Others
  <2>3. Cardinality(Users') = Cardinality(Users) + 1
    BY <1>b, <2>2, FS_AddElement
  <2>4. relay'.refs = relay.refs + 1 /\ relay'.freed = relay.freed
    BY <1>a, <1>1 DEF Acquire, RelayType
  <2>5. registered = "yes" /\ registered' = "yes"
    BY <1>1 DEF Acquire
  <2>6. relay'.freed = (relay'.refs = 0)
    BY <1>b, <2>4, <2>5
  <2>. QED  BY <1>b, <2>3, <2>4, <2>5, <2>6 DEF RefsExact, Users
<1>2. ASSUME NEW c \in Callers, Release(c) PROVE RefsExact'
  <2>1. caller'[c].pc = "out" /\ Others(c) /\ caller[c].pc = "returned"
    BY <1>2, ReleaseEffect DEF Release
  <2>2. Users' = Users \ {c} /\ c \in Users
    BY <2>1 DEF Users, Others
  <2>3. Cardinality(Users') = Cardinality(Users) - 1
    BY <1>b, <2>2, FS_RemoveElement
  <2>4. relay'.refs = relay.refs - 1 /\ relay'.freed = (relay.refs = 1)
    BY <1>a, <1>2 DEF Release, Dropped, RelayType
  <2>5. relay'.freed = (relay'.refs = 0)
    BY <1>b, <2>4
  <2>6. registered' = registered
    BY <1>2 DEF Release
  <2>. QED  BY <1>b, <2>3, <2>4, <2>5, <2>6 DEF RefsExact, Users
<1>3. CASE RetireRelease
  <2>1. registered = "retiring" /\ registered' = "no" /\ Users' = Users
    BY <1>3 DEF RetireRelease, Users
  <2>2. relay'.refs = relay.refs - 1 /\ relay'.freed = (relay.refs = 1)
    BY <1>a, <1>3 DEF RetireRelease, Dropped, RelayType
  <2>3. relay'.freed = (relay'.refs = 0)
    BY <1>b, <2>2
  <2>4. relay'.refs = Cardinality(Users') + (IF registered' = "no" THEN 0 ELSE 1)
    BY <1>b, <2>1, <2>2
  <2>. QED  BY <2>3, <2>4 DEF RefsExact, Users
<1>4. ASSUME NEW c \in Callers,
             Begin(c) \/ SendWait(c) \/ SendGate(c) \/ Write(c) \/ WriteDone(c)
             \/ StartRead(c) \/ Sleep(c) \/ ReadFrame(c) \/ ReadNothing(c)
             \/ Deliver(c) \/ ReadBack(c) \/ Finish(c) \/ Expire(c) \/ Wake(c)
      PROVE  RefsExact'
  <2>1. OthersKept(c) /\ (caller'[c].pc = "out" <=> caller[c].pc = "out")
    <3>. USE OthersAreKept
    <3>1. CASE Begin(c)
      BY <3>1, BeginCases, RefusedEffect, TakenEffect DEF Outcomes, Begin
    <3>2. CASE SendWait(c)     BY <3>2, SendWaitEffect DEF SendWait
    <3>3. CASE SendGate(c)     BY <3>3, SendGateEffect DEF SendGate
    <3>4. CASE Write(c)        BY <3>4, WriteEffect DEF Write
    <3>5. CASE WriteDone(c)    BY <3>5, WriteDoneEffect DEF WriteDone
    <3>6. CASE StartRead(c)    BY <3>6, StartReadEffect DEF StartRead
    <3>7. CASE Sleep(c)        BY <3>7, SleepEffect DEF Sleep
    <3>8. CASE ReadFrame(c)    BY <3>8, ReadFrameEffect DEF ReadFrame
    <3>9. CASE ReadNothing(c)  BY <3>9, ReadNothingEffect DEF ReadNothing
    <3>10. CASE Deliver(c)     BY <3>10, DeliverEffect DEF Deliver
    <3>11. CASE ReadBack(c)    BY <3>11, ReadBackEffect DEF ReadBack
    <3>12. CASE Finish(c)      BY <3>12, FinishEffect DEF Finish
    <3>13. CASE Expire(c)      BY <3>13, ExpireEffect
    <3>14. CASE Wake(c)        BY <3>14, WakeEffect, KeptUser
    <3>. QED  BY <1>4, <3>1, <3>2, <3>3, <3>4, <3>5, <3>6, <3>7, <3>8, <3>9, <3>10,
                 <3>11, <3>12, <3>13, <3>14
  <2>2. Users' = Users
    BY <2>1, KeptUser, SameUsers DEF OthersKept
  <2>3. registered' = registered
    BY <1>4 DEF Begin, SendWait, SendGate, Write, WriteDone, StartRead, Sleep,
         ReadFrame, ReadNothing, Deliver, ReadBack, Finish, Expire, Wake
  <2>4. relay'.refs = relay.refs /\ relay'.freed = relay.freed
    <3>1. CASE Begin(c)
      BY <1>a, <3>1, BeginCases DEF RelayType
    <3>2. CASE ~Begin(c)
      BY <1>a, <1>4, <3>2 DEF SendWait, SendGate, Write, WriteDone, StartRead, Sleep,
           ReadFrame, ReadNothing, Deliver, ReadBack, Finish, Expire, Wake, RelayType
    <3>. QED  BY <3>1, <3>2
  <2>. QED  BY <2>2, <2>3, <2>4, RefsKept
<1>5. CASE Retire
  <2>1. \A d \in Callers : Kept(d)
    BY <1>5, AwakeEffect DEF Retire, TypeOK, Kept
  <2>2. relay'.refs = relay.refs /\ relay'.freed = relay.freed
    BY <1>a, <1>5 DEF Retire, RelayType
  <2>. QED  BY <1>5, <2>1, <2>2, KeptUser, SameUsers, RefsKept DEF Retire
<1>6. CASE UNCHANGED <<caller, relay, registered>>
  BY <1>6, SameUsers, RefsKept
<1>. QED
  BY <1>1, <1>2, <1>3, <1>4, <1>5, <1>6
     DEF Next, ThreadStep, Terminated, vars, DaemonReceives, DaemonAnswers,
         DaemonCloses

-----------------------------------------------------------------------------
(* The theorems. *)

\* The relay is created with one reference, free slots and nobody inside.
LEMMA InitInv ==
    ASSUME Init
    PROVE  IInv
<1>1. TypeOK
  <2>1. pending \in [Slots -> SlotRecord] /\ caller \in [Callers -> CallerRecord]
    BY EmptyRecords DEF Init
  <2>2. relay \in RelayType
    BY DEF Init, RelayType
  <2>3. /\ requests \in Seq(Frames) /\ responses \in Seq(Frames)
        /\ work \subseteq Frames /\ reached \subseteq Calls
        /\ registered \in {"yes", "retiring", "no"}
    BY DEF Init
  <2>4. closed \in BOOLEAN
    BY Zenon DEF Init
  <2>. QED  BY <2>1, <2>2, <2>3, <2>4 DEF TypeOK, RelayType
<1>2. \A c \in Callers : caller[c] = NewCaller
  BY DEF Init
<1>3. Roles
  BY <1>2 DEF Init, Roles, IsWriter, IsReader, NewCaller
<1>4. Ownership
  BY <1>2 DEF Init, Ownership, NewCaller, FreeSlot
<1>5. Matching
  <2>1. InFlight = {}
    BY <1>2 DEF Init, InFlight, FramesIn, NewCaller
  <2>. QED  BY <1>2, <2>1 DEF Matching, NewCaller
<1>6. Written /\ AnswersMatch /\ BusyMeansNeverWritten
  BY <1>2 DEF Init, Written, AnswersMatch, BusyMeansNeverWritten, NewCaller
<1>7. RefsExact
  <2>1. Users = {}
    BY <1>2 DEF Users, NewCaller
  <2>2. Cardinality(Users) = 0
    BY <2>1, FS_EmptySet
  <2>3. relay.refs = 1 /\ registered = "yes" /\ relay.freed = FALSE
    BY DEF Init
  <2>4. (relay.refs = 0) = FALSE
    BY <2>3
  <2>5. relay.freed = (relay.refs = 0)
    BY <2>3, <2>4, Zenon
  <2>. QED  BY <1>1, <2>2, <2>3, <2>5 DEF RefsExact, Users
<1>. QED  BY <1>1, <1>3, <1>4, <1>5, <1>6, <1>7 DEF IInv

\* Every step keeps the whole invariant.
LEMMA NextInv ==
    ASSUME IInv, [Next]_vars
    PROVE  IInv'
<1>. USE DEF IInv
<1>1. TypeOK'
  BY NextType
<1>2. Roles' /\ Ownership' /\ Matching'
  BY NextRoles, NextOwnership, NextMatching
<1>3. Written' /\ AnswersMatch' /\ BusyMeansNeverWritten'
  <2>1. Numbered /\ \A d \in Callers : Accounted(d)
    BY AccountsAre
  <2>2. Numbered' /\ \A d \in Callers : Accounted(d)'
    BY <2>1, NextAccounts
  <2>. QED
    BY <2>2 DEF Numbered, Accounted, Written, AnswersMatch, BusyMeansNeverWritten
<1>4. RefsExact'
  BY <1>1, NextRefs
<1>. QED  BY <1>1, <1>2, <1>3, <1>4

\* The inductive invariant holds throughout: ksd_kwin_relay_call keeps roles,
\* slots, frames, accounts and references consistent.
THEOREM InductiveCorrect == Spec => []IInv
<1>1. Init => IInv
  BY InitInv
<1>2. IInv /\ [Next]_vars => IInv'
  BY NextInv
<1>. QED  BY <1>1, <1>2, PTL DEF Spec

\* Every variable of the relay keeps its type.
THEOREM TypeCorrect == Spec => []TypeOK
<1>1. IInv => TypeOK
  BY DEF IInv
<1>. QED  BY <1>1, InductiveCorrect, PTL

\* No call ever returns another call's answer, for any number of threads and
\* slots and however late answers come (read_one, ksd_kwin_relay_call).
THEOREM AnswersMatchCorrect == Spec => []AnswersMatch
<1>1. IInv => AnswersMatch
  BY DEF IInv
<1>. QED  BY <1>1, InductiveCorrect, PTL

\* BUSY and UNAVAILABLE are reported only for calls of which no byte was
\* written, an answer only for calls that were, and a TIMEOUT with nothing
\* written leaves the relay broken (the end of ksd_kwin_relay_call).
THEOREM BusyCorrect == Spec => []BusyMeansNeverWritten
<1>1. IInv => BusyMeansNeverWritten
  BY DEF IInv
<1>. QED  BY <1>1, InductiveCorrect, PTL

\* At most one thread writes and one reads, the flags of the relay say so
\* exactly, and nobody sleeps while the role waited for is free (the two loops
\* of ksd_kwin_relay_call).
THEOREM RolesCorrect == Spec => []RolesHandedOn
<1>1. Roles => RolesHandedOn
  <2>. SUFFICES ASSUME Roles PROVE RolesHandedOn
    OBVIOUS
  <2>1. Cardinality(Writers) = IF relay.writing THEN 1 ELSE 0
    <3>1. CASE relay.writing
      <4>1. PICK c \in Callers : IsWriter(c)
        BY <3>1 DEF Roles
      <4>2. Writers = {c}
        BY <4>1 DEF Roles, Writers, IsWriter
      <4>. QED  BY <3>1, <4>2, FS_Singleton
    <3>2. CASE ~relay.writing
      <4>1. Writers = {}
        BY <3>2 DEF Roles, Writers, IsWriter
      <4>. QED  BY <3>2, <4>1, FS_EmptySet
    <3>. QED  BY <3>1, <3>2
  <2>2. Cardinality(Readers) = IF relay.reading THEN 1 ELSE 0
    <3>1. CASE relay.reading
      <4>1. PICK c \in Callers : IsReader(c)
        BY <3>1 DEF Roles
      <4>2. Readers = {c}
        BY <4>1 DEF Roles, Readers, IsReader
      <4>. QED  BY <3>1, <4>2, FS_Singleton
    <3>2. CASE ~relay.reading
      <4>1. Readers = {}
        BY <3>2 DEF Roles, Readers, IsReader
      <4>. QED  BY <3>2, <4>1, FS_EmptySet
    <3>. QED  BY <3>1, <3>2
  <2>. QED  BY <2>1, <2>2 DEF Roles, RolesHandedOn
<1>2. IInv => Roles
  BY DEF IInv
<1>. QED  BY <1>1, <1>2, InductiveCorrect, PTL

\* The reference count of the relay is the number of its users, and it is freed
\* exactly when the last one leaves (ksd_kwin_relay_release).
THEOREM RefsCorrect == Spec => []RefsExact
<1>1. IInv => RefsExact
  BY DEF IInv
<1>. QED  BY <1>1, InductiveCorrect, PTL
=============================================================================
