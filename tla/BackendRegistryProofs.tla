----------------------- MODULE BackendRegistryProofs -----------------------
(***************************************************************************)
(* Proofs about BackendRegistry, for any finite number of daemons, clients *)
(* and slots, and any set of relay addresses and descriptors.              *)
(***************************************************************************)
EXTENDS BackendRegistry, FiniteSetTheorems, TLAPS

-----------------------------------------------------------------------------
(* The invariant *)

\* The six places that hold references to relays.
SlotHolds(r) == {s \in Slots : backends[s].relay = r}
LaneHolds(r) == {x \in Slots \X Lanes : backends[x[1]].display[x[2]] = r}
ConnHolds(r) == {d \in Daemons : conn[d].snap.relay = r}
SnapHolds(r) == {c \in Clients : client[c].snap.relay = r}
DisplayHolds(r) == {c \in Clients : client[c].display = r}
OwnHolds(r) == {c \in Clients : client[c].own = r}

Counted(r) ==
    /\ relay[r].refs = Cardinality(SlotHolds(r)) + Cardinality(LaneHolds(r))
           + Cardinality(ConnHolds(r)) + Cardinality(SnapHolds(r))
           + Cardinality(DisplayHolds(r)) + Cardinality(OwnHolds(r))
    \* One owner, a slot or the thread that created or took it out, will
    \* retire it.
    /\ Cardinality(SlotHolds(r)) + Cardinality(LaneHolds(r))
           + Cardinality(OwnHolds(r)) <= 1

\* A registration has the relays of its own daemon's session, and a free slot
\* has none.
SlotOK(s) ==
    /\ ~backends[s].active =>
         backends[s].relay = None /\ \A l \in Lanes : backends[s].display[l] = None
    /\ backends[s].active =>
         /\ backends[s].daemon \in Daemons
         /\ conn[backends[s].daemon].pc # "new"
         /\ backends[s].relay # None =>
              relay[backends[s].relay].daemon = backends[s].daemon
         /\ \A l \in Lanes : backends[s].display[l] # None =>
              relay[backends[s].display[l]].daemon = backends[s].daemon

OneEach ==
    \A s, t \in Slots :
        /\ backends[s].active /\ backends[t].active
        /\ DaemonUid[backends[s].daemon] = DaemonUid[backends[t].daemon]
        => s = t

\* A thread that is not in registered_backend holds nothing.
ConnOK(d) == conn[d].pc # "checking" => conn[d].snap.relay = None

Holding == {"call", "called", "gone", "drop", "keep"}
Working == {"lookup", "spawn", "install", "retire"} \cup Holding

\* What a client's thread holds, by where it is.
ShapeOK(t) ==
    /\ t.pc \in Holding => t.display # None
    /\ t.display # None => t.pc = "retire" \/ t.pc \in Holding
    /\ t.own # None <=> t.pc \in {"install", "retire"}
    /\ t.pc \in Working => t.lane \in Lanes
    /\ t.child => t.lane \in Lanes \/ t.pc = "release"
    /\ t.pc \in {"spawn", "install"} => t.slot \in Slots /\ t.registration \in Daemons
    /\ t.verdict # "none" => t.pc = "release" \/ (t.mode = "sync" /\ t.pc \in Working)
    /\ t.pc = "provider" => t.snap.relay # None
    /\ t.pc = "idle" => t.snap = NoSnapshot /\ t.served = None

\* Which session the things a thread holds belong to: the snapshot's, as long
\* as that is registered; a daemon of the user's anyhow.
SessionOK(c, t) ==
    /\ t.pc # "idle" =>
         /\ t.snap.daemon \in Daemons /\ DaemonUid[t.snap.daemon] = ClientUid[c]
         /\ conn[t.snap.daemon].pc # "new"
    /\ t.snap.relay # None => relay[t.snap.relay].daemon = t.snap.daemon
    /\ t.display # None =>
         /\ DaemonUid[relay[t.display].daemon] = ClientUid[c]
         /\ Current(t.snap) => relay[t.display].daemon = t.snap.daemon
    /\ t.pc \in {"spawn", "install"} =>
         /\ DaemonUid[t.registration] = ClientUid[c]
         /\ Current(t.snap) => t.registration = t.snap.daemon
    /\ t.pc = "install" =>
         relay[t.own].daemon = t.registration /\ relay[t.own].refs = 1
    /\ t.served # None /\ (Current(t.snap) \/ t.verdict = "released") =>
         t.served = t.snap.daemon
    /\ t.pc = "drop" => \A s \in Slots, l \in Lanes : backends[s].display[l] # t.display

\* The inductive invariant.
IInv ==
    /\ TypeOK
    /\ \A r \in Relays : Counted(r)
    /\ \A s \in Slots : SlotOK(s)
    /\ OneEach
    /\ \A d \in Daemons : ConnOK(d)
    /\ \A c \in Clients : ShapeOK(client[c]) /\ SessionOK(c, client[c])

-----------------------------------------------------------------------------
(* Counting *)

One(test) == IF test THEN 1 ELSE 0

LEMMA NoneIsNone ==
    None \notin Relays /\ None \notin Daemons /\ None \notin Descriptors
BY NoneOK

\* Slots are scanned in order, so a set of them has a first one.
LEMMA LowestIn ==
    ASSUME NEW S \in SUBSET Slots, S # {}
    PROVE  Lowest(S) \in S
<1>1. S \in SUBSET Nat
  BY NumbersOK
<1>. DEFINE less == OpToRel(<, Nat)
<1>2. PICK i \in S : \A j \in S : <<j, i>> \notin less
  BY <1>1, NatLessThanWellFounded, WFMin
<1>3. less = {p \in Nat \X Nat : p[1] < p[2]}
  BY DEF OpToRel
<1>. HIDE DEF less
<1>4. ASSUME NEW j \in S PROVE i <= j
  <2>1. <<j, i>> \in Nat \X Nat /\ ~(j < i)
    BY <1>1, <1>2, <1>3
  <2>. QED  BY <2>1
<1>. QED  BY <1>4 DEF Lowest

LEMMA PlacesFinite == IsFiniteSet(Slots \X Lanes)
<1>1. IsFiniteSet(Lanes)
  <2>1. IsFiniteSet({0, 1})
    <3>1. IsFiniteSet({0})
      BY FS_Singleton
    <3>2. IsFiniteSet({0} \cup {1})
      BY <3>1, FS_AddElement
    <3>3. {0} \cup {1} = {0, 1}
      OBVIOUS
    <3>. QED  BY <3>2, <3>3
  <2>. QED  BY <2>1, FS_Subset, NumbersOK
<1>. QED  BY <1>1, FiniteOK, FS_Product

LEMMA SizeOf ==
    ASSUME NEW S, IsFiniteSet(S)
    PROVE  /\ Cardinality(S) \in Nat /\ (Cardinality(S) = 0 <=> S = {})
           /\ Cardinality(S) <= 1 => \A x, y \in S : x = y
BY FS_CardinalityType, FS_EmptySet, FS_Singleton

LEMMA HoldsFinite ==
    ASSUME NEW r
    PROVE  /\ IsFiniteSet(SlotHolds(r)) /\ IsFiniteSet(LaneHolds(r))
           /\ IsFiniteSet(ConnHolds(r)) /\ IsFiniteSet(SnapHolds(r))
           /\ IsFiniteSet(DisplayHolds(r)) /\ IsFiniteSet(OwnHolds(r))
<1>1. IsFiniteSet(SlotHolds(r))
  BY FiniteOK, FS_Subset DEF SlotHolds
<1>2. IsFiniteSet(LaneHolds(r))
  BY PlacesFinite, FS_Subset DEF LaneHolds
<1>3. IsFiniteSet(ConnHolds(r))
  BY FiniteOK, FS_Subset DEF ConnHolds
<1>4. IsFiniteSet(SnapHolds(r))
  BY FiniteOK, FS_Subset DEF SnapHolds
<1>5. IsFiniteSet(DisplayHolds(r))
  BY FiniteOK, FS_Subset DEF DisplayHolds
<1>6. IsFiniteSet(OwnHolds(r))
  BY FiniteOK, FS_Subset DEF OwnHolds
<1>. QED  BY <1>1, <1>2, <1>3, <1>4, <1>5, <1>6

LEMMA HoldsSized ==
    ASSUME NEW r
    PROVE  /\ Cardinality(SlotHolds(r)) \in Nat /\ Cardinality(LaneHolds(r)) \in Nat
           /\ Cardinality(ConnHolds(r)) \in Nat /\ Cardinality(SnapHolds(r)) \in Nat
           /\ Cardinality(DisplayHolds(r)) \in Nat /\ Cardinality(OwnHolds(r)) \in Nat
           /\ Cardinality(SlotHolds(r)) = 0 <=> SlotHolds(r) = {}
           /\ Cardinality(LaneHolds(r)) = 0 <=> LaneHolds(r) = {}
           /\ Cardinality(ConnHolds(r)) = 0 <=> ConnHolds(r) = {}
           /\ Cardinality(SnapHolds(r)) = 0 <=> SnapHolds(r) = {}
           /\ Cardinality(DisplayHolds(r)) = 0 <=> DisplayHolds(r) = {}
           /\ Cardinality(OwnHolds(r)) = 0 <=> OwnHolds(r) = {}
BY HoldsFinite, SizeOf

LEMMA NothingAdded ==
    ASSUME NEW a \in Nat, NEW b \in Nat, NEW e \in Nat, NEW f \in Nat, NEW g \in Nat,
           NEW h \in Nat, a + b + e + f + g + h = 0
    PROVE  a = 0 /\ b = 0 /\ e = 0 /\ f = 0 /\ g = 0 /\ h = 0
<1>1. a >= 0 /\ b >= 0 /\ e >= 0 /\ f >= 0 /\ g >= 0 /\ h >= 0
  OBVIOUS
<1>2. h = 0
  BY <1>1
<1>3. g = 0
  BY <1>1
<1>4. f = 0
  BY <1>1
<1>5. e = 0
  BY <1>1
<1>. QED  BY <1>1, <1>2, <1>3, <1>4, <1>5

\* Who holds a relay keeps it allocated, and its owner is the only one.
LEMMA HeldAlive ==
    ASSUME NEW r, Counted(r)
    PROVE  /\ relay[r].refs \in Nat
           /\ \/ SlotHolds(r) # {} \/ LaneHolds(r) # {} \/ ConnHolds(r) # {}
              \/ SnapHolds(r) # {} \/ DisplayHolds(r) # {} \/ OwnHolds(r) # {}
              => relay[r].refs > 0
<1>. DEFINE a == Cardinality(SlotHolds(r))    b == Cardinality(LaneHolds(r))
            e == Cardinality(ConnHolds(r))    f == Cardinality(SnapHolds(r))
            g == Cardinality(DisplayHolds(r)) h == Cardinality(OwnHolds(r))
<1>1. a \in Nat /\ b \in Nat /\ e \in Nat /\ f \in Nat /\ g \in Nat /\ h \in Nat
  BY HoldsSized
<1>2. /\ a = 0 <=> SlotHolds(r) = {}
      /\ b = 0 <=> LaneHolds(r) = {}
      /\ e = 0 <=> ConnHolds(r) = {}
      /\ f = 0 <=> SnapHolds(r) = {}
      /\ g = 0 <=> DisplayHolds(r) = {}
      /\ h = 0 <=> OwnHolds(r) = {}
  BY HoldsSized
<1>3. relay[r].refs = a + b + e + f + g + h /\ a + b + h <= 1
  BY DEF Counted
<1>. HIDE DEF a, b, e, f, g, h
<1>4. relay[r].refs \in Nat
  BY <1>1, <1>3
<1>5. relay[r].refs = 0 => a = 0 /\ b = 0 /\ e = 0 /\ f = 0 /\ g = 0 /\ h = 0
  BY <1>1, <1>3, NothingAdded
<1>. QED  BY <1>2, <1>4, <1>5

LEMMA OneOwner ==
    ASSUME NEW r, Counted(r)
    PROVE  /\ \A s, t \in SlotHolds(r) : s = t
           /\ \A x, y \in LaneHolds(r) : x = y
           /\ \A c, d \in OwnHolds(r) : c = d
           /\ SlotHolds(r) = {} \/ LaneHolds(r) = {}
           /\ SlotHolds(r) = {} \/ OwnHolds(r) = {}
           /\ LaneHolds(r) = {} \/ OwnHolds(r) = {}
<1>1. /\ Cardinality(SlotHolds(r)) <= 1 /\ Cardinality(LaneHolds(r)) <= 1
      /\ Cardinality(OwnHolds(r)) <= 1
      /\ SlotHolds(r) = {} \/ LaneHolds(r) = {}
      /\ SlotHolds(r) = {} \/ OwnHolds(r) = {}
      /\ LaneHolds(r) = {} \/ OwnHolds(r) = {}
  BY HoldsSized DEF Counted
<1>. QED  BY <1>1, HoldsFinite, SizeOf

\* A relay that only its creator has.
LEMMA OwnAlone ==
    ASSUME NEW r, Counted(r), relay[r].refs = 1, OwnHolds(r) # {}
    PROVE  /\ SlotHolds(r) = {} /\ LaneHolds(r) = {} /\ ConnHolds(r) = {}
           /\ SnapHolds(r) = {} /\ DisplayHolds(r) = {}
<1>. DEFINE a == Cardinality(SlotHolds(r))    b == Cardinality(LaneHolds(r))
            e == Cardinality(ConnHolds(r))    f == Cardinality(SnapHolds(r))
            g == Cardinality(DisplayHolds(r)) h == Cardinality(OwnHolds(r))
<1>1. a \in Nat /\ b \in Nat /\ e \in Nat /\ f \in Nat /\ g \in Nat /\ h \in Nat
  BY HoldsSized
<1>2. /\ a = 0 <=> SlotHolds(r) = {}
      /\ b = 0 <=> LaneHolds(r) = {}
      /\ e = 0 <=> ConnHolds(r) = {}
      /\ f = 0 <=> SnapHolds(r) = {}
      /\ g = 0 <=> DisplayHolds(r) = {}
      /\ h = 0 <=> OwnHolds(r) = {}
  BY HoldsSized
<1>3. relay[r].refs = a + b + e + f + g + h /\ a + b + h <= 1
  BY DEF Counted
<1>. HIDE DEF a, b, e, f, g, h
<1>4. h # 0
  BY <1>2
<1>5. h - 1 \in Nat /\ a + b + e + f + g + (h - 1) = 0
  BY <1>1, <1>3, <1>4
<1>6. a = 0 /\ b = 0 /\ e = 0 /\ f = 0 /\ g = 0
  BY <1>1, <1>5, NothingAdded
<1>. QED  BY <1>2, <1>6

\* Nobody refers to a relay that is not allocated.
LEMMA Unheld ==
    ASSUME NEW r, Counted(r), relay[r].refs = 0
    PROVE  /\ SlotHolds(r) = {} /\ LaneHolds(r) = {} /\ ConnHolds(r) = {}
           /\ SnapHolds(r) = {} /\ DisplayHolds(r) = {} /\ OwnHolds(r) = {}
<1>. DEFINE a == Cardinality(SlotHolds(r))    b == Cardinality(LaneHolds(r))
            e == Cardinality(ConnHolds(r))    f == Cardinality(SnapHolds(r))
            g == Cardinality(DisplayHolds(r)) h == Cardinality(OwnHolds(r))
<1>1. a \in Nat /\ b \in Nat /\ e \in Nat /\ f \in Nat /\ g \in Nat /\ h \in Nat
  BY HoldsSized
<1>2. /\ a = 0 <=> SlotHolds(r) = {}
      /\ b = 0 <=> LaneHolds(r) = {}
      /\ e = 0 <=> ConnHolds(r) = {}
      /\ f = 0 <=> SnapHolds(r) = {}
      /\ g = 0 <=> DisplayHolds(r) = {}
      /\ h = 0 <=> OwnHolds(r) = {}
  BY HoldsSized
<1>3. relay[r].refs = a + b + e + f + g + h /\ a + b + h <= 1
  BY DEF Counted
<1>. HIDE DEF a, b, e, f, g, h
<1>4. a + b + e + f + g + h = 0
  BY <1>3
<1>5. a = 0 /\ b = 0 /\ e = 0 /\ f = 0 /\ g = 0 /\ h = 0
  BY <1>1, <1>4, NothingAdded
<1>. QED  BY <1>2, <1>5

\* Two sets that differ in x at most.
LEMMA SizeAfter ==
    ASSUME NEW S, IsFiniteSet(S), NEW T, NEW x, T \ {x} = S \ {x}
    PROVE  Cardinality(T) = Cardinality(S) + One(x \in T) - One(x \in S)
<1>1. Cardinality(S) \in Nat
  BY FS_CardinalityType
<1>2. CASE x \in T
  <2>1. T = S \cup {x}
    BY <1>2
  <2>2. Cardinality(S \cup {x}) = IF x \in S THEN Cardinality(S) ELSE Cardinality(S) + 1
    BY FS_AddElement
  <2>. QED  BY <1>1, <1>2, <2>1, <2>2 DEF One
<1>3. CASE x \notin T
  <2>1. T = S \ {x}
    BY <1>3
  <2>2. Cardinality(S \ {x}) = IF x \in S THEN Cardinality(S) - 1 ELSE Cardinality(S)
    BY FS_RemoveElement
  <2>. QED  BY <1>1, <1>3, <2>1, <2>2 DEF One
<1>. QED  BY <1>2, <1>3

LEMMA ClientCounts ==
    ASSUME NEW c \in Clients, NEW r, \A d \in Clients \ {c} : client'[d] = client[d]
    PROVE  /\ Cardinality(SnapHolds(r)') = Cardinality(SnapHolds(r))
                + One(client'[c].snap.relay = r) - One(client[c].snap.relay = r)
           /\ Cardinality(DisplayHolds(r)') = Cardinality(DisplayHolds(r))
                + One(client'[c].display = r) - One(client[c].display = r)
           /\ Cardinality(OwnHolds(r)') = Cardinality(OwnHolds(r))
                + One(client'[c].own = r) - One(client[c].own = r)
<1>1. /\ SnapHolds(r)' \ {c} = SnapHolds(r) \ {c}
      /\ c \in SnapHolds(r)' <=> client'[c].snap.relay = r
      /\ c \in SnapHolds(r) <=> client[c].snap.relay = r
  BY DEF SnapHolds
<1>2. /\ DisplayHolds(r)' \ {c} = DisplayHolds(r) \ {c}
      /\ c \in DisplayHolds(r)' <=> client'[c].display = r
      /\ c \in DisplayHolds(r) <=> client[c].display = r
  BY DEF DisplayHolds
<1>3. /\ OwnHolds(r)' \ {c} = OwnHolds(r) \ {c}
      /\ c \in OwnHolds(r)' <=> client'[c].own = r
      /\ c \in OwnHolds(r) <=> client[c].own = r
  BY DEF OwnHolds
<1>4. Cardinality(SnapHolds(r)') = Cardinality(SnapHolds(r))
                + One(c \in SnapHolds(r)') - One(c \in SnapHolds(r))
  BY <1>1, HoldsFinite, SizeAfter
<1>5. Cardinality(DisplayHolds(r)') = Cardinality(DisplayHolds(r))
                + One(c \in DisplayHolds(r)') - One(c \in DisplayHolds(r))
  BY <1>2, HoldsFinite, SizeAfter
<1>6. Cardinality(OwnHolds(r)') = Cardinality(OwnHolds(r))
                + One(c \in OwnHolds(r)') - One(c \in OwnHolds(r))
  BY <1>3, HoldsFinite, SizeAfter
<1>. QED  BY <1>1, <1>2, <1>3, <1>4, <1>5, <1>6 DEF One

LEMMA ConnCounts ==
    ASSUME NEW d \in Daemons, NEW r, \A e \in Daemons \ {d} : conn'[e] = conn[e]
    PROVE  Cardinality(ConnHolds(r)') = Cardinality(ConnHolds(r))
                + One(conn'[d].snap.relay = r) - One(conn[d].snap.relay = r)
<1>1. /\ ConnHolds(r)' \ {d} = ConnHolds(r) \ {d}
      /\ d \in ConnHolds(r)' <=> conn'[d].snap.relay = r
      /\ d \in ConnHolds(r) <=> conn[d].snap.relay = r
  BY DEF ConnHolds
<1>2. Cardinality(ConnHolds(r)') = Cardinality(ConnHolds(r))
                + One(d \in ConnHolds(r)') - One(d \in ConnHolds(r))
  BY <1>1, HoldsFinite, SizeAfter
<1>. QED  BY <1>1, <1>2 DEF One

-----------------------------------------------------------------------------
(* Relay objects *)

Objects == [Relays -> RelayRecord]

\* ksd_kwin_relay_acquire.
LEMMA AcquiredEffect ==
    ASSUME NEW objects \in Objects, NEW r \in MaybeRelay
    PROVE  /\ Acquired(objects, r) \in Objects
           /\ \A x \in Relays :
                /\ Acquired(objects, r)[x].refs = objects[x].refs + One(x = r)
                /\ Acquired(objects, r)[x].daemon = objects[x].daemon
<1>0. \A x \in Relays : objects[x] \in RelayRecord /\ objects[x].refs \in Nat
  BY DEF Objects, RelayRecord
<1>1. CASE r = None
  <2>1. Acquired(objects, r) = objects /\ r \notin Relays
    BY <1>1, NoneIsNone DEF Acquired
  <2>. QED  BY <1>0, <2>1 DEF One
<1>2. CASE r # None
  <2>. DEFINE new == Acquired(objects, r)
              o == [objects[r] EXCEPT !.refs = objects[r].refs + 1]
  <2>1. r \in Relays
    BY <1>2 DEF MaybeRelay
  <2>2. o \in RelayRecord /\ o.refs = objects[r].refs + 1 /\ o.daemon = objects[r].daemon
    BY <1>0, <2>1 DEF RelayRecord
  <2>3. new = [objects EXCEPT ![r] = o]
    BY <1>2 DEF Acquired
  <2>. HIDE DEF o, new
  <2>4. new \in Objects
    BY <2>2, <2>3 DEF Objects
  <2>5. \A x \in Relays : new[x] = IF x = r THEN o ELSE objects[x]
    BY <2>3 DEF Objects
  <2>6. \A x \in Relays : /\ new[x].refs = objects[x].refs + One(x = r)
                          /\ new[x].daemon = objects[x].daemon
    BY <1>0, <2>2, <2>5 DEF One
  <2>. QED  BY <2>4, <2>6 DEF new
<1>. QED  BY <1>1, <1>2

\* The reference of a holder goes; what is left has the session it had.
LEMMA DroppedEffect ==
    ASSUME NEW objects \in Objects, NEW r \in MaybeRelay,
           r # None => objects[r].refs > 0
    PROVE  /\ Dropped(objects, r) \in Objects
           /\ \A x \in Relays :
                /\ Dropped(objects, r)[x].refs = objects[x].refs - One(x = r)
                /\ Dropped(objects, r)[x].refs # 0 =>
                     Dropped(objects, r)[x].daemon = objects[x].daemon
<1>0. \A x \in Relays : objects[x] \in RelayRecord /\ objects[x].refs \in Nat
  BY DEF Objects, RelayRecord
<1>1. CASE r = None
  <2>1. Dropped(objects, r) = objects /\ r \notin Relays
    BY <1>1, NoneIsNone DEF Dropped
  <2>. QED  BY <1>0, <2>1 DEF One
<1>2. CASE r # None
  <2>. DEFINE new == Dropped(objects, r)
              o == IF objects[r].refs = 1 THEN Unallocated
                   ELSE [objects[r] EXCEPT !.refs = objects[r].refs - 1]
  <2>1. r \in Relays /\ objects[r].refs > 0
    BY <1>2 DEF MaybeRelay
  <2>2. o \in RelayRecord /\ o.refs = objects[r].refs - 1
        /\ (o.refs # 0 => o.daemon = objects[r].daemon)
    <3>1. CASE objects[r].refs = 1
      BY <3>1 DEF Unallocated, RelayRecord, MaybeDaemon
    <3>2. CASE objects[r].refs # 1
      BY <1>0, <2>1, <3>2 DEF RelayRecord
    <3>. QED  BY <3>1, <3>2
  <2>3. new = [objects EXCEPT ![r] = o]
    BY <1>2 DEF Dropped
  <2>. HIDE DEF o, new
  <2>4. new \in Objects
    BY <2>2, <2>3 DEF Objects
  <2>5. \A x \in Relays : new[x] = IF x = r THEN o ELSE objects[x]
    BY <2>3 DEF Objects
  <2>6. \A x \in Relays : /\ new[x].refs = objects[x].refs - One(x = r)
                          /\ new[x].refs # 0 => new[x].daemon = objects[x].daemon
    BY <1>0, <2>2, <2>5 DEF One
  <2>. QED  BY <2>4, <2>6 DEF new
<1>. QED  BY <1>1, <1>2

\* A call, or its owner, breaks a relay.
LEMMA BrokenEffect ==
    ASSUME NEW objects \in Objects, NEW r \in Relays, NEW b \in BOOLEAN
    PROVE  /\ [objects EXCEPT ![r].broken = b] \in Objects
           /\ \A x \in Relays :
                /\ [objects EXCEPT ![r].broken = b][x].refs = objects[x].refs
                /\ [objects EXCEPT ![r].broken = b][x].daemon = objects[x].daemon
<1>0. \A x \in Relays : objects[x] \in RelayRecord
  BY DEF Objects
<1>. DEFINE new == [objects EXCEPT ![r].broken = b]
            o == [objects[r] EXCEPT !.broken = b]
<1>2. o \in RelayRecord /\ o.refs = objects[r].refs /\ o.daemon = objects[r].daemon
  BY <1>0 DEF RelayRecord
<1>3. new = [objects EXCEPT ![r] = o]
  OBVIOUS
<1>. HIDE DEF o, new
<1>4. new \in Objects
  BY <1>2, <1>3 DEF Objects
<1>5. \A x \in Relays : new[x] = IF x = r THEN o ELSE objects[x]
  BY <1>3 DEF Objects
<1>6. \A x \in Relays : new[x].refs = objects[x].refs /\ new[x].daemon = objects[x].daemon
  BY <1>2, <1>5
<1>. QED  BY <1>4, <1>6 DEF new

\* ksd_kwin_relay_retire.
LEMMA RetiredEffect ==
    ASSUME NEW objects \in Objects, NEW r \in MaybeRelay,
           r # None => objects[r].refs > 0
    PROVE  /\ Retired(objects, r) \in Objects
           /\ \A x \in Relays :
                /\ Retired(objects, r)[x].refs = objects[x].refs - One(x = r)
                /\ Retired(objects, r)[x].refs # 0 =>
                     Retired(objects, r)[x].daemon = objects[x].daemon
<1>0. \A x \in Relays : objects[x].refs \in Nat
  BY DEF Objects, RelayRecord
<1>1. CASE r = None
  <2>1. Retired(objects, r) = objects /\ r \notin Relays
    BY <1>1, NoneIsNone DEF Retired
  <2>. QED  BY <1>0, <2>1 DEF One
<1>2. CASE r # None
  <2>1. r \in Relays
    BY <1>2 DEF MaybeRelay
  <2>2. PICK yes \in BOOLEAN : yes
    OBVIOUS
  <2>. DEFINE closed == [objects EXCEPT ![r].broken = yes]
  <2>3. Retired(objects, r) = Dropped(closed, r)
    <3>1. yes = TRUE
      BY <2>2
    <3>. QED  BY <1>2, <3>1 DEF Retired
  <2>4. closed \in Objects /\ \A x \in Relays : /\ closed[x].refs = objects[x].refs
                                               /\ closed[x].daemon = objects[x].daemon
    BY <2>1, BrokenEffect
  <2>. HIDE DEF closed
  <2>. DEFINE new == Dropped(closed, r)
  <2>5. closed[r].refs > 0
    BY <1>2, <2>1, <2>4
  <2>6. /\ new \in Objects
        /\ \A x \in Relays :
             /\ new[x].refs = closed[x].refs - One(x = r)
             /\ new[x].refs # 0 => new[x].daemon = closed[x].daemon
    BY <2>4, <2>5, DroppedEffect
  <2>. HIDE DEF new
  <2>7. Retired(objects, r) = new
    BY <2>3 DEF new
  <2>. QED  BY <2>4, <2>6, <2>7
<1>. QED  BY <1>1, <1>2

\* ksd_kwin_relay_create, at an address that is free.
LEMMA CreatedEffect ==
    ASSUME NEW objects \in Objects, NEW r \in Relays, objects[r].refs = 0,
           NEW d \in Daemons, NEW gid \in Gids \cup {None}
    PROVE  /\ [objects EXCEPT ![r] = Created(d, gid)] \in Objects
           /\ [objects EXCEPT ![r] = Created(d, gid)][r].daemon = d
           /\ \A x \in Relays :
                /\ [objects EXCEPT ![r] = Created(d, gid)][x].refs
                     = objects[x].refs + One(x = r)
                /\ objects[x].refs # 0 =>
                     [objects EXCEPT ![r] = Created(d, gid)][x].daemon = objects[x].daemon
<1>. DEFINE new == [objects EXCEPT ![r] = Created(d, gid)]
            o == Created(d, gid)
<1>0. \A x \in Relays : objects[x].refs \in Nat
  BY DEF Objects, RelayRecord
<1>2. o \in RelayRecord /\ o.refs = 1 /\ o.daemon = d
  BY DEF RelayRecord, Created, MaybeDaemon
<1>3. new = [objects EXCEPT ![r] = o]
  OBVIOUS
<1>. HIDE DEF o, new
<1>4. new \in Objects
  BY <1>2, <1>3 DEF Objects
<1>5. \A x \in Relays : new[x] = IF x = r THEN o ELSE objects[x]
  BY <1>3 DEF Objects
<1>6. \A x \in Relays : /\ new[x].refs = objects[x].refs + One(x = r)
                        /\ objects[x].refs # 0 => new[x].daemon = objects[x].daemon
  BY <1>0, <1>2, <1>5 DEF One
<1>7. new[r].daemon = d
  BY <1>2, <1>5
<1>. QED  BY <1>4, <1>6, <1>7 DEF new

-----------------------------------------------------------------------------
(* What steps leave alone *)

LEMMA Typed ==
    ASSUME TypeOK
    PROVE  /\ relay \in Objects
           /\ \A r \in Relays : relay[r].refs \in Nat
           /\ \A s \in Slots :
                /\ backends[s] \in BackendRecord /\ backends[s].relay \in MaybeRelay
                /\ \A l \in Lanes : backends[s].display[l] \in MaybeRelay
           /\ \A d \in Daemons :
                /\ conn[d] \in ConnRecord /\ conn[d].snap \in Snapshots
                /\ conn[d].snap.relay \in MaybeRelay
           /\ \A c \in Clients :
                /\ client[c] \in ClientRecord /\ client[c].snap \in Snapshots
                /\ client[c].snap.relay \in MaybeRelay
                /\ client[c].display \in MaybeRelay /\ client[c].own \in MaybeRelay
<1>1. relay \in Objects /\ \A r \in Relays : relay[r].refs \in Nat
  BY DEF TypeOK, Objects, RelayRecord
<1>2. ASSUME NEW s \in Slots
      PROVE  /\ backends[s] \in BackendRecord /\ backends[s].relay \in MaybeRelay
             /\ \A l \in Lanes : backends[s].display[l] \in MaybeRelay
  <2>1. backends[s] \in BackendRecord
    BY DEF TypeOK
  <2>. QED  BY <2>1 DEF BackendRecord
<1>3. ASSUME NEW d \in Daemons
      PROVE  /\ conn[d] \in ConnRecord /\ conn[d].snap \in Snapshots
             /\ conn[d].snap.relay \in MaybeRelay
  <2>1. conn[d] \in ConnRecord
    BY DEF TypeOK
  <2>. QED  BY <2>1 DEF ConnRecord, Snapshots
<1>4. ASSUME NEW c \in Clients
      PROVE  /\ client[c] \in ClientRecord /\ client[c].snap \in Snapshots
             /\ client[c].snap.relay \in MaybeRelay
             /\ client[c].display \in MaybeRelay /\ client[c].own \in MaybeRelay
  <2>1. client[c] \in ClientRecord
    BY DEF TypeOK
  <2>2. client[c].snap \in Snapshots /\ client[c].display \in MaybeRelay
        /\ client[c].own \in MaybeRelay
    BY <2>1 DEF ClientRecord
  <2>. QED  BY <2>1, <2>2 DEF Snapshots
<1>. QED  BY <1>1, <1>2, <1>3, <1>4

Held(r) ==
    \/ SlotHolds(r) # {} \/ LaneHolds(r) # {} \/ ConnHolds(r) # {}
    \/ SnapHolds(r) # {} \/ DisplayHolds(r) # {} \/ OwnHolds(r) # {}

LEMMA HeldNow ==
    \A r \in Relays : Counted(r) => relay[r].refs \in Nat /\ (Held(r) => relay[r].refs > 0)
BY HeldAlive DEF Held

LEMMA HeldNext ==
    (\A r \in Relays : Counted(r) => relay[r].refs \in Nat /\ (Held(r) => relay[r].refs > 0))'
BY HeldNow, PTL

\* A relay keeps its session as long as it is allocated.
Stable ==
    \A r \in Relays : relay[r].refs # 0 /\ relay'[r].refs # 0 =>
        relay'[r].daemon = relay[r].daemon

\* A daemon registers once.
RegisteredOnce == \A d \in Daemons : conn[d].pc # "new" => conn'[d].pc # "new"

CountedAll == \A r \in Relays : Counted(r)

LEMMA KeptSession ==
    ASSUME CountedAll, CountedAll', Stable, NEW x \in Relays, Held(x), Held(x)'
    PROVE  relay'[x].daemon = relay[x].daemon
<1>1. relay[x].refs # 0
  BY HeldNow DEF CountedAll
<1>2. relay'[x].refs # 0
  <2>1. Counted(x)'
    BY DEF CountedAll
  <2>. QED  BY <2>1, HeldNext
<1>. QED  BY <1>1, <1>2 DEF Stable

LEMMA SlotStays ==
    ASSUME IInv, CountedAll', Stable, RegisteredOnce, NEW s \in Slots, backends'[s] = backends[s]
    PROVE  SlotOK(s)'
<1>1. CountedAll /\ SlotOK(s) /\ TypeOK
  BY DEF IInv, CountedAll
<1>2. ASSUME NEW x, x # None, x = backends[s].relay
      PROVE  relay'[x].daemon = relay[x].daemon
  <2>1. x \in Relays
    BY <1>1, <1>2, Typed DEF MaybeRelay
  <2>2. Held(x) /\ Held(x)'
    <3>1. s \in SlotHolds(x) /\ s \in SlotHolds(x)'
      BY <1>2 DEF SlotHolds
    <3>. QED  BY <3>1 DEF Held
  <2>. QED  BY <1>1, <2>1, <2>2, KeptSession
<1>3. ASSUME NEW l \in Lanes, NEW x, x # None, x = backends[s].display[l]
      PROVE  relay'[x].daemon = relay[x].daemon
  <2>1. x \in Relays
    BY <1>1, <1>3, Typed DEF MaybeRelay
  <2>2. Held(x) /\ Held(x)'
    <3>1. <<s, l>> \in LaneHolds(x) /\ <<s, l>> \in LaneHolds(x)'
      BY <1>3 DEF LaneHolds
    <3>. QED  BY <3>1 DEF Held
  <2>. QED  BY <1>1, <2>1, <2>2, KeptSession
<1>. QED  BY <1>1, <1>2, <1>3 DEF SlotOK, RegisteredOnce

\* The things that client d goes on holding.
LEMMA ClientHoldsOn ==
    ASSUME IInv, CountedAll', Stable, NEW d \in Clients, NEW x, x # None,
           \/ client[d].snap.relay = x /\ client'[d].snap.relay = x
           \/ client[d].display = x /\ client'[d].display = x
           \/ client[d].own = x /\ client'[d].own = x
    PROVE  x \in Relays /\ relay'[x].daemon = relay[x].daemon
<1>1. CountedAll /\ TypeOK
  BY DEF IInv, CountedAll
<1>2. x \in Relays
  BY <1>1, Typed DEF MaybeRelay
<1>3. Held(x) /\ Held(x)'
  <2>1. \/ d \in SnapHolds(x) /\ d \in SnapHolds(x)'
        \/ d \in DisplayHolds(x) /\ d \in DisplayHolds(x)'
        \/ d \in OwnHolds(x) /\ d \in OwnHolds(x)'
    BY DEF SnapHolds, DisplayHolds, OwnHolds
  <2>. QED  BY <2>1 DEF Held
<1>. QED  BY <1>1, <1>2, <1>3, KeptSession

\* A client that another thread's step leaves as it is.
LEMMA SessionStays ==
    ASSUME IInv, CountedAll', Stable, RegisteredOnce, NEW d \in Clients,
           NEW u, u = client[d], u = client'[d],
           Current(u.snap)' => Current(u.snap),
           \A r \in Relays : relay'[r].refs > relay[r].refs =>
               relay[r].refs = 0 \/ d \notin OwnHolds(r),
           \A s \in Slots, l \in Lanes : u.display # None /\ backends'[s].display[l] = u.display
               => backends[s].display[l] = u.display
    PROVE  SessionOK(d, u)'
<1>1. SessionOK(d, u) /\ ShapeOK(u) /\ CountedAll /\ TypeOK
  BY DEF IInv, CountedAll
<1>2. u.snap.relay # None => relay'[u.snap.relay].daemon = relay[u.snap.relay].daemon
  BY ClientHoldsOn
<1>3. u.display # None => relay'[u.display].daemon = relay[u.display].daemon
  BY ClientHoldsOn
<1>4. u.own # None => relay'[u.own].daemon = relay[u.own].daemon /\ u.own \in Relays
  BY ClientHoldsOn
<1>5. ASSUME u.pc = "install"
      PROVE  relay'[u.own].refs = 1
  <2>1. u.own # None /\ relay[u.own].refs = 1
    BY <1>1, <1>5 DEF ShapeOK, SessionOK
  <2>2. u.own \in Relays
    BY <1>4, <2>1
  <2>3. d \in OwnHolds(u.own)
    BY DEF OwnHolds
  <2>4. ~(relay'[u.own].refs > 1)
    BY <2>1, <2>2, <2>3
  <2>5. relay'[u.own].refs \in Nat /\ relay'[u.own].refs > 0
    <3>1. PICK x : x = u.own
      OBVIOUS
    <3>2. d \in OwnHolds(x)'
      BY <3>1 DEF OwnHolds
    <3>3. Held(x)' /\ Counted(x)'
      BY <2>2, <3>1, <3>2 DEF Held, CountedAll
    <3>. QED  BY <2>2, <3>1, <3>3, HeldNext
  <2>. QED  BY <2>4, <2>5
<1>6. u.pc = "drop" => u.display # None
  BY <1>1 DEF ShapeOK, Holding
<1>7. u.pc = "install" => u.own # None
  BY <1>1 DEF ShapeOK, Holding
<1>. QED  BY <1>1, <1>2, <1>3, <1>4, <1>5, <1>6, <1>7 DEF SessionOK, RegisteredOnce

-----------------------------------------------------------------------------
(* Steps of a client's thread outside the registry *)

\* Thread c comes to the state t; each reference it takes or gives back is
\* counted, and only a relay that is nobody's, or a registration's, is taken.
ClientMove(c, t) ==
    /\ t \in ClientRecord /\ client' = [client EXCEPT ![c] = t]
    /\ backends' = backends /\ conn' = conn /\ alive' = alive
    /\ relay' \in Objects /\ Stable
    /\ \A r \in Relays : relay'[r].refs = relay[r].refs
           + One(t.snap.relay = r) - One(client[c].snap.relay = r)
           + One(t.display = r) - One(client[c].display = r)
           + One(t.own = r) - One(client[c].own = r)
    /\ \A r \in Relays : relay'[r].refs > relay[r].refs =>
           relay[r].refs = 0 \/ OwnHolds(r) = {}
    /\ t.own # None => t.own = client[c].own \/ relay[t.own].refs = 0
    /\ ShapeOK(t)

LEMMA ClientIs ==
    ASSUME TypeOK, NEW c \in Clients, NEW t \in ClientRecord,
           client' = [client EXCEPT ![c] = t]
    PROVE  /\ client'[c] = t /\ \A d \in Clients \ {c} : client'[d] = client[d]
           /\ client' \in [Clients -> ClientRecord]
BY DEF TypeOK

LEMMA MoveCounted ==
    ASSUME IInv, NEW c \in Clients, NEW t, ClientMove(c, t)
    PROVE  CountedAll'
<1>0. TypeOK /\ client'[c] = t /\ \A d \in Clients \ {c} : client'[d] = client[d]
  BY ClientIs DEF IInv, ClientMove
<1>. SUFFICES ASSUME NEW r \in Relays
              PROVE  Counted(r)'
  BY DEF CountedAll
<1>1. /\ SlotHolds(r)' = SlotHolds(r) /\ LaneHolds(r)' = LaneHolds(r)
      /\ ConnHolds(r)' = ConnHolds(r)
  BY DEF ClientMove, SlotHolds, LaneHolds, ConnHolds
<1>2. /\ Cardinality(SnapHolds(r)') = Cardinality(SnapHolds(r))
                + One(t.snap.relay = r) - One(client[c].snap.relay = r)
      /\ Cardinality(DisplayHolds(r)') = Cardinality(DisplayHolds(r))
                + One(t.display = r) - One(client[c].display = r)
      /\ Cardinality(OwnHolds(r)') = Cardinality(OwnHolds(r))
                + One(t.own = r) - One(client[c].own = r)
  BY <1>0, ClientCounts
<1>. DEFINE a == Cardinality(SlotHolds(r))    b == Cardinality(LaneHolds(r))
            e == Cardinality(ConnHolds(r))    f == Cardinality(SnapHolds(r))
            g == Cardinality(DisplayHolds(r)) h == Cardinality(OwnHolds(r))
<1>3. a \in Nat /\ b \in Nat /\ e \in Nat /\ f \in Nat /\ g \in Nat /\ h \in Nat
  BY HoldsSized
<1>4. Counted(r)
  BY DEF IInv
<1>5. relay[r].refs = a + b + e + f + g + h /\ a + b + h <= 1
  BY <1>4 DEF Counted
<1>6. t.own = r /\ client[c].own # r => a = 0 /\ b = 0 /\ h = 0
  <2>1. SUFFICES ASSUME t.own = r, client[c].own # r
                 PROVE  a = 0 /\ b = 0 /\ h = 0
    OBVIOUS
  <2>2. t.own # None /\ relay[r].refs = 0
    BY <2>1, NoneIsNone DEF ClientMove
  <2>. QED  BY <1>4, <2>2, Unheld, HoldsSized
<1>7. relay'[r].refs = relay[r].refs
           + One(t.snap.relay = r) - One(client[c].snap.relay = r)
           + One(t.display = r) - One(client[c].display = r)
           + One(t.own = r) - One(client[c].own = r)
  BY DEF ClientMove
<1>8. /\ Cardinality(SlotHolds(r)') = a /\ Cardinality(LaneHolds(r)') = b
      /\ Cardinality(ConnHolds(r)') = e
  BY <1>1
<1>. HIDE DEF a, b, e, f, g, h
<1>9. /\ Cardinality(SnapHolds(r)') = f
                + One(t.snap.relay = r) - One(client[c].snap.relay = r)
      /\ Cardinality(DisplayHolds(r)') = g
                + One(t.display = r) - One(client[c].display = r)
      /\ Cardinality(OwnHolds(r)') = h
                + One(t.own = r) - One(client[c].own = r)
  BY <1>2 DEF f, g, h
<1>10. relay'[r].refs = Cardinality(SlotHolds(r)') + Cardinality(LaneHolds(r)')
           + Cardinality(ConnHolds(r)') + Cardinality(SnapHolds(r)')
           + Cardinality(DisplayHolds(r)') + Cardinality(OwnHolds(r)')
  BY <1>3, <1>5, <1>7, <1>8, <1>9 DEF One
<1>11. Cardinality(SlotHolds(r)') + Cardinality(LaneHolds(r)')
           + Cardinality(OwnHolds(r)') <= 1
  BY <1>3, <1>5, <1>6, <1>8, <1>9 DEF One
<1>. QED  BY <1>10, <1>11 DEF Counted

LEMMA MoveKeeps ==
    ASSUME IInv, NEW c \in Clients, NEW t, ClientMove(c, t), SessionOK(c, t)'
    PROVE  IInv'
<1>1. TypeOK /\ client'[c] = t /\ (\A d \in Clients \ {c} : client'[d] = client[d])
      /\ client' \in [Clients -> ClientRecord] /\ ShapeOK(t)
  BY ClientIs DEF IInv, ClientMove
<1>2. CountedAll' /\ Stable /\ RegisteredOnce /\ backends' = backends /\ conn' = conn
      /\ alive' = alive /\ relay' \in Objects
  BY MoveCounted DEF ClientMove, RegisteredOnce
<1>3. TypeOK'
  BY <1>1, <1>2 DEF TypeOK, Objects
<1>4. \A s \in Slots : SlotOK(s)'
  BY <1>2, SlotStays
<1>5. OneEach' /\ \A d \in Daemons : ConnOK(d)'
  BY <1>2 DEF IInv, OneEach, ConnOK
<1>6. ASSUME NEW d \in Clients
      PROVE  ShapeOK(client'[d]) /\ SessionOK(d, client[d])'
  <2>1. CASE d = c
    BY <1>1, <2>1
  <2>2. CASE d # c
    <3>1. PICK u : u = client[d]
      OBVIOUS
    <3>2. u = client'[d]
      BY <1>1, <2>2, <3>1
    <3>3. Current(u.snap)' <=> Current(u.snap)
      BY <1>2 DEF Current
    <3>4. \A r \in Relays : relay'[r].refs > relay[r].refs =>
               relay[r].refs = 0 \/ d \notin OwnHolds(r)
      BY DEF ClientMove
    <3>5. SessionOK(d, u)'
      BY <1>2, <3>1, <3>2, <3>3, <3>4, SessionStays
    <3>6. ShapeOK(u)
      BY <3>1 DEF IInv
    <3>. QED  BY <3>2, <3>5, <3>6
  <2>. QED  BY <2>1, <2>2
<1>. QED  BY <1>2, <1>3, <1>4, <1>5, <1>6 DEF IInv, CountedAll

\* The session of what the thread has kept is what it was; the rest is argued
\* where it comes from.
LEMMA MoveSession ==
    ASSUME IInv, NEW c \in Clients, NEW t, ClientMove(c, t),
           client[c].pc # "idle", t.snap = client[c].snap,
           \/ t.display = None \/ t.display = client[c].display
           \/ /\ DaemonUid[relay'[t.display].daemon] = ClientUid[c]
              /\ Current(t.snap) => relay'[t.display].daemon = t.snap.daemon,
           t.pc \in {"spawn", "install"} =>
              /\ DaemonUid[t.registration] = ClientUid[c]
              /\ Current(t.snap) => t.registration = t.snap.daemon,
           t.pc = "install" =>
              relay'[t.own].daemon = t.registration /\ relay'[t.own].refs = 1,
           t.served # None /\ (Current(t.snap) \/ t.verdict = "released") =>
              t.served = t.snap.daemon,
           t.pc = "drop" => \A s \in Slots, l \in Lanes : backends[s].display[l] # t.display
    PROVE  SessionOK(c, t)'
<1>1. TypeOK /\ client'[c] = t
  BY ClientIs DEF IInv, ClientMove
<1>2. CountedAll' /\ Stable /\ backends' = backends /\ conn' = conn
  BY MoveCounted DEF ClientMove
<1>3. PICK u : u = client[c]
  OBVIOUS
<1>4. SessionOK(c, u) /\ u.pc # "idle" /\ t.snap = u.snap
  BY <1>3 DEF IInv
<1>5. t.snap.relay # None => relay'[t.snap.relay].daemon = t.snap.daemon
  <2>1. t.snap.relay # None => relay'[t.snap.relay].daemon = relay[t.snap.relay].daemon
    BY <1>1, <1>2, ClientHoldsOn
  <2>. QED  BY <1>4, <2>1 DEF SessionOK
<1>6. Current(t.snap)' <=> Current(t.snap)
  BY <1>2 DEF Current
<1>7. t.display # None =>
         /\ DaemonUid[relay'[t.display].daemon] = ClientUid[c]
         /\ Current(t.snap) => relay'[t.display].daemon = t.snap.daemon
  <2>1. CASE t.display # None /\ t.display = u.display
    <3>1. relay'[t.display].daemon = relay[t.display].daemon
      BY <1>1, <1>2, <1>3, <2>1, ClientHoldsOn
    <3>. QED  BY <1>4, <2>1, <3>1 DEF SessionOK
  <2>. QED  BY <1>3, <2>1
<1>8. /\ t.snap.daemon \in Daemons /\ DaemonUid[t.snap.daemon] = ClientUid[c]
      /\ conn'[t.snap.daemon].pc # "new"
  BY <1>2, <1>4 DEF SessionOK
<1>. QED  BY <1>2, <1>5, <1>6, <1>7, <1>8 DEF SessionOK

LEMMA ClientHas ==
    ASSUME IInv, NEW c \in Clients, NEW u, u = client[c]
    PROVE  /\ TypeOK /\ CountedAll /\ relay \in Objects
           /\ u \in ClientRecord /\ ShapeOK(u) /\ SessionOK(c, u)
           /\ u.snap.relay \in MaybeRelay /\ u.display \in MaybeRelay /\ u.own \in MaybeRelay
BY Typed DEF IInv, CountedAll

\* References stay where they are, and so do the relays' sessions and counts.
LEMMA QuietMove ==
    ASSUME IInv, NEW c \in Clients, NEW t \in ClientRecord,
           client' = [client EXCEPT ![c] = t],
           backends' = backends, conn' = conn, alive' = alive, relay' \in Objects,
           \A r \in Relays : /\ relay'[r].refs = relay[r].refs
                             /\ relay'[r].daemon = relay[r].daemon,
           t.snap = client[c].snap, t.display = client[c].display, t.own = client[c].own,
           ShapeOK(t)
    PROVE  ClientMove(c, t)
<1>1. \A r \in Relays : relay[r].refs \in Nat
  BY Typed DEF IInv
<1>2. \A r \in Relays : relay'[r].refs = relay[r].refs
           + One(t.snap.relay = r) - One(client[c].snap.relay = r)
           + One(t.display = r) - One(client[c].display = r)
           + One(t.own = r) - One(client[c].own = r)
  BY <1>1 DEF One
<1>3. Stable
  BY DEF Stable
<1>4. \A r \in Relays : ~(relay'[r].refs > relay[r].refs)
  BY <1>1
<1>. QED  BY <1>2, <1>3, <1>4 DEF ClientMove

LEMMA RefuseKeeps ==
    ASSUME IInv, NEW c \in Clients, Refuse(c)
    PROVE  IInv'
<1>1. PICK u : u = client[c]
  OBVIOUS
<1>2. PICK t : t = [client[c] EXCEPT !.pc = "release"]
  OBVIOUS
<1>3. u \in ClientRecord /\ ShapeOK(u) /\ SessionOK(c, u) /\ u.pc = "taken" /\ relay \in Objects
  BY <1>1, ClientHas DEF Refuse
<1>4. /\ t \in ClientRecord /\ t.pc = "release" /\ t.snap = u.snap /\ t.display = u.display
      /\ t.own = u.own /\ t.served = u.served /\ t.verdict = u.verdict
  BY <1>1, <1>2, <1>3 DEF ClientRecord
<1>5. ShapeOK(t)
  BY <1>3, <1>4 DEF ShapeOK, Working, Holding
<1>6. client' = [client EXCEPT ![c] = t]
      /\ relay' = relay /\ backends' = backends /\ conn' = conn /\ alive' = alive
  BY <1>2 DEF Refuse, Goto
<1>7. ClientMove(c, t)
  BY <1>1, <1>3, <1>4, <1>5, <1>6, QuietMove
<1>8. t.served # None /\ (Current(t.snap) \/ t.verdict = "released") =>
        t.served = t.snap.daemon
  BY <1>3, <1>4 DEF SessionOK
<1>9. SessionOK(c, t)'
  BY <1>1, <1>3, <1>4, <1>7, <1>8, MoveSession
<1>. QED  BY <1>7, <1>9, MoveKeeps

\* execute_operation routes an admitted operation.
LEMMA AdmitKeeps ==
    ASSUME IInv, NEW c \in Clients, Admit(c)
    PROVE  IInv'
<1>1. PICK u : u = client[c]
  OBVIOUS
<1>2. u \in ClientRecord /\ ShapeOK(u) /\ SessionOK(c, u) /\ u.pc = "taken" /\ relay \in Objects
      /\ u.own = None /\ u.display = None /\ u.verdict = "none"
  BY <1>1, ClientHas DEF Admit, ShapeOK, Working, Holding
<1>3. relay' = relay /\ backends' = backends /\ conn' = conn /\ alive' = alive
  BY DEF Admit
<1>4. \E t : /\ client' = [client EXCEPT ![c] = t]
             /\ t \in ClientRecord /\ t.snap = u.snap /\ t.display = u.display
             /\ t.own = u.own /\ t.served = u.served /\ t.verdict = u.verdict
             /\ t.pc \in {"provider", "final", "lookup"} /\ ShapeOK(t)
  <2>1. CASE u.snap.relay # None /\ Goto(c, "provider")
    <3>1. PICK t : t = [client[c] EXCEPT !.pc = "provider"]
      OBVIOUS
    <3>2. /\ t \in ClientRecord /\ t.snap = u.snap /\ t.display = u.display
          /\ t.own = u.own /\ t.served = u.served /\ t.verdict = u.verdict
          /\ t.pc = "provider" /\ (t.child <=> u.child) /\ t.lane = u.lane
      BY <1>1, <1>2, <3>1 DEF ClientRecord
    <3>3. ShapeOK(t)
      BY <1>2, <2>1, <3>2 DEF ShapeOK, Working, Holding
    <3>4. client' = [client EXCEPT ![c] = t]
      BY <2>1, <3>1 DEF Goto
    <3>. QED  BY <3>2, <3>3, <3>4
  <2>2. CASE Goto(c, "final")
    <3>1. PICK t : t = [client[c] EXCEPT !.pc = "final"]
      OBVIOUS
    <3>2. /\ t \in ClientRecord /\ t.snap = u.snap /\ t.display = u.display
          /\ t.own = u.own /\ t.served = u.served /\ t.verdict = u.verdict
          /\ t.pc = "final" /\ (t.child <=> u.child) /\ t.lane = u.lane
      BY <1>1, <1>2, <3>1 DEF ClientRecord
    <3>3. ShapeOK(t)
      BY <1>2, <2>2, <3>2 DEF ShapeOK, Working, Holding
    <3>4. client' = [client EXCEPT ![c] = t]
      BY <2>2, <3>1 DEF Goto
    <3>. QED  BY <3>2, <3>3, <3>4
  <2>3. ASSUME NEW l \in Lanes, NEW m \in {"observe", "main"},
               client' = [client EXCEPT ![c].pc = "lookup", ![c].mode = m, ![c].lane = l]
        PROVE  \E t : /\ client' = [client EXCEPT ![c] = t]
                     /\ t \in ClientRecord /\ t.snap = u.snap /\ t.display = u.display
                     /\ t.own = u.own /\ t.served = u.served /\ t.verdict = u.verdict
                     /\ t.pc \in {"provider", "final", "lookup"} /\ ShapeOK(t)
    <3>1. PICK t : t = [client[c] EXCEPT !.pc = "lookup", !.mode = m, !.lane = l]
      OBVIOUS
    <3>2. /\ t \in ClientRecord /\ t.snap = u.snap /\ t.display = u.display
          /\ t.own = u.own /\ t.served = u.served /\ t.verdict = u.verdict
          /\ t.pc = "lookup" /\ t.lane = l
      BY <1>1, <1>2, <3>1 DEF ClientRecord
    <3>3. ShapeOK(t)
      BY <1>2, <3>2 DEF ShapeOK, Working, Holding
    <3>4. client' = [client EXCEPT ![c] = t]
      BY <2>3, <3>1
    <3>. QED  BY <3>2, <3>3, <3>4
  <2>4. \A b : DisplayLanes(b) \subseteq Lanes
    BY DEF DisplayLanes
  <2>. QED  BY <1>1, <2>1, <2>2, <2>3, <2>4 DEF Admit
<1>5. PICK t : /\ client' = [client EXCEPT ![c] = t]
               /\ t \in ClientRecord /\ t.snap = u.snap /\ t.display = u.display
               /\ t.own = u.own /\ t.served = u.served /\ t.verdict = u.verdict
               /\ t.pc \in {"provider", "final", "lookup"} /\ ShapeOK(t)
  BY <1>4
<1>7. ClientMove(c, t)
  BY <1>1, <1>2, <1>3, <1>5, QuietMove
<1>8. t.served # None /\ (Current(t.snap) \/ t.verdict = "released") =>
        t.served = t.snap.daemon
  BY <1>2, <1>5 DEF SessionOK
<1>9. SessionOK(c, t)'
  BY <1>1, <1>2, <1>5, <1>7, <1>8, MoveSession
<1>. QED  BY <1>7, <1>9, MoveKeeps

LEMMA CallProviderKeeps ==
    ASSUME IInv, NEW c \in Clients, CallProvider(c)
    PROVE  IInv'
<1>1. PICK u : u = client[c]
  OBVIOUS
<1>2. u \in ClientRecord /\ ShapeOK(u) /\ SessionOK(c, u) /\ u.pc = "provider"
      /\ relay \in Objects /\ u.own = None /\ u.display = None /\ u.verdict = "none"
  BY <1>1, ClientHas DEF CallProvider, ShapeOK, Working, Holding
<1>3. u.snap.relay \in Relays /\ u.snap.relay # None
  BY <1>1, <1>2, ClientHas DEF ShapeOK, MaybeRelay
<1>4. PICK o \in CallOutcomes(u.snap.relay) :
        /\ client' = [client EXCEPT ![c].pc = "final",
               ![c].served = IF o.answered THEN relay[u.snap.relay].daemon ELSE None]
        /\ relay' = [relay EXCEPT ![u.snap.relay].broken = o.broken]
  BY <1>1 DEF CallProvider
<1>5. backends' = backends /\ conn' = conn /\ alive' = alive
  BY DEF CallProvider
<1>6. o.broken \in BOOLEAN
  BY DEF CallOutcomes
<1>7. relay' \in Objects /\ \A r \in Relays : /\ relay'[r].refs = relay[r].refs
                                             /\ relay'[r].daemon = relay[r].daemon
  <2>1. PICK x \in Relays, b \in BOOLEAN : x = u.snap.relay /\ b = o.broken
    BY <1>3, <1>6
  <2>. DEFINE after == [relay EXCEPT ![x].broken = b]
  <2>2. after \in Objects /\ \A r \in Relays : /\ after[r].refs = relay[r].refs
                                              /\ after[r].daemon = relay[r].daemon
    BY <1>2, BrokenEffect
  <2>3. relay' = after
    BY <1>4, <2>1
  <2>. HIDE DEF after
  <2>. QED  BY <2>2, <2>3
<1>8. PICK v \in {u.snap.daemon, None} :
        client' = [client EXCEPT ![c].pc = "final", ![c].served = v]
  <2>1. relay[u.snap.relay].daemon = u.snap.daemon
    BY <1>2, <1>3 DEF SessionOK
  <2>2. (IF o.answered THEN relay[u.snap.relay].daemon ELSE None) \in {u.snap.daemon, None}
    BY <2>1
  <2>. QED  BY <1>4, <2>2
<1>9. v \in MaybeDaemon
  BY <1>2 DEF ClientRecord, Snapshots, MaybeDaemon
<1>10. PICK t : t = [client[c] EXCEPT !.pc = "final", !.served = v]
  OBVIOUS
<1>11. /\ t \in ClientRecord /\ t.pc = "final" /\ t.snap = u.snap /\ t.display = u.display
       /\ t.own = u.own /\ t.served = v /\ t.verdict = u.verdict
       /\ (t.child <=> u.child) /\ t.lane = u.lane
  BY <1>1, <1>2, <1>9, <1>10, ZenonT(40) DEF ClientRecord
<1>12. client' = [client EXCEPT ![c] = t]
  BY <1>8, <1>10
<1>13. ShapeOK(t)
  BY <1>2, <1>11 DEF ShapeOK, Working, Holding
<1>14. ClientMove(c, t)
  BY <1>1, <1>5, <1>7, <1>11, <1>12, <1>13, QuietMove
<1>15. SessionOK(c, t)'
  BY <1>1, <1>2, <1>8, <1>11, <1>14, MoveSession
<1>. QED  BY <1>14, <1>15, MoveKeeps

\* ksd_kwin_relay_call to a display worker.
LEMMA CallKeeps ==
    ASSUME IInv, NEW c \in Clients, Call(c)
    PROVE  IInv'
<1>1. PICK u : u = client[c]
  OBVIOUS
<1>2. u \in ClientRecord /\ ShapeOK(u) /\ SessionOK(c, u) /\ u.pc = "call"
      /\ relay \in Objects /\ u.own = None /\ u.display # None /\ u.lane \in Lanes
  BY <1>1, ClientHas DEF Call, ShapeOK, Working, Holding
<1>3. u.display \in Relays
  BY <1>1, <1>2, ClientHas DEF MaybeRelay
<1>4. PICK o \in CallOutcomes(u.display), child \in BOOLEAN :
        /\ client' = [client EXCEPT
               ![c].pc = IF client[c].mode = "main" THEN "called" ELSE "keep",
               ![c].failed = client[c].mode = "main" /\ o.broken,
               ![c].child = @ \/ child,
               ![c].served = IF client[c].mode = "main" /\ o.answered
                             THEN relay[u.display].daemon ELSE @]
        /\ relay' = [relay EXCEPT ![u.display].broken = o.broken]
  BY <1>1 DEF Call
<1>5. backends' = backends /\ conn' = conn /\ alive' = alive
  BY DEF Call
<1>6. o.broken \in BOOLEAN
  BY DEF CallOutcomes
<1>7. relay' \in Objects /\ \A r \in Relays : /\ relay'[r].refs = relay[r].refs
                                             /\ relay'[r].daemon = relay[r].daemon
  <2>1. PICK x \in Relays, b \in BOOLEAN : x = u.display /\ b = o.broken
    BY <1>3, <1>6
  <2>. DEFINE after == [relay EXCEPT ![x].broken = b]
  <2>2. after \in Objects /\ \A r \in Relays : /\ after[r].refs = relay[r].refs
                                              /\ after[r].daemon = relay[r].daemon
    BY <1>2, BrokenEffect
  <2>3. relay' = after
    BY <1>4, <2>1
  <2>. HIDE DEF after
  <2>. QED  BY <2>2, <2>3
<1>8. PICK q \in {"called", "keep"}, f \in BOOLEAN, k \in BOOLEAN,
           v \in {u.served, relay[u.display].daemon} :
        /\ client' = [client EXCEPT ![c].pc = q, ![c].failed = f, ![c].child = k,
                                    ![c].served = v]
        /\ v = u.served \/ u.mode = "main"
  <2>0. PICK q \in {"called", "keep"}, f \in BOOLEAN :
          /\ q = IF client[c].mode = "main" THEN "called" ELSE "keep"
          /\ f = (client[c].mode = "main" /\ o.broken)
    OBVIOUS
  <2>1. PICK k \in BOOLEAN : k = (client[c].child \/ child)
    OBVIOUS
  <2>2. PICK v : v = IF client[c].mode = "main" /\ o.answered
                     THEN relay[u.display].daemon ELSE client[c].served
    OBVIOUS
  <2>3. client' = [client EXCEPT ![c].pc = q, ![c].failed = f, ![c].child = k,
                                 ![c].served = v]
    BY <1>4, <2>0, <2>1, <2>2
  <2>4. v \in {u.served, relay[u.display].daemon} /\ (v = u.served \/ u.mode = "main")
    BY <1>1, <2>2
  <2>. QED  BY <2>3, <2>4
<1>9. v \in MaybeDaemon
  BY <1>2, <1>3, <1>8 DEF ClientRecord, Objects, RelayRecord
<1>10. PICK t : t = [client[c] EXCEPT !.pc = q, !.failed = f, !.child = k, !.served = v]
  OBVIOUS
<1>11. /\ t \in ClientRecord /\ t.pc = q /\ t.snap = u.snap /\ t.display = u.display
       /\ t.own = u.own /\ t.served = v /\ t.verdict = u.verdict
       /\ t.lane = u.lane /\ t.mode = u.mode
  BY <1>1, <1>2, <1>9, <1>10, ZenonT(120) DEF ClientRecord
<1>12. client' = [client EXCEPT ![c] = t]
  BY <1>8, <1>10
<1>13. ShapeOK(t)
  BY <1>2, <1>11 DEF ShapeOK, Working, Holding
<1>14. ClientMove(c, t)
  BY <1>1, <1>5, <1>7, <1>11, <1>12, <1>13, QuietMove
<1>15. t.served # None /\ (Current(t.snap) \/ t.verdict = "released") =>
         t.served = t.snap.daemon
  <2>1. u.mode = "main" => u.verdict # "released"
    BY <1>2 DEF ShapeOK, Working, Holding
  <2>2. Current(u.snap) => relay[u.display].daemon = u.snap.daemon
    BY <1>2 DEF SessionOK
  <2>3. u.served # None /\ (Current(u.snap) \/ u.verdict = "released") =>
         u.served = u.snap.daemon
    BY <1>2 DEF SessionOK
  <2>. QED  BY <1>8, <1>11, <2>1, <2>2, <2>3
<1>16. SessionOK(c, t)'
  BY <1>1, <1>2, <1>11, <1>14, <1>15, MoveSession
<1>. QED  BY <1>14, <1>16, MoveKeeps

\* ksd_kwin_relay_is_broken after the operation.
LEMMA AskKeeps ==
    ASSUME IInv, NEW c \in Clients, AskBroken(c)
    PROVE  IInv'
<1>1. PICK u : u = client[c]
  OBVIOUS
<1>2. u \in ClientRecord /\ ShapeOK(u) /\ SessionOK(c, u) /\ u.pc = "called"
      /\ relay \in Objects
  BY <1>1, ClientHas DEF AskBroken
<1>3. PICK q \in {"gone", "keep"} : q = IF relay[client[c].display].broken THEN "gone" ELSE "keep"
  OBVIOUS
<1>4. PICK t : t = [client[c] EXCEPT !.pc = q]
  OBVIOUS
<1>5. /\ t \in ClientRecord /\ t.pc = q /\ t.snap = u.snap /\ t.display = u.display
      /\ t.own = u.own /\ t.served = u.served /\ t.verdict = u.verdict
      /\ (t.child <=> u.child) /\ t.lane = u.lane /\ t.mode = u.mode
  BY <1>1, <1>2, <1>4 DEF ClientRecord
<1>6. ShapeOK(t)
  BY <1>2, <1>5 DEF ShapeOK, Working, Holding
<1>7. client' = [client EXCEPT ![c] = t]
      /\ relay' = relay /\ backends' = backends /\ conn' = conn /\ alive' = alive
  BY <1>3, <1>4 DEF AskBroken, Goto
<1>8. ClientMove(c, t)
  BY <1>1, <1>2, <1>5, <1>6, <1>7, QuietMove
<1>9. t.served # None /\ (Current(t.snap) \/ t.verdict = "released") =>
        t.served = t.snap.daemon
  BY <1>2, <1>5 DEF SessionOK
<1>10. SessionOK(c, t)'
  BY <1>1, <1>2, <1>5, <1>8, <1>9, MoveSession
<1>. QED  BY <1>8, <1>10, MoveKeeps

\* The last check of execute_operation: what is released came from the session
\* that is still registered.
LEMMA FinalKeeps ==
    ASSUME IInv, NEW c \in Clients, Final(c)
    PROVE  IInv'
<1>1. PICK u : u = client[c]
  OBVIOUS
<1>2. u \in ClientRecord /\ ShapeOK(u) /\ SessionOK(c, u) /\ u.pc = "final"
      /\ relay \in Objects /\ u.own = None /\ u.display = None
  BY <1>1, ClientHas DEF Final, ShapeOK, Holding
<1>3. relay' = relay /\ backends' = backends /\ conn' = conn /\ alive' = alive
  BY DEF Final
<1>4. PICK sync \in BOOLEAN, w \in {"released", "withheld"} :
        /\ w = "released" => Current(u.snap)
        /\ sync => u.child
        /\ client' = [client EXCEPT ![c].verdict = w,
              ![c].pc = IF sync THEN "lookup" ELSE "release",
              ![c].mode = IF sync THEN "sync" ELSE "main",
              ![c].lane = IF sync THEN @ ELSE None]
  <2>. DEFINE w == IF Current(client[c].snap) THEN "released" ELSE "withheld"
  <2>1. PICK sync \in BOOLEAN : sync = (w = "released" /\ client[c].child
                                           /\ client[c].served # None)
    OBVIOUS
  <2>2. client' = [client EXCEPT ![c].verdict = w,
              ![c].pc = IF sync THEN "lookup" ELSE "release",
              ![c].mode = IF sync THEN "sync" ELSE "main",
              ![c].lane = IF sync THEN @ ELSE None]
    BY <2>1, Zenon DEF Final
  <2>3. w \in {"released", "withheld"} /\ (w = "released" => Current(u.snap))
    BY <1>1
  <2>4. sync => u.child
    BY <1>1, <2>1
  <2>. QED  BY <2>2, <2>3, <2>4
<1>5. \E t : /\ client' = [client EXCEPT ![c] = t]
             /\ t \in ClientRecord /\ t.snap = u.snap /\ t.display = u.display
             /\ t.own = u.own /\ t.served = u.served /\ t.verdict = w
             /\ t.pc \in {"lookup", "release"} /\ ShapeOK(t)
  <2>1. CASE sync
    <3>1. PICK t : t = [client[c] EXCEPT !.verdict = w, !.pc = "lookup", !.mode = "sync"]
      OBVIOUS
    <3>2. /\ t \in ClientRecord /\ t.snap = u.snap /\ t.display = u.display
          /\ t.own = u.own /\ t.served = u.served /\ t.verdict = w
          /\ t.pc = "lookup" /\ t.mode = "sync" /\ t.lane = u.lane
      BY <1>1, <1>2, <3>1 DEF ClientRecord
    <3>3. u.lane \in Lanes
      BY <1>2, <1>4, <2>1 DEF ShapeOK, Holding
    <3>4. ShapeOK(t)
      BY <1>2, <3>2, <3>3 DEF ShapeOK, Working, Holding
    <3>5. client' = [client EXCEPT ![c].verdict = w, ![c].pc = "lookup",
                        ![c].mode = "sync", ![c].lane = @]
      BY <1>4, <2>1
    <3>6. client' = [client EXCEPT ![c] = t]
      <4>1. [client[c] EXCEPT !.verdict = w, !.pc = "lookup", !.mode = "sync", !.lane = @] = t
        BY <1>1, <1>2, <3>1 DEF ClientRecord
      <4>. QED  BY <3>5, <4>1
    <3>. QED  BY <3>2, <3>4, <3>6
  <2>2. CASE ~sync
    <3>1. PICK t : t = [client[c] EXCEPT !.verdict = w, !.pc = "release", !.mode = "main",
                            !.lane = None]
      OBVIOUS
    <3>2. /\ t \in ClientRecord /\ t.snap = u.snap /\ t.display = u.display
          /\ t.own = u.own /\ t.served = u.served /\ t.verdict = w
          /\ t.pc = "release"
      BY <1>1, <1>2, <3>1 DEF ClientRecord
    <3>3. ShapeOK(t)
      BY <1>2, <3>2 DEF ShapeOK, Working, Holding
    <3>4. client' = [client EXCEPT ![c] = t]
      BY <1>4, <2>2, <3>1
    <3>. QED  BY <3>2, <3>3, <3>4
  <2>. QED  BY <2>1, <2>2
<1>6. PICK t : /\ client' = [client EXCEPT ![c] = t]
               /\ t \in ClientRecord /\ t.snap = u.snap /\ t.display = u.display
               /\ t.own = u.own /\ t.served = u.served /\ t.verdict = w
               /\ t.pc \in {"lookup", "release"} /\ ShapeOK(t)
  BY <1>5
<1>7. ClientMove(c, t)
  BY <1>1, <1>2, <1>3, <1>6, QuietMove
<1>8. t.served # None /\ (Current(t.snap) \/ t.verdict = "released") =>
        t.served = t.snap.daemon
  BY <1>2, <1>4, <1>6 DEF SessionOK
<1>9. SessionOK(c, t)'
  BY <1>1, <1>2, <1>6, <1>7, <1>8, MoveSession
<1>. QED  BY <1>7, <1>9, MoveKeeps

\* The state a thread goes on in when it is done with a display worker.
LEMMA OnwardForm ==
    ASSUME NEW u \in ClientRecord, ShapeOK(u), u.pc \in Working, NEW t, t = Onward(u)
    PROVE  /\ t \in ClientRecord /\ t.pc \in {"lookup", "final", "release"}
           /\ t.snap = u.snap /\ t.display = None /\ t.own = None
           /\ t.served = u.served /\ t.verdict = u.verdict
           /\ ShapeOK(t)
<1>1. PICK q : q = CASE u.mode = "observe" -> "lookup"
                      [] u.mode = "main" -> "final"
                      [] u.mode = "sync" -> "release"
  OBVIOUS
<1>2. PICK m : m = IF u.mode = "observe" THEN "main" ELSE u.mode
  OBVIOUS
<1>3. u.mode \in {"observe", "main", "sync"}
  BY DEF ClientRecord
<1>4. q \in {"lookup", "final", "release"} /\ (u.mode = "sync" => q = "release")
      /\ m \in {"observe", "main", "sync"}
  BY <1>1, <1>2, <1>3
<1>5. t = [u EXCEPT !.pc = q, !.mode = m, !.failed = FALSE, !.slot = None,
                    !.registration = None, !.own = None, !.display = None]
  BY <1>1, <1>2 DEF Onward
<1>6. /\ t \in ClientRecord /\ t.pc = q /\ t.snap = u.snap /\ t.display = None
      /\ t.own = None /\ t.served = u.served /\ t.verdict = u.verdict
      /\ t.lane = u.lane
  BY <1>4, <1>5, ZenonT(40) DEF ClientRecord, MaybeDaemon, MaybeRelay
<1>7. u.lane \in Lanes /\ (u.verdict # "none" => u.mode = "sync")
  BY DEF ShapeOK, Working, Holding
<1>8. ShapeOK(t)
  BY <1>4, <1>6, <1>7 DEF ShapeOK, Working, Holding
<1>. QED  BY <1>4, <1>6, <1>8

\* release_backend_snapshot.
LEMMA ReleaseKeeps ==
    ASSUME IInv, NEW c \in Clients, Release(c)
    PROVE  IInv'
<1>1. PICK u : u = client[c]
  OBVIOUS
<1>2. u \in ClientRecord /\ u.pc = "release" /\ relay \in Objects /\ u.own = None
      /\ u.display = None /\ u.snap.relay \in MaybeRelay /\ CountedAll
  BY <1>1, ClientHas DEF Release, ShapeOK, Holding
<1>3. PICK t : t = IdleClient
  OBVIOUS
<1>4. /\ t \in ClientRecord /\ t.pc = "idle" /\ t.snap = NoSnapshot /\ t.display = None
      /\ t.own = None /\ t.served = None /\ t.verdict = "none" /\ ~t.child
  BY <1>3 DEF IdleClient, ClientRecord, NoSnapshot, Snapshots, MaybeDaemon, MaybeRelay
<1>5. ShapeOK(t)
  BY <1>4 DEF ShapeOK, Working, Holding
<1>6. client' = [client EXCEPT ![c] = t] /\ backends' = backends /\ conn' = conn
      /\ alive' = alive /\ relay' = Dropped(relay, u.snap.relay)
  BY <1>1, <1>3 DEF Release
<1>7. u.snap.relay # None => relay[u.snap.relay].refs > 0
  <2>1. c \in SnapHolds(u.snap.relay)
    BY <1>1 DEF SnapHolds
  <2>. QED  BY <1>2, <2>1, HeldAlive DEF MaybeRelay, CountedAll
<1>8. relay' \in Objects /\ \A x \in Relays :
        /\ relay'[x].refs = relay[x].refs - One(x = u.snap.relay)
        /\ relay'[x].refs # 0 => relay'[x].daemon = relay[x].daemon
  BY <1>2, <1>6, <1>7, DroppedEffect
<1>9. None \notin Relays /\ t.snap.relay = None /\ \A x \in Relays : relay[x].refs \in Nat
  BY <1>2, <1>4, NoneIsNone DEF NoSnapshot, Objects, RelayRecord
<1>10. ClientMove(c, t)
  <2>1. \A r \in Relays : relay'[r].refs = relay[r].refs
           + One(t.snap.relay = r) - One(client[c].snap.relay = r)
           + One(t.display = r) - One(client[c].display = r)
           + One(t.own = r) - One(client[c].own = r)
    BY <1>1, <1>2, <1>4, <1>8, <1>9 DEF One
  <2>2. \A r \in Relays : ~(relay'[r].refs > relay[r].refs)
    BY <1>8, <1>9 DEF One
  <2>3. Stable
    BY <1>8 DEF Stable
  <2>. QED  BY <1>4, <1>5, <1>6, <1>8, <2>1, <2>2, <2>3 DEF ClientMove
<1>11. SessionOK(c, t)'
  BY <1>4, <1>9 DEF SessionOK
<1>. QED  BY <1>10, <1>11, MoveKeeps

\* The thread's own reference to a display worker goes.
LEMMA DropKeeps ==
    ASSUME IInv, NEW c \in Clients, Drop(c)
    PROVE  IInv'
<1>1. PICK u : u = client[c]
  OBVIOUS
<1>2. u \in ClientRecord /\ u.pc \in {"drop", "keep"} /\ relay \in Objects /\ u.own = None
      /\ u.display \in MaybeRelay /\ CountedAll /\ ShapeOK(u) /\ SessionOK(c, u)
  BY <1>1, ClientHas DEF Drop, ShapeOK, Holding
<1>3. PICK t : t = Onward(u)
  OBVIOUS
<1>4. /\ t \in ClientRecord /\ t.pc \in {"lookup", "final", "release"}
      /\ t.snap = u.snap /\ t.display = None /\ t.own = None
      /\ t.served = u.served /\ t.verdict = u.verdict /\ ShapeOK(t)
  <2>1. u.pc \in Working
    BY <1>2 DEF Working, Holding
  <2>. QED  BY <1>2, <1>3, <2>1, OnwardForm
<1>6. client' = [client EXCEPT ![c] = t] /\ backends' = backends /\ conn' = conn
      /\ alive' = alive /\ relay' = Dropped(relay, u.display)
  BY <1>1, <1>3 DEF Drop
<1>7. u.display # None => relay[u.display].refs > 0
  <2>1. c \in DisplayHolds(u.display)
    BY <1>1 DEF DisplayHolds
  <2>. QED  BY <1>2, <2>1, HeldAlive DEF MaybeRelay, CountedAll
<1>8. relay' \in Objects /\ \A x \in Relays :
        /\ relay'[x].refs = relay[x].refs - One(x = u.display)
        /\ relay'[x].refs # 0 => relay'[x].daemon = relay[x].daemon
  BY <1>2, <1>6, <1>7, DroppedEffect
<1>9. None \notin Relays /\ \A x \in Relays : relay[x].refs \in Nat
  BY <1>2, NoneIsNone DEF Objects, RelayRecord
<1>10. ClientMove(c, t)
  <2>1. \A r \in Relays : relay'[r].refs = relay[r].refs
           + One(t.snap.relay = r) - One(client[c].snap.relay = r)
           + One(t.display = r) - One(client[c].display = r)
           + One(t.own = r) - One(client[c].own = r)
    BY <1>1, <1>2, <1>4, <1>8, <1>9 DEF One
  <2>2. \A r \in Relays : ~(relay'[r].refs > relay[r].refs)
    BY <1>8, <1>9 DEF One
  <2>3. Stable
    BY <1>8 DEF Stable
  <2>. QED  BY <1>4, <1>6, <1>8, <2>1, <2>2, <2>3 DEF ClientMove
<1>11. t.served # None /\ (Current(t.snap) \/ t.verdict = "released") =>
        t.served = t.snap.daemon
  BY <1>2, <1>4 DEF SessionOK
<1>12. SessionOK(c, t)'
  BY <1>1, <1>2, <1>4, <1>10, <1>11, MoveSession
<1>. QED  BY <1>10, <1>12, MoveKeeps

\* ksd_kwin_relay_retire by the thread that owns the relay.
LEMMA RetireKeeps ==
    ASSUME IInv, NEW c \in Clients, Retire(c)
    PROVE  IInv'
<1>1. PICK u : u = client[c]
  OBVIOUS
<1>2. u \in ClientRecord /\ u.pc = "retire" /\ relay \in Objects /\ u.own # None
      /\ u.own \in MaybeRelay /\ CountedAll /\ ShapeOK(u) /\ SessionOK(c, u)
  BY <1>1, ClientHas DEF Retire, ShapeOK, Holding
<1>3. PICK t : t = IF u.display = None THEN Onward(u)
                   ELSE [u EXCEPT !.own = None,
                            !.pc = IF u.display = u.own THEN "drop" ELSE "call"]
  OBVIOUS
<1>4. /\ t \in ClientRecord /\ t.pc \in {"lookup", "final", "release", "drop", "call"}
      /\ t.snap = u.snap /\ t.display = u.display /\ t.own = None
      /\ t.served = u.served /\ t.verdict = u.verdict /\ ShapeOK(t)
      /\ (t.pc = "drop" => u.display = u.own)
  <2>1. CASE u.display = None
    <3>1. u.pc \in Working /\ t = Onward(u)
      BY <1>2, <1>3, <2>1 DEF Working
    <3>2. /\ t \in ClientRecord /\ t.pc \in {"lookup", "final", "release"}
          /\ t.snap = u.snap /\ t.display = None /\ t.own = None
          /\ t.served = u.served /\ t.verdict = u.verdict /\ ShapeOK(t)
      BY <1>2, <3>1, OnwardForm
    <3>. QED  BY <2>1, <3>2
  <2>2. CASE u.display # None
    <3>1. PICK q : q = IF u.display = u.own THEN "drop" ELSE "call"
      OBVIOUS
    <3>2. t = [u EXCEPT !.own = None, !.pc = q]
      BY <1>3, <2>2, <3>1
    <3>3. /\ t \in ClientRecord /\ t.pc = q /\ t.snap = u.snap /\ t.display = u.display
          /\ t.own = None /\ t.served = u.served /\ t.verdict = u.verdict
          /\ t.lane = u.lane /\ t.mode = u.mode
      BY <1>2, <3>1, <3>2 DEF ClientRecord, MaybeRelay
    <3>4. u.lane \in Lanes /\ (u.verdict # "none" => u.mode = "sync")
      BY <1>2 DEF ShapeOK, Working, Holding
    <3>5. ShapeOK(t)
      BY <2>2, <3>1, <3>3, <3>4 DEF ShapeOK, Working, Holding
    <3>. QED  BY <2>2, <3>1, <3>3, <3>5
  <2>. QED  BY <2>1, <2>2
<1>5. u.own \in Relays /\ c \in OwnHolds(u.own)
  BY <1>1, <1>2 DEF MaybeRelay, OwnHolds
<1>6. client' = [client EXCEPT ![c] = t] /\ backends' = backends /\ conn' = conn
      /\ alive' = alive /\ relay' = Retired(relay, u.own)
  BY <1>1, <1>3 DEF Retire
<1>7. relay[u.own].refs > 0
  BY <1>2, <1>5, HeldAlive DEF CountedAll
<1>8. relay' \in Objects /\ \A x \in Relays :
        /\ relay'[x].refs = relay[x].refs - One(x = u.own)
        /\ relay'[x].refs # 0 => relay'[x].daemon = relay[x].daemon
  BY <1>2, <1>6, <1>7, RetiredEffect
<1>9. None \notin Relays /\ \A x \in Relays : relay[x].refs \in Nat
  BY <1>2, NoneIsNone DEF Objects, RelayRecord
<1>10. ClientMove(c, t)
  <2>1. \A r \in Relays : relay'[r].refs = relay[r].refs
           + One(t.snap.relay = r) - One(client[c].snap.relay = r)
           + One(t.display = r) - One(client[c].display = r)
           + One(t.own = r) - One(client[c].own = r)
    BY <1>1, <1>2, <1>4, <1>8, <1>9 DEF One
  <2>2. \A r \in Relays : ~(relay'[r].refs > relay[r].refs)
    BY <1>8, <1>9 DEF One
  <2>3. Stable
    BY <1>8 DEF Stable
  <2>. QED  BY <1>4, <1>6, <1>8, <2>1, <2>2, <2>3 DEF ClientMove
<1>11. t.served # None /\ (Current(t.snap) \/ t.verdict = "released") =>
        t.served = t.snap.daemon
  BY <1>2, <1>4 DEF SessionOK
<1>12. t.pc = "drop" => \A s \in Slots, l \in Lanes : backends[s].display[l] # t.display
  <2>1. LaneHolds(u.own) = {}
    BY <1>2, <1>5, OneOwner DEF CountedAll
  <2>2. \A s \in Slots, l \in Lanes : backends[s].display[l] # u.own
    <3>1. ASSUME NEW s \in Slots, NEW l \in Lanes, backends[s].display[l] = u.own
          PROVE  <<s, l>> \in LaneHolds(u.own)
      BY <3>1 DEF LaneHolds
    <3>. QED  BY <2>1, <3>1
  <2>. QED  BY <1>4, <2>2
<1>13. SessionOK(c, t)'
  BY <1>1, <1>2, <1>4, <1>10, <1>11, <1>12, MoveSession
<1>. QED  BY <1>10, <1>13, MoveKeeps

\* take_backend_snapshot: what a user's registration has.
LEMMA SnapshotIs ==
    ASSUME IInv, NEW uid, NEW snap, snap = SnapshotOf(uid)
    PROVE  /\ snap \in Snapshots
           /\ \/ snap = NoSnapshot
              \/ \E s \in Slots :
                   /\ backends[s].active /\ DaemonUid[backends[s].daemon] = uid
                   /\ snap.daemon = backends[s].daemon /\ snap.relay = backends[s].relay
<1>1. CASE SlotsOf(uid) = {}
  <2>1. snap = NoSnapshot
    BY <1>1 DEF SnapshotOf
  <2>2. NoSnapshot \in Snapshots
    BY DEF NoSnapshot, Snapshots, MaybeDaemon, MaybeRelay
  <2>. QED  BY <2>1, <2>2
<1>2. CASE SlotsOf(uid) # {}
  <2>1. PICK s : s = Lowest(SlotsOf(uid))
    OBVIOUS
  <2>2. SlotsOf(uid) \in SUBSET Slots
    BY DEF SlotsOf
  <2>3. s \in SlotsOf(uid)
    BY <1>2, <2>1, <2>2, LowestIn
  <2>4. s \in Slots /\ backends[s].active /\ DaemonUid[backends[s].daemon] = uid
    BY <2>3 DEF SlotsOf
  <2>5. snap = [daemon |-> backends[s].daemon, descriptor |-> backends[s].descriptor,
                relay |-> backends[s].relay]
    BY <1>2, <2>1 DEF SnapshotOf
  <2>6. snap \in Snapshots
    <3>1. backends[s] \in BackendRecord
      BY <2>4, Typed DEF IInv
    <3>. QED  BY <2>5, <3>1 DEF BackendRecord, Snapshots
  <2>7. snap.daemon = backends[s].daemon /\ snap.relay = backends[s].relay
    BY <2>5
  <2>. QED  BY <2>4, <2>6, <2>7
<1>. QED  BY <1>1, <1>2

\* The relay of a snapshot belongs to a registration, not to a thread.
LEMMA SnapshotRelay ==
    ASSUME IInv, NEW uid, NEW snap, snap = SnapshotOf(uid),
           relay' = Acquired(relay, snap.relay)
    PROVE  /\ relay' \in Objects /\ Stable
           /\ \A r \in Relays :
                /\ relay'[r].refs = relay[r].refs + One(r = snap.relay)
                /\ relay'[r].daemon = relay[r].daemon
                /\ relay'[r].refs > relay[r].refs => OwnHolds(r) = {}
<1>1. snap \in Snapshots /\ relay \in Objects /\ \A r \in Relays : relay[r].refs \in Nat
  BY SnapshotIs, Typed DEF IInv
<1>2. snap.relay \in MaybeRelay
  BY <1>1 DEF Snapshots
<1>3. relay' \in Objects /\ \A r \in Relays :
        /\ relay'[r].refs = relay[r].refs + One(r = snap.relay)
        /\ relay'[r].daemon = relay[r].daemon
  BY <1>1, <1>2, AcquiredEffect
<1>4. ASSUME NEW r \in Relays, relay'[r].refs > relay[r].refs
      PROVE  OwnHolds(r) = {}
  <2>1. r = snap.relay
    BY <1>1, <1>3, <1>4 DEF One
  <2>2. snap # NoSnapshot
    BY <2>1, NoneIsNone DEF NoSnapshot
  <2>3. PICK s \in Slots : snap.relay = backends[s].relay
    BY <2>2, SnapshotIs
  <2>4. s \in SlotHolds(r)
    BY <2>1, <2>3 DEF SlotHolds
  <2>. QED  BY <2>4, OneOwner DEF IInv
<1>. QED  BY <1>3, <1>4 DEF Stable

LEMMA TakeKeeps ==
    ASSUME IInv, NEW c \in Clients, Take(c)
    PROVE  IInv'
<1>1. PICK u : u = client[c]
  OBVIOUS
<1>2. u \in ClientRecord /\ u.pc = "idle" /\ relay \in Objects /\ u.own = None
      /\ u.display = None /\ ShapeOK(u) /\ u.snap = NoSnapshot /\ u.served = None
      /\ u.verdict = "none"
  BY <1>1, ClientHas DEF Take, ShapeOK, Working, Holding
<1>3. PICK snap : snap = SnapshotOf(ClientUid[c])
  OBVIOUS
<1>4. snap # NoSnapshot /\ client' = [client EXCEPT ![c].pc = "taken", ![c].snap = snap]
      /\ relay' = Acquired(relay, snap.relay) /\ backends' = backends /\ conn' = conn
      /\ alive' = alive
  BY <1>3 DEF Take
<1>5. /\ relay' \in Objects /\ Stable
      /\ \A r \in Relays :
           /\ relay'[r].refs = relay[r].refs + One(r = snap.relay)
           /\ relay'[r].daemon = relay[r].daemon
           /\ relay'[r].refs > relay[r].refs => OwnHolds(r) = {}
  BY <1>3, <1>4, SnapshotRelay
<1>6. snap \in Snapshots
  BY <1>3, SnapshotIs
<1>7. PICK s \in Slots :
        /\ backends[s].active /\ DaemonUid[backends[s].daemon] = ClientUid[c]
        /\ snap.daemon = backends[s].daemon /\ snap.relay = backends[s].relay
  BY <1>3, <1>4, SnapshotIs
<1>8. PICK t : t = [client[c] EXCEPT !.pc = "taken", !.snap = snap]
  OBVIOUS
<1>9. /\ t \in ClientRecord /\ t.pc = "taken" /\ t.snap = snap /\ t.display = None
      /\ t.own = None /\ t.served = None /\ t.verdict = "none" /\ (t.child <=> u.child)
      /\ t.lane = u.lane
  BY <1>1, <1>2, <1>6, <1>8 DEF ClientRecord
<1>10. ShapeOK(t)
  BY <1>2, <1>9 DEF ShapeOK, Working, Holding
<1>11. client' = [client EXCEPT ![c] = t]
  BY <1>4, <1>8
<1>12. ClientMove(c, t)
  <2>1. None \notin Relays /\ u.snap.relay = None /\ \A x \in Relays : relay[x].refs \in Nat
    BY <1>2, NoneIsNone DEF NoSnapshot, Objects, RelayRecord
  <2>2. \A r \in Relays : relay'[r].refs = relay[r].refs
           + One(t.snap.relay = r) - One(client[c].snap.relay = r)
           + One(t.display = r) - One(client[c].display = r)
           + One(t.own = r) - One(client[c].own = r)
    BY <1>1, <1>2, <1>5, <1>9, <2>1 DEF One
  <2>. QED  BY <1>4, <1>5, <1>9, <1>10, <1>11, <2>2 DEF ClientMove
<1>13. SessionOK(c, t)'
  <2>1. SlotOK(s)
    BY DEF IInv
  <2>2. /\ snap.daemon \in Daemons /\ DaemonUid[snap.daemon] = ClientUid[c]
        /\ conn'[snap.daemon].pc # "new"
    BY <1>4, <1>7, <2>1 DEF SlotOK
  <2>3. snap.relay # None => relay'[snap.relay].daemon = snap.daemon
    <3>1. snap.relay # None => snap.relay \in Relays
      BY <1>6 DEF Snapshots, MaybeRelay
    <3>. QED  BY <1>5, <1>7, <2>1, <3>1 DEF SlotOK
  <2>. QED  BY <1>9, <2>2, <2>3 DEF SessionOK
<1>. QED  BY <1>12, <1>13, MoveKeeps

\* As long as the daemon a thread was admitted for is registered, it is the
\* one of the user's registration.
LEMMA UserSlot ==
    ASSUME IInv, NEW c \in Clients, NEW u, u = client[c], u.pc # "idle", Current(u.snap),
           NEW s \in SlotsOf(ClientUid[c])
    PROVE  backends[s].daemon = u.snap.daemon
<1>1. PICK z \in Slots : backends[z].active /\ backends[z].daemon = u.snap.daemon
  BY DEF Current
<1>2. DaemonUid[u.snap.daemon] = ClientUid[c]
  BY ClientHas DEF SessionOK
<1>3. s \in Slots /\ backends[s].active /\ DaemonUid[backends[s].daemon] = ClientUid[c]
  BY DEF SlotsOf
<1>. QED  BY <1>1, <1>2, <1>3 DEF IInv, OneEach

\* A thread gives a display worker up, or does without.
LEMMA QuietOnward ==
    ASSUME IInv, NEW c \in Clients, client[c].pc \in {"lookup", "spawn"},
           client' = [client EXCEPT ![c] = Onward(client[c])],
           UNCHANGED <<relay, backends, conn, alive>>
    PROVE  IInv'
<1>1. PICK u : u = client[c]
  OBVIOUS
<1>2. u \in ClientRecord /\ u.pc \in Working /\ relay \in Objects /\ u.own = None
      /\ u.display = None /\ ShapeOK(u) /\ SessionOK(c, u) /\ u.pc # "idle"
  BY <1>1, ClientHas DEF ShapeOK, Working, Holding
<1>3. PICK t : t = Onward(u)
  OBVIOUS
<1>4. /\ t \in ClientRecord /\ t.pc \in {"lookup", "final", "release"}
      /\ t.snap = u.snap /\ t.display = None /\ t.own = None
      /\ t.served = u.served /\ t.verdict = u.verdict /\ ShapeOK(t)
  BY <1>2, <1>3, OnwardForm
<1>5. client' = [client EXCEPT ![c] = t]
  BY <1>1, <1>3
<1>6. ClientMove(c, t)
  BY <1>1, <1>2, <1>4, <1>5, QuietMove
<1>7. t.served # None /\ (Current(t.snap) \/ t.verdict = "released") =>
        t.served = t.snap.daemon
  BY <1>2, <1>4 DEF SessionOK
<1>8. SessionOK(c, t)'
  BY <1>1, <1>2, <1>4, <1>6, <1>7, MoveSession
<1>. QED  BY <1>6, <1>8, MoveKeeps

\* display_relay_for, the first critical section.
LEMMA LookupKeeps ==
    ASSUME IInv, NEW c \in Clients, Lookup(c)
    PROVE  IInv'
<1>1. PICK u : u = client[c]
  OBVIOUS
<1>2. u \in ClientRecord /\ u.pc = "lookup" /\ relay \in Objects /\ u.own = None
      /\ u.display = None /\ ShapeOK(u) /\ SessionOK(c, u) /\ u.lane \in Lanes
  BY <1>1, ClientHas DEF Lookup, ShapeOK, Working, Holding
<1>. DEFINE match == {z \in SlotsOf(ClientUid[c]) :
                       LET own == backends[z].daemon
                           taken == client[c].snap.daemon
                       IN /\ PidOf[own] = PidOf[taken]
                          /\ BackendOf[own] = BackendOf[taken]}
<1>3. PICK s : s = Lowest(match)
  OBVIOUS
<1>4. PICK r : r = backends[s].display[client[c].lane]
  OBVIOUS
<1>5. /\ backends' = backends /\ conn' = conn /\ alive' = alive
      /\ \/ match = {} /\ client' = [client EXCEPT ![c] = Onward(@)] /\ relay' = relay
         \/ /\ match # {} /\ r = None
            /\ client' = [client EXCEPT ![c].pc = "spawn", ![c].slot = s,
                   ![c].registration = backends[s].daemon]
            /\ relay' = relay
         \/ /\ match # {} /\ r # None
            /\ client' = [client EXCEPT ![c].pc = "call", ![c].display = r]
            /\ relay' = Acquired(relay, r)
         \/ match # {} /\ client' = [client EXCEPT ![c] = Onward(@)] /\ relay' = relay
  BY <1>3, <1>4 DEF Lookup
<1>6. match # {} => s \in SlotsOf(ClientUid[c]) /\ s \in Slots
  <2>1. match \in SUBSET Slots /\ match \subseteq SlotsOf(ClientUid[c])
    BY DEF SlotsOf
  <2>. HIDE DEF match
  <2>2. match # {} => s \in match
    BY <1>3, <2>1, LowestIn
  <2>. QED  BY <2>1, <2>2
<1>. HIDE DEF match
<1>7. CASE client' = [client EXCEPT ![c] = Onward(@)] /\ relay' = relay
  BY <1>1, <1>2, <1>5, <1>7, QuietOnward
<1>8. u.served # None /\ (Current(u.snap) \/ u.verdict = "released") =>
          u.served = u.snap.daemon
  BY <1>2 DEF SessionOK
<1>9. ASSUME match # {}
      PROVE  /\ backends[s].active /\ DaemonUid[backends[s].daemon] = ClientUid[c]
             /\ backends[s].daemon \in Daemons
             /\ Current(u.snap) => backends[s].daemon = u.snap.daemon
  <2>1. s \in Slots /\ s \in SlotsOf(ClientUid[c])
    BY <1>6, <1>9
  <2>2. backends[s].active /\ DaemonUid[backends[s].daemon] = ClientUid[c]
    BY <2>1 DEF SlotsOf
  <2>3. SlotOK(s)
    BY <2>1 DEF IInv
  <2>4. Current(u.snap) => backends[s].daemon = u.snap.daemon
    BY <1>1, <1>2, <2>1, UserSlot
  <2>. QED  BY <2>2, <2>3, <2>4 DEF SlotOK
<1>10. CASE /\ match # {} /\ r = None
            /\ client' = [client EXCEPT ![c].pc = "spawn", ![c].slot = s,
                   ![c].registration = backends[s].daemon]
            /\ relay' = relay
  <2>1. PICK t : t = [client[c] EXCEPT !.pc = "spawn", !.slot = s,
                          !.registration = backends[s].daemon]
    OBVIOUS
  <2>2. /\ t \in ClientRecord /\ t.pc = "spawn" /\ t.slot = s
        /\ t.registration = backends[s].daemon
        /\ t.snap = u.snap /\ t.display = u.display /\ t.own = u.own
        /\ t.served = u.served /\ t.verdict = u.verdict /\ t.lane = u.lane
        /\ t.mode = u.mode
    BY <1>1, <1>2, <1>6, <1>9, <1>10, <2>1 DEF ClientRecord, MaybeDaemon
  <2>3. ShapeOK(t)
    BY <1>2, <1>6, <1>9, <1>10, <2>2 DEF ShapeOK, Working, Holding
  <2>4. client' = [client EXCEPT ![c] = t]
    BY <1>10, <2>1
  <2>5. ClientMove(c, t)
    BY <1>1, <1>2, <1>5, <1>10, <2>2, <2>3, <2>4, QuietMove
  <2>6. SessionOK(c, t)'
    BY <1>1, <1>2, <1>8, <1>9, <1>10, <2>2, <2>5, MoveSession
  <2>. QED  BY <2>5, <2>6, MoveKeeps
<1>11. CASE /\ match # {} /\ r # None
            /\ client' = [client EXCEPT ![c].pc = "call", ![c].display = r]
            /\ relay' = Acquired(relay, r)
  <2>1. PICK t : t = [client[c] EXCEPT !.pc = "call", !.display = r]
    OBVIOUS
  <2>2. s \in Slots /\ r \in Relays /\ <<s, u.lane>> \in LaneHolds(r) /\ r \in MaybeRelay
    <3>1. s \in Slots
      BY <1>6, <1>11
    <3>2. r \in MaybeRelay
      BY <1>1, <1>2, <1>4, <3>1, Typed DEF IInv
    <3>3. <<s, u.lane>> \in LaneHolds(r)
      BY <1>1, <1>2, <1>4, <3>1 DEF LaneHolds
    <3>. QED  BY <1>11, <3>1, <3>2, <3>3 DEF MaybeRelay
  <2>3. /\ t \in ClientRecord /\ t.pc = "call" /\ t.display = r
        /\ t.snap = u.snap /\ t.own = u.own
        /\ t.served = u.served /\ t.verdict = u.verdict /\ t.lane = u.lane
        /\ t.mode = u.mode
    BY <1>1, <1>2, <2>1, <2>2 DEF ClientRecord
  <2>4. ShapeOK(t)
    BY <1>2, <1>11, <2>3 DEF ShapeOK, Working, Holding
  <2>5. client' = [client EXCEPT ![c] = t]
    BY <1>11, <2>1
  <2>6. relay' \in Objects /\ \A x \in Relays :
          /\ relay'[x].refs = relay[x].refs + One(x = r)
          /\ relay'[x].daemon = relay[x].daemon
    BY <1>2, <1>11, <2>2, AcquiredEffect
  <2>7. OwnHolds(r) = {}
    BY <2>2, OneOwner DEF IInv
  <2>8. ClientMove(c, t)
    <3>1. None \notin Relays /\ \A x \in Relays : relay[x].refs \in Nat
      BY <1>2, NoneIsNone DEF Objects, RelayRecord
    <3>2. \A x \in Relays : relay'[x].refs = relay[x].refs
           + One(t.snap.relay = x) - One(client[c].snap.relay = x)
           + One(t.display = x) - One(client[c].display = x)
           + One(t.own = x) - One(client[c].own = x)
      BY <1>1, <1>2, <2>3, <2>6, <3>1 DEF One
    <3>3. \A x \in Relays : relay'[x].refs > relay[x].refs => OwnHolds(x) = {}
      BY <2>6, <2>7, <3>1 DEF One
    <3>4. Stable
      BY <2>6 DEF Stable
    <3>. QED  BY <1>2, <1>5, <2>3, <2>4, <2>5, <2>6, <3>2, <3>3, <3>4 DEF ClientMove
  <2>9. relay'[r].daemon = backends[s].daemon
    <3>1. SlotOK(s)
      BY <2>2 DEF IInv
    <3>2. relay[r].daemon = backends[s].daemon
      BY <1>1, <1>2, <1>4, <1>9, <1>11, <3>1 DEF SlotOK
    <3>. QED  BY <2>2, <2>6, <3>2
  <2>10. SessionOK(c, t)'
    BY <1>1, <1>2, <1>8, <1>9, <1>11, <2>3, <2>8, <2>9, MoveSession
  <2>. QED  BY <2>8, <2>10, MoveKeeps
<1>. QED  BY <1>5, <1>7, <1>10, <1>11

\* ksd_capture_worker_spawn, outside the lock: the worker is the thread's own
\* until it is installed.
LEMMA SpawnKeeps ==
    ASSUME IInv, NEW c \in Clients, Spawn(c)
    PROVE  IInv'
<1>1. PICK u : u = client[c]
  OBVIOUS
<1>2. u \in ClientRecord /\ u.pc = "spawn" /\ relay \in Objects /\ u.own = None
      /\ u.display = None /\ ShapeOK(u) /\ SessionOK(c, u) /\ u.registration \in Daemons
  BY <1>1, ClientHas DEF Spawn, ShapeOK, Holding
<1>3. backends' = backends /\ conn' = conn /\ alive' = alive
  BY DEF Spawn
<1>4. CASE client' = [client EXCEPT ![c] = Onward(@)] /\ relay' = relay
  BY <1>1, <1>2, <1>3, <1>4, QuietOnward
<1>5. ASSUME NEW r \in FreeRelays,
             client' = [client EXCEPT ![c].pc = "install", ![c].own = r],
             relay' = [relay EXCEPT ![r] = Created(client[c].registration, ClientGid[c])]
      PROVE  IInv'
  <2>1. PICK t : t = [client[c] EXCEPT !.pc = "install", !.own = r]
    OBVIOUS
  <2>2. r \in Relays /\ relay[r].refs = 0 /\ r # None
    BY NoneIsNone DEF FreeRelays
  <2>3. /\ t \in ClientRecord /\ t.pc = "install" /\ t.own = r
        /\ t.snap = u.snap /\ t.display = u.display
        /\ t.served = u.served /\ t.verdict = u.verdict /\ t.lane = u.lane
        /\ t.mode = u.mode /\ t.slot = u.slot /\ t.registration = u.registration
    BY <1>1, <1>2, <2>1, <2>2 DEF ClientRecord, MaybeRelay
  <2>4. ShapeOK(t)
    BY <1>2, <2>2, <2>3 DEF ShapeOK, Working, Holding
  <2>5. client' = [client EXCEPT ![c] = t]
    BY <1>5, <2>1
  <2>6. /\ relay' \in Objects /\ relay'[r].daemon = u.registration
        /\ \A x \in Relays :
             /\ relay'[x].refs = relay[x].refs + One(x = r)
             /\ relay[x].refs # 0 => relay'[x].daemon = relay[x].daemon
    <3>1. PICK d \in Daemons, gid \in Gids \cup {None} :
            d = client[c].registration /\ gid = ClientGid[c]
      BY <1>1, <1>2 DEF Gids
    <3>. DEFINE after == [relay EXCEPT ![r] = Created(d, gid)]
    <3>2. /\ after \in Objects /\ after[r].daemon = d
          /\ \A x \in Relays :
               /\ after[x].refs = relay[x].refs + One(x = r)
               /\ relay[x].refs # 0 => after[x].daemon = relay[x].daemon
      BY <1>2, <2>2, CreatedEffect
    <3>3. relay' = after
      BY <1>5, <3>1
    <3>. HIDE DEF after
    <3>. QED  BY <1>1, <3>1, <3>2, <3>3
  <2>7. None \notin Relays /\ \A x \in Relays : relay[x].refs \in Nat
    BY <1>2, NoneIsNone DEF Objects, RelayRecord
  <2>8. ClientMove(c, t)
    <3>2. \A x \in Relays : relay'[x].refs = relay[x].refs
           + One(t.snap.relay = x) - One(client[c].snap.relay = x)
           + One(t.display = x) - One(client[c].display = x)
           + One(t.own = x) - One(client[c].own = x)
      BY <1>1, <1>2, <2>3, <2>6, <2>7 DEF One
    <3>3. \A x \in Relays : relay'[x].refs > relay[x].refs => relay[x].refs = 0
      BY <2>2, <2>6, <2>7 DEF One
    <3>4. Stable
      BY <2>6 DEF Stable
    <3>. QED  BY <1>3, <2>2, <2>3, <2>4, <2>5, <2>6, <3>2, <3>3, <3>4 DEF ClientMove
  <2>9. relay'[t.own].daemon = t.registration /\ relay'[t.own].refs = 1
    BY <2>2, <2>3, <2>6 DEF One
  <2>10. /\ DaemonUid[t.registration] = ClientUid[c]
         /\ Current(t.snap) => t.registration = t.snap.daemon
         /\ t.served # None /\ (Current(t.snap) \/ t.verdict = "released") =>
              t.served = t.snap.daemon
    BY <1>2, <2>3 DEF SessionOK
  <2>11. SessionOK(c, t)'
    BY <1>1, <1>2, <2>3, <2>8, <2>9, <2>10, MoveSession
  <2>. QED  BY <2>8, <2>11, MoveKeeps
<1>. QED  BY <1>4, <1>5 DEF Spawn

-----------------------------------------------------------------------------
(* Steps of a client's thread that put a worker in a slot or take one out *)

\* In lane l of the registration in slot s, y takes the place of x.
LaneMove(c, t, s, l, x, y) ==
    /\ t \in ClientRecord /\ client' = [client EXCEPT ![c] = t]
    /\ conn' = conn /\ alive' = alive
    /\ backends' \in [Slots -> BackendRecord] /\ relay' \in Objects
    /\ \A r \in Relays : relay'[r].daemon = relay[r].daemon
    /\ \A z \in Slots :
         /\ backends'[z].active <=> backends[z].active
         /\ backends'[z].daemon = backends[z].daemon
         /\ backends'[z].descriptor = backends[z].descriptor
         /\ backends'[z].relay = backends[z].relay
         /\ \A k \in Lanes : z # s \/ k # l => backends'[z].display[k] = backends[z].display[k]
    /\ backends[s].display[l] = x /\ backends'[s].display[l] = y
    /\ backends[s].active
    /\ \A r \in Relays : relay'[r].refs = relay[r].refs
           + One(y = r) - One(x = r)
           + One(t.display = r) - One(client[c].display = r)
           + One(t.own = r) - One(client[c].own = r)
    /\ \A r \in Relays : One(y = r) - One(x = r) + One(t.own = r) - One(client[c].own = r) <= 0
    /\ \A r \in Relays : relay'[r].refs > relay[r].refs => r = client[c].own
    /\ y # None =>
         y = client[c].own /\ relay[y].refs = 1 /\ relay[y].daemon = backends[s].daemon
    /\ t.snap = client[c].snap /\ ShapeOK(t)

LEMMA LaneCounted ==
    ASSUME IInv, NEW c \in Clients, NEW t, NEW s \in Slots, NEW l \in Lanes, NEW x, NEW y,
           LaneMove(c, t, s, l, x, y)
    PROVE  CountedAll'
<1>0. TypeOK /\ client'[c] = t /\ \A d \in Clients \ {c} : client'[d] = client[d]
  BY ClientIs, ZenonT(40) DEF IInv, LaneMove
<1>. SUFFICES ASSUME NEW r \in Relays
              PROVE  Counted(r)'
  BY DEF CountedAll
<1>1. SlotHolds(r)' = SlotHolds(r) /\ ConnHolds(r)' = ConnHolds(r)
  BY DEF LaneMove, SlotHolds, ConnHolds
<1>2. /\ Cardinality(SnapHolds(r)') = Cardinality(SnapHolds(r))
                + One(t.snap.relay = r) - One(client[c].snap.relay = r)
      /\ Cardinality(DisplayHolds(r)') = Cardinality(DisplayHolds(r))
                + One(t.display = r) - One(client[c].display = r)
      /\ Cardinality(OwnHolds(r)') = Cardinality(OwnHolds(r))
                + One(t.own = r) - One(client[c].own = r)
  BY <1>0, ClientCounts
<1>3. Cardinality(LaneHolds(r)') = Cardinality(LaneHolds(r)) + One(y = r) - One(x = r)
  <2>1. /\ <<s, l>> \in LaneHolds(r)' <=> y = r
        /\ <<s, l>> \in LaneHolds(r) <=> x = r
    BY DEF LaneHolds, LaneMove
  <2>2. LaneHolds(r)' \ {<<s, l>>} = LaneHolds(r) \ {<<s, l>>}
    <3>1. \A z \in Slots, k \in Lanes : <<z, k>> # <<s, l>> =>
            backends'[z].display[k] = backends[z].display[k]
      BY DEF LaneMove
    <3>2. \A p \in Slots \X Lanes : p # <<s, l>> =>
            backends'[p[1]].display[p[2]] = backends[p[1]].display[p[2]]
      BY <3>1
    <3>. QED  BY <3>2 DEF LaneHolds
  <2>3. Cardinality(LaneHolds(r)') = Cardinality(LaneHolds(r))
          + One(<<s, l>> \in LaneHolds(r)') - One(<<s, l>> \in LaneHolds(r))
    BY <2>2, HoldsFinite, SizeAfter
  <2>. QED  BY <2>1, <2>3 DEF One
<1>. DEFINE a == Cardinality(SlotHolds(r))    b == Cardinality(LaneHolds(r))
            e == Cardinality(ConnHolds(r))    f == Cardinality(SnapHolds(r))
            g == Cardinality(DisplayHolds(r)) h == Cardinality(OwnHolds(r))
<1>4. a \in Nat /\ b \in Nat /\ e \in Nat /\ f \in Nat /\ g \in Nat /\ h \in Nat
  BY HoldsSized
<1>5. relay[r].refs = a + b + e + f + g + h /\ a + b + h <= 1
  BY DEF IInv, Counted
<1>6. /\ relay'[r].refs = relay[r].refs
           + One(y = r) - One(x = r)
           + One(t.display = r) - One(client[c].display = r)
           + One(t.own = r) - One(client[c].own = r)
      /\ One(y = r) - One(x = r) + One(t.own = r) - One(client[c].own = r) <= 0
      /\ t.snap = client[c].snap
  BY DEF LaneMove
<1>7. /\ Cardinality(SlotHolds(r)') = a /\ Cardinality(ConnHolds(r)') = e
      /\ Cardinality(LaneHolds(r)') = b + One(y = r) - One(x = r)
  BY <1>1, <1>3
<1>. HIDE DEF a, b, e, f, g, h
<1>8. /\ Cardinality(SnapHolds(r)') = f
      /\ Cardinality(DisplayHolds(r)') = g
                + One(t.display = r) - One(client[c].display = r)
      /\ Cardinality(OwnHolds(r)') = h
                + One(t.own = r) - One(client[c].own = r)
  BY <1>2, <1>4, <1>6 DEF f, g, h, One
<1>9. relay'[r].refs = Cardinality(SlotHolds(r)') + Cardinality(LaneHolds(r)')
           + Cardinality(ConnHolds(r)') + Cardinality(SnapHolds(r)')
           + Cardinality(DisplayHolds(r)') + Cardinality(OwnHolds(r)')
  <2>1. PICK i \in Int, j \in Int, k \in Int, m \in Int, n \in Int, o \in Int :
          /\ i = One(y = r) /\ j = One(x = r)
          /\ k = One(t.display = r) /\ m = One(client[c].display = r)
          /\ n = One(t.own = r) /\ o = One(client[c].own = r)
    BY DEF One
  <2>. QED  BY <1>4, <1>5, <1>6, <1>7, <1>8, <2>1
<1>10. Cardinality(SlotHolds(r)') + Cardinality(LaneHolds(r)')
           + Cardinality(OwnHolds(r)') <= 1
  BY <1>4, <1>5, <1>6, <1>7, <1>8 DEF One
<1>. QED  BY <1>9, <1>10 DEF Counted

LEMMA LaneKeeps ==
    ASSUME IInv, NEW c \in Clients, NEW t, NEW s \in Slots, NEW l \in Lanes, NEW x, NEW y,
           LaneMove(c, t, s, l, x, y), SessionOK(c, t)'
    PROVE  IInv'
<1>1. TypeOK /\ client'[c] = t /\ (\A d \in Clients \ {c} : client'[d] = client[d])
      /\ client' \in [Clients -> ClientRecord] /\ ShapeOK(t)
  BY ClientIs, ZenonT(40) DEF IInv, LaneMove
<1>2. CountedAll' /\ Stable /\ RegisteredOnce /\ conn' = conn /\ alive' = alive
      /\ relay' \in Objects /\ backends' \in [Slots -> BackendRecord]
  <2>1. CountedAll'
    BY LaneCounted
  <2>. QED  BY <2>1 DEF LaneMove, RegisteredOnce, Stable
<1>3. TypeOK'
  BY <1>1, <1>2 DEF TypeOK, Objects
<1>4. \A z \in Slots :
         /\ backends'[z].active <=> backends[z].active
         /\ backends'[z].daemon = backends[z].daemon
         /\ backends'[z].descriptor = backends[z].descriptor
         /\ backends'[z].relay = backends[z].relay
         /\ \A k \in Lanes : z # s \/ k # l => backends'[z].display[k] = backends[z].display[k]
  BY DEF LaneMove
<1>5. \A r \in Relays : relay'[r].daemon = relay[r].daemon
  BY DEF LaneMove
<1>6. backends[s].active /\ backends'[s].display[l] = y /\ backends[s].display[l] = x
      /\ (y # None =>
           y = client[c].own /\ relay[y].refs = 1 /\ relay[y].daemon = backends[s].daemon)
  BY DEF LaneMove
<1>7. ASSUME NEW z \in Slots
      PROVE  SlotOK(z)'
  <2>1. SlotOK(z)
    BY DEF IInv
  <2>2. /\ backends[z].relay \in MaybeRelay
        /\ \A k \in Lanes : backends[z].display[k] \in MaybeRelay
    BY <1>1, Typed
  <2>3. ASSUME NEW k \in Lanes, backends'[z].display[k] # None, backends[z].active
        PROVE  relay'[backends'[z].display[k]].daemon = backends[z].daemon
    <3>1. CASE z = s /\ k = l
      <4>1. y \in Relays
        BY <1>1, <1>6, <2>3, <3>1, Typed DEF MaybeRelay
      <4>. QED  BY <1>5, <1>6, <2>3, <3>1, <4>1
    <3>2. CASE z # s \/ k # l
      <4>1. backends'[z].display[k] = backends[z].display[k]
        BY <1>4, <3>2
      <4>2. backends[z].display[k] \in Relays
        BY <2>2, <2>3, <4>1 DEF MaybeRelay
      <4>3. relay[backends[z].display[k]].daemon = backends[z].daemon
        BY <2>1, <2>3, <4>1 DEF SlotOK
      <4>. QED  BY <1>5, <4>1, <4>2, <4>3
    <3>. QED  BY <3>1, <3>2
  <2>4. ASSUME backends[z].relay # None, backends[z].active
        PROVE  relay'[backends[z].relay].daemon = backends[z].daemon
    <3>1. backends[z].relay \in Relays
      BY <2>2, <2>4 DEF MaybeRelay
    <3>. QED  BY <1>5, <2>1, <2>4, <3>1 DEF SlotOK
  <2>5. ~backends[z].active => z # s
    BY <1>6
  <2>. QED  BY <1>2, <1>4, <2>1, <2>3, <2>4, <2>5 DEF SlotOK
<1>8. OneEach' /\ \A d \in Daemons : ConnOK(d)'
  BY <1>2, <1>4 DEF IInv, OneEach, ConnOK
<1>9. ASSUME NEW d \in Clients
      PROVE  ShapeOK(client'[d]) /\ SessionOK(d, client[d])'
  <2>1. CASE d = c
    BY <1>1, <2>1
  <2>2. CASE d # c
    <3>1. PICK u : u = client[d]
      OBVIOUS
    <3>2. u = client'[d]
      BY <1>1, <2>2, <3>1
    <3>3. Current(u.snap)' <=> Current(u.snap)
      BY <1>4 DEF Current
    <3>4. \A r \in Relays : relay'[r].refs > relay[r].refs =>
               relay[r].refs = 0 \/ d \notin OwnHolds(r)
      <4>1. ASSUME NEW r \in Relays, relay'[r].refs > relay[r].refs, d \in OwnHolds(r)
            PROVE  FALSE
        <5>1. r = client[c].own
          BY <4>1 DEF LaneMove
        <5>2. c \in OwnHolds(r)
          BY <5>1 DEF OwnHolds
        <5>. QED  BY <2>2, <4>1, <5>2, OneOwner DEF IInv
      <4>. QED  BY <4>1
    <3>5. ASSUME NEW z \in Slots, NEW k \in Lanes, u.display # None,
                 backends'[z].display[k] = u.display
          PROVE  backends[z].display[k] = u.display
      <4>1. CASE z # s \/ k # l
        BY <1>4, <3>5, <4>1
      <4>2. CASE z = s /\ k = l
        <5>1. y = u.display /\ y # None /\ y = client[c].own /\ relay[y].refs = 1
          BY <1>6, <3>5, <4>2
        <5>2. y \in Relays
          BY <1>1, <5>1, Typed DEF MaybeRelay
        <5>3. c \in OwnHolds(y) /\ d \in DisplayHolds(y)
          BY <3>1, <5>1 DEF OwnHolds, DisplayHolds
        <5>. QED  BY <5>1, <5>2, <5>3, OwnAlone DEF IInv
      <4>. QED  BY <4>1, <4>2
    <3>6. SessionOK(d, u)'
      BY <1>2, <3>1, <3>2, <3>3, <3>4, <3>5, SessionStays
    <3>7. ShapeOK(u)
      BY <3>1 DEF IInv
    <3>. QED  BY <3>2, <3>6, <3>7
  <2>. QED  BY <2>1, <2>2
<1>. QED  BY <1>2, <1>3, <1>7, <1>8, <1>9 DEF IInv, CountedAll

\* The thread's own part.
LEMMA LaneSession ==
    ASSUME IInv, NEW c \in Clients, NEW t, NEW s \in Slots, NEW l \in Lanes, NEW x, NEW y,
           LaneMove(c, t, s, l, x, y), client[c].pc # "idle",
           t.display # None =>
              /\ t.display \in Relays
              /\ DaemonUid[relay[t.display].daemon] = ClientUid[c]
              /\ Current(t.snap) => relay[t.display].daemon = t.snap.daemon,
           t.pc \in {"retire", "call"},
           t.served = client[c].served, t.verdict = client[c].verdict
    PROVE  SessionOK(c, t)'
<1>1. PICK u : u = client[c]
  OBVIOUS
<1>2. SessionOK(c, u) /\ u.snap.relay \in MaybeRelay /\ u.pc # "idle" /\ t.snap = u.snap
      /\ t.served = u.served /\ t.verdict = u.verdict
  BY <1>1, ClientHas DEF LaneMove
<1>3. Current(t.snap)' <=> Current(t.snap)
  BY DEF Current, LaneMove
<1>4. (\A r \in Relays : relay'[r].daemon = relay[r].daemon) /\ conn' = conn
  BY DEF LaneMove
<1>5. t.snap.relay # None => relay'[t.snap.relay].daemon = t.snap.daemon
  BY <1>2, <1>4 DEF SessionOK, MaybeRelay
<1>6. t.display # None =>
        /\ DaemonUid[relay'[t.display].daemon] = ClientUid[c]
        /\ Current(t.snap) => relay'[t.display].daemon = t.snap.daemon
  BY <1>4
<1>7. /\ t.snap.daemon \in Daemons /\ DaemonUid[t.snap.daemon] = ClientUid[c]
      /\ conn'[t.snap.daemon].pc # "new"
  BY <1>2, <1>4 DEF SessionOK
<1>8. t.served # None /\ (Current(t.snap) \/ t.verdict = "released") =>
        t.served = t.snap.daemon
  BY <1>2 DEF SessionOK
<1>. QED  BY <1>3, <1>5, <1>6, <1>7, <1>8 DEF SessionOK

\* display_relay_for, the second critical section.
LEMMA InstallKeeps ==
    ASSUME IInv, NEW c \in Clients, Install(c)
    PROVE  IInv'
<1>1. PICK u : u = client[c]
  OBVIOUS
<1>2. u \in ClientRecord /\ u.pc = "install" /\ relay \in Objects /\ u.own # None
      /\ u.display = None /\ ShapeOK(u) /\ SessionOK(c, u) /\ u.lane \in Lanes
      /\ u.slot \in Slots /\ u.registration \in Daemons /\ TypeOK
      /\ (u.verdict # "none" => u.mode = "sync")
  BY <1>1, ClientHas DEF Install, ShapeOK, Working, Holding
<1>3. u.own \in Relays /\ c \in OwnHolds(u.own) /\ relay[u.own].refs = 1
      /\ relay[u.own].daemon = u.registration /\ DaemonUid[u.registration] = ClientUid[c]
      /\ (Current(u.snap) => u.registration = u.snap.daemon)
  BY <1>1, <1>2, ClientHas DEF MaybeRelay, OwnHolds, SessionOK
<1>4. PICK winner : winner = backends[u.slot].display[u.lane]
  OBVIOUS
<1>5. conn' = conn /\ alive' = alive
  BY DEF Install
<1>6. u.served # None /\ (Current(u.snap) \/ u.verdict = "released") =>
        u.served = u.snap.daemon
  BY <1>2 DEF SessionOK
<1>r. PICK back : back = [u EXCEPT !.slot = None, !.registration = None]
  OBVIOUS
<1>s. /\ back \in ClientRecord /\ back.own = u.own /\ back.snap = u.snap
      /\ back.display = u.display /\ back.served = u.served
      /\ back.verdict = u.verdict /\ back.lane = u.lane /\ back.mode = u.mode
  BY <1>2, <1>r, ZenonT(60) DEF ClientRecord, MaybeDaemon
<1>7. CASE /\ client' = [client EXCEPT ![c] = [back EXCEPT !.pc = "retire"]]
           /\ UNCHANGED <<backends, relay>>
  <2>1. PICK t : t = [back EXCEPT !.pc = "retire"]
    OBVIOUS
  <2>2. /\ t \in ClientRecord /\ t.pc = "retire" /\ t.own = u.own
        /\ t.snap = u.snap /\ t.display = u.display
        /\ t.served = u.served /\ t.verdict = u.verdict /\ t.lane = u.lane
        /\ t.mode = u.mode
    BY <1>s, <2>1 DEF ClientRecord
  <2>3. ShapeOK(t)
    BY <1>2, <2>2 DEF ShapeOK, Working, Holding
  <2>4. client' = [client EXCEPT ![c] = t]
    BY <1>7, <2>1
  <2>5. ClientMove(c, t)
    BY <1>1, <1>2, <1>5, <1>7, <2>2, <2>3, <2>4, QuietMove
  <2>6. SessionOK(c, t)'
    BY <1>1, <1>2, <1>6, <2>2, <2>5, MoveSession
  <2>. QED  BY <2>5, <2>6, MoveKeeps
<1>8. CASE /\ Unmoved(u, ClientUid[c]) /\ winner # None
           /\ client' = [client EXCEPT ![c] = [back EXCEPT !.pc = "retire", !.display = winner]]
           /\ relay' = Acquired(relay, winner)
           /\ UNCHANGED backends
  <2>1. PICK t : t = [back EXCEPT !.pc = "retire", !.display = winner]
    OBVIOUS
  <2>2. winner \in Relays /\ winner \in MaybeRelay /\ <<u.slot, u.lane>> \in LaneHolds(winner)
    <3>1. winner \in MaybeRelay
      BY <1>2, <1>4, Typed
    <3>2. <<u.slot, u.lane>> \in LaneHolds(winner)
      BY <1>2, <1>4 DEF LaneHolds
    <3>. QED  BY <1>8, <3>1, <3>2 DEF MaybeRelay
  <2>3. /\ t \in ClientRecord /\ t.pc = "retire" /\ t.own = u.own
        /\ t.snap = u.snap /\ t.display = winner
        /\ t.served = u.served /\ t.verdict = u.verdict /\ t.lane = u.lane
        /\ t.mode = u.mode
    BY <1>s, <2>1, <2>2 DEF ClientRecord
  <2>4. ShapeOK(t)
    BY <1>2, <2>3 DEF ShapeOK, Working, Holding
  <2>5. client' = [client EXCEPT ![c] = t]
    BY <1>8, <2>1
  <2>6. relay' \in Objects /\ \A x \in Relays :
          /\ relay'[x].refs = relay[x].refs + One(x = winner)
          /\ relay'[x].daemon = relay[x].daemon
    BY <1>2, <1>8, <2>2, AcquiredEffect
  <2>7. OwnHolds(winner) = {}
    BY <2>2, OneOwner DEF IInv
  <2>8. ClientMove(c, t)
    <3>1. None \notin Relays /\ \A x \in Relays : relay[x].refs \in Nat
      BY <1>2, NoneIsNone DEF Objects, RelayRecord
    <3>2. \A x \in Relays : relay'[x].refs = relay[x].refs
           + One(t.snap.relay = x) - One(client[c].snap.relay = x)
           + One(t.display = x) - One(client[c].display = x)
           + One(t.own = x) - One(client[c].own = x)
      BY <1>1, <1>2, <2>3, <2>6, <3>1 DEF One
    <3>3. \A x \in Relays : relay'[x].refs > relay[x].refs => OwnHolds(x) = {}
      BY <2>6, <2>7, <3>1 DEF One
    <3>4. Stable
      BY <2>6 DEF Stable
    <3>5. t.own = client[c].own
      BY <1>1, <2>3
    <3>. QED  BY <1>5, <1>8, <2>3, <2>4, <2>5, <2>6, <3>2, <3>3, <3>4, <3>5 DEF ClientMove
  <2>9. relay'[winner].daemon = u.registration
    <3>1. SlotOK(u.slot)
      BY <1>2 DEF IInv
    <3>2. relay[winner].daemon = u.registration
      BY <1>2, <1>4, <1>8, <3>1 DEF SlotOK, Unmoved
    <3>. QED  BY <2>2, <2>6, <3>2
  <2>10. SessionOK(c, t)'
    BY <1>1, <1>2, <1>3, <1>6, <2>3, <2>8, <2>9, MoveSession
  <2>. QED  BY <2>8, <2>10, MoveKeeps
<1>9. CASE /\ Unmoved(u, ClientUid[c]) /\ winner = None
           /\ backends' = [backends EXCEPT ![u.slot].display[u.lane] = u.own,
                                           ![u.slot].displayGid[u.lane] = ClientGid[c]]
           /\ client' = [client EXCEPT ![c] =
                  [back EXCEPT !.pc = "call", !.own = None, !.display = u.own]]
           /\ relay' = Acquired(relay, u.own)
  <2>1. PICK t : t = [back EXCEPT !.pc = "call", !.own = None, !.display = u.own]
    OBVIOUS
  <2>2. /\ t \in ClientRecord /\ t.pc = "call" /\ t.own = None
        /\ t.snap = u.snap /\ t.display = u.own
        /\ t.served = u.served /\ t.verdict = u.verdict /\ t.lane = u.lane
        /\ t.mode = u.mode
    <3>1. PICK o \in MaybeRelay, n \in MaybeRelay : o = u.own /\ n = None
      BY <1>3 DEF MaybeRelay
    <3>2. t = [back EXCEPT !.pc = "call", !.own = n, !.display = o]
      BY <2>1, <3>1
    <3>. QED  BY <1>s, <3>1, <3>2 DEF ClientRecord
  <2>3. ShapeOK(t)
    BY <1>2, <2>2 DEF ShapeOK, Working, Holding
  <2>4. client' = [client EXCEPT ![c] = t]
    BY <1>9, <2>1
  <2>5. relay' \in Objects /\ \A x \in Relays :
          /\ relay'[x].refs = relay[x].refs + One(x = u.own)
          /\ relay'[x].daemon = relay[x].daemon
    <3>1. u.own \in MaybeRelay
      BY <1>3 DEF MaybeRelay
    <3>. QED  BY <1>2, <1>9, <3>1, AcquiredEffect
  <2>6. PICK b : b = [backends[u.slot] EXCEPT !.display[u.lane] = u.own,
                                              !.displayGid[u.lane] = ClientGid[c]]
    OBVIOUS
  <2>7. /\ b \in BackendRecord /\ (b.active <=> backends[u.slot].active)
        /\ b.daemon = backends[u.slot].daemon
        /\ b.descriptor = backends[u.slot].descriptor /\ b.relay = backends[u.slot].relay
        /\ b.display = [backends[u.slot].display EXCEPT ![u.lane] = u.own]
    <3>1. backends[u.slot] \in BackendRecord /\ ClientGid[c] \in Gids
      BY <1>2, Typed DEF Gids
    <3>2. PICK o \in [Lanes -> MaybeRelay], g \in [Lanes -> Gids \cup {None}] :
            /\ o = [backends[u.slot].display EXCEPT ![u.lane] = u.own]
            /\ g = [backends[u.slot].displayGid EXCEPT ![u.lane] = ClientGid[c]]
      BY <1>3, <3>1 DEF BackendRecord, MaybeRelay
    <3>3. b = [backends[u.slot] EXCEPT !.display = o, !.displayGid = g]
      BY <2>6, <3>1, <3>2 DEF BackendRecord
    <3>. QED  BY <3>1, <3>2, <3>3 DEF BackendRecord
  <2>8. backends' = [backends EXCEPT ![u.slot] = b]
    BY <1>9, <2>6
  <2>9. /\ backends' \in [Slots -> BackendRecord]
        /\ \A z \in Slots : backends'[z] = IF z = u.slot THEN b ELSE backends[z]
    BY <1>2, <2>7, <2>8 DEF TypeOK
  <2>10. \A k \in Lanes : b.display[k] = IF k = u.lane THEN u.own
                                         ELSE backends[u.slot].display[k]
    <3>1. backends[u.slot].display \in [Lanes -> MaybeRelay]
      BY <1>2, Typed DEF BackendRecord
    <3>. QED  BY <2>7, <3>1
  <2>11. LaneMove(c, t, u.slot, u.lane, None, u.own)
    <3>1. None \notin Relays /\ \A x \in Relays : relay[x].refs \in Nat
      BY <1>2, NoneIsNone DEF Objects, RelayRecord
    <3>2. \A r \in Relays :
            /\ relay'[r].refs = relay[r].refs
                 + One(u.own = r) - One(None = r)
                 + One(t.display = r) - One(client[c].display = r)
                 + One(t.own = r) - One(client[c].own = r)
            /\ One(u.own = r) - One(None = r) + One(t.own = r) - One(client[c].own = r) <= 0
            /\ relay'[r].refs > relay[r].refs => r = client[c].own
      BY <1>1, <1>2, <2>2, <2>5, <3>1 DEF One
    <3>3. \A z \in Slots :
         /\ backends'[z].active <=> backends[z].active
         /\ backends'[z].daemon = backends[z].daemon
         /\ backends'[z].descriptor = backends[z].descriptor
         /\ backends'[z].relay = backends[z].relay
         /\ \A k \in Lanes : z # u.slot \/ k # u.lane =>
              backends'[z].display[k] = backends[z].display[k]
      BY <2>7, <2>9, <2>10
    <3>4. backends[u.slot].display[u.lane] = None /\ backends'[u.slot].display[u.lane] = u.own
      BY <1>2, <1>4, <1>9, <2>9, <2>10
    <3>5. backends[u.slot].active /\ relay[u.own].daemon = backends[u.slot].daemon
      BY <1>3, <1>9 DEF Unmoved
    <3>6. t.snap = client[c].snap /\ u.own = client[c].own
      BY <1>1, <2>2
    <3>. QED  BY <1>3, <1>5, <2>2, <2>3, <2>4, <2>5, <2>9, <3>2, <3>3, <3>4, <3>5, <3>6
              DEF LaneMove
  <2>12. SessionOK(c, t)'
    BY <1>1, <1>2, <1>3, <2>2, <2>11, LaneSession
  <2>. QED  BY <1>2, <2>11, <2>12, LaneKeeps
<1>. QED  BY <1>1, <1>4, <1>r, <1>7, <1>8, <1>9 DEF Install

\* forget_display_relay up to its unlock.  The worker is in one lane of one
\* registration at most, its owner.
LEMMA ForgetKeeps ==
    ASSUME IInv, NEW c \in Clients, Forget(c)
    PROVE  IInv'
<1>1. PICK u : u = client[c]
  OBVIOUS
<1>2. u \in ClientRecord /\ u.pc = "gone" /\ relay \in Objects /\ u.own = None
      /\ u.display # None /\ ShapeOK(u) /\ SessionOK(c, u) /\ u.lane \in Lanes /\ TypeOK
      /\ (u.verdict # "none" => u.mode = "sync")
  BY <1>1, ClientHas DEF Forget, ShapeOK, Working, Holding
<1>3. PICK r \in Relays : r = u.display
  BY <1>1, <1>2, ClientHas DEF MaybeRelay
<1>4. PICK held \in SUBSET Slots :
        held = {s \in SlotsOf(ClientUid[c]) : \E l \in Lanes : backends[s].display[l] = r}
  BY DEF SlotsOf
<1>5. conn' = conn /\ alive' = alive /\ relay' = relay
  BY DEF Forget
<1>6. /\ DaemonUid[relay[r].daemon] = ClientUid[c]
      /\ Current(u.snap) => relay[r].daemon = u.snap.daemon
      /\ u.served # None /\ (Current(u.snap) \/ u.verdict = "released") =>
           u.served = u.snap.daemon
  BY <1>2, <1>3 DEF SessionOK
<1>7. CASE held = {} /\ Goto(c, "drop") /\ backends' = backends
  <2>1. PICK t : t = [client[c] EXCEPT !.pc = "drop"]
    OBVIOUS
  <2>2. /\ t \in ClientRecord /\ t.pc = "drop" /\ t.own = u.own
        /\ t.snap = u.snap /\ t.display = u.display
        /\ t.served = u.served /\ t.verdict = u.verdict /\ t.lane = u.lane
        /\ t.mode = u.mode
    BY <1>1, <1>2, <2>1 DEF ClientRecord
  <2>3. ShapeOK(t)
    BY <1>2, <2>2 DEF ShapeOK, Working, Holding
  <2>4. client' = [client EXCEPT ![c] = t]
    BY <1>7, <2>1 DEF Goto
  <2>5. ClientMove(c, t)
    BY <1>1, <1>2, <1>5, <1>7, <2>2, <2>3, <2>4, QuietMove
  <2>6. ASSUME NEW s \in Slots, NEW l \in Lanes, backends[s].display[l] = r
        PROVE  FALSE
    <3>1. SlotOK(s) /\ r # None
      BY NoneIsNone DEF IInv
    <3>2. backends[s].active /\ relay[r].daemon = backends[s].daemon
      BY <2>6, <3>1 DEF SlotOK
    <3>3. s \in held
      BY <1>4, <1>6, <2>6, <3>2 DEF SlotsOf
    <3>. QED  BY <1>7, <3>3
  <2>7. SessionOK(c, t)'
    BY <1>1, <1>2, <1>3, <1>6, <2>2, <2>5, <2>6, MoveSession
  <2>. QED  BY <2>5, <2>7, MoveKeeps
<1>8. CASE /\ held # {}
           /\ backends' = [backends EXCEPT ![Lowest(held)].display =
                  [k \in Lanes |-> IF @[k] = r THEN None ELSE @[k]]]
           /\ client' = [client EXCEPT ![c].pc = "retire", ![c].own = r]
  <2>1. PICK t : t = [client[c] EXCEPT !.pc = "retire", !.own = r]
    OBVIOUS
  <2>2. /\ t \in ClientRecord /\ t.pc = "retire" /\ t.own = r
        /\ t.snap = u.snap /\ t.display = u.display
        /\ t.served = u.served /\ t.verdict = u.verdict /\ t.lane = u.lane
        /\ t.mode = u.mode
    <3>1. PICK o \in MaybeRelay : o = r
      BY DEF MaybeRelay
    <3>2. t = [u EXCEPT !.pc = "retire", !.own = o]
      BY <1>1, <2>1, <3>1
    <3>. QED  BY <1>2, <3>1, <3>2 DEF ClientRecord
  <2>3. ShapeOK(t)
    <3>1. r # None
      BY NoneIsNone
    <3>. QED  BY <1>2, <2>2, <3>1 DEF ShapeOK, Working, Holding
  <2>4. client' = [client EXCEPT ![c] = t]
    BY <1>8, <2>1
  <2>5. PICK s : s = Lowest(held)
    OBVIOUS
  <2>6. s \in held /\ s \in Slots
    BY <1>8, <2>5, LowestIn
  <2>7. PICK l \in Lanes : backends[s].display[l] = r
    BY <1>4, <2>6
  <2>8. backends[s].active
    BY <1>4, <2>6 DEF SlotsOf
  <2>9. ASSUME NEW k \in Lanes, backends[s].display[k] = r
        PROVE  k = l
    <3>1. <<s, k>> \in LaneHolds(r) /\ <<s, l>> \in LaneHolds(r)
      BY <2>6, <2>7, <2>9 DEF LaneHolds
    <3>2. <<s, k>> = <<s, l>>
      BY <3>1, OneOwner DEF IInv
    <3>. QED  BY <3>2
  <2>10. PICK b : b = [backends[s] EXCEPT !.display =
                  [k \in Lanes |-> IF backends[s].display[k] = r THEN None
                                   ELSE backends[s].display[k]]]
    OBVIOUS
  <2>11. /\ b \in BackendRecord /\ (b.active <=> backends[s].active)
         /\ b.daemon = backends[s].daemon
         /\ b.descriptor = backends[s].descriptor /\ b.relay = backends[s].relay
         /\ \A k \in Lanes : b.display[k] = IF k = l THEN None ELSE backends[s].display[k]
    <3>1. backends[s] \in BackendRecord
      BY <1>2, <2>6, Typed
    <3>2. backends[s].display \in [Lanes -> MaybeRelay]
      BY <3>1 DEF BackendRecord
    <3>3. PICK o \in [Lanes -> MaybeRelay] :
            o = [k \in Lanes |-> IF backends[s].display[k] = r THEN None
                                 ELSE backends[s].display[k]]
      BY <3>2 DEF MaybeRelay
    <3>4. \A k \in Lanes : o[k] = IF k = l THEN None ELSE backends[s].display[k]
      BY <2>7, <2>9, <3>3
    <3>5. b = [backends[s] EXCEPT !.display = o]
      BY <2>10, <3>3
    <3>. QED  BY <3>1, <3>4, <3>5 DEF BackendRecord
  <2>12. backends' = [backends EXCEPT ![s] = b]
    BY <1>8, <2>5, <2>10
  <2>13. /\ backends' \in [Slots -> BackendRecord]
         /\ \A z \in Slots : backends'[z] = IF z = s THEN b ELSE backends[z]
    BY <1>2, <2>11, <2>12 DEF TypeOK
  <2>14. LaneMove(c, t, s, l, r, None)
    <3>1. None \notin Relays /\ \A x \in Relays : relay[x].refs \in Nat
      BY <1>2, NoneIsNone DEF Objects, RelayRecord
    <3>2. \A x \in Relays :
            /\ relay'[x].refs = relay[x].refs
                 + One(None = x) - One(r = x)
                 + One(t.display = x) - One(client[c].display = x)
                 + One(t.own = x) - One(client[c].own = x)
            /\ One(None = x) - One(r = x) + One(t.own = x) - One(client[c].own = x) <= 0
            /\ ~(relay'[x].refs > relay[x].refs)
      BY <1>1, <1>2, <1>5, <2>2, <3>1 DEF One
    <3>3. \A z \in Slots :
         /\ backends'[z].active <=> backends[z].active
         /\ backends'[z].daemon = backends[z].daemon
         /\ backends'[z].descriptor = backends[z].descriptor
         /\ backends'[z].relay = backends[z].relay
         /\ \A k \in Lanes : z # s \/ k # l =>
              backends'[z].display[k] = backends[z].display[k]
      BY <2>11, <2>13
    <3>4. backends[s].display[l] = r /\ backends'[s].display[l] = None
      BY <2>6, <2>7, <2>11, <2>13
    <3>5. t.snap = client[c].snap
      BY <1>1, <2>2
    <3>. QED  BY <1>2, <1>5, <2>2, <2>3, <2>4, <2>8, <2>13, <3>2, <3>3, <3>4, <3>5
              DEF LaneMove
  <2>15. SessionOK(c, t)'
    BY <1>1, <1>2, <1>3, <1>6, <2>2, <2>6, <2>14, LaneSession
  <2>. QED  BY <2>6, <2>14, <2>15, LaneKeeps
<1>9. held = {s \in SlotsOf(ClientUid[c]) :
                \E l \in Lanes : backends[s].display[l] = client[c].display}
      /\ r = client[c].display
  BY <1>1, <1>3, <1>4
<1>10. IF held # {}
       THEN /\ backends' = [backends EXCEPT ![Lowest(held)].display =
                  [k \in Lanes |-> IF @[k] = r THEN None ELSE @[k]]]
            /\ client' = [client EXCEPT ![c].pc = "retire", ![c].own = r]
       ELSE Goto(c, "drop") /\ UNCHANGED backends
  BY <1>9, Zenon DEF Forget
<1>. QED  BY <1>7, <1>8, <1>10

-----------------------------------------------------------------------------
(* Steps of a daemon and its connection's thread *)

\* Daemon d's connection comes to the state k; the registry stays.
ConnMove(d, k) ==
    /\ k \in ConnRecord /\ conn' = [conn EXCEPT ![d] = k]
    /\ backends' = backends /\ client' = client /\ alive' \in [Daemons -> BOOLEAN]
    /\ relay' \in Objects /\ Stable
    /\ \A r \in Relays : relay'[r].refs = relay[r].refs
           + One(k.snap.relay = r) - One(conn[d].snap.relay = r)
    /\ \A r \in Relays : relay'[r].refs > relay[r].refs => OwnHolds(r) = {}
    /\ k.pc = "new" => conn[d].pc = "new"
    /\ k.pc # "checking" => k.snap.relay = None

LEMMA ConnIs ==
    ASSUME TypeOK, NEW d \in Daemons, NEW k \in ConnRecord, conn' = [conn EXCEPT ![d] = k]
    PROVE  /\ conn'[d] = k /\ \A e \in Daemons \ {d} : conn'[e] = conn[e]
           /\ conn' \in [Daemons -> ConnRecord]
BY DEF TypeOK

LEMMA ConnMoveKeeps ==
    ASSUME IInv, NEW d \in Daemons, NEW k, ConnMove(d, k)
    PROVE  IInv'
<1>1. TypeOK /\ conn'[d] = k /\ (\A e \in Daemons \ {d} : conn'[e] = conn[e])
      /\ conn' \in [Daemons -> ConnRecord]
  BY ConnIs DEF IInv, ConnMove
<1>2. ASSUME NEW r \in Relays
      PROVE  Counted(r)'
  <2>. DEFINE a == Cardinality(SlotHolds(r))    b == Cardinality(LaneHolds(r))
              e == Cardinality(ConnHolds(r))    f == Cardinality(SnapHolds(r))
              g == Cardinality(DisplayHolds(r)) h == Cardinality(OwnHolds(r))
  <2>1. /\ Cardinality(SlotHolds(r)') = a /\ Cardinality(LaneHolds(r)') = b
        /\ Cardinality(SnapHolds(r)') = f /\ Cardinality(DisplayHolds(r)') = g
        /\ Cardinality(OwnHolds(r)') = h
    BY DEF ConnMove, SlotHolds, LaneHolds, SnapHolds, DisplayHolds, OwnHolds
  <2>2. Cardinality(ConnHolds(r)') = e + One(k.snap.relay = r) - One(conn[d].snap.relay = r)
    BY <1>1, ConnCounts
  <2>3. a \in Nat /\ b \in Nat /\ e \in Nat /\ f \in Nat /\ g \in Nat /\ h \in Nat
    BY HoldsSized
  <2>4. relay[r].refs = a + b + e + f + g + h /\ a + b + h <= 1
    BY DEF IInv, Counted
  <2>5. relay'[r].refs = relay[r].refs + One(k.snap.relay = r) - One(conn[d].snap.relay = r)
    BY DEF ConnMove
  <2>6. PICK i \in Int, j \in Int :
          i = One(k.snap.relay = r) /\ j = One(conn[d].snap.relay = r)
    BY DEF One
  <2>. HIDE DEF a, b, e, f, g, h
  <2>. QED  BY <2>1, <2>2, <2>3, <2>4, <2>5, <2>6 DEF Counted
<1>3. CountedAll' /\ Stable /\ RegisteredOnce /\ backends' = backends /\ client' = client
      /\ relay' \in Objects
  <2>1. CountedAll'
    BY <1>2 DEF CountedAll
  <2>. QED  BY <1>1, <2>1 DEF ConnMove, RegisteredOnce
<1>4. TypeOK'
  BY <1>1, <1>3 DEF TypeOK, Objects, ConnMove
<1>5. \A s \in Slots : SlotOK(s)'
  BY <1>3, SlotStays
<1>6. OneEach'
  BY <1>3 DEF IInv, OneEach
<1>7. \A e \in Daemons : ConnOK(e)'
  BY <1>1 DEF IInv, ConnOK, ConnMove
<1>8. ASSUME NEW c \in Clients
      PROVE  ShapeOK(client'[c]) /\ SessionOK(c, client[c])'
  <2>1. PICK u : u = client[c]
    OBVIOUS
  <2>2. u = client'[c]
    BY <1>3, <2>1
  <2>3. Current(u.snap)' <=> Current(u.snap)
    BY <1>3 DEF Current
  <2>4. \A r \in Relays : relay'[r].refs > relay[r].refs =>
               relay[r].refs = 0 \/ c \notin OwnHolds(r)
    BY DEF ConnMove
  <2>5. SessionOK(c, u)'
    BY <1>3, <2>1, <2>2, <2>3, <2>4, SessionStays
  <2>6. ShapeOK(u)
    BY <2>1 DEF IInv
  <2>. QED  BY <2>2, <2>5, <2>6
<1>. QED  BY <1>3, <1>4, <1>5, <1>6, <1>7, <1>8 DEF IInv, CountedAll

\* Only the place in the code changes, or the descriptor.
LEMMA QuietConn ==
    ASSUME IInv, NEW d \in Daemons, NEW k \in ConnRecord,
           conn' = [conn EXCEPT ![d] = k],
           backends' = backends, client' = client, alive' \in [Daemons -> BOOLEAN],
           relay' = relay, k.snap = conn[d].snap,
           k.pc = "new" => conn[d].pc = "new",
           k.pc # "checking" => conn[d].pc # "checking"
    PROVE  IInv'
<1>1. relay \in Objects /\ \A r \in Relays : relay[r].refs \in Nat
  BY Typed DEF IInv
<1>2. \A r \in Relays : relay'[r].refs = relay[r].refs
           + One(k.snap.relay = r) - One(conn[d].snap.relay = r)
  BY <1>1 DEF One
<1>3. Stable /\ \A r \in Relays : ~(relay'[r].refs > relay[r].refs)
  BY <1>1 DEF Stable
<1>4. k.pc # "checking" => k.snap.relay = None
  BY DEF IInv, ConnOK
<1>5. ConnMove(d, k)
  BY <1>1, <1>2, <1>3, <1>4 DEF ConnMove
<1>. QED  BY <1>5, ConnMoveKeeps

LEMMA RejectKeeps ==
    ASSUME IInv, NEW d \in Daemons, Reject(d)
    PROVE  IInv'
<1>1. PICK fd \in Descriptors :
        conn' = [conn EXCEPT ![d].pc = "left", ![d].descriptor = fd]
  BY DEF Reject
<1>2. PICK u : u = conn[d]
  OBVIOUS
<1>3. PICK k : k = [u EXCEPT !.pc = "left", !.descriptor = fd]
  OBVIOUS
<1>4. u \in ConnRecord /\ u.pc = "new" /\ alive \in [Daemons -> BOOLEAN]
  BY <1>2 DEF IInv, TypeOK, Reject
<1>5. k \in ConnRecord /\ k.pc = "left" /\ k.snap = u.snap
  BY <1>3, <1>4 DEF ConnRecord
<1>6. conn' = [conn EXCEPT ![d] = k]
  BY <1>1, <1>2, <1>3
<1>7. backends' = backends /\ client' = client /\ alive' = alive /\ relay' = relay
  BY DEF Reject
<1>. QED  BY <1>2, <1>4, <1>5, <1>6, <1>7, QuietConn

LEMMA PollFailsKeeps ==
    ASSUME IInv, NEW d \in Daemons, PollFails(d)
    PROVE  IInv'
<1>2. PICK u : u = conn[d]
  OBVIOUS
<1>3. PICK k : k = [u EXCEPT !.pc = "leaving"]
  OBVIOUS
<1>4. u \in ConnRecord /\ u.pc = "polling" /\ alive \in [Daemons -> BOOLEAN]
  BY <1>2 DEF IInv, TypeOK, PollFails
<1>5. k \in ConnRecord /\ k.pc = "leaving" /\ k.snap = u.snap
  BY <1>3, <1>4 DEF ConnRecord
<1>6. conn' = [conn EXCEPT ![d] = k]
  BY <1>2, <1>3 DEF PollFails
<1>7. backends' = backends /\ client' = client /\ alive' = alive /\ relay' = relay
  BY DEF PollFails
<1>. QED  BY <1>2, <1>4, <1>5, <1>6, <1>7, QuietConn

LEMMA CloseKeeps ==
    ASSUME IInv, NEW d \in Daemons, Close(d)
    PROVE  IInv'
<1>2. PICK u : u = conn[d]
  OBVIOUS
<1>3. PICK k : k = [u EXCEPT !.pc = "gone", !.descriptor = None]
  OBVIOUS
<1>4. u \in ConnRecord /\ u.pc = "left" /\ alive \in [Daemons -> BOOLEAN]
  BY <1>2 DEF IInv, TypeOK, Close
<1>5. k \in ConnRecord /\ k.pc = "gone" /\ k.snap = u.snap
  BY <1>3, <1>4 DEF ConnRecord
<1>6. conn' = [conn EXCEPT ![d] = k]
  BY <1>2, <1>3 DEF Close
<1>7. backends' = backends /\ client' = client /\ alive' = alive /\ relay' = relay
  BY DEF Close
<1>. QED  BY <1>2, <1>4, <1>5, <1>6, <1>7, QuietConn

LEMMA ExitKeeps ==
    ASSUME IInv, NEW d \in Daemons, Exit(d)
    PROVE  IInv'
<1>1. PICK k : k = conn[d]
  OBVIOUS
<1>2. k \in ConnRecord /\ conn' = [conn EXCEPT ![d] = k]
  BY <1>1 DEF IInv, TypeOK, Exit
<1>3. alive' \in [Daemons -> BOOLEAN]
  BY DEF IInv, TypeOK, Exit
<1>4. backends' = backends /\ client' = client /\ relay' = relay
  BY DEF Exit
<1>. QED  BY <1>1, <1>2, <1>3, <1>4, QuietConn

\* registered_backend takes its snapshot.
LEMMA PollKeeps ==
    ASSUME IInv, NEW d \in Daemons, Poll(d)
    PROVE  IInv'
<1>1. PICK snap : snap = SnapshotOf(DaemonUid[d])
  OBVIOUS
<1>2. PICK u : u = conn[d]
  OBVIOUS
<1>3. PICK k : k = [u EXCEPT !.pc = "checking", !.snap = snap]
  OBVIOUS
<1>4. u \in ConnRecord /\ u.pc = "polling" /\ alive \in [Daemons -> BOOLEAN]
      /\ u.snap.relay = None /\ snap \in Snapshots
  BY <1>1, <1>2, SnapshotIs DEF IInv, TypeOK, Poll, ConnOK
<1>5. k \in ConnRecord /\ k.pc = "checking" /\ k.snap = snap
  BY <1>3, <1>4 DEF ConnRecord
<1>6. conn' = [conn EXCEPT ![d] = k] /\ relay' = Acquired(relay, snap.relay)
  BY <1>1, <1>2, <1>3 DEF Poll
<1>7. backends' = backends /\ client' = client /\ alive' = alive
  BY DEF Poll
<1>8. /\ relay' \in Objects /\ Stable
      /\ \A r \in Relays :
           /\ relay'[r].refs = relay[r].refs + One(r = snap.relay)
           /\ relay'[r].refs > relay[r].refs => OwnHolds(r) = {}
  BY <1>1, <1>6, SnapshotRelay
<1>9. \A r \in Relays : relay'[r].refs = relay[r].refs
           + One(k.snap.relay = r) - One(conn[d].snap.relay = r)
  <2>1. None \notin Relays /\ \A r \in Relays : relay[r].refs \in Nat
    BY NoneIsNone, Typed DEF IInv
  <2>. QED  BY <1>2, <1>4, <1>5, <1>8, <2>1 DEF One
<1>10. ConnMove(d, k)
  BY <1>4, <1>5, <1>6, <1>7, <1>8, <1>9 DEF ConnMove
<1>. QED  BY <1>10, ConnMoveKeeps

\* registered_backend lets it go.
LEMMA PollDoneKeeps ==
    ASSUME IInv, NEW d \in Daemons, PollDone(d)
    PROVE  IInv'
<1>1. PICK pc \in {"polling", "leaving"} :
        conn' = [conn EXCEPT ![d].snap = NoSnapshot, ![d].pc = pc]
  BY DEF PollDone
<1>2. PICK u : u = conn[d]
  OBVIOUS
<1>3. PICK k : k = [u EXCEPT !.snap = NoSnapshot, !.pc = pc]
  OBVIOUS
<1>4. u \in ConnRecord /\ u.pc = "checking" /\ alive \in [Daemons -> BOOLEAN]
      /\ u.snap.relay \in MaybeRelay /\ relay \in Objects
  BY <1>2, Typed DEF IInv, TypeOK, PollDone
<1>5. k \in ConnRecord /\ k.pc = pc /\ k.snap = NoSnapshot /\ NoSnapshot.relay = None
  <2>1. NoSnapshot \in Snapshots /\ NoSnapshot.relay = None
    BY DEF NoSnapshot, Snapshots, MaybeDaemon, MaybeRelay
  <2>. QED  BY <1>3, <1>4, <2>1 DEF ConnRecord
<1>6. conn' = [conn EXCEPT ![d] = k]
  BY <1>1, <1>2, <1>3
<1>7. backends' = backends /\ client' = client /\ alive' = alive
      /\ relay' = Dropped(relay, u.snap.relay)
  BY <1>2 DEF PollDone
<1>8. u.snap.relay # None => relay[u.snap.relay].refs > 0
  <2>1. SUFFICES ASSUME u.snap.relay # None
                 PROVE  relay[u.snap.relay].refs > 0
    OBVIOUS
  <2>2. PICK x \in Relays : x = u.snap.relay
    BY <1>4, <2>1 DEF MaybeRelay
  <2>3. d \in ConnHolds(x)
    BY <1>2, <2>2 DEF ConnHolds
  <2>. QED  BY <2>2, <2>3, HeldAlive DEF IInv
<1>9. /\ relay' \in Objects
      /\ \A r \in Relays :
           /\ relay'[r].refs = relay[r].refs - One(r = u.snap.relay)
           /\ relay'[r].refs # 0 => relay'[r].daemon = relay[r].daemon
  BY <1>4, <1>7, <1>8, DroppedEffect
<1>10. None \notin Relays /\ \A r \in Relays : relay[r].refs \in Nat
  BY NoneIsNone, Typed DEF IInv
<1>11. \A r \in Relays : relay'[r].refs = relay[r].refs
           + One(k.snap.relay = r) - One(conn[d].snap.relay = r)
  BY <1>2, <1>5, <1>9, <1>10 DEF One
<1>12. \A r \in Relays : ~(relay'[r].refs > relay[r].refs)
  BY <1>9, <1>10 DEF One
<1>13. Stable
  BY <1>9 DEF Stable
<1>14. ConnMove(d, k)
  BY <1>4, <1>5, <1>6, <1>7, <1>9, <1>11, <1>12, <1>13 DEF ConnMove
<1>. QED  BY <1>14, ConnMoveKeeps

-----------------------------------------------------------------------------
(* A registration begins or ends *)

\* Slot s, which loses its relays, gets the registration b of daemon d, or
\* none.
SlotMove(d, k, s, b) ==
    /\ k \in ConnRecord /\ conn' = [conn EXCEPT ![d] = k] /\ k.snap = conn[d].snap
    /\ k.pc \notin {"new", "checking"} /\ conn[d].pc # "checking"
    /\ client' = client /\ alive' = alive /\ relay' \in Objects /\ Stable
    /\ b \in BackendRecord /\ backends' = [backends EXCEPT ![s] = b]
    /\ \A l \in Lanes : b.display[l] = None
    /\ \A r \in Relays : relay'[r].refs = relay[r].refs + One(b.relay = r)
           - One(backends[s].relay = r)
           - One(\E l \in Lanes : backends[s].display[l] = r)
    /\ \A r \in Relays : relay'[r].refs > relay[r].refs => relay[r].refs = 0
    /\ b.relay # None =>
         relay[b.relay].refs = 0 /\ relay'[b.relay].daemon = b.daemon /\ b.active
    /\ b.active =>
         /\ b.daemon = d /\ conn[d].pc = "new"
         /\ \A z \in Slots : backends[z].active =>
                DaemonUid[backends[z].daemon] # DaemonUid[d]

LEMMA SlotIs ==
    ASSUME TypeOK, NEW s \in Slots, NEW b \in BackendRecord,
           backends' = [backends EXCEPT ![s] = b]
    PROVE  /\ backends'[s] = b /\ \A z \in Slots \ {s} : backends'[z] = backends[z]
           /\ backends' \in [Slots -> BackendRecord]
BY DEF TypeOK

\* What the slot gives up goes from the count once, since it is in one of its
\* places only.
LEMMA SlotMoveCounted ==
    ASSUME IInv, NEW d \in Daemons, NEW k, NEW s \in Slots, NEW b, SlotMove(d, k, s, b)
    PROVE  CountedAll'
<1>1. TypeOK /\ backends'[s] = b /\ \A z \in Slots \ {s} : backends'[z] = backends[z]
  BY SlotIs DEF IInv, SlotMove
<1>2. conn'[d] = k /\ \A e \in Daemons \ {d} : conn'[e] = conn[e]
  BY ConnIs DEF IInv, SlotMove
<1>. SUFFICES ASSUME NEW r \in Relays
              PROVE  Counted(r)'
  BY DEF CountedAll
<1>. DEFINE a == Cardinality(SlotHolds(r))    m == Cardinality(LaneHolds(r))
            e == Cardinality(ConnHolds(r))    f == Cardinality(SnapHolds(r))
            g == Cardinality(DisplayHolds(r)) h == Cardinality(OwnHolds(r))
            there == \E l \in Lanes : backends[s].display[l] = r
<1>3. Cardinality(SlotHolds(r)') = a + One(b.relay = r) - One(backends[s].relay = r)
  <2>1. /\ SlotHolds(r)' \ {s} = SlotHolds(r) \ {s}
        /\ s \in SlotHolds(r)' <=> b.relay = r
        /\ s \in SlotHolds(r) <=> backends[s].relay = r
    BY <1>1 DEF SlotHolds
  <2>2. Cardinality(SlotHolds(r)') = Cardinality(SlotHolds(r))
                + One(s \in SlotHolds(r)') - One(s \in SlotHolds(r))
    BY <2>1, HoldsFinite, SizeAfter
  <2>. QED  BY <2>1, <2>2 DEF One
<1>4. Cardinality(LaneHolds(r)') = m - One(there)
  <2>1. \A x \in Slots \X Lanes : x \in LaneHolds(r)' <=> x \in LaneHolds(r) /\ x[1] # s
    <3>1. \A z \in Slots, l \in Lanes : backends'[z].display[l] = r <=>
            backends[z].display[l] = r /\ z # s
      <4>1. ASSUME NEW z \in Slots, NEW l \in Lanes
            PROVE  backends'[z].display[l] = r <=> backends[z].display[l] = r /\ z # s
        <5>1. CASE z = s
          <6>1. b.display[l] = None /\ r # None
            BY NoneIsNone DEF SlotMove
          <6>. QED  BY <1>1, <5>1, <6>1
        <5>2. CASE z # s
          BY <1>1, <5>2
        <5>. QED  BY <5>1, <5>2
      <4>. QED  BY <4>1
    <3>2. \A x \in Slots \X Lanes : backends'[x[1]].display[x[2]] = r <=>
            backends[x[1]].display[x[2]] = r /\ x[1] # s
      BY <3>1
    <3>. QED  BY <3>2 DEF LaneHolds
  <2>2. \A x, y \in LaneHolds(r) : x = y
    BY OneOwner DEF IInv
  <2>3. CASE there
    <3>1. PICK l \in Lanes : backends[s].display[l] = r
      BY <2>3
    <3>2. <<s, l>> \in LaneHolds(r)
      BY <3>1 DEF LaneHolds
    <3>3. LaneHolds(r) = {<<s, l>>}
      BY <2>2, <3>2
    <3>4. LaneHolds(r)' = {}
      <4>1. ASSUME NEW x \in LaneHolds(r)'
            PROVE  FALSE
        <5>1. x \in Slots \X Lanes
          BY DEF LaneHolds
        <5>2. x \in LaneHolds(r) /\ x[1] # s
          BY <2>1, <5>1
        <5>. QED  BY <3>3, <5>2
      <4>. QED  BY <4>1
    <3>5. m = 1 /\ Cardinality(LaneHolds(r)') = 0
      BY <3>3, <3>4, FS_EmptySet, FS_Singleton
    <3>. QED  BY <2>3, <3>5 DEF One
  <2>4. CASE ~there
    <3>1. LaneHolds(r)' = LaneHolds(r)
      <4>1. \A x \in LaneHolds(r) : x[1] # s
        BY <2>4 DEF LaneHolds
      <4>2. \A x \in Slots \X Lanes : x \in LaneHolds(r)' <=> x \in LaneHolds(r)
        BY <2>1, <4>1
      <4>. QED  BY <4>2 DEF LaneHolds
    <3>2. Cardinality(LaneHolds(r)') = m /\ m \in Nat
      BY <3>1, HoldsSized
    <3>. QED  BY <2>4, <3>2 DEF One
  <2>. QED  BY <2>3, <2>4
<1>5. /\ Cardinality(SnapHolds(r)') = f /\ Cardinality(DisplayHolds(r)') = g
      /\ Cardinality(OwnHolds(r)') = h
  BY DEF SlotMove, SnapHolds, DisplayHolds, OwnHolds
<1>6. Cardinality(ConnHolds(r)') = e
  <2>1. ConnHolds(r)' = ConnHolds(r)
    BY <1>2 DEF ConnHolds, SlotMove
  <2>. QED  BY <2>1
<1>7. a \in Nat /\ m \in Nat /\ e \in Nat /\ f \in Nat /\ g \in Nat /\ h \in Nat
  BY HoldsSized
<1>8. relay[r].refs = a + m + e + f + g + h /\ a + m + h <= 1
  BY DEF IInv, Counted
<1>9. relay'[r].refs = relay[r].refs + One(b.relay = r) - One(backends[s].relay = r)
        - One(there)
  BY DEF SlotMove
<1>10. b.relay = r => a = 0 /\ m = 0 /\ h = 0
  <2>1. SUFFICES ASSUME b.relay = r
                 PROVE  a = 0 /\ m = 0 /\ h = 0
    OBVIOUS
  <2>2. relay[r].refs = 0 /\ Counted(r)
    BY <2>1, NoneIsNone DEF SlotMove, IInv
  <2>. QED  BY <2>2, Unheld, HoldsSized
<1>11. PICK i \in {0, 1}, j \in {0, 1}, o \in {0, 1} :
         /\ i = One(b.relay = r) /\ j = One(backends[s].relay = r) /\ o = One(there)
  BY DEF One
<1>12. i = 1 => a = 0 /\ m = 0 /\ h = 0
  BY <1>10, <1>11 DEF One
<1>. HIDE DEF a, m, e, f, g, h, there
<1>13. relay'[r].refs = Cardinality(SlotHolds(r)') + Cardinality(LaneHolds(r)')
           + Cardinality(ConnHolds(r)') + Cardinality(SnapHolds(r)')
           + Cardinality(DisplayHolds(r)') + Cardinality(OwnHolds(r)')
  BY <1>3, <1>4, <1>5, <1>6, <1>7, <1>8, <1>9, <1>11
<1>14. Cardinality(SlotHolds(r)') + Cardinality(LaneHolds(r)')
           + Cardinality(OwnHolds(r)') <= 1
  <2>1. (a + i - j) + (m - o) + h <= 1
    <3>1. CASE i = 1
      BY <1>11, <1>12, <3>1
    <3>2. CASE i = 0
      BY <1>7, <1>8, <1>11, <3>2
    <3>. QED  BY <1>11, <3>1, <3>2
  <2>. QED  BY <1>3, <1>4, <1>5, <1>11, <2>1
<1>. QED  BY <1>13, <1>14 DEF Counted

LEMMA SlotMoveKeeps ==
    ASSUME IInv, NEW d \in Daemons, NEW k, NEW s \in Slots, NEW b, SlotMove(d, k, s, b)
    PROVE  IInv'
<1>1. TypeOK /\ backends'[s] = b /\ (\A z \in Slots \ {s} : backends'[z] = backends[z])
      /\ backends' \in [Slots -> BackendRecord]
  BY SlotIs DEF IInv, SlotMove
<1>2. conn'[d] = k /\ (\A e \in Daemons \ {d} : conn'[e] = conn[e])
      /\ conn' \in [Daemons -> ConnRecord]
  BY ConnIs DEF IInv, SlotMove
<1>3. CountedAll' /\ Stable /\ RegisteredOnce /\ client' = client
      /\ alive' = alive /\ relay' \in Objects
  <2>1. CountedAll'
    BY SlotMoveCounted
  <2>. QED  BY <1>2, <2>1 DEF SlotMove, RegisteredOnce
<1>4. TypeOK'
  BY <1>1, <1>2, <1>3 DEF TypeOK, Objects
<1>5. ASSUME NEW z \in Slots
      PROVE  SlotOK(z)'
  <2>1. CASE z = s
    BY <1>1, <1>2, <2>1 DEF SlotOK, SlotMove
  <2>2. CASE z # s
    BY <1>1, <1>3, <2>2, SlotStays
  <2>. QED  BY <2>1, <2>2
<1>6. OneEach'
  <2>1. ASSUME NEW y \in Slots, NEW z \in Slots, backends'[y].active, backends'[z].active,
               DaemonUid[backends'[y].daemon] = DaemonUid[backends'[z].daemon]
        PROVE  y = z
    BY <1>1, <2>1 DEF IInv, OneEach, SlotMove
  <2>. QED  BY <2>1 DEF OneEach
<1>7. \A e \in Daemons : ConnOK(e)'
  BY <1>2 DEF IInv, ConnOK, SlotMove
<1>8. ASSUME NEW c \in Clients
      PROVE  ShapeOK(client'[c]) /\ SessionOK(c, client[c])'
  <2>1. PICK u : u = client[c]
    OBVIOUS
  <2>2. u = client'[c] /\ ShapeOK(u) /\ SessionOK(c, u)
    BY <1>3, <2>1 DEF IInv
  <2>3. Current(u.snap)' => Current(u.snap)
    <3>1. b.active => u.snap.daemon # d
      <4>1. CASE u.pc = "idle"
        <5>1. u.snap.daemon = None
          BY <2>2, <4>1 DEF ShapeOK, NoSnapshot
        <5>. QED  BY <5>1, NoneIsNone
      <4>2. CASE u.pc # "idle"
        BY <2>2, <4>2 DEF SessionOK, SlotMove
      <4>. QED  BY <4>1, <4>2
    <3>2. ASSUME NEW z \in Slots, backends'[z].active,
                 backends'[z].descriptor = u.snap.descriptor,
                 backends'[z].daemon = u.snap.daemon
          PROVE  z # s
      BY <1>1, <3>1, <3>2 DEF SlotMove
    <3>. QED  BY <1>1, <3>2 DEF Current
  <2>4. \A r \in Relays : relay'[r].refs > relay[r].refs =>
               relay[r].refs = 0 \/ c \notin OwnHolds(r)
    BY DEF SlotMove
  <2>5. ASSUME NEW z \in Slots, NEW l \in Lanes, u.display # None,
               backends'[z].display[l] = u.display
        PROVE  backends[z].display[l] = u.display
    <3>1. z # s
      BY <1>1, <2>5 DEF SlotMove
    <3>. QED  BY <1>1, <2>5, <3>1
  <2>6. SessionOK(c, u)'
    BY <1>3, <2>1, <2>2, <2>3, <2>4, <2>5, SessionStays
  <2>. QED  BY <2>2, <2>6
<1>. QED  BY <1>3, <1>4, <1>5, <1>6, <1>7, <1>8 DEF IInv, CountedAll

\* handle_backend_connection and register_backend: one registration per user,
\* in a slot that is free and so has no relays.
LEMMA RegisterKeeps ==
    ASSUME IInv, NEW d \in Daemons, Register(d)
    PROVE  IInv'
<1>1. PICK u : u = conn[d]
  OBVIOUS
<1>2. u \in ConnRecord /\ u.pc = "new" /\ TypeOK /\ relay \in Objects
      /\ alive' = alive /\ client' = client /\ alive \in [Daemons -> BOOLEAN]
  BY <1>1, Typed DEF IInv, TypeOK, Register
<1>3. PICK free \in SUBSET Slots : free = {s \in Slots : ~backends[s].active}
  OBVIOUS
<1>4. PICK fd \in Descriptors :
        \/ /\ ~Refused(d)
           /\ \E r \in FreeRelays \cup {None} :
                /\ backends' = [backends EXCEPT ![Lowest(free)] =
                      [EmptyBackend EXCEPT !.active = TRUE,
                           !.descriptor = fd, !.daemon = d, !.relay = r]]
                /\ relay' = IF r = None THEN relay
                            ELSE [relay EXCEPT ![r] = Created(d, None)]
           /\ conn' = [conn EXCEPT ![d].pc = "polling", ![d].descriptor = fd]
        \/ /\ Refused(d)
           /\ conn' = [conn EXCEPT ![d].pc = "left", ![d].descriptor = fd]
           /\ backends' = backends /\ relay' = relay
  BY <1>3, Zenon DEF Register
<1>5. CASE /\ Refused(d)
           /\ conn' = [conn EXCEPT ![d].pc = "left", ![d].descriptor = fd]
           /\ backends' = backends /\ relay' = relay
  <2>1. PICK k : k = [u EXCEPT !.pc = "left", !.descriptor = fd]
    OBVIOUS
  <2>2. k \in ConnRecord /\ k.pc = "left" /\ k.snap = u.snap
    BY <1>2, <2>1 DEF ConnRecord
  <2>3. conn' = [conn EXCEPT ![d] = k]
    BY <1>1, <1>5, <2>1
  <2>. QED  BY <1>1, <1>2, <1>5, <2>2, <2>3, QuietConn
<1>6. ASSUME ~Refused(d), NEW r \in FreeRelays \cup {None},
             backends' = [backends EXCEPT ![Lowest(free)] =
                      [EmptyBackend EXCEPT !.active = TRUE,
                           !.descriptor = fd, !.daemon = d, !.relay = r]],
             relay' = IF r = None THEN relay ELSE [relay EXCEPT ![r] = Created(d, None)],
             conn' = [conn EXCEPT ![d].pc = "polling", ![d].descriptor = fd]
      PROVE  IInv'
  <2>1. PICK k : k = [u EXCEPT !.pc = "polling", !.descriptor = fd]
    OBVIOUS
  <2>2. k \in ConnRecord /\ k.pc = "polling" /\ k.snap = u.snap
    BY <1>2, <2>1 DEF ConnRecord
  <2>3. conn' = [conn EXCEPT ![d] = k]
    BY <1>1, <1>6, <2>1
  <2>4. PICK b : b = [EmptyBackend EXCEPT !.active = TRUE,
                           !.descriptor = fd, !.daemon = d, !.relay = r]
    OBVIOUS
  <2>5. r \in MaybeRelay /\ (r # None => r \in Relays /\ relay[r].refs = 0)
    BY DEF FreeRelays, MaybeRelay
  <2>6. /\ b \in BackendRecord /\ b.active /\ b.daemon = d /\ b.relay = r
        /\ \A l \in Lanes : b.display[l] = None
    BY <2>4, <2>5 DEF EmptyBackend, BackendRecord, MaybeDaemon, MaybeRelay
  <2>7. PICK s : s = Lowest(free)
    OBVIOUS
  <2>8. s \in Slots /\ ~backends[s].active
    <3>1. free # {}
      BY <1>3, <1>6 DEF Refused
    <3>2. s \in free
      BY <2>7, <3>1, LowestIn
    <3>. QED  BY <1>3, <3>2
  <2>9. backends' = [backends EXCEPT ![s] = b]
    BY <1>6, <2>4, <2>7
  <2>10. backends[s].relay = None /\ \A l \in Lanes : backends[s].display[l] = None
    BY <2>8 DEF IInv, SlotOK
  <2>11. \A z \in Slots : backends[z].active =>
                DaemonUid[backends[z].daemon] # DaemonUid[d]
    BY <1>6 DEF Refused, SlotsOf
  <2>12. None \notin Relays /\ \A x \in Relays : relay[x].refs \in Nat
    BY <1>2, NoneIsNone DEF Objects, RelayRecord
  <2>13. /\ relay' \in Objects /\ (r # None => relay'[r].daemon = d)
         /\ \A x \in Relays :
              /\ relay'[x].refs = relay[x].refs + One(x = r)
              /\ relay[x].refs # 0 => relay'[x].daemon = relay[x].daemon
    <3>1. CASE r = None
      <4>1. relay' = relay
        BY <1>6, <3>1
      <4>. QED  BY <1>2, <2>12, <3>1, <4>1 DEF One
    <3>2. CASE r # None
      <4>1. PICK gid \in Gids \cup {None} : gid = None
        OBVIOUS
      <4>. DEFINE after == [relay EXCEPT ![r] = Created(d, gid)]
      <4>2. /\ after \in Objects /\ after[r].daemon = d
            /\ \A x \in Relays :
                 /\ after[x].refs = relay[x].refs + One(x = r)
                 /\ relay[x].refs # 0 => after[x].daemon = relay[x].daemon
        BY <1>2, <2>5, <3>2, CreatedEffect, SMTT(20)
      <4>3. relay' = after
        BY <1>6, <3>2, <4>1
      <4>. HIDE DEF after
      <4>. QED  BY <4>2, <4>3
    <3>. QED  BY <3>1, <3>2
  <2>14. \A x \in Relays : relay'[x].refs = relay[x].refs + One(b.relay = x)
           - One(backends[s].relay = x)
           - One(\E l \in Lanes : backends[s].display[l] = x)
    BY <2>6, <2>10, <2>12, <2>13 DEF One
  <2>15. \A x \in Relays : relay'[x].refs > relay[x].refs => relay[x].refs = 0
    BY <2>5, <2>12, <2>13 DEF One
  <2>16. Stable
    BY <2>13 DEF Stable
  <2>17. SlotMove(d, k, s, b)
    BY <1>1, <1>2, <2>2, <2>3, <2>5, <2>6, <2>9, <2>11, <2>13, <2>14, <2>15, <2>16
       DEF SlotMove
  <2>. QED  BY <2>8, <2>17, SlotMoveKeeps
<1>. QED  BY <1>4, <1>5, <1>6

\* Every relay that a registration has, once.
LEMMA RetiredAllEffect ==
    ASSUME IInv, NEW s \in Slots
    PROVE  /\ RetiredAll(relay, backends[s]) \in Objects
           /\ \A r \in Relays :
                /\ RetiredAll(relay, backends[s])[r].refs = relay[r].refs
                     - One(backends[s].relay = r)
                     - One(\E l \in Lanes : backends[s].display[l] = r)
                /\ RetiredAll(relay, backends[s])[r].refs # 0 =>
                     RetiredAll(relay, backends[s])[r].daemon = relay[r].daemon
<1>. DEFINE after == RetiredAll(relay, backends[s])
            there(r) == \E l \in Lanes : backends[s].display[l] = r
<1>1. relay \in Objects /\ \A r \in Relays : relay[r].refs \in Nat
  BY Typed DEF IInv
<1>2. ASSUME NEW r \in Relays
      PROVE  /\ after[r] \in RelayRecord
             /\ after[r].refs = relay[r].refs - One(backends[s].relay = r) - One(there(r))
             /\ after[r].refs # 0 => after[r].daemon = relay[r].daemon
  <2>1. CASE backends[s].relay = r \/ there(r)
    <3>1. after[r] = Retired(relay, r)[r]
      BY <2>1 DEF RetiredAll
    <3>2. Counted(r)
      BY DEF IInv
    <3>3. backends[s].relay = r => s \in SlotHolds(r)
      BY DEF SlotHolds
    <3>4. there(r) => LaneHolds(r) # {}
      <4>1. ASSUME NEW l \in Lanes, backends[s].display[l] = r
            PROVE  <<s, l>> \in LaneHolds(r)
        BY <4>1 DEF LaneHolds
      <4>. QED  BY <4>1
    <3>5. relay[r].refs > 0
      BY <2>1, <3>2, <3>3, <3>4, HeldAlive
    <3>6. ~(backends[s].relay = r /\ there(r))
      BY <3>2, <3>3, <3>4, OneOwner
    <3>7. r \in MaybeRelay
      BY DEF MaybeRelay
    <3>. DEFINE x == Retired(relay, r)
    <3>8. /\ x \in Objects /\ x[r].refs = relay[r].refs - One(r = r)
          /\ x[r].refs # 0 => x[r].daemon = relay[r].daemon
      BY <1>1, <3>5, <3>7, RetiredEffect
    <3>9. after[r] = x[r]
      BY <3>1
    <3>. HIDE DEF x, after, there
    <3>. QED  BY <1>1, <2>1, <3>6, <3>8, <3>9 DEF One, Objects
  <2>2. CASE ~(backends[s].relay = r \/ there(r))
    <3>1. after[r] = relay[r]
      BY <2>2 DEF RetiredAll
    <3>. HIDE DEF after, there
    <3>. QED  BY <1>1, <2>2, <3>1 DEF One, Objects
  <2>. QED  BY <2>1, <2>2
<1>3. after \in Objects
  <2>1. after = [r \in Relays |-> after[r]]
    BY DEF RetiredAll
  <2>. HIDE DEF after
  <2>. QED  BY <1>2, <2>1 DEF Objects
<1>. QED  BY <1>2, <1>3

\* unregister_backend.
LEMMA UnregisterKeeps ==
    ASSUME IInv, NEW d \in Daemons, Unregister(d)
    PROVE  IInv'
<1>1. PICK u : u = conn[d]
  OBVIOUS
<1>2. PICK k : k = [u EXCEPT !.pc = "left"]
  OBVIOUS
<1>3. u \in ConnRecord /\ u.pc = "leaving" /\ TypeOK /\ relay \in Objects
      /\ alive' = alive /\ client' = client /\ alive \in [Daemons -> BOOLEAN]
  BY <1>1, Typed DEF IInv, TypeOK, Unregister
<1>4. k \in ConnRecord /\ k.pc = "left" /\ k.snap = u.snap
  BY <1>2, <1>3 DEF ConnRecord
<1>5. conn' = [conn EXCEPT ![d] = k]
  BY <1>1, <1>2 DEF Unregister
<1>6. PICK own \in SUBSET Slots :
        own = {s \in Slots : /\ backends[s].active
                             /\ DaemonUid[backends[s].daemon] = DaemonUid[d]
                             /\ backends[s].descriptor = conn[d].descriptor}
  OBVIOUS
<1>7. IF own = {} THEN UNCHANGED <<backends, relay>>
      ELSE /\ relay' = RetiredAll(relay, backends[Lowest(own)])
           /\ backends' = [backends EXCEPT ![Lowest(own)] = EmptyBackend]
  BY <1>6, Zenon DEF Unregister
<1>8. CASE own = {}
  BY <1>1, <1>3, <1>4, <1>5, <1>7, <1>8, QuietConn
<1>9. CASE own # {}
  <2>1. PICK s \in Slots : s = Lowest(own)
    <3>1. Lowest(own) \in own
      BY <1>9, LowestIn
    <3>. QED  BY <3>1
  <2>2. relay' = RetiredAll(relay, backends[s])
        /\ backends' = [backends EXCEPT ![s] = EmptyBackend]
    BY <1>7, <1>9, <2>1
  <2>3. /\ relay' \in Objects
        /\ \A r \in Relays :
             /\ relay'[r].refs = relay[r].refs - One(backends[s].relay = r)
                     - One(\E l \in Lanes : backends[s].display[l] = r)
             /\ relay'[r].refs # 0 => relay'[r].daemon = relay[r].daemon
    <3>. DEFINE after == RetiredAll(relay, backends[s])
    <3>1. /\ after \in Objects
          /\ \A r \in Relays :
             /\ after[r].refs = relay[r].refs - One(backends[s].relay = r)
                     - One(\E l \in Lanes : backends[s].display[l] = r)
             /\ after[r].refs # 0 => after[r].daemon = relay[r].daemon
      BY RetiredAllEffect
    <3>2. relay' = after
      BY <2>2
    <3>. HIDE DEF after
    <3>. QED  BY <3>1, <3>2
  <2>4. /\ EmptyBackend \in BackendRecord /\ EmptyBackend.relay = None
        /\ ~EmptyBackend.active /\ \A l \in Lanes : EmptyBackend.display[l] = None
    BY DEF EmptyBackend, BackendRecord, MaybeDaemon, MaybeRelay
  <2>5. None \notin Relays /\ \A x \in Relays : relay[x].refs \in Nat
    BY <1>3, NoneIsNone DEF Objects, RelayRecord
  <2>6. \A x \in Relays : relay'[x].refs = relay[x].refs + One(EmptyBackend.relay = x)
           - One(backends[s].relay = x)
           - One(\E l \in Lanes : backends[s].display[l] = x)
    BY <2>3, <2>4, <2>5 DEF One
  <2>7. \A x \in Relays : ~(relay'[x].refs > relay[x].refs)
    BY <2>3, <2>5 DEF One
  <2>8. Stable
    BY <2>3 DEF Stable
  <2>9. SlotMove(d, k, s, EmptyBackend)
    BY <1>1, <1>3, <1>4, <1>5, <2>2, <2>3, <2>4, <2>6, <2>7, <2>8 DEF SlotMove
  <2>. QED  BY <2>9, SlotMoveKeeps
<1>. QED  BY <1>8, <1>9

-----------------------------------------------------------------------------
(* The theorems *)

\* At first nothing is allocated and nobody holds anything.
LEMMA InitInductive ==
    ASSUME Init
    PROVE  IInv
<1>1. TypeOK
  <2>1. EmptyBackend \in BackendRecord
    BY DEF EmptyBackend, BackendRecord, MaybeDaemon, MaybeRelay
  <2>2. Unallocated \in RelayRecord
    BY DEF Unallocated, RelayRecord, MaybeDaemon
  <2>3. NoSnapshot \in Snapshots
    BY DEF NoSnapshot, Snapshots, MaybeDaemon, MaybeRelay
  <2>4. [pc |-> "new", descriptor |-> None, snap |-> NoSnapshot] \in ConnRecord
    BY <2>3 DEF ConnRecord
  <2>5. IdleClient \in ClientRecord
    BY <2>3 DEF IdleClient, ClientRecord, MaybeDaemon, MaybeRelay
  <2>. QED  BY <2>1, <2>2, <2>4, <2>5 DEF Init, TypeOK
<1>2. \A s \in Slots : /\ ~backends[s].active /\ backends[s].relay = None
                       /\ \A l \in Lanes : backends[s].display[l] = None
  BY DEF Init, EmptyBackend
<1>3. \A d \in Daemons : conn[d].snap.relay = None
  BY DEF Init, NoSnapshot
<1>4. \A c \in Clients : client[c] = IdleClient
  BY DEF Init
<1>5. IdleClient.snap.relay = None /\ IdleClient.display = None /\ IdleClient.own = None
  BY DEF IdleClient, NoSnapshot
<1>6. ASSUME NEW r \in Relays
      PROVE  Counted(r)
  <2>1. r # None /\ relay[r].refs = 0
    BY NoneIsNone DEF Init, Unallocated
  <2>2. /\ SlotHolds(r) = {} /\ LaneHolds(r) = {} /\ ConnHolds(r) = {}
        /\ SnapHolds(r) = {} /\ DisplayHolds(r) = {} /\ OwnHolds(r) = {}
    BY <1>2, <1>3, <1>4, <1>5, <2>1
       DEF SlotHolds, LaneHolds, ConnHolds, SnapHolds, DisplayHolds, OwnHolds
  <2>. QED  BY <2>1, <2>2, FS_EmptySet DEF Counted
<1>7. \A s \in Slots : SlotOK(s)
  BY <1>2 DEF SlotOK
<1>8. OneEach
  BY <1>2 DEF OneEach
<1>9. \A d \in Daemons : ConnOK(d)
  BY <1>3 DEF ConnOK
<1>10. ShapeOK(IdleClient)
  BY DEF ShapeOK, IdleClient, Working, Holding
<1>11. \A c \in Clients : SessionOK(c, IdleClient)
  BY <1>5 DEF SessionOK, IdleClient
<1>. QED  BY <1>1, <1>4, <1>6, <1>7, <1>8, <1>9, <1>10, <1>11 DEF IInv

LEMMA StutterKeeps ==
    ASSUME IInv, UNCHANGED vars
    PROVE  IInv'
<1>1. backends' = backends /\ relay' = relay /\ conn' = conn /\ alive' = alive
      /\ client' = client
  BY DEF vars
<1>2. TypeOK' /\ OneEach' /\ (\A s \in Slots : SlotOK(s)') /\ (\A d \in Daemons : ConnOK(d)')
  BY <1>1 DEF IInv, TypeOK, OneEach, SlotOK, ConnOK
<1>3. \A r \in Relays : Counted(r)'
  BY <1>1 DEF IInv, Counted, SlotHolds, LaneHolds, ConnHolds, SnapHolds, DisplayHolds, OwnHolds
<1>4. \A c \in Clients : ShapeOK(client[c])' /\ SessionOK(c, client[c])'
  BY <1>1 DEF IInv, ShapeOK, SessionOK, Current
<1>. QED  BY <1>2, <1>3, <1>4 DEF IInv

LEMMA StepInductive ==
    ASSUME IInv, [Next]_vars
    PROVE  IInv'
<1>1. ASSUME NEW d \in Daemons, Reject(d) \/ Register(d) \/ ConnStep(d) \/ Exit(d)
      PROVE  IInv'
  BY <1>1, RejectKeeps, RegisterKeeps, PollFailsKeeps, PollKeeps, PollDoneKeeps,
     UnregisterKeeps, CloseKeeps, ExitKeeps DEF ConnStep
<1>2. ASSUME NEW c \in Clients, Take(c) \/ Step(c)
      PROVE  IInv'
  BY <1>2, TakeKeeps, RefuseKeeps, AdmitKeeps, CallProviderKeeps, LookupKeeps,
     SpawnKeeps, InstallKeeps, RetireKeeps, CallKeeps, AskKeeps, ForgetKeeps, DropKeeps,
     FinalKeeps, ReleaseKeeps DEF Step
<1>3. CASE UNCHANGED vars
  BY <1>3, StutterKeeps
<1>. QED  BY <1>1, <1>2, <1>3 DEF Next

\* The invariant holds of every behaviour of the registry.
THEOREM InductiveCorrect == Spec => []IInv
<1>1. Init => IInv
  BY InitInductive
<1>2. IInv /\ [Next]_vars => IInv'
  BY StepInductive
<1>. QED  BY <1>1, <1>2, PTL DEF Spec

\* A relay's count is exactly the references that slots and threads hold, for
\* any number of daemons, clients and slots: no relay is freed under a thread
\* or a registration that can still reach it, and none is leaked.
THEOREM RefsCorrect == Spec => []RefsExact
<1>1. IInv => RefsExact
  <2>1. SUFFICES ASSUME IInv, NEW r \in Relays
                 PROVE  relay[r].refs = SlotReferences(r) + ThreadReferences(r)
    BY DEF IInv, RefsExact
  <2>. DEFINE a == Cardinality(SlotHolds(r))    b == Cardinality(LaneHolds(r))
              e == Cardinality(ConnHolds(r))    f == Cardinality(SnapHolds(r))
              g == Cardinality(DisplayHolds(r)) h == Cardinality(OwnHolds(r))
  <2>2. a \in Nat /\ b \in Nat /\ e \in Nat /\ f \in Nat /\ g \in Nat /\ h \in Nat
    BY HoldsSized
  <2>3. relay[r].refs = a + b + e + f + g + h
    BY <2>1 DEF IInv, Counted
  <2>4. SlotReferences(r) = a + b /\ ThreadReferences(r) = e + f + g + h
    BY DEF SlotReferences, ThreadReferences, SlotHolds, LaneHolds, ConnHolds, SnapHolds,
           DisplayHolds, OwnHolds
  <2>. HIDE DEF a, b, e, f, g, h
  <2>. QED  BY <2>2, <2>3, <2>4
<1>. QED  BY <1>1, InductiveCorrect, PTL

\* A registration keeps only display workers of its own daemon's session,
\* although display_relay_for starts them outside the lock.
THEOREM WorkersCorrect == Spec => []WorkersOfTheirSession
<1>1. IInv => WorkersOfTheirSession
  BY DEF IInv, SlotOK, WorkersOfTheirSession
<1>. QED  BY <1>1, InductiveCorrect, PTL

\* execute_operation releases a result only if it came from the session that
\* the operation was admitted for.
THEOREM ReleasedCorrect == Spec => []ReleasedFromAdmittedSession
<1>1. IInv => ReleasedFromAdmittedSession
  BY DEF IInv, SessionOK, ReleasedFromAdmittedSession
<1>. QED  BY <1>1, InductiveCorrect, PTL

-----------------------------------------------------------------------------
(* A relay that broke stays broken for whoever holds it. *)

Lasting(before, after) ==
    \A x \in Relays :
        before[x].broken /\ before[x].refs # 0 /\ after[x].refs # 0 => after[x].broken

LEMMA AcquiredLasts ==
    ASSUME NEW objects \in Objects, NEW r \in MaybeRelay
    PROVE  Lasting(objects, Acquired(objects, r))
BY DEF Lasting, Acquired, Objects, RelayRecord, MaybeRelay

LEMMA DroppedLasts ==
    ASSUME NEW objects \in Objects, NEW r \in MaybeRelay
    PROVE  Lasting(objects, Dropped(objects, r))
BY DEF Lasting, Dropped, Objects, RelayRecord, MaybeRelay, Unallocated

LEMMA RetiredLasts ==
    ASSUME NEW objects \in Objects, NEW r \in MaybeRelay
    PROVE  Lasting(objects, Retired(objects, r))
<1>1. CASE r = None
  BY <1>1 DEF Retired, Lasting
<1>2. CASE r # None
  <2>1. r \in Relays
    BY <1>2 DEF MaybeRelay
  <2>2. PICK mid : mid = [objects EXCEPT ![r].broken = TRUE]
    OBVIOUS
  <2>3. /\ mid \in Objects
        /\ \A x \in Relays : mid[x].refs = objects[x].refs
        /\ \A x \in Relays : objects[x].broken => mid[x].broken
    BY <2>1, <2>2 DEF Objects, RelayRecord
  <2>4. Lasting(mid, Dropped(mid, r))
    BY <2>3, DroppedLasts
  <2>5. Retired(objects, r) = Dropped(mid, r)
    BY <1>2, <2>2 DEF Retired
  <2>. QED  BY <2>3, <2>4, <2>5 DEF Lasting
<1>. QED  BY <1>1, <1>2

LEMMA RetiredAllLasts ==
    ASSUME relay \in Objects, NEW b
    PROVE  Lasting(relay, RetiredAll(relay, b))
<1>. SUFFICES ASSUME NEW x \in Relays, relay[x].broken, relay[x].refs # 0,
                     RetiredAll(relay, b)[x].refs # 0
              PROVE  RetiredAll(relay, b)[x].broken
  BY DEF Lasting
<1>1. x \in MaybeRelay
  BY DEF MaybeRelay
<1>2. Lasting(relay, Retired(relay, x))
  BY <1>1, RetiredLasts
<1>3. RetiredAll(relay, b)[x] = Retired(relay, x)[x] \/ RetiredAll(relay, b)[x] = relay[x]
  BY DEF RetiredAll
<1>. QED  BY <1>2, <1>3 DEF Lasting

LEMMA CreatedLasts ==
    ASSUME NEW objects \in Objects, NEW r \in Relays, objects[r].refs = 0, NEW d, NEW gid
    PROVE  Lasting(objects, [objects EXCEPT ![r] = Created(d, gid)])
BY DEF Lasting, Objects

LEMMA BreakLasts ==
    ASSUME NEW objects \in Objects, NEW r \in Relays, NEW b, objects[r].broken => b
    PROVE  Lasting(objects, [objects EXCEPT ![r].broken = b])
BY DEF Lasting, Objects, RelayRecord

LEMMA RelayLasts ==
    ASSUME IInv, [Next]_vars
    PROVE  Lasting(relay, relay')
<1>0. TypeOK /\ relay \in Objects
  BY DEF IInv, TypeOK, Objects
<1>1. CASE relay' = relay
  BY <1>1 DEF Lasting
<1>2. ASSUME NEW d \in Daemons, Reject(d) \/ Register(d) \/ ConnStep(d) \/ Exit(d)
      PROVE  Lasting(relay, relay')
  <2>1. CASE Register(d)
    <3>1. relay' = relay \/ \E r \in FreeRelays : relay' = [relay EXCEPT ![r] = Created(d, None)]
      BY <2>1, Zenon DEF Register
    <3>. QED  BY <1>0, <1>1, <3>1, CreatedLasts DEF FreeRelays
  <2>2. CASE Poll(d)
    <3>1. PICK snap : snap = SnapshotOf(DaemonUid[d])
      OBVIOUS
    <3>2. snap.relay \in MaybeRelay
      BY <3>1, SnapshotIs DEF Snapshots
    <3>3. relay' = Acquired(relay, snap.relay)
      BY <2>2, <3>1, Zenon DEF Poll
    <3>. QED  BY <1>0, <3>2, <3>3, AcquiredLasts
  <2>3. CASE PollDone(d)
    <3>1. conn[d].snap.relay \in MaybeRelay
      BY <1>0 DEF TypeOK, ConnRecord, Snapshots
    <3>. QED  BY <1>0, <2>3, <3>1, DroppedLasts DEF PollDone
  <2>4. CASE Unregister(d)
    <3>1. relay' = relay \/ \E b : relay' = RetiredAll(relay, b)
      BY <2>4, Zenon DEF Unregister
    <3>. QED  BY <1>0, <1>1, <3>1, RetiredAllLasts
  <2>5. CASE Reject(d) \/ PollFails(d) \/ Close(d) \/ Exit(d)
    BY <1>1, <2>5 DEF Reject, PollFails, Close, Exit
  <2>. QED  BY <1>2, <2>1, <2>2, <2>3, <2>4, <2>5 DEF ConnStep
<1>3. ASSUME NEW c \in Clients, Take(c) \/ Step(c)
      PROVE  Lasting(relay, relay')
  <2>1. PICK u : u = client[c]
    OBVIOUS
  <2>2. u \in ClientRecord /\ ShapeOK(u) /\ u.snap.relay \in MaybeRelay
        /\ u.display \in MaybeRelay /\ u.own \in MaybeRelay
    BY <2>1, ClientHas
  <2>3. CASE Take(c)
    <3>1. PICK snap : snap = SnapshotOf(ClientUid[c])
      OBVIOUS
    <3>2. snap.relay \in MaybeRelay
      BY <3>1, SnapshotIs DEF Snapshots
    <3>3. relay' = Acquired(relay, snap.relay)
      BY <2>3, <3>1, Zenon DEF Take
    <3>. QED  BY <1>0, <3>2, <3>3, AcquiredLasts
  <2>4. CASE CallProvider(c)
    <3>1. u.snap.relay \in Relays
      BY <2>1, <2>2, <2>4 DEF CallProvider, ShapeOK, MaybeRelay
    <3>2. PICK o \in CallOutcomes(u.snap.relay) :
            relay' = [relay EXCEPT ![u.snap.relay].broken = o.broken]
      BY <2>1, <2>4 DEF CallProvider
    <3>3. relay[u.snap.relay].broken => o.broken
      BY DEF CallOutcomes
    <3>. QED  BY <1>0, <3>1, <3>2, <3>3, BreakLasts
  <2>5. CASE Lookup(c)
    <3>1. relay' = relay \/ \E s \in Slots, l \in Lanes :
                              relay' = Acquired(relay, backends[s].display[l])
      <4>1. PICK match \in SUBSET Slots :
              match = {s \in SlotsOf(ClientUid[c]) :
                       LET own == backends[s].daemon
                           taken == client[c].snap.daemon
                       IN /\ PidOf[own] = PidOf[taken]
                          /\ BackendOf[own] = BackendOf[taken]}
        BY DEF SlotsOf
      <4>2. PICK s : s = Lowest(match)
        OBVIOUS
      <4>3. \/ relay' = relay
            \/ match # {} /\ relay' = Acquired(relay, backends[s].display[client[c].lane])
        BY <2>5, <4>1, <4>2, Zenon DEF Lookup
      <4>4. match # {} => s \in Slots
        BY <4>1, <4>2, LowestIn
      <4>5. client[c].lane \in Lanes
        BY <2>1, <2>2, <2>5 DEF Lookup, ShapeOK, Working
      <4>. QED  BY <4>3, <4>4, <4>5
    <3>2. \A s \in Slots, l \in Lanes : backends[s].display[l] \in MaybeRelay
      BY <1>0 DEF TypeOK, BackendRecord
    <3>. QED  BY <1>0, <1>1, <3>1, <3>2, AcquiredLasts
  <2>6. CASE Spawn(c)
    <3>1. relay' = relay \/ \E r \in FreeRelays :
            relay' = [relay EXCEPT ![r] = Created(client[c].registration, ClientGid[c])]
      BY <2>6 DEF Spawn
    <3>. QED  BY <1>0, <1>1, <3>1, CreatedLasts DEF FreeRelays
  <2>7. CASE Install(c)
    <3>1. u.slot \in Slots /\ u.lane \in Lanes
      BY <2>1, <2>2, <2>7 DEF Install, ShapeOK, Working
    <3>2. \/ relay' = relay \/ relay' = Acquired(relay, u.own)
          \/ relay' = Acquired(relay, backends[u.slot].display[u.lane])
      BY <2>1, <2>7 DEF Install
    <3>3. backends[u.slot].display[u.lane] \in MaybeRelay
      BY <1>0, <3>1 DEF TypeOK, BackendRecord
    <3>. QED  BY <1>0, <1>1, <2>2, <3>2, <3>3, AcquiredLasts
  <2>8. CASE Retire(c)
    BY <1>0, <2>1, <2>2, <2>8, RetiredLasts DEF Retire
  <2>9. CASE Call(c)
    <3>1. u.display \in Relays
      BY <2>1, <2>2, <2>9 DEF Call, ShapeOK, Holding, MaybeRelay
    <3>2. PICK o \in CallOutcomes(u.display) :
            relay' = [relay EXCEPT ![u.display].broken = o.broken]
      BY <2>1, <2>9 DEF Call
    <3>3. relay[u.display].broken => o.broken
      BY DEF CallOutcomes
    <3>. QED  BY <1>0, <3>1, <3>2, <3>3, BreakLasts
  <2>10. CASE Drop(c)
    BY <1>0, <2>1, <2>2, <2>10, DroppedLasts DEF Drop
  <2>11. CASE Release(c)
    BY <1>0, <2>1, <2>2, <2>11, DroppedLasts DEF Release
  <2>12. CASE Refuse(c) \/ Admit(c) \/ AskBroken(c) \/ Forget(c) \/ Final(c)
    BY <1>1, <2>12 DEF Refuse, Admit, AskBroken, Forget, Final
  <2>. QED  BY <1>3, <2>3, <2>4, <2>5, <2>6, <2>7, <2>8, <2>9, <2>10, <2>11, <2>12 DEF Step
<1>4. CASE UNCHANGED vars
  BY <1>1, <1>4 DEF vars
<1>. QED  BY <1>2, <1>3, <1>4 DEF Next

-----------------------------------------------------------------------------
(* Threads that met a failure. *)

\* The operation's call ended with the relay broken, and the thread has not
\* let go of it yet.
FailedOK(t) ==
    /\ t.failed => t.pc \in {"called", "gone", "retire", "drop"}
    /\ t.failed /\ t.pc = "retire" => t.own = t.display

\* From the failure until forget_display_relay the relay is broken.
BrokenOK(t) ==
    t.pc = "gone" \/ (t.failed /\ t.pc = "called") => relay[t.display].broken

FInv == \A c \in Clients : FailedOK(client[c]) /\ BrokenOK(client[c])

LEMMA CallForm ==
    ASSUME NEW c \in Clients, Call(c)
    PROVE  \E p, f, b, v :
             /\ client' = [client EXCEPT ![c].pc = p, ![c].failed = f,
                                         ![c].child = @ \/ b, ![c].served = v]
             /\ p \in {"called", "keep"} /\ f \in BOOLEAN
             /\ f => p = "called"
<1>1. PICK o \in CallOutcomes(client[c].display), b \in BOOLEAN :
        client' = [client EXCEPT
                  ![c].pc = IF client[c].mode = "main" THEN "called" ELSE "keep",
                  ![c].failed = client[c].mode = "main" /\ o.broken,
                  ![c].child = @ \/ b,
                  ![c].served = IF client[c].mode = "main" /\ o.answered
                                THEN relay[client[c].display].daemon ELSE @]
  BY Zenon DEF Call
<1>2. PICK v : v = IF client[c].mode = "main" /\ o.answered
                   THEN relay[client[c].display].daemon ELSE client[c].served
  OBVIOUS
<1>3. PICK p : p = IF client[c].mode = "main" THEN "called" ELSE "keep"
  OBVIOUS
<1>4. PICK f : f = (client[c].mode = "main" /\ o.broken)
  OBVIOUS
<1>5. client' = [client EXCEPT ![c].pc = p, ![c].failed = f, ![c].child = @ \/ b,
                               ![c].served = v]
  BY <1>1, <1>2, <1>3, <1>4
<1>6. p \in {"called", "keep"} /\ f \in BOOLEAN /\ (f => p = "called")
  BY <1>3, <1>4
<1>. QED  BY <1>5, <1>6

LEMMA CallBreaks ==
    ASSUME TypeOK, NEW c \in Clients, Call(c), client'[c].failed,
           client[c].display \in Relays
    PROVE  relay'[client[c].display].broken
<1>1. client[c] \in ClientRecord /\ relay \in [Relays -> RelayRecord]
  BY DEF TypeOK
<1>2. PICK o \in CallOutcomes(client[c].display), b \in BOOLEAN :
        /\ client' = [client EXCEPT
                  ![c].pc = IF client[c].mode = "main" THEN "called" ELSE "keep",
                  ![c].failed = client[c].mode = "main" /\ o.broken,
                  ![c].child = @ \/ b,
                  ![c].served = IF client[c].mode = "main" /\ o.answered
                                THEN relay[client[c].display].daemon ELSE @]
        /\ relay' = [relay EXCEPT ![client[c].display].broken = o.broken]
  BY Zenon DEF Call
<1>3. PICK f : f = (client[c].mode = "main" /\ o.broken)
  OBVIOUS
<1>4. PICK p, x, v : client' = [client EXCEPT ![c].pc = p, ![c].failed = f, ![c].child = x,
                                              ![c].served = v]
  BY <1>2, <1>3, Zenon
<1>5. client'[c].failed = f
  BY <1>1, <1>4 DEF TypeOK, ClientRecord
<1>6. o.broken
  BY <1>3, <1>5
<1>7. relay'[client[c].display].broken = o.broken
  BY <1>1, <1>2 DEF RelayRecord
<1>. QED  BY <1>6, <1>7

\* A thread's step changes no other thread's record.
LEMMA OwnRecord ==
    ASSUME NEW c \in Clients, Take(c) \/ Step(c)
    PROVE  \E t : client' = [client EXCEPT ![c] = t]
<1>1. CASE Take(c)
  BY <1>1 DEF Take
<1>2. CASE Refuse(c) \/ Admit(c) \/ CallProvider(c)
  BY <1>2, ZenonT(40) DEF Refuse, Admit, CallProvider, Goto
<1>3. CASE Lookup(c)
  BY <1>3, ZenonT(40) DEF Lookup
<1>4. CASE Spawn(c) \/ Retire(c)
  BY <1>4 DEF Spawn, Retire
<1>5. CASE Install(c)
  BY <1>5, ZenonT(40) DEF Install
<1>6. CASE Call(c)
  <2>1. PICK p, f, b, v :
             /\ client' = [client EXCEPT ![c].pc = p, ![c].failed = f,
                                         ![c].child = @ \/ b, ![c].served = v]
             /\ p \in {"called", "keep"} /\ f \in BOOLEAN
             /\ f => p = "called"
    BY <1>6, CallForm
  <2>. QED  BY <2>1
<1>7. CASE AskBroken(c) \/ Forget(c) \/ Drop(c)
  BY <1>7 DEF AskBroken, Forget, Drop, Goto
<1>8. CASE Final(c) \/ Release(c)
  BY <1>8 DEF Final, Release
<1>. QED  BY <1>1, <1>2, <1>3, <1>4, <1>5, <1>6, <1>7, <1>8 DEF Step

LEMMA OtherThreads ==
    ASSUME TypeOK, [Next]_vars, NEW c \in Clients, ~(Take(c) \/ Step(c))
    PROVE  client'[c] = client[c]
<1>1. ASSUME NEW d \in Daemons, Reject(d) \/ Register(d) \/ ConnStep(d) \/ Exit(d)
      PROVE  client' = client
  BY <1>1 DEF Reject, Register, ConnStep, PollFails, Poll, PollDone, Unregister, Close, Exit
<1>2. ASSUME NEW e \in Clients, Take(e) \/ Step(e)
      PROVE  client'[c] = client[c]
  <2>1. PICK t : client' = [client EXCEPT ![e] = t]
    BY <1>2, OwnRecord
  <2>. QED  BY <1>2, <2>1 DEF TypeOK
<1>3. CASE UNCHANGED vars
  BY <1>3 DEF vars
<1>. QED  BY <1>1, <1>2, <1>3 DEF Next

\* A thread that has met no failure, and meets none in this step.
LEMMA MeetsNone ==
    ASSUME NEW c \in Clients, FailedOK(client[c]), client[c].failed \in BOOLEAN,
           client'[c].failed = client[c].failed \/ client'[c].failed = FALSE,
           client[c].pc \notin {"called", "gone", "retire", "drop"}, client'[c].pc # "gone"
    PROVE  (FailedOK(client[c]) /\ BrokenOK(client[c]))'
BY DEF FailedOK, BrokenOK

LEMMA LetGoFails ==
    ASSUME NEW c \in Clients, client'[c].failed = FALSE, client'[c].pc # "gone"
    PROVE  (FailedOK(client[c]) /\ BrokenOK(client[c]))'
BY DEF FailedOK, BrokenOK

\* What a thread's own step does to what it knows of a failure.
LEMMA OwnFails ==
    ASSUME IInv, FInv, NEW c \in Clients, Take(c) \/ Step(c)
    PROVE  (FailedOK(client[c]) /\ BrokenOK(client[c]))'
<1>1. PICK u : u = client[c]
  OBVIOUS
<1>2. /\ TypeOK /\ u \in ClientRecord /\ ShapeOK(u)
      /\ FailedOK(client[c]) /\ BrokenOK(client[c]) /\ client[c].failed \in BOOLEAN
  <2>1. TypeOK /\ u \in ClientRecord /\ ShapeOK(u)
    BY <1>1, ClientHas
  <2>. QED  BY <1>1, <2>1 DEF FInv, ClientRecord
<1>3. client \in [Clients -> ClientRecord]
  BY <1>2 DEF TypeOK
<1>4. ASSUME u.pc \in Working, client' = [client EXCEPT ![c] = Onward(u)]
      PROVE  client'[c].failed = FALSE /\ client'[c].pc # "gone"
  <2>1. PICK t : t = Onward(u)
    OBVIOUS
  <2>2. client'[c] = t
    BY <1>3, <1>4, <2>1
  <2>3. t.pc \in {"lookup", "final", "release"}
    BY <1>2, <1>4, <2>1, OnwardForm
  <2>4. t.failed = FALSE
    BY <1>2, <2>1 DEF Onward, ClientRecord
  <2>. QED  BY <2>2, <2>3, <2>4
<1>5. CASE Take(c)
  <2>1. PICK snap : client' = [client EXCEPT ![c].pc = "taken", ![c].snap = snap]
    BY <1>5 DEF Take
  <2>2. client'[c].failed = client[c].failed /\ client'[c].pc = "taken"
    BY <1>3, <2>1 DEF ClientRecord
  <2>. QED  BY <1>2, <1>5, <2>2, MeetsNone DEF Take
<1>6. CASE Refuse(c)
  <2>1. client'[c].failed = client[c].failed /\ client'[c].pc = "release"
    BY <1>3, <1>6 DEF Refuse, Goto, ClientRecord
  <2>. QED  BY <1>2, <1>6, <2>1, MeetsNone DEF Refuse
<1>7. CASE Admit(c)
  <2>1. \/ client' = [client EXCEPT ![c].pc = "provider"]
        \/ client' = [client EXCEPT ![c].pc = "final"]
        \/ \E l, m : client' = [client EXCEPT ![c].pc = "lookup", ![c].mode = m, ![c].lane = l]
    BY <1>7, ZenonT(40) DEF Admit, Goto
  <2>2. ASSUME NEW l, NEW m,
               client' = [client EXCEPT ![c].pc = "lookup", ![c].mode = m, ![c].lane = l]
        PROVE  client'[c].failed = client[c].failed /\ client'[c].pc # "gone"
    BY <1>3, <2>2 DEF ClientRecord
  <2>3. ASSUME NEW q \in {"provider", "final"}, client' = [client EXCEPT ![c].pc = q]
        PROVE  client'[c].failed = client[c].failed /\ client'[c].pc # "gone"
    BY <1>3, <2>3 DEF ClientRecord
  <2>4. client'[c].failed = client[c].failed /\ client'[c].pc # "gone"
    BY <2>1, <2>2, <2>3
  <2>. QED  BY <1>2, <1>7, <2>4, MeetsNone DEF Admit
<1>8. CASE CallProvider(c)
  <2>1. PICK v : client' = [client EXCEPT ![c].pc = "final", ![c].served = v]
    BY <1>8, ZenonT(40) DEF CallProvider
  <2>2. client'[c].failed = client[c].failed /\ client'[c].pc # "gone"
    BY <1>3, <2>1 DEF ClientRecord
  <2>. QED  BY <1>2, <1>8, <2>2, MeetsNone DEF CallProvider
<1>9. CASE Lookup(c)
  <2>1. \/ client' = [client EXCEPT ![c] = Onward(@)]
        \/ \E s, d : client' = [client EXCEPT ![c].pc = "spawn", ![c].slot = s,
                                              ![c].registration = d]
        \/ \E r : client' = [client EXCEPT ![c].pc = "call", ![c].display = r]
    BY <1>9, ZenonT(40) DEF Lookup
  <2>2. CASE client' = [client EXCEPT ![c] = Onward(@)]
    BY <1>1, <1>3, <1>4, <1>9, <2>2, LetGoFails DEF Lookup, Working
  <2>3. CASE client' # [client EXCEPT ![c] = Onward(@)]
    <3>1. ASSUME NEW s, NEW d, client' = [client EXCEPT ![c].pc = "spawn", ![c].slot = s,
                                                         ![c].registration = d]
          PROVE  client'[c].failed = client[c].failed /\ client'[c].pc # "gone"
      BY <1>3, <3>1 DEF ClientRecord
    <3>2. ASSUME NEW r, client' = [client EXCEPT ![c].pc = "call", ![c].display = r]
          PROVE  client'[c].failed = client[c].failed /\ client'[c].pc # "gone"
      BY <1>3, <3>2 DEF ClientRecord
    <3>3. client'[c].failed = client[c].failed /\ client'[c].pc # "gone"
      BY <2>1, <2>3, <3>1, <3>2
    <3>. QED  BY <1>2, <1>9, <3>3, MeetsNone DEF Lookup
  <2>. QED  BY <2>2, <2>3
<1>10. CASE Spawn(c)
  <2>1. CASE client' = [client EXCEPT ![c] = Onward(@)]
    BY <1>1, <1>3, <1>4, <1>10, <2>1, LetGoFails DEF Spawn, Working
  <2>2. CASE client' # [client EXCEPT ![c] = Onward(@)]
    <3>1. PICK r : client' = [client EXCEPT ![c].pc = "install", ![c].own = r]
      BY <1>10, <2>2 DEF Spawn
    <3>2. client'[c].failed = client[c].failed /\ client'[c].pc # "gone"
      BY <1>3, <3>1 DEF ClientRecord
    <3>. QED  BY <1>2, <1>10, <3>2, MeetsNone DEF Spawn
  <2>. QED  BY <2>1, <2>2
<1>11. CASE Install(c)
  <2>1. PICK w : w = [u EXCEPT !.slot = None, !.registration = None]
    OBVIOUS
  <2>2. \/ client' = [client EXCEPT ![c] = [w EXCEPT !.pc = "retire"]]
        \/ \E x : client' = [client EXCEPT ![c] = [w EXCEPT !.pc = "retire", !.display = x]]
        \/ \E x : client' = [client EXCEPT ![c] =
                               [w EXCEPT !.pc = "call", !.own = None, !.display = x]]
    BY <1>1, <1>11, <2>1, ZenonT(40) DEF Install
  <2>3. w \in ClientRecord /\ w.failed = client[c].failed
    BY <1>1, <1>2, <2>1 DEF ClientRecord, MaybeDaemon
  <2>4. client'[c].failed = client[c].failed /\ client'[c].pc # "gone"
    BY <1>3, <2>2, <2>3, ZenonT(60) DEF ClientRecord
  <2>. QED  BY <1>2, <1>11, <2>4, MeetsNone DEF Install
<1>12. CASE Retire(c)
  <2>1. CASE u.display = None
    <3>1. client' = [client EXCEPT ![c] = Onward(u)]
      BY <1>1, <1>12, <2>1 DEF Retire
    <3>. QED  BY <1>1, <1>4, <1>12, <3>1, LetGoFails DEF Retire, Working
  <2>2. CASE u.display # None
    <3>1. client' = [client EXCEPT ![c] = [u EXCEPT !.own = None,
             !.pc = IF u.display = u.own THEN "drop" ELSE "call"]]
      BY <1>1, <1>12, <2>2 DEF Retire
    <3>2. /\ client'[c].failed = u.failed
          /\ client'[c].pc = IF u.display = u.own THEN "drop" ELSE "call"
      BY <1>2, <1>3, <3>1 DEF ClientRecord
    <3>3. u.pc = "retire"
      BY <1>1, <1>12 DEF Retire
    <3>. QED  BY <1>1, <1>2, <3>2, <3>3 DEF FailedOK, BrokenOK
  <2>. QED  BY <2>1, <2>2
<1>13. CASE Call(c)
  <2>1. PICK p, f, b, v :
          /\ client' = [client EXCEPT ![c].pc = p, ![c].failed = f,
                                      ![c].child = @ \/ b, ![c].served = v]
          /\ p \in {"called", "keep"} /\ f \in BOOLEAN
          /\ f => p = "called"
    BY <1>13, CallForm
  <2>2. client'[c].failed = f /\ client'[c].pc = p /\ client'[c].display = client[c].display
    BY <1>3, <2>1 DEF ClientRecord
  <2>3. client[c].display \in Relays
    BY <1>1, <1>2, <1>13, ClientHas DEF Call, ShapeOK, Holding, MaybeRelay
  <2>4. client'[c].failed => relay'[client[c].display].broken
    BY <1>2, <1>13, <2>3, CallBreaks
  <2>. QED  BY <2>1, <2>2, <2>4 DEF FailedOK, BrokenOK
<1>14. CASE AskBroken(c)
  <2>1. /\ client'[c].failed = client[c].failed /\ client'[c].display = client[c].display
        /\ client'[c].pc = IF relay[client[c].display].broken THEN "gone" ELSE "keep"
    BY <1>3, <1>14 DEF AskBroken, Goto, ClientRecord
  <2>2. relay' = relay /\ client[c].pc = "called"
    BY <1>14 DEF AskBroken
  <2>. QED  BY <1>2, <2>1, <2>2 DEF FailedOK, BrokenOK
<1>15. CASE Forget(c)
  <2>1. \/ client' = [client EXCEPT ![c].pc = "retire", ![c].own = client[c].display]
        \/ client' = [client EXCEPT ![c].pc = "drop"]
    BY <1>15, ZenonT(40) DEF Forget, Goto
  <2>2. \/ /\ client'[c].pc = "retire" /\ client'[c].own = client'[c].display
        \/ client'[c].pc = "drop"
    BY <1>3, <2>1 DEF ClientRecord
  <2>. QED  BY <2>2 DEF FailedOK, BrokenOK
<1>16. CASE Drop(c)
  BY <1>1, <1>3, <1>4, <1>16, LetGoFails DEF Drop, Working, Holding
<1>17. CASE Final(c)
  <2>1. \E v, p, m, l : /\ client' = [client EXCEPT ![c].verdict = v, ![c].pc = p,
                                                   ![c].mode = m, ![c].lane = l]
                        /\ p \in {"lookup", "release"}
    BY <1>17, ZenonT(40) DEF Final
  <2>2. client'[c].failed = client[c].failed /\ client'[c].pc # "gone"
    BY <1>3, <2>1 DEF ClientRecord
  <2>. QED  BY <1>2, <1>17, <2>2, MeetsNone DEF Final
<1>18. CASE Release(c)
  <2>1. client'[c].failed = FALSE /\ client'[c].pc = "idle"
    BY <1>3, <1>18 DEF Release, IdleClient
  <2>. QED  BY <2>1, LetGoFails
<1>. QED  BY <1>5, <1>6, <1>7, <1>8, <1>9, <1>10, <1>11, <1>12, <1>13, <1>14, <1>15, <1>16,
            <1>17, <1>18 DEF Step

\* A thread that holds a worker keeps its relay allocated.
LEMMA DisplayHeld ==
    ASSUME IInv, NEW c \in Clients, client[c].display \in Relays
    PROVE  relay[client[c].display].refs # 0
<1>1. Counted(client[c].display) /\ DisplayHolds(client[c].display) # {}
  BY DEF IInv, DisplayHolds
<1>. QED  BY <1>1, HeldAlive

LEMMA FailureKept ==
    ASSUME IInv, FInv, [Next]_vars
    PROVE  FInv'
<1>0. IInv' /\ Lasting(relay, relay')
  BY StepInductive, RelayLasts
<1>. SUFFICES ASSUME NEW c \in Clients
              PROVE  (FailedOK(client[c]) /\ BrokenOK(client[c]))'
  BY DEF FInv
<1>1. CASE Take(c) \/ Step(c)
  BY <1>1, OwnFails
<1>2. CASE ~(Take(c) \/ Step(c))
  <2>1. client'[c] = client[c]
    BY <1>2, OtherThreads DEF IInv
  <2>2. FailedOK(client[c]) /\ BrokenOK(client[c])
    BY DEF FInv
  <2>3. CASE client[c].pc = "gone" \/ (client[c].failed /\ client[c].pc = "called")
    <3>1. client[c].display \in Relays
      <4>1. PICK u : u = client[c]
        OBVIOUS
      <4>2. ShapeOK(u) /\ u.display \in MaybeRelay
        BY <4>1, ClientHas
      <4>. QED  BY <2>3, <4>1, <4>2 DEF ShapeOK, Holding, MaybeRelay
    <3>2. relay[client[c].display].refs # 0
      BY <3>1, DisplayHeld
    <3>3. relay'[client'[c].display].refs # 0
      <4>1. PICK r \in Relays : r = client[c].display
        BY <3>1
      <4>2. Counted(r)' /\ DisplayHolds(r)' # {}
        BY <1>0, <2>1, <4>1 DEF IInv, DisplayHolds
      <4>3. relay'[r].refs > 0
        BY <4>2, HeldNext DEF Held
      <4>. QED  BY <2>1, <4>1, <4>3
    <3>4. relay'[client'[c].display].broken
      BY <1>0, <2>1, <2>2, <2>3, <3>1, <3>2, <3>3 DEF Lasting, BrokenOK
    <3>. QED  BY <2>1, <2>2, <3>4 DEF FailedOK, BrokenOK
  <2>4. CASE ~(client[c].pc = "gone" \/ (client[c].failed /\ client[c].pc = "called"))
    BY <2>1, <2>2, <2>4 DEF FailedOK, BrokenOK
  <2>. QED  BY <2>3, <2>4
<1>. QED  BY <1>1, <1>2

LEMMA FailureCorrect == Spec => [](IInv /\ FInv)
<1>1. Init => IInv /\ FInv
  <2>1. Init => FInv
    BY DEF Init, FInv, FailedOK, BrokenOK, IdleClient
  <2>. QED  BY <2>1, InitInductive
<1>2. (IInv /\ FInv) /\ [Next]_vars => (IInv /\ FInv)'
  BY StepInductive, FailureKept
<1>. QED  BY <1>1, <1>2, PTL DEF Spec

-----------------------------------------------------------------------------
(* Workers that failed. *)

\* Which steps take a worker out of a registration that stays.
LEMMA ForgetsOnlyFailed ==
    ASSUME IInv, FInv, [Next]_vars, NEW s \in Slots, NEW l \in Lanes,
           backends[s].active, backends'[s].active, backends[s].display[l] # None,
           backends'[s].display[l] # backends[s].display[l]
    PROVE  relay[backends[s].display[l]].broken
<1>1. TypeOK /\ backends'[s] # backends[s] /\ backends' # backends
  BY DEF IInv
<1>2. ASSUME NEW d \in Daemons, Register(d)
      PROVE  FALSE
  <2>1. PICK free \in SUBSET Slots : free = {z \in Slots : ~backends[z].active}
    OBVIOUS
  <2>2. backends' = backends \/
        (~Refused(d) /\ \E b : backends' = [backends EXCEPT ![Lowest(free)] = b])
    BY <1>2, <2>1, Zenon DEF Register
  <2>3. ~Refused(d) /\ \E b : backends' = [backends EXCEPT ![Lowest(free)] = b]
    BY <1>1, <2>2
  <2>4. Lowest(free) \in free
    BY <2>1, <2>3, LowestIn DEF Refused
  <2>5. s # Lowest(free)
    BY <2>1, <2>4
  <2>. QED  BY <1>1, <2>3, <2>5 DEF TypeOK
<1>3. ASSUME NEW d \in Daemons, Unregister(d)
      PROVE  FALSE
  <2>1. \E z : backends' = [backends EXCEPT ![z] = EmptyBackend]
    BY <1>1, <1>3 DEF Unregister
  <2>2. backends'[s] = EmptyBackend
    BY <1>1, <2>1 DEF TypeOK
  <2>. QED  BY <2>2 DEF EmptyBackend
<1>4. ASSUME NEW c \in Clients, Install(c)
      PROVE  FALSE
  <2>1. PICK u : u = client[c]
    OBVIOUS
  <2>2. u.slot \in Slots /\ u.lane \in Lanes
    BY <1>4, <2>1, ClientHas DEF Install, ShapeOK, Working, Holding
  <2>3. /\ backends[u.slot].display[u.lane] = None
        /\ backends' = [backends EXCEPT ![u.slot].display[u.lane] = u.own,
                                        ![u.slot].displayGid[u.lane] = ClientGid[c]]
    BY <1>1, <1>4, <2>1 DEF Install
  <2>4. s = u.slot
    BY <1>1, <2>3 DEF TypeOK
  <2>5. backends[s] \in BackendRecord
    BY <1>1 DEF TypeOK
  <2>6. backends'[s].display = [backends[s].display EXCEPT ![u.lane] = u.own]
    BY <1>1, <2>3, <2>4, <2>5 DEF TypeOK, BackendRecord
  <2>7. l = u.lane
    BY <2>2, <2>5, <2>6 DEF BackendRecord
  <2>. QED  BY <2>3, <2>4, <2>7
<1>5. ASSUME NEW c \in Clients, Forget(c)
      PROVE  relay[backends[s].display[l]].broken
  <2>1. PICK r : r = client[c].display
    OBVIOUS
  <2>2. relay[r].broken
    BY <1>5, <2>1 DEF Forget, FInv, BrokenOK
  <2>3. PICK held : held = {z \in SlotsOf(ClientUid[c]) :
                              \E k \in Lanes : backends[z].display[k] = client[c].display}
    OBVIOUS
  <2>4. IF held # {}
        THEN /\ backends' = [backends EXCEPT ![Lowest(held)].display =
                   [k \in Lanes |-> IF @[k] = r THEN None ELSE @[k]]]
             /\ client' = [client EXCEPT ![c].pc = "retire", ![c].own = r]
        ELSE Goto(c, "drop") /\ UNCHANGED backends
    BY <1>5, <2>1, <2>3, Zenon DEF Forget
  <2>5. PICK z : backends' = [backends EXCEPT ![z].display =
                      [k \in Lanes |-> IF @[k] = r THEN None ELSE @[k]]]
    BY <1>1, <2>4
  <2>6. s = z
    BY <1>1, <2>5 DEF TypeOK
  <2>7. backends[s] \in BackendRecord
    BY <1>1 DEF TypeOK
  <2>8. backends'[s].display =
          [k \in Lanes |-> IF backends[s].display[k] = r THEN None ELSE backends[s].display[k]]
    BY <1>1, <2>5, <2>6, <2>7 DEF TypeOK, BackendRecord
  <2>9. backends[s].display[l] = r
    BY <2>8
  <2>. QED  BY <2>2, <2>9
<1>6. CASE UNCHANGED vars
  BY <1>1, <1>6 DEF vars
<1>7. ASSUME NEW d \in Daemons, Reject(d) \/ Register(d) \/ ConnStep(d) \/ Exit(d)
      PROVE  relay[backends[s].display[l]].broken
  BY <1>1, <1>2, <1>3, <1>7 DEF Reject, ConnStep, PollFails, Poll, PollDone, Close, Exit
<1>8. ASSUME NEW c \in Clients, Take(c) \/ Step(c)
      PROVE  relay[backends[s].display[l]].broken
  BY <1>1, <1>4, <1>5, <1>8 DEF Take, Step, Refuse, Admit, CallProvider, Lookup, Spawn,
     Retire, Call, AskBroken, Drop, Final, Release
<1>. QED  BY <1>6, <1>7, <1>8 DEF Next

\* Only a worker that failed is taken out of a registration that stays.
THEOREM ForgottenCorrect == Spec => OnlyFailedForgotten
<1>1. (IInv /\ FInv) /\ [Next]_vars =>
        [\A s \in Slots, l \in Lanes :
          /\ backends[s].active /\ backends'[s].active
          /\ backends[s].display[l] # None
          /\ backends'[s].display[l] # backends[s].display[l]
          => relay[backends[s].display[l]].broken]_vars
  BY ForgetsOnlyFailed
<1>. QED  BY <1>1, FailureCorrect, PTL DEF Spec, OnlyFailedForgotten

\* A thread whose operation met a dead worker lets go of it only after
\* forget_display_relay.
LEMMA LetsGo ==
    ASSUME IInv, FInv, [Next]_vars, NEW c \in Clients, client[c].failed,
           client'[c].display # client[c].display
    PROVE  client[c].pc = "drop" /\ backends' = backends
<1>1. PICK u : u = client[c]
  OBVIOUS
<1>2. TypeOK /\ u \in ClientRecord /\ ShapeOK(u) /\ FailedOK(u)
  BY <1>1, ClientHas DEF FInv
<1>3. client \in [Clients -> ClientRecord]
  BY <1>2 DEF TypeOK
<1>4. Take(c) \/ Step(c)
  BY <1>2, OtherThreads
<1>5. u.pc \in {"called", "gone", "retire", "drop"} /\ (u.pc = "retire" => u.own = u.display)
  BY <1>1, <1>2 DEF FailedOK
<1>6. Retire(c) \/ AskBroken(c) \/ Forget(c) \/ Drop(c)
  BY <1>1, <1>4, <1>5 DEF Take, Step, Refuse, Admit, CallProvider, Lookup, Spawn, Install,
     Call, Final, Release
<1>7. CASE Retire(c)
  <2>1. u.display # None
    BY <1>1, <1>2, <1>5, <1>7 DEF Retire, ShapeOK
  <2>2. client' = [client EXCEPT ![c] = [u EXCEPT !.own = None,
           !.pc = IF u.display = u.own THEN "drop" ELSE "call"]]
    BY <1>1, <1>7, <2>1 DEF Retire
  <2>. QED  BY <1>1, <1>2, <1>3, <2>2 DEF ClientRecord
<1>8. CASE AskBroken(c)
  BY <1>3, <1>8 DEF AskBroken, Goto, ClientRecord
<1>9. CASE Forget(c)
  <2>1. \/ client' = [client EXCEPT ![c].pc = "retire", ![c].own = client[c].display]
        \/ client' = [client EXCEPT ![c].pc = "drop"]
    BY <1>9, ZenonT(40) DEF Forget, Goto
  <2>. QED  BY <1>3, <2>1 DEF ClientRecord
<1>10. CASE Drop(c)
  BY <1>1, <1>5, <1>10 DEF Drop
<1>. QED  BY <1>6, <1>7, <1>8, <1>9, <1>10

\* When a thread lets go of the relay on which its operation failed, no
\* registration holds that relay any more, although ksd_kwin_relay_is_broken,
\* forget_display_relay and ksd_kwin_relay_release are sections of their own.
THEOREM DeadWorkerCorrect == Spec => DeadWorkerForgotten
<1>1. (IInv /\ FInv) /\ [Next]_vars =>
        [\A c \in Clients :
         LET r == client[c].display IN
         client[c].failed /\ client'[c].display # r
         => \A s \in Slots, l \in Lanes : backends'[s].display[l] # r]_vars
  <2>1. SUFFICES ASSUME IInv, FInv, [Next]_vars, NEW c \in Clients, client[c].failed,
                        client'[c].display # client[c].display,
                        NEW s \in Slots, NEW l \in Lanes
                 PROVE  backends'[s].display[l] # client[c].display
    OBVIOUS
  <2>2. client[c].pc = "drop" /\ backends' = backends
    BY <2>1, LetsGo
  <2>. QED  BY <2>1, <2>2 DEF IInv, SessionOK
<1>. QED  BY <1>1, FailureCorrect, PTL DEF Spec, DeadWorkerForgotten
=============================================================================
