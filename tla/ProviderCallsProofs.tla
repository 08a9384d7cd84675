------------------------ MODULE ProviderCallsProofs ------------------------
(***************************************************************************)
(* Proofs about ProviderCalls, for any finite number of threads, whatever  *)
(* the session, the shell and the daemon do meanwhile.                     *)
(***************************************************************************)
EXTENDS ProviderCalls, FiniteSetTheorems, TLAPS

-----------------------------------------------------------------------------
(* The invariant *)

MaybeConn == Connections \cup {NoConn}
CallerStages == {"idle", "get", "validate", "open", "insert", "call"}
Holding == {"validate", "insert", "call"}

\* A table of connections.  Peers and epochs are whatever they are.
TableOK(table) ==
    /\ table = [k \in Connections |-> table[k]]
    /\ \A k \in Connections :
        table[k] \in [peer: {table[k].peer}, epoch: {table[k].epoch}, refs: Nat]

EntryOK(e) == e \in [pid: {e.pid}, conn: MaybeConn]

\* A thread has a reference from the lookup that succeeds, or the connection it
\* opened, to the end of its call.
CallerOK(t) ==
    /\ t \in [pc: CallerStages, pid: {t.pid}, conn: MaybeConn]
    /\ t.pc \in Holding <=> t.conn # NoConn

Shaped ==
    /\ TableOK(conns)
    /\ EntryOK(entry)
    /\ callers = [c \in Callers |-> callers[c]]
    /\ \A c \in Callers : CallerOK(callers[c])

\* The far end of the cached connection is the process the entry names, and
\* that of a connection a thread opened or calls on is its own registration's.
Peers ==
    /\ entry.conn # NoConn => conns[entry.conn].peer = entry.pid
    /\ \A c \in Callers :
        callers[c].pc \in {"insert", "call"} =>
            conns[callers[c].conn].peer = callers[c].pid

\* A connection that its thread has just opened is nobody else's: not the
\* cache's, so that putting it there adds a reference.
Unshared ==
    \A c \in Callers :
        callers[c].pc = "insert" => conns[callers[c].conn].refs = 1

\* The inductive invariant.
IInv == Shaped /\ ConnectionsCounted /\ Peers /\ Unshared

-----------------------------------------------------------------------------
(* References *)

One(test) == IF test THEN 1 ELSE 0
Users(k) == {c \in Callers : callers[c].conn = k}

LEMMA ConstantsTyped ==
    Cardinality(Callers) \in Nat /\ Connections \subseteq Nat /\ NoConn \notin Connections
BY CallersFinite, ConnectionsAssumption, FS_CardinalityType DEF NoConn

LEMMA UsersFinite ==
    ASSUME NEW k
    PROVE  /\ IsFiniteSet(Users(k)) /\ Cardinality(Users(k)) \in Nat
           /\ Cardinality(Users(k)) = 0 <=> Users(k) = {}
BY CallersFinite, FS_Subset, FS_CardinalityType, FS_EmptySet DEF Users

LEMMA HoldersIs ==
    ASSUME NEW k
    PROVE  Holders(k) = One(entry.conn = k) + Cardinality(Users(k))
BY DEF Holders, One, Users

\* One thread that holds, or holds no more, changes the count by one.
LEMMA UsersAfter ==
    ASSUME NEW c \in Callers, NEW k, \A d \in Callers \ {c} : callers'[d] = callers[d]
    PROVE  Cardinality(Users(k)') = Cardinality(Users(k))
             + One(callers'[c].conn = k) - One(callers[c].conn = k)
<1>1. IsFiniteSet(Users(k)) /\ Cardinality(Users(k)) \in Nat
  BY UsersFinite
<1>2. c \in Users(k) <=> callers[c].conn = k
  BY DEF Users
<1>3. Users(k)' = IF callers'[c].conn = k THEN Users(k) \cup {c} ELSE Users(k) \ {c}
  BY DEF Users
<1>4. CASE callers'[c].conn = k
  <2>1. Cardinality(Users(k) \cup {c})
          = IF c \in Users(k) THEN Cardinality(Users(k)) ELSE Cardinality(Users(k)) + 1
    BY <1>1, FS_AddElement
  <2>. QED  BY <1>1, <1>2, <1>3, <1>4, <2>1 DEF One
<1>5. CASE callers'[c].conn # k
  <2>1. Cardinality(Users(k) \ {c})
          = IF c \in Users(k) THEN Cardinality(Users(k)) - 1 ELSE Cardinality(Users(k))
    BY <1>1, FS_RemoveElement
  <2>. QED  BY <1>1, <1>2, <1>3, <1>5, <2>1 DEF One
<1>. QED  BY <1>4, <1>5

\* g_object_ref.
LEMMA RefEffect ==
    ASSUME NEW table, TableOK(table), NEW k \in Connections
    PROVE  /\ TableOK(Ref(table, k))
           /\ \A j \in Connections :
                /\ Ref(table, k)[j].refs = table[j].refs + One(j = k)
                /\ Ref(table, k)[j].peer = table[j].peer
<1>. DEFINE new == Ref(table, k)
            r == [table[k] EXCEPT !.refs = table[k].refs + 1]
<1>1. table[k] \in [peer: {table[k].peer}, epoch: {table[k].epoch}, refs: Nat]
  BY DEF TableOK
<1>2. /\ r.refs = table[k].refs + 1 /\ r.peer = table[k].peer /\ r.epoch = table[k].epoch
      /\ r \in [peer: {r.peer}, epoch: {r.epoch}, refs: Nat]
  BY <1>1
<1>3. new = [table EXCEPT ![k] = r]
  BY DEF Ref
<1>. HIDE DEF r, new
<1>4. \A j \in Connections : new[j] = IF j = k THEN r ELSE table[j]
  BY <1>3 DEF TableOK
<1>5. new = [j \in Connections |-> new[j]]
  BY <1>3 DEF TableOK
<1>6. TableOK(new)
  BY <1>2, <1>4, <1>5 DEF TableOK
<1>7. \A j \in Connections : new[j].refs = table[j].refs + One(j = k)
                             /\ new[j].peer = table[j].peer
  BY <1>2, <1>4 DEF One, TableOK
<1>. QED  BY <1>6, <1>7 DEF new

\* g_object_unref of a reference that exists; NULL is left alone.
LEMMA UnrefEffect ==
    ASSUME NEW table, TableOK(table), NEW k \in MaybeConn,
           k # NoConn => table[k].refs > 0
    PROVE  /\ TableOK(Unref(table, k))
           /\ \A j \in Connections :
                /\ Unref(table, k)[j].refs = table[j].refs - One(j = k)
                /\ Unref(table, k)[j].refs # 0 => Unref(table, k)[j].peer = table[j].peer
<1>1. CASE k = NoConn
  <2>1. Unref(table, k) = table /\ k \notin Connections
    BY <1>1, ConstantsTyped DEF Unref
  <2>2. \A j \in Connections : table[j].refs \in Nat
    BY DEF TableOK
  <2>. QED  BY <2>1, <2>2 DEF One
<1>2. CASE k # NoConn
  <2>0. k \in Connections
    BY <1>2 DEF MaybeConn
  <2>. DEFINE new == Unref(table, k)
              r == IF table[k].refs = 1 THEN Unused
                   ELSE [table[k] EXCEPT !.refs = table[k].refs - 1]
  <2>1. table[k] \in [peer: {table[k].peer}, epoch: {table[k].epoch}, refs: Nat]
        /\ table[k].refs > 0
    BY <1>2, <2>0 DEF TableOK
  <2>2. /\ r.refs = table[k].refs - 1 /\ (r.refs # 0 => r.peer = table[k].peer)
        /\ r \in [peer: {r.peer}, epoch: {r.epoch}, refs: Nat]
    BY <2>1 DEF Unused
  <2>3. new = [table EXCEPT ![k] = r]
    BY <1>2 DEF Unref
  <2>. HIDE DEF r, new
  <2>4. \A j \in Connections : new[j] = IF j = k THEN r ELSE table[j]
    BY <2>0, <2>3 DEF TableOK
  <2>5. new = [j \in Connections |-> new[j]]
    BY <2>3 DEF TableOK
  <2>6. TableOK(new)
    BY <2>2, <2>4, <2>5 DEF TableOK
  <2>7. \A j \in Connections : new[j].refs = table[j].refs - One(j = k)
                               /\ (new[j].refs # 0 => new[j].peer = table[j].peer)
    BY <2>2, <2>4 DEF One, TableOK
  <2>. QED  BY <2>6, <2>7 DEF new
<1>. QED  BY <1>1, <1>2

-----------------------------------------------------------------------------
(* Steps of the threads *)

\* Whoever holds a connection is among the counted.
LEMMA HeldCounted ==
    ASSUME Shaped, ConnectionsCounted
    PROVE  /\ \A c \in Callers : callers[c].conn # NoConn =>
                /\ callers[c].conn \in Connections
                /\ conns[callers[c].conn].refs > One(entry.conn = callers[c].conn) - 1
                /\ conns[callers[c].conn].refs > 0
                /\ entry.conn = callers[c].conn => conns[entry.conn].refs > 1
           /\ entry.conn # NoConn => entry.conn \in Connections /\ conns[entry.conn].refs > 0
<1>1. \A k \in Connections : /\ conns[k].refs = One(entry.conn = k) + Cardinality(Users(k))
                             /\ Cardinality(Users(k)) \in Nat
  BY HoldersIs, UsersFinite DEF ConnectionsCounted
<1>2. ASSUME NEW c \in Callers, callers[c].conn # NoConn
      PROVE  callers[c].conn \in Connections /\ Cardinality(Users(callers[c].conn)) > 0
  <2>1. callers[c].conn \in Connections
    BY <1>2 DEF Shaped, CallerOK, MaybeConn
  <2>2. c \in Users(callers[c].conn)
    BY DEF Users
  <2>. QED  BY <2>1, <2>2, UsersFinite
<1>3. entry.conn # NoConn => entry.conn \in Connections
  BY DEF Shaped, EntryOK, MaybeConn
<1>. QED  BY <1>1, <1>2, <1>3 DEF One

\* A step of thread c that leaves it in the state t, with a reference more or
\* less for each connection it, or the entry, takes or lets go.
LEMMA StepKeeps ==
    ASSUME IInv, NEW c \in Callers, NEW t, CallerOK(t), callers' = [callers EXCEPT ![c] = t],
           EntryOK(entry'), TableOK(conns'),
           \A j \in Connections : conns'[j].refs
               = conns[j].refs + One(entry'.conn = j) - One(entry.conn = j)
                   + One(t.conn = j) - One(callers[c].conn = j),
           \A j \in Connections : conns[j].refs # 0 /\ conns'[j].refs # 0
               => conns'[j].peer = conns[j].peer,
           entry'.conn # NoConn => conns'[entry'.conn].peer = entry'.pid,
           t.pc \in {"insert", "call"} => conns'[t.conn].peer = t.pid,
           t.pc = "insert" => conns'[t.conn].refs = 1,
           entry'.conn \in {NoConn, entry.conn, callers[c].conn},
           t.conn \in {NoConn, entry.conn, callers[c].conn} \/ conns[t.conn].refs = 0
    PROVE  IInv'
<1>1. /\ callers'[c] = t /\ \A d \in Callers \ {c} : callers'[d] = callers[d]
      /\ callers' = [d \in Callers |-> callers'[d]]
  BY DEF IInv, Shaped
<1>2. Shaped'
  <2>1. \A d \in Callers : CallerOK(callers'[d])
    BY <1>1 DEF IInv, Shaped
  <2>. QED  BY <1>1, <2>1 DEF Shaped
<1>3. ConnectionsCounted'
  <2>1. ASSUME NEW j \in Connections
        PROVE  conns'[j].refs = One(entry'.conn = j) + Cardinality(Users(j)')
    <3>1. conns[j].refs = One(entry.conn = j) + Cardinality(Users(j))
      BY HoldersIs DEF IInv, ConnectionsCounted
    <3>2. Cardinality(Users(j)') = Cardinality(Users(j))
             + One(t.conn = j) - One(callers[c].conn = j)
      BY <1>1, UsersAfter
    <3>3. Cardinality(Users(j)) \in Nat
      BY UsersFinite
    <3>. QED  BY <3>1, <3>2, <3>3 DEF One
  <2>2. \A j \in Connections : conns'[j].refs = Holders(j)'
    BY <2>1 DEF Holders, One, Users
  <2>. QED  BY <2>2 DEF ConnectionsCounted
<1>4. ASSUME NEW d \in Callers, d # c, callers[d].pc \in {"insert", "call"}
      PROVE  conns'[callers'[d].conn].peer = callers'[d].pid
  <2>1. callers'[d] = callers[d] /\ callers[d].conn # NoConn
    BY <1>1, <1>4 DEF IInv, Shaped, CallerOK, Holding
  <2>2. conns[callers[d].conn].refs > 0 /\ callers[d].conn \in Connections
        /\ conns[callers[d].conn].refs \in Nat
    BY <2>1, HeldCounted DEF IInv, Shaped, TableOK
  <2>3. d \in Users(callers[d].conn)'
    BY <2>1 DEF Users
  <2>4. conns'[callers[d].conn].refs # 0
    <3>. DEFINE k == callers[d].conn
                U == {e \in Callers : callers'[e].conn = k}
    <3>1. conns'[k].refs = One(entry'.conn = k) + Cardinality(U)
      BY <1>3, <2>2 DEF ConnectionsCounted, Holders, One
    <3>2. d \in U
      BY <2>1
    <3>3. IsFiniteSet(U) /\ Cardinality(U) \in Nat /\ Cardinality(U) # 0
      BY <3>2, CallersFinite, FS_Subset, FS_CardinalityType, FS_EmptySet
    <3>. HIDE DEF U
    <3>. QED  BY <3>1, <3>3 DEF One
  <2>5. conns'[callers[d].conn].peer = conns[callers[d].conn].peer
    BY <2>2, <2>4
  <2>. QED  BY <1>4, <2>1, <2>5 DEF IInv, Peers
<1>5. Peers'
  <2>1. ASSUME NEW d \in Callers, callers'[d].pc \in {"insert", "call"}
        PROVE  conns'[callers'[d].conn].peer = callers'[d].pid
    BY <1>1, <1>4, <2>1
  <2>. QED  BY <2>1 DEF Peers
<1>6. ASSUME NEW d \in Callers, d # c, callers[d].pc = "insert"
      PROVE  conns'[callers[d].conn].refs = 1
  <2>. DEFINE k == callers[d].conn
  <2>1. k # NoConn
    BY <1>6 DEF IInv, Shaped, CallerOK, Holding
  <2>2. k \in Connections /\ conns[k].refs = 1 /\ entry.conn # k
    <3>1. k \in Connections /\ (entry.conn = k => conns[entry.conn].refs > 1)
      BY <2>1, HeldCounted DEF IInv
    <3>2. conns[k].refs = 1
      BY <1>6 DEF IInv, Unshared
    <3>. QED  BY <3>1, <3>2
  <2>3. callers[c].conn # k
    <3>1. SUFFICES ASSUME callers[c].conn = k
                   PROVE  FALSE
      OBVIOUS
    <3>2. IsFiniteSet(Users(k)) /\ Cardinality(Users(k)) \in Nat
      BY UsersFinite
    <3>3. Cardinality(Users(k)) = 1
      BY <2>2, <3>2, HoldersIs DEF IInv, ConnectionsCounted, One
    <3>4. c \in Users(k) /\ d \in Users(k)
      BY <3>1 DEF Users
    <3>. QED  BY <1>6, <3>2, <3>3, <3>4, FS_Singleton
  <2>. QED  BY <2>1, <2>2, <2>3 DEF One
<1>7. Unshared'
  <2>1. ASSUME NEW d \in Callers, callers'[d].pc = "insert"
        PROVE  conns'[callers'[d].conn].refs = 1
    BY <1>1, <1>6, <2>1
  <2>. QED  BY <2>1 DEF Unshared
<1>. QED  BY <1>2, <1>3, <1>5, <1>7 DEF IInv

\* The states the actions leave a thread in.
LEMMA IdleForm ==
    CallerOK(Idle) /\ Idle.conn = NoConn /\ Idle.pc = "idle"
BY DEF CallerOK, Idle, CallerStages, Holding, MaybeConn

LEMMA BegunForm ==
    ASSUME NEW r, CallerOK(r), r.conn = NoConn, NEW p
    PROVE  LET t == [r EXCEPT !.pc = "get", !.pid = p]
           IN  CallerOK(t) /\ t.pc = "get" /\ t.conn = NoConn
<1>. DEFINE t == [r EXCEPT !.pc = "get", !.pid = p]
<1>1. t.pc = "get" /\ t.conn = r.conn
      /\ t \in [pc: CallerStages, pid: {t.pid}, conn: MaybeConn]
  BY DEF CallerOK, CallerStages
<1>. HIDE DEF t
<1>2. CallerOK(t) /\ t.pc = "get" /\ t.conn = NoConn
  BY <1>1 DEF CallerOK, Holding
<1>. QED  BY <1>2 DEF t

LEMMA CalledForm ==
    ASSUME NEW r, CallerOK(r), r.conn # NoConn
    PROVE  LET t == [r EXCEPT !.pc = "call"]
           IN  CallerOK(t) /\ t.pc = "call" /\ t.pid = r.pid /\ t.conn = r.conn
<1>. DEFINE t == [r EXCEPT !.pc = "call"]
<1>1. t.pc = "call" /\ t.pid = r.pid /\ t.conn = r.conn
      /\ t \in [pc: CallerStages, pid: {t.pid}, conn: MaybeConn]
  BY DEF CallerOK, CallerStages
<1>. HIDE DEF t
<1>2. CallerOK(t)
  BY <1>1 DEF CallerOK, Holding
<1>. QED  BY <1>1, <1>2 DEF t

\* With one object more than there are threads, a thread that holds none finds
\* one that nobody uses.
LEMMA FreeConnection ==
    ASSUME IInv, NEW c \in Callers, callers[c].conn = NoConn
    PROVE  \E k \in Connections : conns[k].refs = 0
<1>1. SUFFICES ASSUME \A k \in Connections : conns[k].refs # 0
               PROVE  FALSE
  OBVIOUS
<1>. DEFINE h == [k \in Connections |->
         IF entry.conn = k THEN c ELSE CHOOSE d \in Callers : callers[d].conn = k]
<1>2. ASSUME NEW k \in Connections, entry.conn # k
      PROVE  \E d \in Callers : callers[d].conn = k
  <2>1. conns[k].refs = One(entry.conn = k) + Cardinality(Users(k))
    BY HoldersIs DEF IInv, ConnectionsCounted
  <2>2. Cardinality(Users(k)) \in Nat /\ (Cardinality(Users(k)) = 0 <=> Users(k) = {})
    BY UsersFinite
  <2>3. Cardinality(Users(k)) # 0
    BY <1>1, <1>2, <2>1, <2>2 DEF One
  <2>. QED  BY <2>2, <2>3 DEF Users
<1>3. \A k \in Connections : /\ h[k] \in Callers
                             /\ IF entry.conn = k THEN h[k] = c ELSE callers[h[k]].conn = k
  BY <1>2
<1>4. h \in [Connections -> Callers]
  BY <1>3
<1>5. IsFiniteSet(Connections) /\ Cardinality(Callers) < Cardinality(Connections)
  BY ConstantsTyped, ConnectionsAssumption, FS_Interval
<1>. HIDE DEF h
<1>6. PICK x \in Connections, y \in Connections : x # y /\ h[x] = h[y]
  BY <1>4, <1>5, CallersFinite, FS_PigeonHole
<1>. QED  BY <1>3, <1>6, ConstantsTyped

-----------------------------------------------------------------------------
(* Each step of a thread *)

LEMMA BeginKeeps ==
    ASSUME IInv, NEW c \in Callers, Begin(c)
    PROVE  IInv'
<1>. DEFINE t == [callers[c] EXCEPT !.pc = "get", !.pid = reg.pid]
<1>1. CallerOK(callers[c]) /\ callers[c].conn = NoConn /\ "get" \in CallerStages
  BY DEF Begin, IInv, Shaped, CallerOK, Holding, CallerStages
<1>2. t.pc = "get" /\ t.conn = NoConn /\ CallerOK(t)
  BY <1>1, BegunForm
<1>3. callers' = [callers EXCEPT ![c] = t] /\ entry' = entry /\ conns' = conns
  BY DEF Begin
<1>. HIDE DEF t
<1>4. \A j \in Connections : conns[j].refs \in Nat
  BY DEF IInv, Shaped, TableOK
<1>5. \A j \in Connections : conns'[j].refs
               = conns[j].refs + One(entry'.conn = j) - One(entry.conn = j)
                   + One(t.conn = j) - One(callers[c].conn = j)
  BY <1>1, <1>2, <1>3, <1>4 DEF One
<1>6. EntryOK(entry') /\ TableOK(conns')
      /\ (entry'.conn # NoConn => conns'[entry'.conn].peer = entry'.pid)
  BY <1>3 DEF IInv, Shaped, Peers
<1>. QED  BY <1>2, <1>3, <1>5, <1>6, StepKeeps

LEMMA OpenFailsKeeps ==
    ASSUME IInv, NEW c \in Callers, OpenFails(c)
    PROVE  IInv'
<1>1. CallerOK(callers[c]) /\ callers[c].conn = NoConn
  BY DEF OpenFails, IInv, Shaped, CallerOK, Holding
<1>2. Idle.pc = "idle" /\ Idle.conn = NoConn /\ CallerOK(Idle)
  BY IdleForm
<1>3. callers' = [callers EXCEPT ![c] = Idle] /\ entry' = entry /\ conns' = conns
  BY DEF OpenFails, Return
<1>4. \A j \in Connections : conns[j].refs \in Nat
  BY DEF IInv, Shaped, TableOK
<1>5. \A j \in Connections : conns'[j].refs
               = conns[j].refs + One(entry'.conn = j) - One(entry.conn = j)
                   + One(Idle.conn = j) - One(callers[c].conn = j)
  BY <1>1, <1>2, <1>3, <1>4 DEF One
<1>6. EntryOK(entry') /\ TableOK(conns')
      /\ (entry'.conn # NoConn => conns'[entry'.conn].peer = entry'.pid)
  BY <1>3 DEF IInv, Shaped, Peers
<1>. QED  BY <1>2, <1>3, <1>5, <1>6, StepKeeps

\* provider_connection_get, the first critical section: the cached connection
\* is shared, or replaced by none.
LEMMA LookupKeeps ==
    ASSUME IInv, NEW c \in Callers, Lookup(c)
    PROVE  IInv'
<1>1. CallerOK(callers[c]) /\ callers[c].conn = NoConn
      /\ "validate" \in CallerStages /\ "open" \in CallerStages
  BY DEF Lookup, IInv, Shaped, CallerOK, Holding, CallerStages
<1>2. TableOK(conns) /\ EntryOK(entry) /\ entry.conn \in MaybeConn /\ NoConn \in MaybeConn
  BY DEF IInv, Shaped, EntryOK, MaybeConn
<1>3. entry.conn # NoConn => entry.conn \in Connections /\ conns[entry.conn].refs > 0
  BY HeldCounted DEF IInv
<1>4. NoConn \notin Connections /\ \A j \in Connections : conns[j].refs \in Nat
  BY <1>2, ConstantsTyped DEF TableOK
<1>5. PICK kept \in BOOLEAN :
        /\ kept => entry.conn # NoConn /\ entry.pid = callers[c].pid
        /\ conns' = IF kept THEN Ref(conns, entry.conn) ELSE Unref(conns, entry.conn)
        /\ entry' = IF kept \/ entry = NoEntry THEN entry
                    ELSE [pid |-> callers[c].pid, conn |-> NoConn]
        /\ callers' = [callers EXCEPT
                ![c].pc = IF kept THEN "validate" ELSE "open",
                ![c].conn = IF kept THEN entry.conn ELSE NoConn]
  BY DEF Lookup
<1>6. CASE kept
  <2>. DEFINE t == [callers[c] EXCEPT !.pc = "validate", !.conn = entry.conn]
  <2>1. callers' = [callers EXCEPT ![c] = t] /\ entry' = entry
        /\ conns' = Ref(conns, entry.conn) /\ entry.conn # NoConn /\ entry.conn \in Connections
    BY <1>3, <1>5, <1>6
  <2>2. t.pc = "validate" /\ t.conn = entry.conn /\ CallerOK(t)
    <3>1. t.pc = "validate" /\ t.conn = entry.conn
          /\ t \in [pc: CallerStages, pid: {t.pid}, conn: MaybeConn]
      BY <1>1, <1>2 DEF CallerOK
    <3>. HIDE DEF t
    <3>. QED  BY <2>1, <3>1 DEF CallerOK, Holding
  <2>. HIDE DEF t
  <2>3. /\ TableOK(conns')
        /\ \A j \in Connections : /\ conns'[j].refs = conns[j].refs + One(j = entry.conn)
                                  /\ conns'[j].peer = conns[j].peer
    BY <1>2, <2>1, RefEffect
  <2>4. \A j \in Connections : conns'[j].refs
               = conns[j].refs + One(entry'.conn = j) - One(entry.conn = j)
                   + One(t.conn = j) - One(callers[c].conn = j)
    BY <1>1, <1>4, <2>1, <2>2, <2>3 DEF One
  <2>5. EntryOK(entry') /\ conns'[entry'.conn].peer = entry'.pid
    BY <1>2, <2>1, <2>3 DEF IInv, Peers
  <2>. QED  BY <2>1, <2>2, <2>3, <2>4, <2>5, StepKeeps
<1>7. CASE ~kept
  <2>. DEFINE t == [callers[c] EXCEPT !.pc = "open", !.conn = NoConn]
  <2>1. callers' = [callers EXCEPT ![c] = t] /\ conns' = Unref(conns, entry.conn)
    BY <1>5, <1>7
  <2>2. t.pc = "open" /\ t.conn = NoConn /\ CallerOK(t)
    <3>1. t.pc = "open" /\ t.conn = NoConn
          /\ t \in [pc: CallerStages, pid: {t.pid}, conn: MaybeConn]
      BY <1>1, <1>2 DEF CallerOK
    <3>. HIDE DEF t
    <3>. QED  BY <3>1 DEF CallerOK, Holding
  <2>. HIDE DEF t
  <2>3. entry' = IF entry = NoEntry THEN entry ELSE [pid |-> callers[c].pid, conn |-> NoConn]
    BY <1>5, <1>7
  <2>4. entry'.conn = NoConn /\ EntryOK(entry')
    BY <1>2, <2>3 DEF NoEntry, EntryOK
  <2>5. /\ TableOK(conns')
        /\ \A j \in Connections :
             /\ conns'[j].refs = conns[j].refs - One(j = entry.conn)
             /\ conns'[j].refs # 0 => conns'[j].peer = conns[j].peer
    BY <1>2, <1>3, <2>1, UnrefEffect
  <2>6. \A j \in Connections : conns'[j].refs
               = conns[j].refs + One(entry'.conn = j) - One(entry.conn = j)
                   + One(t.conn = j) - One(callers[c].conn = j)
    BY <1>1, <1>4, <2>2, <2>4, <2>5 DEF One
  <2>. QED  BY <2>1, <2>2, <2>4, <2>5, <2>6, StepKeeps
<1>. QED  BY <1>6, <1>7

\* A thread drops its own reference.
LEMMA UnrefKeeps ==
    ASSUME IInv, NEW c \in Callers, callers[c].conn # NoConn,
           conns' = Unref(conns, callers[c].conn), entry' = entry, Return(c)
    PROVE  IInv'
<1>. DEFINE own == callers[c].conn
<1>1. TableOK(conns) /\ EntryOK(entry) /\ own \in MaybeConn
  BY DEF IInv, Shaped, CallerOK
<1>2. own \in Connections /\ conns[own].refs > 0 /\ NoConn \notin Connections
      /\ (entry.conn = own => conns[own].refs > 1)
      /\ (entry.conn # NoConn => entry.conn \in Connections /\ conns[entry.conn].refs > 0)
  BY HeldCounted, ConstantsTyped DEF IInv
<1>3. \A j \in Connections : conns[j].refs \in Nat
  BY <1>1 DEF TableOK
<1>4. /\ TableOK(conns')
      /\ \A j \in Connections :
           /\ conns'[j].refs = conns[j].refs - One(j = own)
           /\ conns'[j].refs # 0 => conns'[j].peer = conns[j].peer
  BY <1>1, <1>2, UnrefEffect
<1>5. callers' = [callers EXCEPT ![c] = Idle]
  BY DEF Return
<1>. HIDE DEF own
<1>6. \A j \in Connections : conns'[j].refs
               = conns[j].refs + One(entry'.conn = j) - One(entry.conn = j)
                   + One(Idle.conn = j) - One(own = j)
  BY <1>2, <1>3, <1>4, IdleForm DEF One
<1>7. ASSUME entry'.conn # NoConn
      PROVE  conns'[entry'.conn].peer = entry'.pid
  <2>1. entry.conn \in Connections /\ conns[entry.conn].peer = entry.pid
    BY <1>2, <1>7 DEF IInv, Peers
  <2>2. conns'[entry.conn].refs # 0
    BY <1>2, <1>3, <1>4, <2>1 DEF One
  <2>. QED  BY <1>4, <2>1, <2>2
<1>. QED  BY <1>1, <1>4, <1>5, <1>6, <1>7, IdleForm, StepKeeps DEF own

\* provider_connection_invalidate, and the thread drops its own reference.
LEMMA InvalidateKeeps ==
    ASSUME IInv, NEW c \in Callers, callers[c].conn # NoConn,
           Invalidate(callers[c].conn, conns), Return(c)
    PROVE  IInv'
<1>. DEFINE own == callers[c].conn
<1>1. CASE entry.conn # own
  BY <1>1, UnrefKeeps DEF Invalidate
<1>2. CASE entry.conn = own
  <2>. DEFINE once == Unref(conns, own)
  <2>1. TableOK(conns) /\ EntryOK(entry) /\ own \in MaybeConn
    BY DEF IInv, Shaped, CallerOK
  <2>2. own \in Connections /\ conns[own].refs > 1 /\ NoConn \notin Connections
    BY <1>2, HeldCounted, ConstantsTyped DEF IInv
  <2>3. \A j \in Connections : conns[j].refs \in Nat
    BY <2>1 DEF TableOK
  <2>4. entry' = [entry EXCEPT !.conn = NoConn] /\ conns' = Unref(once, own)
    BY <1>2 DEF Invalidate
  <2>5. /\ TableOK(once)
        /\ \A j \in Connections :
             /\ once[j].refs = conns[j].refs - One(j = own)
             /\ once[j].refs # 0 => once[j].peer = conns[j].peer
    BY <2>1, <2>2, <2>3, UnrefEffect
  <2>. HIDE DEF once
  <2>6. once[own].refs > 0
    BY <2>2, <2>3, <2>5 DEF One
  <2>7. /\ TableOK(conns')
        /\ \A j \in Connections :
             /\ conns'[j].refs = once[j].refs - One(j = own)
             /\ conns'[j].refs # 0 => conns'[j].peer = once[j].peer
    BY <2>1, <2>4, <2>5, <2>6, UnrefEffect
  <2>8. \A j \in Connections : conns'[j].refs # 0 => conns'[j].peer = conns[j].peer
    <3>1. ASSUME NEW j \in Connections, conns'[j].refs # 0
          PROVE  once[j].refs # 0
      <4>1. CASE j = own
        BY <2>6, <4>1
      <4>2. CASE j # own
        BY <2>3, <2>5, <2>7, <3>1, <4>2 DEF One
      <4>. QED  BY <4>1, <4>2
    <3>. QED  BY <2>5, <2>7, <3>1
  <2>9. entry'.conn = NoConn /\ EntryOK(entry')
    BY <2>1, <2>4 DEF EntryOK, MaybeConn
  <2>10. callers' = [callers EXCEPT ![c] = Idle]
    BY DEF Return
  <2>. HIDE DEF own
  <2>11. \A j \in Connections : conns'[j].refs
               = conns[j].refs + One(entry'.conn = j) - One(entry.conn = j)
                   + One(Idle.conn = j) - One(own = j)
    BY <1>2, <2>2, <2>3, <2>5, <2>7, <2>9, IdleForm DEF One
  <2>. QED  BY <2>7, <2>8, <2>9, <2>10, <2>11, IdleForm, StepKeeps DEF own
<1>. QED  BY <1>1, <1>2

\* provider_call, and ksd_provider_watch.
LEMMA EndKeeps ==
    ASSUME IInv, NEW c \in Callers, CallEnds(c) \/ WatchEnds(c)
    PROVE  IInv'
<1>1. callers[c].conn # NoConn
  BY DEF CallEnds, WatchEnds, IInv, Shaped, CallerOK, Holding
<1>2. /\ Return(c)
      /\ \/ Invalidate(callers[c].conn, conns)
         \/ conns' = Unref(conns, callers[c].conn) /\ entry' = entry
  BY DEF CallEnds, WatchEnds, LetGo
<1>. QED  BY <1>1, <1>2, InvalidateKeeps, UnrefKeeps

\* provider_peer_valid: the peer the call goes to is the registration's.
LEMMA ValidateKeeps ==
    ASSUME IInv, NEW c \in Callers, Validate(c)
    PROVE  IInv'
<1>1. CallerOK(callers[c]) /\ callers[c].conn # NoConn
  BY DEF Validate, IInv, Shaped, CallerOK, Holding
<1>2. CASE Invalidate(callers[c].conn, conns) /\ Return(c)
  BY <1>1, <1>2, InvalidateKeeps
<1>3. CASE /\ conns[callers[c].conn].peer = callers[c].pid
           /\ callers' = [callers EXCEPT ![c].pc = "call"]
           /\ UNCHANGED <<entry, conns>>
  <2>. DEFINE t == [callers[c] EXCEPT !.pc = "call"]
  <2>1. callers' = [callers EXCEPT ![c] = t] /\ entry' = entry /\ conns' = conns
    BY <1>3
  <2>2. CallerOK(t) /\ t.pc = "call" /\ t.pid = callers[c].pid /\ t.conn = callers[c].conn
    BY <1>1, CalledForm
  <2>. HIDE DEF t
  <2>3. \A j \in Connections : conns[j].refs \in Nat
    BY DEF IInv, Shaped, TableOK
  <2>4. \A j \in Connections : conns'[j].refs
               = conns[j].refs + One(entry'.conn = j) - One(entry.conn = j)
                   + One(t.conn = j) - One(callers[c].conn = j)
    BY <2>1, <2>2, <2>3 DEF One
  <2>5. EntryOK(entry') /\ TableOK(conns')
        /\ (entry'.conn # NoConn => conns'[entry'.conn].peer = entry'.pid)
    BY <2>1 DEF IInv, Shaped, Peers
  <2>6. /\ t.pc \in {"insert", "call"} => conns'[t.conn].peer = t.pid
        /\ t.pc = "insert" => conns'[t.conn].refs = 1
        /\ t.conn \in {NoConn, entry.conn, callers[c].conn}
    BY <1>3, <2>1, <2>2
  <2>7. entry'.conn \in {NoConn, entry.conn, callers[c].conn}
    BY <2>1
  <2>. QED  BY <2>1, <2>2, <2>4, <2>5, <2>6, <2>7, StepKeeps
<1>4. \/ /\ conns[callers[c].conn].peer = callers[c].pid
         /\ callers' = [callers EXCEPT ![c].pc = "call"]
         /\ UNCHANGED <<entry, conns>>
      \/ Invalidate(callers[c].conn, conns) /\ Return(c)
  BY Zenon DEF Validate
<1>. QED  BY <1>2, <1>3, <1>4

\* provider_connection_open.
LEMMA OpenKeeps ==
    ASSUME IInv, NEW c \in Callers, OpenConnection(c)
    PROVE  IInv'
<1>1. CallerOK(callers[c]) /\ callers[c].conn = NoConn
  BY DEF OpenConnection, IInv, Shaped, CallerOK, Holding
<1>. DEFINE k == CHOOSE n \in Connections : conns[n].refs = 0
            new == [peer |-> shell.pid, epoch |-> shell.epoch, refs |-> 1]
            t == [callers[c] EXCEPT !.pc = "insert", !.conn = k]
<1>2. k \in Connections /\ conns[k].refs = 0
  <2>1. \E n \in Connections : conns[n].refs = 0
    BY <1>1, FreeConnection
  <2>. QED  BY <2>1
<1>3. /\ conns' = [conns EXCEPT ![k] = new] /\ callers' = [callers EXCEPT ![c] = t]
      /\ entry' = entry /\ shell.pid = callers[c].pid
  <2>1. /\ conns' = [conns EXCEPT ![k] = new]
        /\ callers' = [callers EXCEPT ![c].pc = "insert", ![c].conn = k]
        /\ entry' = entry /\ shell.pid = callers[c].pid
    BY Zenon DEF OpenConnection
  <2>. HIDE DEF k, new
  <2>. QED  BY <2>1
<1>4. new.peer = shell.pid /\ new.refs = 1
      /\ new \in [peer: {new.peer}, epoch: {new.epoch}, refs: Nat]
  OBVIOUS
<1>. HIDE DEF k, new
<1>5. t.pc = "insert" /\ t.conn = k /\ t.pid = callers[c].pid /\ CallerOK(t)
  <2>1. t.pc = "insert" /\ t.conn = k /\ t.pid = callers[c].pid
        /\ t \in [pc: CallerStages, pid: {t.pid}, conn: MaybeConn]
    BY <1>1, <1>2 DEF CallerOK, CallerStages, MaybeConn
  <2>. HIDE DEF t
  <2>. QED  BY <1>2, <2>1, ConstantsTyped DEF CallerOK, Holding
<1>. HIDE DEF t
<1>6. TableOK(conns) /\ EntryOK(entry) /\ NoConn \notin Connections
  BY ConstantsTyped DEF IInv, Shaped
<1>7. /\ \A j \in Connections : conns'[j] = IF j = k THEN new ELSE conns[j]
      /\ conns' = [j \in Connections |-> conns'[j]]
  BY <1>2, <1>3, <1>6 DEF TableOK
<1>8. TableOK(conns')
  BY <1>4, <1>6, <1>7 DEF TableOK
<1>9. \A j \in Connections : conns[j].refs \in Nat
  BY <1>6 DEF TableOK
<1>10. \A j \in Connections : conns'[j].refs
               = conns[j].refs + One(entry'.conn = j) - One(entry.conn = j)
                   + One(t.conn = j) - One(callers[c].conn = j)
  BY <1>1, <1>2, <1>3, <1>4, <1>5, <1>6, <1>7, <1>9 DEF One
<1>11. \A j \in Connections : conns[j].refs # 0 => conns'[j].peer = conns[j].peer
  BY <1>2, <1>7
<1>12. entry'.conn # NoConn => conns'[entry'.conn].peer = entry'.pid
  <2>1. entry.conn # NoConn =>
          /\ entry.conn \in Connections /\ conns[entry.conn].refs > 0
          /\ conns[entry.conn].peer = entry.pid
    BY HeldCounted DEF IInv, Peers
  <2>. QED  BY <1>3, <1>11, <2>1
<1>13. conns'[t.conn].peer = t.pid /\ conns'[t.conn].refs = 1
       /\ conns[t.conn].refs = 0
  BY <1>2, <1>3, <1>4, <1>5, <1>7
<1>. QED  BY <1>3, <1>5, <1>6, <1>8, <1>10, <1>11, <1>12, <1>13, StepKeeps

\* provider_connection_get, the second critical section: the connection of a
\* thread whose entry has moved on is dropped; otherwise it is put in the
\* cache, or given up for the one another thread put there first.
LEMMA InsertKeeps ==
    ASSUME IInv, NEW c \in Callers, Insert(c)
    PROVE  IInv'
<1>. DEFINE own == callers[c].conn
<1>1. CallerOK(callers[c]) /\ own # NoConn /\ callers[c].pc = "insert"
  BY DEF Insert, IInv, Shaped, CallerOK, Holding
<1>2. TableOK(conns) /\ EntryOK(entry) /\ own \in MaybeConn /\ entry.conn \in MaybeConn
  BY <1>1 DEF IInv, Shaped, CallerOK, EntryOK
<1>3. own \in Connections /\ conns[own].refs = 1 /\ NoConn \notin Connections
      /\ entry.conn # own /\ conns[own].peer = callers[c].pid
  <2>1. own \in Connections /\ (entry.conn = own => conns[entry.conn].refs > 1)
    BY <1>1, HeldCounted DEF IInv
  <2>2. conns[own].refs = 1 /\ conns[own].peer = callers[c].pid
    BY <1>1 DEF IInv, Unshared, Peers
  <2>. QED  BY <2>1, <2>2, ConstantsTyped
<1>4. entry.conn # NoConn =>
        /\ entry.conn \in Connections /\ conns[entry.conn].refs > 0
        /\ conns[entry.conn].peer = entry.pid /\ entry # NoEntry
  BY HeldCounted DEF IInv, Peers, NoEntry
<1>5. \A j \in Connections : conns[j].refs \in Nat
  BY <1>2 DEF TableOK
<1>6. CASE conns' = Unref(conns, own) /\ Return(c) /\ UNCHANGED entry
  BY <1>1, <1>6, UnrefKeeps
<1>7. CASE /\ entry = NoEntry \/ entry.pid = callers[c].pid
           /\ LET cached == IF entry.conn = NoConn THEN own ELSE entry.conn
                  table == Ref(conns, cached)
              IN /\ entry' = [pid |-> callers[c].pid, conn |-> cached]
                 /\ conns' = IF cached = own THEN table ELSE Unref(table, own)
                 /\ callers' = [callers EXCEPT ![c].pc = "call", ![c].conn = cached]
  <2>. DEFINE cached == IF entry.conn = NoConn THEN own ELSE entry.conn
              table == Ref(conns, cached)
              t == [callers[c] EXCEPT !.pc = "call", !.conn = cached]
  <2>1. /\ entry' = [pid |-> callers[c].pid, conn |-> cached]
        /\ conns' = IF cached = own THEN table ELSE Unref(table, own)
        /\ callers' = [callers EXCEPT ![c] = t]
    BY <1>7
  <2>2. /\ cached \in Connections /\ cached # NoConn
        /\ conns[cached].peer = callers[c].pid
        /\ cached = own <=> entry.conn = NoConn
        /\ entry.conn # NoConn => cached = entry.conn
    BY <1>3, <1>4, <1>7
  <2>. HIDE DEF cached
  <2>3. t.pc = "call" /\ t.conn = cached /\ t.pid = callers[c].pid /\ CallerOK(t)
    <3>1. t.pc = "call" /\ t.conn = cached /\ t.pid = callers[c].pid
          /\ t \in [pc: CallerStages, pid: {t.pid}, conn: MaybeConn]
      BY <1>1, <2>2 DEF CallerOK, CallerStages, MaybeConn
    <3>. HIDE DEF t
    <3>. QED  BY <2>2, <3>1 DEF CallerOK, Holding
  <2>. HIDE DEF t
  <2>4. entry'.conn = cached /\ entry'.pid = callers[c].pid /\ EntryOK(entry')
    BY <2>1, <2>2 DEF EntryOK, MaybeConn
  <2>5. /\ TableOK(table)
        /\ \A j \in Connections : /\ table[j].refs = conns[j].refs + One(j = cached)
                                  /\ table[j].peer = conns[j].peer
    BY <1>2, <2>2, RefEffect
  <2>. HIDE DEF table
  <2>6. CASE cached = own
    <3>1. conns' = table
      BY <2>1, <2>6
    <3>2. \A j \in Connections : conns'[j].refs
               = conns[j].refs + One(entry'.conn = j) - One(entry.conn = j)
                   + One(t.conn = j) - One(own = j)
      BY <1>3, <1>5, <2>2, <2>3, <2>4, <2>5, <2>6, <3>1 DEF One
    <3>3. conns'[cached].peer = callers[c].pid
      BY <2>2, <2>5, <3>1
    <3>4. /\ t.pc \in {"insert", "call"} => conns'[t.conn].peer = t.pid
          /\ t.pc = "insert" => conns'[t.conn].refs = 1
          /\ t.conn \in {NoConn, entry.conn, own}
          /\ entry'.conn \in {NoConn, entry.conn, own}
          /\ entry'.conn # NoConn => conns'[entry'.conn].peer = entry'.pid
      BY <2>3, <2>4, <2>6, <3>3
    <3>5. TableOK(conns')
          /\ \A j \in Connections : conns'[j].peer = conns[j].peer
      BY <2>5, <3>1
    <3>. QED  BY <2>1, <2>3, <2>4, <3>2, <3>4, <3>5, StepKeeps
  <2>7. CASE cached # own
    <3>1. conns' = Unref(table, own)
      BY <2>1, <2>7
    <3>2. table[own].refs > 0 /\ table[own].refs \in Nat
      BY <1>3, <2>5, <2>7 DEF One
    <3>3. /\ TableOK(conns')
          /\ \A j \in Connections :
               /\ conns'[j].refs = table[j].refs - One(j = own)
               /\ conns'[j].refs # 0 => conns'[j].peer = table[j].peer
      BY <1>2, <2>5, <3>1, <3>2, UnrefEffect
    <3>4. \A j \in Connections : conns'[j].refs
               = conns[j].refs + One(entry'.conn = j) - One(entry.conn = j)
                   + One(t.conn = j) - One(own = j)
      BY <1>3, <1>5, <2>2, <2>3, <2>4, <2>5, <2>7, <3>3 DEF One
    <3>5. conns'[cached].refs # 0
      BY <1>4, <1>5, <2>2, <2>5, <2>7, <3>3 DEF One
    <3>6. conns'[cached].peer = callers[c].pid
      BY <2>2, <2>5, <3>3, <3>5
    <3>7. \A j \in Connections : conns'[j].refs # 0 => conns'[j].peer = conns[j].peer
      BY <2>5, <3>3
    <3>8. cached = entry.conn
      BY <2>2, <2>7
    <3>9. /\ t.pc \in {"insert", "call"} => conns'[t.conn].peer = t.pid
          /\ t.pc = "insert" => conns'[t.conn].refs = 1
          /\ t.conn \in {NoConn, entry.conn, own}
          /\ entry'.conn \in {NoConn, entry.conn, own}
          /\ entry'.conn # NoConn => conns'[entry'.conn].peer = entry'.pid
      BY <2>3, <2>4, <3>6, <3>8
    <3>. QED  BY <2>1, <2>3, <2>4, <3>3, <3>4, <3>7, <3>9, StepKeeps, ZenonT(40)
  <2>. QED  BY <2>6, <2>7
<1>. QED  BY <1>6, <1>7 DEF Insert

-----------------------------------------------------------------------------
(* The specification *)

LEMMA FreshTable ==
    ASSUME NEW table, table = [k \in Connections |-> Unused]
    PROVE  TableOK(table) /\ \A k \in Connections : table[k].refs = 0
BY DEF TableOK, Unused

LEMMA EmptyInductive ==
    ASSUME entry = NoEntry, conns = [k \in Connections |-> Unused],
           callers = [c \in Callers |-> Idle]
    PROVE  IInv
<1>1. \A c \in Callers : callers[c] = Idle
  OBVIOUS
<1>2. Shaped
  <2>1. TableOK(conns)
    BY FreshTable
  <2>2. EntryOK(entry)
    BY DEF EntryOK, NoEntry, MaybeConn
  <2>. QED  BY <1>1, <2>1, <2>2, IdleForm DEF Shaped
<1>3. ConnectionsCounted
  <2>1. ASSUME NEW k \in Connections
        PROVE  conns[k].refs = Holders(k)
    <3>1. k # NoConn /\ entry.conn = NoConn
      BY ConstantsTyped DEF NoEntry
    <3>2. Users(k) = {}
      BY <1>1, <3>1, IdleForm DEF Users
    <3>3. conns[k].refs = 0
      BY FreshTable
    <3>. QED  BY <3>1, <3>2, <3>3, FS_EmptySet, HoldersIs DEF One
  <2>. QED  BY <2>1 DEF ConnectionsCounted
<1>4. Peers /\ Unshared
  BY <1>1, IdleForm DEF Peers, Unshared, NoEntry
<1>. QED  BY <1>2, <1>3, <1>4 DEF IInv

LEMMA InitInductive == Init => IInv
BY EmptyInductive DEF Init, ProviderInit

LEMMA StepInductive == IInv /\ [Next]_vars => IInv'
<1>. SUFFICES ASSUME IInv, [Next]_vars
              PROVE  IInv'
  OBVIOUS
<1>1. CASE UNCHANGED providerVars
  BY <1>1 DEF providerVars, IInv, Shaped, ConnectionsCounted, Holders, Peers, Unshared
<1>2. CASE CacheIsLost
  <2>1. /\ entry' = NoEntry /\ conns' = [k \in Connections |-> Unused]
        /\ callers' = [c \in Callers |-> Idle]
    BY <1>2 DEF CacheIsLost
  <2>2. (/\ entry = NoEntry /\ conns = [k \in Connections |-> Unused]
         /\ callers = [c \in Callers |-> Idle])'
    BY <2>1
  <2>. QED  BY <2>2, EmptyInductive, PTL
<1>3. ASSUME NEW c \in Callers, CallerStep(c)
      PROVE  IInv'
  BY <1>3, BeginKeeps, LookupKeeps, ValidateKeeps, OpenKeeps, OpenFailsKeeps,
     InsertKeeps, EndKeeps DEF CallerStep
<1>4. UNCHANGED vars => UNCHANGED providerVars
  BY DEF vars
<1>. QED  BY <1>1, <1>2, <1>3, <1>4 DEF Next

\* However threads share, open, invalidate and finish, and whatever the shell,
\* the daemon and the authority do meanwhile, the shape of the cache, its count
\* of references and the far ends of its connections stay as the code means
\* them to be (provider_connection_get, provider_connection_invalidate).
THEOREM InductiveCorrect == Spec => []IInv
BY InitInductive, StepInductive, PTL DEF Spec

\* For any number of threads each connection has one reference for everyone
\* who uses it: none is freed under a call, none outlives its last user
\* (g_object_ref and g_object_unref in src/src/provider.c).
THEOREM CountedCorrect == Spec => []ConnectionsCounted
<1>1. IInv => ConnectionsCounted
  BY DEF IInv
<1>. QED  BY <1>1, InductiveCorrect, PTL

\* For any number of threads, no operation admitted for one shell process is
\* sent to another (the checks of provider_connection_get).
THEOREM AdmittedShellCorrect == Spec => []CallsReachAdmittedShell
<1>1. IInv => CallsReachAdmittedShell
  BY DEF IInv, Peers, CallsReachAdmittedShell
<1>. QED  BY <1>1, InductiveCorrect, PTL
=============================================================================
