--------------------------- MODULE LeaseAuthProofs ---------------------------
(***************************************************************************)
(* Proofs about LeaseAuth, for every set of leases, RPC connections, keys, *)
(* users and scopes and every bound on the generations: its invariants,    *)
(* that it implements GrantGuard step by step, and that it counts the      *)
(* references to its leases exactly.                                       *)
(***************************************************************************)
EXTENDS LeaseAuth, FiniteSetTheorems, TLAPS

\* The results of session_refresh.
Outcome == [ok: BOOLEAN, granted: SUBSET Scopes, generation: Nat]

\* Every lease has a key, and the key a user.
LEMMA UidType ==
    ASSUME NEW l \in Leases
    PROVE  KeyOf[l] \in Keys /\ Uid(l) \in Uids
BY ConstantsOK DEF Uid

\* The records of closed connections and freed leases are well-typed.
LEMMA EmptyRecords ==
    NoLeaseRecord \in LeaseRecord /\ NoConn \in ConnRecord /\ NoRpc \in RpcRecord
BY DEF NoLeaseRecord, LeaseRecord, NoConn, ConnRecord, ConnStages, Statuses,
       NoRpc, RpcRecord, RpcStages, Verdicts

\* The four kinds of outcome of session_refresh, one disjunct each.
LEMMA OutcomeCases ==
    ASSUME NEW l \in Leases, NEW force, NEW o \in RefreshOutcomes(l, force)
    PROVE  LET L == lease[l]
               now == generation[Uid(l)]
           IN  \/ o = [ok |-> FALSE, granted |-> {}, generation |-> L.generation]
               \/ o = [ok |-> FALSE, granted |-> {}, generation |-> now]
               \/ /\ ~(now # L.generation /\ L.requested # {})
                  /\ o = [ok |-> TRUE, granted |-> L.granted, generation |-> now]
               \/ o = [ok |-> TRUE, granted |-> grants[KeyOf[l]] \cap L.requested,
                       generation |-> now]
BY DEF RefreshOutcomes

\* An outcome of session_refresh is well-typed.
LEMMA OutcomeType ==
    ASSUME TypeOK, NEW l \in Leases, NEW force,
           NEW o \in RefreshOutcomes(l, force)
    PROVE  o \in Outcome
<1>1. lease[l].granted \subseteq Scopes /\ lease[l].generation \in Nat
  BY DEF TypeOK, LeaseRecord
<1>2. generation[Uid(l)] \in Nat /\ grants[KeyOf[l]] \subseteq Scopes
  BY UidType DEF TypeOK
<1>3. CASE o = [ok |-> FALSE, granted |-> {}, generation |-> lease[l].generation]
  BY <1>1, <1>3 DEF Outcome
<1>4. CASE o = [ok |-> FALSE, granted |-> {}, generation |-> generation[Uid(l)]]
  BY <1>2, <1>4 DEF Outcome
<1>5. CASE o = [ok |-> TRUE, granted |-> lease[l].granted,
                generation |-> generation[Uid(l)]]
  BY <1>1, <1>2, <1>5 DEF Outcome
<1>6. CASE o = [ok |-> TRUE, granted |-> grants[KeyOf[l]] \cap lease[l].requested,
                generation |-> generation[Uid(l)]]
  BY <1>1, <1>2, <1>6 DEF Outcome
<1>. QED
  BY <1>3, <1>4, <1>5, <1>6, OutcomeCases

\* The lease a refresh leaves behind is well-typed.
LEMMA RefreshedType ==
    ASSUME TypeOK, NEW l \in Leases, NEW o \in Outcome,
           NEW notify \in BOOLEAN, NEW sent \in BOOLEAN
    PROVE  Refreshed(l, o, notify, sent) \in LeaseRecord
<1>1. lease[l] \in LeaseRecord
  BY DEF TypeOK
<1>. QED
  BY <1>1 DEF Refreshed, Outcome, LeaseRecord, Announces

\* lease_release leaves a well-typed lease.
LEMMA ReleasedType ==
    ASSUME NEW L \in LeaseRecord
    PROVE  Released(L) \in LeaseRecord
BY EmptyRecords DEF Released, LeaseRecord

\* The parts of TypeOK for the store and for the connections.
StoreType ==
    /\ grants \in [Keys -> SUBSET Scopes]
    /\ generation \in [Uids -> Nat]
    /\ withdrawn \in [Leases -> SUBSET Scopes]
    /\ interrupted \in [Rpcs -> BOOLEAN]

\* A failed lease_emit leaves a well-typed lease.
LEMMA DeactivatedType ==
    ASSUME NEW L \in LeaseRecord
    PROVE  Deactivated(L) \in LeaseRecord
BY DEF Deactivated, LeaseRecord

\* A revocation keeps the store well-typed.
LEMMA StoreRevokeType ==
    ASSUME TypeOK, NEW uid \in Uids, NEW targets, NEW scopes \in SUBSET Scopes,
           StoreRevoke(uid, targets, scopes)
    PROVE  StoreType'
<1>1. grants' \in [Keys -> SUBSET Scopes]
  BY DEF TypeOK, StoreRevoke
<1>2. generation' \in [Uids -> Nat]
  BY DEF TypeOK, StoreRevoke
<1>3. withdrawn' \in [Leases -> SUBSET Scopes]
  BY DEF TypeOK, StoreRevoke
<1>4. interrupted' \in [Rpcs -> BOOLEAN]
  BY DEF TypeOK, StoreRevoke, Interrupt
<1>. QED
  BY <1>1, <1>2, <1>3, <1>4 DEF StoreType

\* A grant keeps the store well-typed.
LEMMA StoreGrantType ==
    ASSUME TypeOK, NEW key \in Keys, NEW scopes \in SUBSET Scopes,
           StoreGrant(key, scopes)
    PROVE  StoreType'
<1>1. UidOf[key] \in Uids
  BY ConstantsOK
<1>2. grants' \in [Keys -> SUBSET Scopes] /\ withdrawn' \in [Leases -> SUBSET Scopes]
  BY DEF TypeOK, StoreGrant
<1>3. CASE UNCHANGED <<generation, interrupted>>
  BY <1>2, <1>3 DEF TypeOK, StoreType
<1>4. CASE /\ generation' = [generation EXCEPT ![UidOf[key]] = @ + 1]
           /\ Interrupt(UidOf[key])
  <2>1. generation' \in [Uids -> Nat]
    BY <1>1, <1>4 DEF TypeOK
  <2>2. interrupted' \in [Rpcs -> BOOLEAN]
    BY <1>4 DEF TypeOK, Interrupt
  <2>. QED
    BY <1>2, <2>1, <2>2 DEF StoreType
<1>. QED
  BY <1>3, <1>4 DEF StoreGrant

\* A store that does not change stays well-typed.
LEMMA StoreSameType ==
    ASSUME TypeOK, UNCHANGED storeVars
    PROVE  StoreType'
BY DEF TypeOK, StoreType, storeVars

\* A refresh by the lease's own thread or by a source.
LEMMA LeaseRefreshType ==
    ASSUME TypeOK, NEW l \in Leases, NEW force, NEW sent \in BOOLEAN,
           NEW notify \in BOOLEAN, NEW o \in RefreshOutcomes(l, force),
           lease' = [lease EXCEPT ![l] = Refreshed(l, o, notify, sent)],
           Told(l, o, notify, sent)
    PROVE  /\ lease' \in [Leases -> LeaseRecord]
           /\ told' \in [Leases -> SUBSET Scopes]
<1>1. o \in Outcome
  BY OutcomeType
<1>2. Refreshed(l, o, notify, sent) \in LeaseRecord
  BY <1>1, RefreshedType
<1>3. o.granted \in SUBSET Scopes
  BY <1>1 DEF Outcome
<1>. QED
  BY <1>2, <1>3 DEF TypeOK, Told

\* A refresh by an RPC thread, which may end its connection.
LEMMA RpcRefreshType ==
    ASSUME TypeOK, NEW r \in Rpcs, rpc[r].lease \in Leases, NEW force,
           NEW sent \in BOOLEAN, NEW notify \in BOOLEAN,
           NEW o \in RefreshOutcomes(rpc[r].lease, force), NEW next \in RpcRecord,
           next.pc # "closed", next.lease \in Leases,
           RpcRefresh(r, o, notify, sent, next)
    PROVE  /\ lease' \in [Leases -> LeaseRecord]
           /\ told' \in [Leases -> SUBSET Scopes]
           /\ rpc' \in [Rpcs -> RpcRecord]
           /\ \A q \in Rpcs : (rpc'[q].pc = "closed") = (rpc'[q].lease = NoLease)
<1>. DEFINE l == rpc[r].lease
            L == Refreshed(l, o, notify, sent)
<1>1. o \in Outcome
  BY OutcomeType
<1>2. L \in LeaseRecord /\ Released(L) \in LeaseRecord
  BY <1>1, RefreshedType, ReleasedType
<1>3. o.granted \in SUBSET Scopes
  BY <1>1 DEF Outcome
<1>4. lease' \in [Leases -> LeaseRecord]
  BY <1>2 DEF TypeOK, RpcRefresh
<1>5. told' \in [Leases -> SUBSET Scopes]
  BY <1>3 DEF TypeOK, RpcRefresh, Told
<1>6. rpc' \in [Rpcs -> RpcRecord]
  BY EmptyRecords DEF TypeOK, RpcRefresh
<1>7. ASSUME NEW q \in Rpcs
      PROVE  (rpc'[q].pc = "closed") = (rpc'[q].lease = NoLease)
  <2>1. rpc'[q] = rpc[q] \/ rpc'[q] = next \/ rpc'[q] = NoRpc
    BY DEF TypeOK, RpcRefresh
  <2>. QED
    BY <2>1, ConstantsOK DEF TypeOK, NoRpc
<1>. QED
  BY <1>4, <1>5, <1>6, <1>7

\* Reading the store keeps a session well-typed.
LEMMA ReadType ==
    ASSUME TypeOK, NEW l \in Leases, NEW session \in ConnRecord
    PROVE  Reread(l, session) \in ConnRecord
<1>1. generation[Uid(l)] \in Nat /\ grants[KeyOf[l]] \subseteq Scopes
  BY UidType DEF TypeOK
<1>. QED
  BY <1>1 DEF Reread, ConnRecord

\* The end of authorize_scopes keeps the sessions well-typed.
LEMMA FinishType ==
    ASSUME TypeOK, NEW l \in Leases, NEW session \in ConnRecord,
           NEW status \in Statuses, Finish(l, session, status)
    PROVE  conn' \in [Leases -> ConnRecord]
BY DEF TypeOK, Finish, ConnRecord, ConnStages

\* Every step of a lease thread preserves the types.
LEMMA LeaseStepType ==
    ASSUME TypeOK, NEW l \in Leases, LeaseStep(l)
    PROVE  TypeOK'
<1>0. conn[l] \in ConnRecord /\ lease[l] \in LeaseRecord
  BY DEF TypeOK
<1>1. CASE LeaseHello(l)
  <2>. PICK scopes \in SUBSET Scopes :
         conn' = [conn EXCEPT ![l] =
                    [NoConn EXCEPT !.pc = IF scopes = {} THEN "finish" ELSE "check",
                                   !.status = "OK", !.wanted = scopes]]
    BY <1>1 DEF LeaseHello
  <2>2. [NoConn EXCEPT !.pc = IF scopes = {} THEN "finish" ELSE "check",
                       !.status = "OK", !.wanted = scopes] \in ConnRecord
    BY DEF NoConn, ConnRecord, ConnStages, Statuses
  <2>1. conn' \in [Leases -> ConnRecord]
    BY <2>2 DEF TypeOK
  <2>. QED
    BY <1>1, <2>1 DEF LeaseHello, TypeOK
<1>2. CASE CheckGrants(l)
  <2>. DEFINE asked == [conn[l] EXCEPT !.requested = @ \cup conn[l].wanted]
              read == Reread(l, asked)
  <2>1. asked \in ConnRecord
    BY <1>0 DEF ConnRecord
  <2>2. read \in ConnRecord
    BY <2>1, ReadType
  <2>3. CASE conn' = [conn EXCEPT ![l] = [read EXCEPT !.pc = "lock"]]
    <3>1. conn' \in [Leases -> ConnRecord]
      BY <2>2, <2>3 DEF TypeOK, ConnRecord, ConnStages
    <3>. QED
      BY <1>2, <3>1 DEF CheckGrants, TypeOK, storeVars
  <2>4. CASE \E s \in {"OK", "OTHER"} : Finish(l, asked, s) \/ Finish(l, read, s)
    <3>1. conn' \in [Leases -> ConnRecord]
      BY <2>1, <2>2, <2>4, FinishType DEF Statuses
    <3>. QED
      BY <1>2, <3>1 DEF CheckGrants, TypeOK, storeVars
  <2>. QED
    BY <1>2, <2>3, <2>4 DEF CheckGrants
<1>3. CASE AcquirePromptLock(l)
  <2>. DEFINE read == Reread(l, conn[l])
  <2>2. read \in ConnRecord
    BY <1>0, ReadType
  <2>5. withdrawn' \in [Leases -> SUBSET Scopes]
    BY <1>3 DEF AcquirePromptLock, TypeOK
  <2>3. CASE conn' = [conn EXCEPT ![l] = [read EXCEPT !.pc = "prompt"]]
    <3>1. conn' \in [Leases -> ConnRecord]
      BY <2>2, <2>3 DEF TypeOK, ConnRecord, ConnStages
    <3>. QED
      BY <1>3, <2>5, <3>1 DEF AcquirePromptLock, TypeOK
  <2>4. CASE Finish(l, conn[l], "OTHER") \/ Finish(l, read, "OK")
    <3>1. conn' \in [Leases -> ConnRecord]
      BY <1>0, <2>2, <2>4, FinishType DEF Statuses
    <3>. QED
      BY <1>3, <2>5, <3>1 DEF AcquirePromptLock, TypeOK
  <2>. QED
    BY <1>3, <2>3, <2>4 DEF AcquirePromptLock
<1>4. CASE PromptAnswer(l)
  <2>1. conn' \in [Leases -> ConnRecord]
    <3>1. CASE conn' = [conn EXCEPT ![l].pc = "approved"]
      BY <1>0, <3>1 DEF TypeOK, ConnRecord, ConnStages
    <3>2. CASE Finish(l, conn[l], "OTHER")
      BY <1>0, <3>2, FinishType DEF Statuses
    <3>. QED
      BY <1>4, <3>1, <3>2 DEF PromptAnswer
  <2>. QED
    BY <1>4, <2>1 DEF PromptAnswer, TypeOK, storeVars
<1>5. CASE FencedGrant(l)
  <2>1. conn' \in [Leases -> ConnRecord]
    <3>1. CASE Finish(l, conn[l], "OTHER") \/ Finish(l, conn[l], "REVOKED")
      BY <1>0, <3>1, FinishType DEF Statuses
    <3>2. CASE conn' = [conn EXCEPT ![l].pc = "recheck"]
      BY <1>0, <3>2 DEF TypeOK, ConnRecord, ConnStages
    <3>. QED
      BY <1>5, <3>1, <3>2 DEF FencedGrant
  <2>2. StoreType'
    <3>1. CASE UNCHANGED storeVars
      BY <3>1, StoreSameType
    <3>2. CASE StoreGrant(KeyOf[l], conn[l].wanted \ conn[l].granted)
      <4>1. conn[l].wanted \ conn[l].granted \in SUBSET Scopes
        BY <1>0 DEF ConnRecord
      <4>. QED
        BY <3>2, <4>1, StoreGrantType, UidType
    <3>. QED
      BY <1>5, <3>1, <3>2 DEF FencedGrant
  <2>. QED
    BY <1>5, <2>1, <2>2 DEF FencedGrant, TypeOK, StoreType
<1>6. CASE RecheckGrants(l)
  <2>1. Reread(l, conn[l]) \in ConnRecord
    BY <1>0, ReadType
  <2>2. \E s \in Statuses : Finish(l, conn[l], s) \/ Finish(l, Reread(l, conn[l]), s)
    BY <1>6 DEF RecheckGrants, Statuses
  <2>3. conn' \in [Leases -> ConnRecord]
    BY <1>0, <2>1, <2>2, FinishType
  <2>. QED
    BY <1>6, <2>3 DEF RecheckGrants, TypeOK, storeVars
<1>7. CASE CreateLease(l)
  <2>1. conn' \in [Leases -> ConnRecord]
    <3>1. [NoConn EXCEPT !.pc = "idle"] \in ConnRecord
      BY DEF NoConn, ConnRecord, ConnStages, Statuses
    <3>. QED
      BY <1>7, <3>1, EmptyRecords DEF CreateLease, TypeOK
  <2>2. lease' \in [Leases -> LeaseRecord]
    <3>1. [active |-> TRUE, requested |-> conn[l].requested,
           granted |-> conn[l].granted, generation |-> conn[l].generation,
           domains |-> {}, refs |-> 1] \in LeaseRecord
      BY <1>0 DEF ConnRecord, LeaseRecord
    <3>. QED
      BY <1>7, <3>1 DEF CreateLease, TypeOK
  <2>3. told' \in [Leases -> SUBSET Scopes]
    BY <1>0, <1>7 DEF CreateLease, TypeOK, ConnRecord
  <2>. QED
    BY <1>7, <2>1, <2>2, <2>3 DEF CreateLease, TypeOK, storeVars
<1>8. CASE AuthorizeRequest(l)
  <2>. PICK o \in RefreshOutcomes(l, TRUE), sent \in BOOLEAN, scopes \in SUBSET Scopes :
         /\ lease' = [lease EXCEPT ![l] = Refreshed(l, o, TRUE, sent)]
         /\ Told(l, o, TRUE, sent)
         /\ ConnAfter(l, o, TRUE, sent,
              [conn[l] EXCEPT !.pc = IF scopes = {} THEN "finish" ELSE "check",
                              !.status = "OTHER", !.wanted = scopes,
                              !.requested = lease[l].requested,
                              !.granted = o.granted, !.generation = o.generation])
    BY <1>8 DEF AuthorizeRequest
  <2>1. o \in Outcome
    BY OutcomeType
  <2>2. conn' \in [Leases -> ConnRecord]
    BY <1>0, <2>1 DEF ConnAfter, TypeOK, ConnRecord, ConnStages, Statuses, LeaseRecord, Outcome
  <2>3. lease' \in [Leases -> LeaseRecord] /\ told' \in [Leases -> SUBSET Scopes]
    BY LeaseRefreshType
  <2>. QED
    BY <1>8, <2>2, <2>3 DEF AuthorizeRequest, TypeOK, storeVars
<1>9. CASE CompleteAuthorization(l)
  <2>. PICK current \in BOOLEAN, sent \in BOOLEAN :
         LET L == lease[l]
             requested == L.requested \cup conn[l].requested
             granted == IF current THEN grants[KeyOf[l]] \cap requested ELSE {}
             announced == granted # L.granted
             ok == current /\ (announced => sent)
         IN  /\ lease' = [lease EXCEPT ![l] =
                  [L EXCEPT !.requested = requested,
                            !.granted = IF announced /\ ~sent THEN {} ELSE granted,
                            !.generation = IF current THEN generation[Uid(l)] ELSE @,
                            !.domains = @ \ (L.granted \ granted),
                            !.active = @ /\ ok]]
             /\ told' = [told EXCEPT ![l] =
                           IF announced /\ sent THEN granted
                           ELSE @ \ (conn[l].wanted \ granted)]
             /\ conn' = [conn EXCEPT ![l] =
                  [NoConn EXCEPT !.pc = IF ok THEN "idle" ELSE "closing",
                                 !.source = conn[l].source]]
    BY <1>9, ZenonT(40) DEF CompleteAuthorization
  <2>1. generation[Uid(l)] \in Nat /\ grants[KeyOf[l]] \subseteq Scopes
    BY UidType DEF TypeOK
  <2>2. lease' \in [Leases -> LeaseRecord]
    <3>. DEFINE L == lease[l]
                requested == L.requested \cup conn[l].requested
                granted == IF current THEN grants[KeyOf[l]] \cap requested ELSE {}
                announced == granted # L.granted
                ok == current /\ (announced => sent)
                new == [L EXCEPT !.requested = requested,
                            !.granted = IF announced /\ ~sent THEN {} ELSE granted,
                            !.generation = IF current THEN generation[Uid(l)] ELSE @,
                            !.domains = @ \ (L.granted \ granted),
                            !.active = @ /\ ok]
    <3>1. requested \in SUBSET Scopes /\ granted \in SUBSET Scopes
      BY <1>0, <2>1 DEF LeaseRecord, ConnRecord
    <3>2. ok \in BOOLEAN
      OBVIOUS
    <3>. HIDE DEF requested, granted, announced, ok
    <3>3. new \in LeaseRecord
      BY <1>0, <2>1, <3>1, <3>2 DEF LeaseRecord
    <3>4. lease' = [lease EXCEPT ![l] = new]
      BY DEF requested, granted, announced, ok
    <3>. QED
      BY <3>3, <3>4 DEF TypeOK
  <2>3. told' \in [Leases -> SUBSET Scopes]
    BY <2>1 DEF TypeOK
  <2>4. conn' \in [Leases -> ConnRecord]
    BY <1>0, EmptyRecords DEF TypeOK, ConnRecord, ConnStages
  <2>. QED
    BY <1>9, <2>2, <2>3, <2>4 DEF CompleteAuthorization, TypeOK, storeVars
<1>10. CASE LeasePoll(l)
  <2>. PICK force \in BOOLEAN : \E o \in RefreshOutcomes(l, force), sent \in BOOLEAN :
         /\ lease' = [lease EXCEPT ![l] = Refreshed(l, o, TRUE, sent)]
         /\ Told(l, o, TRUE, sent)
         /\ ConnAfter(l, o, TRUE, sent, conn[l])
    BY <1>10 DEF LeasePoll
  <2>. PICK o \in RefreshOutcomes(l, force), sent \in BOOLEAN :
         /\ lease' = [lease EXCEPT ![l] = Refreshed(l, o, TRUE, sent)]
         /\ Told(l, o, TRUE, sent)
         /\ ConnAfter(l, o, TRUE, sent, conn[l])
    OBVIOUS
  <2>1. conn' \in [Leases -> ConnRecord]
    BY <1>0 DEF ConnAfter, TypeOK, ConnRecord, ConnStages
  <2>2. lease' \in [Leases -> LeaseRecord] /\ told' \in [Leases -> SUBSET Scopes]
    BY LeaseRefreshType
  <2>. QED
    BY <1>10, <2>1, <2>2 DEF LeasePoll, TypeOK, storeVars
<1>11. CASE SubscribeRequest(l)
  <2>. PICK o \in RefreshOutcomes(l, TRUE), sent \in BOOLEAN, domains \in SUBSET Monitored :
         /\ lease' = [lease EXCEPT ![l] = Refreshed(l, o, TRUE, sent)]
         /\ Told(l, o, TRUE, sent)
         /\ ConnAfter(l, o, TRUE, sent,
              IF domains \subseteq o.granted
              THEN [conn[l] EXCEPT !.pc = "subscribe", !.wanted = domains]
              ELSE conn[l])
    BY <1>11 DEF SubscribeRequest
  <2>1. conn' \in [Leases -> ConnRecord]
    BY <1>0, ConstantsOK DEF ConnAfter, TypeOK, ConnRecord, ConnStages
  <2>2. lease' \in [Leases -> LeaseRecord] /\ told' \in [Leases -> SUBSET Scopes]
    BY LeaseRefreshType
  <2>. QED
    BY <1>11, <2>1, <2>2 DEF SubscribeRequest, TypeOK, storeVars
<1>12. CASE SubscribeApply(l)
  <2>1. conn' \in [Leases -> ConnRecord]
    <3>. PICK next \in {"idle", "closing"} :
           conn' = [conn EXCEPT ![l].pc = next, ![l].wanted = {},
                                ![l].source = conn[l].wanted # {}]
      BY <1>12 DEF SubscribeApply
    <3>1. (conn[l].wanted # {}) \in BOOLEAN
      OBVIOUS
    <3>. QED
      BY <1>0, <3>1 DEF TypeOK, ConnRecord, ConnStages
  <2>2. conn[l].wanted \subseteq Scopes
    BY <1>0 DEF ConnRecord
  <2>3. lease' \in [Leases -> LeaseRecord]
    <3>1. \A L \in LeaseRecord : [L EXCEPT !.domains = conn[l].wanted] \in LeaseRecord
      BY <2>2 DEF LeaseRecord
    <3>2. Deactivated(lease[l]) \in LeaseRecord
      BY <1>0, DeactivatedType
    <3>. QED
      BY <1>0, <1>12, <3>1, <3>2 DEF SubscribeApply, TypeOK
  <2>4. told' \in [Leases -> SUBSET Scopes]
    BY <1>0, <1>12 DEF SubscribeApply, TypeOK, LeaseRecord
  <2>. QED
    BY <1>12, <2>1, <2>3, <2>4 DEF SubscribeApply, TypeOK, storeVars
<1>13. CASE SourceRefresh(l)
  <2>. PICK force \in BOOLEAN : \E o \in RefreshOutcomes(l, force), sent \in BOOLEAN :
         /\ lease' = [lease EXCEPT ![l] = Refreshed(l, o, TRUE, sent)]
         /\ Told(l, o, TRUE, sent)
         /\ conn' = [conn EXCEPT ![l].source = Succeeds(l, o, TRUE, sent)]
    BY <1>13 DEF SourceRefresh
  <2>. PICK o \in RefreshOutcomes(l, force), sent \in BOOLEAN :
         /\ lease' = [lease EXCEPT ![l] = Refreshed(l, o, TRUE, sent)]
         /\ Told(l, o, TRUE, sent)
         /\ conn' = [conn EXCEPT ![l].source = Succeeds(l, o, TRUE, sent)]
    OBVIOUS
  <2>0. Succeeds(l, o, TRUE, sent) \in BOOLEAN
    BY OutcomeType DEF Succeeds, Outcome
  <2>1. conn' \in [Leases -> ConnRecord]
    BY <1>0, <2>0 DEF TypeOK, ConnRecord
  <2>2. lease' \in [Leases -> LeaseRecord] /\ told' \in [Leases -> SUBSET Scopes]
    BY LeaseRefreshType
  <2>. QED
    BY <1>13, <2>1, <2>2 DEF SourceRefresh, TypeOK, storeVars
<1>14. CASE LeaseDisconnect(l)
  <2>1. conn' \in [Leases -> ConnRecord]
    BY <1>0, <1>14 DEF LeaseDisconnect, TypeOK, ConnRecord, ConnStages
  <2>. QED
    BY <1>14, <2>1 DEF LeaseDisconnect, TypeOK, storeVars
<1>15. CASE EndLease(l)
  <2>1. Deactivated(lease[l]) \in LeaseRecord
    BY <1>0, DeactivatedType
  <2>2. lease' \in [Leases -> LeaseRecord]
    BY <1>15, <2>1, ReleasedType DEF EndLease, TypeOK
  <2>3. conn' \in [Leases -> ConnRecord]
    BY <1>15, EmptyRecords DEF EndLease, TypeOK
  <2>. QED
    BY <1>15, <2>2, <2>3 DEF EndLease, TypeOK, storeVars
<1>16. CASE EventFails(l)
  <2>1. lease' \in [Leases -> LeaseRecord]
    BY <1>0, <1>16, DeactivatedType DEF EventFails, TypeOK
  <2>2. conn' \in [Leases -> ConnRecord]
    BY <1>0, <1>16 DEF EventFails, TypeOK, ConnRecord, ConnStages
  <2>. QED
    BY <1>16, <2>1, <2>2 DEF EventFails, TypeOK, storeVars
<1>. QED
  BY <1>1, <1>2, <1>3, <1>4, <1>5, <1>6, <1>7, <1>8, <1>9, <1>10, <1>11,
     <1>12, <1>13, <1>14, <1>15, <1>16 DEF LeaseStep

\* Every step of an RPC thread preserves the types.
LEMMA RpcStepType ==
    ASSUME TypeOK, NEW r \in Rpcs, RpcStep(r)
    PROVE  TypeOK'
<1>. DEFINE Linked == \A q \in Rpcs : (rpc'[q].pc = "closed") = (rpc'[q].lease = NoLease)
<1>0. rpc[r] \in RpcRecord
  BY DEF TypeOK
<1>1. ASSUME NEW l \in Leases, RpcBind(r, l)
      PROVE  TypeOK'
  <2>1. lease[l] \in LeaseRecord
    BY DEF TypeOK
  <2>0. [lease[l] EXCEPT !.refs = @ + 1] \in LeaseRecord
    BY <2>1 DEF LeaseRecord
  <2>2. lease' \in [Leases -> LeaseRecord]
    BY <1>1, <2>0 DEF RpcBind, TypeOK
  <2>3. rpc' \in [Rpcs -> RpcRecord]
    BY <1>0, <1>1 DEF RpcBind, TypeOK, RpcRecord, RpcStages
  <2>4. Linked
    BY <1>0, <1>1, ConstantsOK DEF RpcBind, TypeOK, RpcRecord
  <2>. QED
    BY <1>1, <2>2, <2>3, <2>4 DEF RpcBind, TypeOK, storeVars
<1>2. rpc[r].pc # "closed" => rpc[r].lease \in Leases
  BY <1>0 DEF TypeOK, RpcRecord
<1>3. CASE RpcHello(r)
  <2>. DEFINE next == [rpc[r] EXCEPT !.pc = "idle"]
  <2>1. next \in RpcRecord /\ next.pc # "closed" /\ next.lease \in Leases
    BY <1>0, <1>2, <1>3 DEF RpcHello, RpcRecord, RpcStages
  <2>. HIDE DEF next
  <2>. PICK o \in RefreshOutcomes(rpc[r].lease, TRUE) :
         RpcRefresh(r, o, FALSE, TRUE, next)
    BY <1>3 DEF RpcHello, next
  <2>2. /\ lease' \in [Leases -> LeaseRecord]
        /\ told' \in [Leases -> SUBSET Scopes]
        /\ rpc' \in [Rpcs -> RpcRecord]
        /\ Linked
    BY <1>2, <1>3, <2>1, RpcRefreshType DEF RpcHello
  <2>. QED
    BY <1>3, <2>2 DEF RpcHello, TypeOK, storeVars
<1>4. CASE RpcPoll(r)
  <2>. PICK force \in BOOLEAN :
         \E o \in RefreshOutcomes(rpc[r].lease, force), sent \in BOOLEAN :
           RpcRefresh(r, o, TRUE, sent, rpc[r])
    BY <1>4 DEF RpcPoll
  <2>. PICK o \in RefreshOutcomes(rpc[r].lease, force), sent \in BOOLEAN :
         RpcRefresh(r, o, TRUE, sent, rpc[r])
    OBVIOUS
  <2>1. rpc[r].pc # "closed" /\ rpc[r].lease \in Leases
    BY <1>2, <1>4 DEF RpcPoll
  <2>2. /\ lease' \in [Leases -> LeaseRecord]
        /\ told' \in [Leases -> SUBSET Scopes]
        /\ rpc' \in [Rpcs -> RpcRecord]
        /\ Linked
    BY <1>0, <2>1, RpcRefreshType
  <2>. QED
    BY <1>4, <2>2 DEF RpcPoll, TypeOK, storeVars
<1>5. CASE ExecuteBegin(r)
  <2>. PICK o \in RefreshOutcomes(rpc[r].lease, TRUE), sent \in BOOLEAN,
            scope \in Scopes \cup {NoScope} :
         \/ RpcRefresh(r, o, TRUE, sent, rpc[r])
         \/ RpcRefresh(r, o, TRUE, sent,
              [rpc[r] EXCEPT !.pc = "running", !.scope = scope,
                             !.before = o.generation])
    BY <1>5 DEF ExecuteBegin
  <2>1. rpc[r].pc # "closed" /\ rpc[r].lease \in Leases
    BY <1>2, <1>5 DEF ExecuteBegin
  <2>. DEFINE next == [rpc[r] EXCEPT !.pc = "running", !.scope = scope,
                                     !.before = o.generation]
  <2>9. o \in Outcome
    BY <2>1, OutcomeType
  <2>2. o.generation \in Nat
    BY <2>9 DEF Outcome
  <2>3. next \in RpcRecord /\ next.pc # "closed" /\ next.lease \in Leases
    BY <1>0, <2>1, <2>2 DEF RpcRecord, RpcStages
  <2>. HIDE DEF next
  <2>4. \E n \in RpcRecord : /\ n.pc # "closed" /\ n.lease \in Leases
                             /\ RpcRefresh(r, o, TRUE, sent, n)
    BY <1>0, <2>1, <2>3 DEF next
  <2>5. /\ lease' \in [Leases -> LeaseRecord]
        /\ told' \in [Leases -> SUBSET Scopes]
        /\ rpc' \in [Rpcs -> RpcRecord]
        /\ Linked
    BY <2>1, <2>4, RpcRefreshType
  <2>. QED
    BY <1>5, <2>5 DEF ExecuteBegin, TypeOK, storeVars
<1>6. CASE CaptureCheck(r)
  <2>1. rpc[r].lease \in Leases
    BY <1>2, <1>6 DEF CaptureCheck
  <2>2. lease' \in [Leases -> LeaseRecord] /\ told' \in [Leases -> SUBSET Scopes]
    BY <1>6, <2>1, LeaseRefreshType DEF CaptureCheck
  <2>. QED
    BY <1>6, <2>2 DEF CaptureCheck, TypeOK, storeVars
<1>7. CASE ExecuteCheck(r)
  <2>1. rpc[r].lease \in Leases
    BY <1>2, <1>7 DEF ExecuteCheck
  <2>2. lease' \in [Leases -> LeaseRecord] /\ told' \in [Leases -> SUBSET Scopes]
    BY <1>7, <2>1, LeaseRefreshType DEF ExecuteCheck
  <2>3. PICK v \in Verdicts, pc \in {"respond", "syncing"} :
          rpc' = [rpc EXCEPT ![r].pc = pc, ![r].verdict = v]
    <3>1. CASE \E v \in {"withheld", "result"} :
                 rpc' = [rpc EXCEPT ![r].pc = "respond", ![r].verdict = v]
      BY <3>1 DEF Verdicts
    <3>2. CASE rpc' = [rpc EXCEPT ![r].pc = "syncing"]
      <4>1. rpc' = [rpc EXCEPT ![r].pc = "syncing", ![r].verdict = rpc[r].verdict]
        BY <3>2, <1>0 DEF TypeOK, RpcRecord
      <4>. QED
        BY <4>1, <1>0 DEF RpcRecord
    <3>. QED
      BY <1>7, <3>1, <3>2 DEF ExecuteCheck
  <2>4. rpc' \in [Rpcs -> RpcRecord]
    <3>1. [rpc[r] EXCEPT !.pc = pc, !.verdict = v] \in RpcRecord
      BY <1>0 DEF RpcRecord, RpcStages
    <3>. QED
      BY <2>3, <3>1 DEF TypeOK
  <2>5. Linked
    BY <1>0, <2>1, <2>3, ConstantsOK DEF TypeOK, RpcRecord
  <2>. QED
    BY <1>7, <2>2, <2>4, <2>5 DEF ExecuteCheck, TypeOK, storeVars
<1>8. CASE OperationSync(r) \/ ChildSync(r)
  <2>1. rpc[r].lease \in Leases
    BY <1>2, <1>8 DEF OperationSync, ChildSync
  <2>2. PICK v \in Verdicts : rpc' = [rpc EXCEPT ![r].pc = "respond", ![r].verdict = v]
    BY <1>8 DEF OperationSync, ChildSync, Verdicts
  <2>3. rpc' \in [Rpcs -> RpcRecord]
    <3>1. [rpc[r] EXCEPT !.pc = "respond", !.verdict = v] \in RpcRecord
      BY <1>0 DEF RpcRecord, RpcStages
    <3>. QED
      BY <2>2, <3>1 DEF TypeOK
  <2>4. Linked
    BY <1>0, <2>1, <2>2, ConstantsOK DEF TypeOK, RpcRecord
  <2>. QED
    BY <1>8, <2>3, <2>4 DEF OperationSync, ChildSync, TypeOK, storeVars
<1>9. CASE Respond(r)
  <2>1. rpc[r].lease \in Leases
    BY <1>2, <1>9 DEF Respond
  <2>2. rpc' \in [Rpcs -> RpcRecord]
    BY <1>0, <1>9 DEF Respond, TypeOK, RpcRecord, RpcStages, Verdicts
  <2>3. Linked
    BY <1>0, <1>9, <2>1, ConstantsOK DEF Respond, TypeOK, RpcRecord
  <2>4. interrupted' \in [Rpcs -> BOOLEAN]
    BY <1>9 DEF Respond, TypeOK
  <2>. QED
    BY <1>9, <2>2, <2>3, <2>4 DEF Respond, TypeOK
<1>10. CASE PermissionsRevoke(r)
  <2>1. rpc[r].lease \in Leases
    BY <1>2, <1>10 DEF PermissionsRevoke
  <2>2. \E scopes \in SUBSET Scopes, targets \in SUBSET Keys :
          StoreRevoke(Uid(rpc[r].lease), targets, scopes)
    BY <1>10 DEF PermissionsRevoke, KeysOf
  <2>3. StoreType'
    BY <2>1, <2>2, UidType, StoreRevokeType
  <2>4. rpc' \in [Rpcs -> RpcRecord]
    BY <1>0, <1>10 DEF PermissionsRevoke, TypeOK, RpcRecord, RpcStages
  <2>5. Linked
    BY <1>0, <1>10, <2>1, ConstantsOK DEF PermissionsRevoke, TypeOK, RpcRecord
  <2>. QED
    BY <1>10, <2>3, <2>4, <2>5 DEF PermissionsRevoke, TypeOK, StoreType
<1>11. CASE RevokeAck(r)
  <2>. DEFINE next == [rpc[r] EXCEPT !.pc = "idle"]
  <2>1. /\ rpc[r].lease \in Leases
        /\ next \in RpcRecord /\ next.pc # "closed" /\ next.lease \in Leases
    BY <1>0, <1>2, <1>11 DEF RevokeAck, RpcRecord, RpcStages
  <2>. HIDE DEF next
  <2>. PICK o \in RefreshOutcomes(rpc[r].lease, TRUE), sent \in BOOLEAN :
         RpcRefresh(r, o, TRUE, sent, next)
    BY <1>11 DEF RevokeAck, next
  <2>2. /\ lease' \in [Leases -> LeaseRecord]
        /\ told' \in [Leases -> SUBSET Scopes]
        /\ rpc' \in [Rpcs -> RpcRecord]
        /\ Linked
    BY <2>1, RpcRefreshType
  <2>. QED
    BY <1>11, <2>2 DEF RevokeAck, TypeOK, storeVars
<1>12. CASE RpcClose(r)
  <2>1. rpc[r].lease \in Leases
    BY <1>2, <1>12 DEF RpcClose
  <2>2. Released(lease[rpc[r].lease]) \in LeaseRecord
    BY <2>1, ReleasedType DEF TypeOK
  <2>3. lease' \in [Leases -> LeaseRecord]
    BY <1>12, <2>1, <2>2 DEF RpcClose, TypeOK
  <2>4. rpc' \in [Rpcs -> RpcRecord]
    BY <1>12, EmptyRecords DEF RpcClose, TypeOK
  <2>5. Linked
    BY <1>12 DEF RpcClose, TypeOK, NoRpc
  <2>. QED
    BY <1>12, <2>3, <2>4, <2>5 DEF RpcClose, TypeOK, storeVars
<1>. QED
  BY <1>1, <1>3, <1>4, <1>5, <1>6, <1>7, <1>8, <1>9, <1>10, <1>11, <1>12
     DEF RpcStep

\* Every step preserves the types.
LEMMA NextType ==
    ASSUME TypeOK, [Next]_vars
    PROVE  TypeOK'
<1>1. CASE \E l \in Leases : LeaseStep(l)
  BY <1>1, LeaseStepType
<1>2. CASE \E l \in Leases : IdentityLost(l)
  BY <1>2 DEF IdentityLost, TypeOK
<1>3. CASE \E r \in Rpcs : RpcStep(r)
  BY <1>3, RpcStepType
<1>4. CASE OtherAuthority
  <2>1. CASE \E k \in Keys, s \in Scopes : StoreRevoke(UidOf[k], {k}, {s})
    <3>1. StoreType'
      BY <2>1, StoreRevokeType, ConstantsOK
    <3>. QED
      BY <1>4, <3>1 DEF OtherAuthority, TypeOK, StoreType
  <2>2. CASE \E k \in Keys : \E s \in Scopes \ grants[k] : StoreGrant(k, {s})
    <3>1. StoreType'
      BY <2>2, StoreGrantType
    <3>. QED
      BY <1>4, <3>1 DEF OtherAuthority, TypeOK, StoreType
  <2>. QED
    BY <1>4, <2>1, <2>2 DEF OtherAuthority
<1>5. CASE UNCHANGED vars
  BY <1>5 DEF TypeOK, vars
<1>. QED
  BY <1>1, <1>2, <1>3, <1>4, <1>5 DEF Next

\* Every reachable state is well-typed, and an RPC thread names a lease
\* exactly while its connection is open.
THEOREM TypeCorrect == Spec => []TypeOK
<1>1. Init => TypeOK
  BY EmptyRecords DEF Init, TypeOK, NoRpc
<1>. QED
  BY <1>1, NextType, PTL DEF Spec

-----------------------------------------------------------------------------
(* The store only advances *)

\* A user's generation never decreases, and while it stands still no grant of
\* that user's keys is lost.
Advances ==
    \A l \in Leases :
        /\ generation[Uid(l)] <= generation'[Uid(l)]
        /\ generation'[Uid(l)] = generation[Uid(l)]
             => grants[KeyOf[l]] \subseteq grants'[KeyOf[l]]

\* A step that leaves the store alone advances it trivially.
LEMMA UnchangedAdvances ==
    ASSUME TypeOK, UNCHANGED <<grants, generation>>
    PROVE  Advances
<1>1. \A l \in Leases : generation[Uid(l)] \in Nat
  BY UidType DEF TypeOK
<1>. QED
  BY <1>1 DEF Advances

\* Revoking from keys of one user advances that user's generation.
LEMMA RevokeAdvances ==
    ASSUME TypeOK, NEW uid \in Uids, NEW targets, NEW scopes,
           \A k \in Keys : k \in targets => UidOf[k] = uid,
           StoreRevoke(uid, targets, scopes)
    PROVE  Advances
<1>. SUFFICES ASSUME NEW l \in Leases
              PROVE  /\ generation[Uid(l)] <= generation'[Uid(l)]
                     /\ generation'[Uid(l)] = generation[Uid(l)]
                          => grants[KeyOf[l]] \subseteq grants'[KeyOf[l]]
  BY DEF Advances
<1>1. KeyOf[l] \in Keys /\ Uid(l) \in Uids /\ Uid(l) = UidOf[KeyOf[l]]
  BY UidType DEF Uid
<1>2. generation \in [Uids -> Nat]
  BY DEF TypeOK
<1>3. generation' = [generation EXCEPT ![uid] = @ + 1]
  BY DEF StoreRevoke
<1>4. grants'[KeyOf[l]] = IF KeyOf[l] \in targets THEN grants[KeyOf[l]] \ scopes
                          ELSE grants[KeyOf[l]]
  BY <1>1 DEF StoreRevoke
<1>. QED
  BY <1>1, <1>2, <1>3, <1>4

\* Granting loses nothing, whether or not the generation moves.
LEMMA GrantAdvances ==
    ASSUME TypeOK, NEW key \in Keys, NEW scopes, StoreGrant(key, scopes)
    PROVE  Advances
<1>. SUFFICES ASSUME NEW l \in Leases
              PROVE  /\ generation[Uid(l)] <= generation'[Uid(l)]
                     /\ generation'[Uid(l)] = generation[Uid(l)]
                          => grants[KeyOf[l]] \subseteq grants'[KeyOf[l]]
  BY DEF Advances
<1>1. KeyOf[l] \in Keys /\ Uid(l) \in Uids
  BY UidType
<1>2. generation \in [Uids -> Nat] /\ UidOf[key] \in Uids
  BY ConstantsOK DEF TypeOK
<1>3. \/ generation' = generation
      \/ generation' = [generation EXCEPT ![UidOf[key]] = @ + 1]
  BY DEF StoreGrant
<1>4. grants[KeyOf[l]] \subseteq grants'[KeyOf[l]]
  BY <1>1 DEF StoreGrant, TypeOK
<1>. QED
  BY <1>1, <1>2, <1>3, <1>4

\* No step of the daemon or of its environment takes a user's generation back
\* or removes a grant without moving it.
LEMMA StoreAdvances ==
    ASSUME TypeOK, [Next]_vars
    PROVE  Advances
<1>1. ASSUME NEW l \in Leases, LeaseStep(l)
      PROVE  Advances
  <2>1. CASE FencedGrant(l)
    BY <2>1, UnchangedAdvances, GrantAdvances, UidType DEF FencedGrant, storeVars
  <2>2. CASE ~FencedGrant(l)
    <3>1. UNCHANGED <<grants, generation>>
      BY <1>1, <2>2 DEF LeaseStep, LeaseHello, CheckGrants, AcquirePromptLock,
         PromptAnswer, RecheckGrants, CreateLease, AuthorizeRequest,
         CompleteAuthorization, LeasePoll, SubscribeRequest, SubscribeApply,
         SourceRefresh, EventFails, LeaseDisconnect, EndLease, storeVars
    <3>. QED
      BY <3>1, UnchangedAdvances
  <2>. QED
    BY <2>1, <2>2
<1>2. ASSUME NEW r \in Rpcs, RpcStep(r)
      PROVE  Advances
  <2>1. CASE PermissionsRevoke(r)
    <3>1. rpc[r].lease \in Leases
      BY <2>1 DEF PermissionsRevoke, TypeOK, RpcRecord
    <3>2. PICK scopes, targets :
            /\ StoreRevoke(Uid(rpc[r].lease), targets, scopes)
            /\ targets \subseteq KeysOf(Uid(rpc[r].lease))
      BY <2>1 DEF PermissionsRevoke
    <3>3. \A k \in Keys : k \in targets => UidOf[k] = Uid(rpc[r].lease)
      BY <3>2 DEF KeysOf
    <3>. QED
      BY <3>1, <3>2, <3>3, RevokeAdvances, UidType
  <2>2. CASE ~PermissionsRevoke(r)
    <3>1. UNCHANGED <<grants, generation>>
      BY <1>2, <2>2 DEF RpcStep, RpcBind, RpcHello, RpcPoll, ExecuteBegin,
         CaptureCheck, ExecuteCheck, OperationSync, ChildSync, Respond, RevokeAck,
         RpcClose, storeVars
    <3>. QED
      BY <3>1, UnchangedAdvances
  <2>. QED
    BY <2>1, <2>2
<1>3. CASE OtherAuthority
  <2>1. CASE \E k \in Keys, s \in Scopes : StoreRevoke(UidOf[k], {k}, {s})
    BY <2>1, RevokeAdvances, ConstantsOK
  <2>2. CASE \E k \in Keys : \E s \in Scopes \ grants[k] : StoreGrant(k, {s})
    BY <2>2, GrantAdvances
  <2>. QED
    BY <1>3, <2>1, <2>2 DEF OtherAuthority
<1>4. CASE (\E l \in Leases : IdentityLost(l)) \/ UNCHANGED vars
  BY <1>4, UnchangedAdvances DEF IdentityLost, vars
<1>. QED
  BY <1>1, <1>2, <1>3, <1>4 DEF Next

-----------------------------------------------------------------------------
(* Coherence of the caches *)

\* What a refresh concludes is covered by the store, and a successful one is
\* up to date.
LEMMA OutcomeFacts ==
    ASSUME TypeOK, CacheCoherent, NEW l \in Leases, NEW force,
           NEW o \in RefreshOutcomes(l, force)
    PROVE  /\ o.generation <= generation[Uid(l)]
           /\ o.granted \subseteq lease[l].requested
           /\ o.granted \subseteq grants[KeyOf[l]]
           /\ o.ok => o.generation = generation[Uid(l)]
<1>1. Coherent(lease[l], l)
  BY DEF CacheCoherent
<1>2. lease[l].generation \in Nat /\ generation[Uid(l)] \in Nat
  BY UidType DEF TypeOK, LeaseRecord
<1>3. CASE o = [ok |-> FALSE, granted |-> {}, generation |-> lease[l].generation]
  BY <1>1, <1>2, <1>3 DEF Coherent
<1>4. CASE o = [ok |-> FALSE, granted |-> {}, generation |-> generation[Uid(l)]]
  BY <1>2, <1>4
<1>5. CASE /\ ~(generation[Uid(l)] # lease[l].generation /\ lease[l].requested # {})
           /\ o = [ok |-> TRUE, granted |-> lease[l].granted,
                   generation |-> generation[Uid(l)]]
  BY <1>1, <1>2, <1>5 DEF Coherent
<1>6. CASE o = [ok |-> TRUE, granted |-> grants[KeyOf[l]] \cap lease[l].requested,
                generation |-> generation[Uid(l)]]
  BY <1>2, <1>6
<1>. QED
  BY <1>3, <1>4, <1>5, <1>6, OutcomeCases

\* A refresh leaves the lease coherent, also when it drops a reference.
LEMMA RefreshedCoherent ==
    ASSUME TypeOK, CacheCoherent, NEW l \in Leases, NEW force, NEW notify,
           NEW sent, NEW o \in RefreshOutcomes(l, force)
    PROVE  /\ Coherent(Refreshed(l, o, notify, sent), l)
           /\ Coherent(Released(Refreshed(l, o, notify, sent)), l)
<1>. DEFINE new == Refreshed(l, o, notify, sent)
<1>1. lease[l] \in LeaseRecord
  BY DEF TypeOK
<1>2. /\ new.generation = o.generation
      /\ new.requested = lease[l].requested
      /\ new.granted \subseteq o.granted
  BY <1>1 DEF Refreshed, LeaseRecord
<1>3. Coherent(new, l)
  BY <1>2, OutcomeFacts DEF Coherent
<1>4. \/ Released(new) = NoLeaseRecord
      \/ /\ Released(new).generation = new.generation
         /\ Released(new).requested = new.requested
         /\ Released(new).granted = new.granted
  BY <1>1 DEF Released, Refreshed, LeaseRecord
<1>5. Coherent(NoLeaseRecord, l)
  BY UidType DEF Coherent, NoLeaseRecord, TypeOK
<1>. QED
  BY <1>3, <1>4, <1>5 DEF Coherent

\* How a step may change the lease caches: not at all, or one of them, to a
\* record that is coherent with a store that stands still.
CacheEffect ==
    \/ UNCHANGED lease
    \/ /\ UNCHANGED <<grants, generation>>
       /\ \E l \in Leases, L \in LeaseRecord :
            Coherent(L, l) /\ lease' = [lease EXCEPT ![l] = L]

\* The same for the sessions of the lease connections.
SessionEffect ==
    \/ UNCHANGED conn
    \/ \E l \in Leases : \E session \in ConnRecord :
         /\ conn' = [conn EXCEPT ![l] = session]
         /\ \/ /\ UNCHANGED <<grants, generation>>
               /\ Coherent(session, l)
            \/ /\ session.granted = conn[l].granted
               /\ session.requested = conn[l].requested
               /\ session.generation = conn[l].generation

\* A refresh by a thread that keeps its reference is such a change.
LEMMA RefreshEffect ==
    ASSUME TypeOK, CacheCoherent, NEW l \in Leases, NEW force,
           NEW notify \in BOOLEAN, NEW sent \in BOOLEAN,
           NEW o \in RefreshOutcomes(l, force), UNCHANGED <<grants, generation>>,
           lease' = [lease EXCEPT ![l] = Refreshed(l, o, notify, sent)]
    PROVE  CacheEffect
<1>1. Coherent(Refreshed(l, o, notify, sent), l)
  BY RefreshedCoherent
<1>2. Refreshed(l, o, notify, sent) \in LeaseRecord
  BY OutcomeType, RefreshedType
<1>. QED
  BY <1>1, <1>2 DEF CacheEffect

\* So is a refresh by an RPC thread, which may drop its reference.
LEMMA RpcRefreshEffect ==
    ASSUME TypeOK, CacheCoherent, NEW r \in Rpcs, rpc[r].lease \in Leases,
           NEW force, NEW notify \in BOOLEAN, NEW sent \in BOOLEAN, NEW next,
           NEW o \in RefreshOutcomes(rpc[r].lease, force),
           UNCHANGED <<grants, generation>>,
           RpcRefresh(r, o, notify, sent, next)
    PROVE  CacheEffect
<1>. DEFINE l == rpc[r].lease
            L == Refreshed(l, o, notify, sent)
<1>1. Coherent(L, l) /\ Coherent(Released(L), l)
  BY RefreshedCoherent
<1>2. L \in LeaseRecord /\ Released(L) \in LeaseRecord
  BY OutcomeType, RefreshedType, ReleasedType
<1>3. lease' = [lease EXCEPT ![l] = L] \/ lease' = [lease EXCEPT ![l] = Released(L)]
  BY DEF RpcRefresh
<1>. QED
  BY <1>1, <1>2, <1>3 DEF CacheEffect

\* Dropping a reference keeps a coherent lease coherent.
LEMMA ReleasedCoherent ==
    ASSUME TypeOK, NEW l \in Leases, NEW L \in LeaseRecord, Coherent(L, l)
    PROVE  Coherent(Released(L), l)
<1>1. Coherent(NoLeaseRecord, l)
  BY UidType DEF Coherent, NoLeaseRecord, TypeOK
<1>2. [L EXCEPT !.refs = @ - 1].granted = L.granted
      /\ [L EXCEPT !.refs = @ - 1].requested = L.requested
      /\ [L EXCEPT !.refs = @ - 1].generation = L.generation
  BY DEF LeaseRecord
<1>. QED
  BY <1>1, <1>2 DEF Released, Coherent

\* Deactivating a lease keeps it coherent.
LEMMA DeactivatedCoherent ==
    ASSUME NEW l \in Leases, NEW L \in LeaseRecord, Coherent(L, l)
    PROVE  Coherent(Deactivated(L), l)
BY DEF Deactivated, Coherent, LeaseRecord

\* The lease threads change the caches only so.
LEMMA LeaseCacheEffect ==
    ASSUME TypeOK, CacheCoherent, SessionCoherent, NEW l \in Leases, LeaseStep(l)
    PROVE  CacheEffect
<1>0. conn[l] \in ConnRecord /\ lease[l] \in LeaseRecord
  BY DEF TypeOK
<1>1. CASE LeaseHello(l) \/ CheckGrants(l) \/ AcquirePromptLock(l)
           \/ PromptAnswer(l) \/ FencedGrant(l) \/ RecheckGrants(l)
           \/ LeaseDisconnect(l)
  BY <1>1 DEF LeaseHello, CheckGrants, AcquirePromptLock, PromptAnswer,
              FencedGrant, RecheckGrants, LeaseDisconnect, CacheEffect
<1>2. CASE CreateLease(l)
  <2>. DEFINE L == [active |-> TRUE, requested |-> conn[l].requested,
                    granted |-> conn[l].granted, generation |-> conn[l].generation,
                    domains |-> {}, refs |-> 1]
  <2>1. L \in LeaseRecord
    BY <1>0 DEF ConnRecord, LeaseRecord
  <2>2. Coherent(L, l)
    BY DEF SessionCoherent, Coherent
  <2>3. UNCHANGED lease \/ lease' = [lease EXCEPT ![l] = L]
    BY <1>2 DEF CreateLease
  <2>. QED
    BY <1>2, <2>1, <2>2, <2>3 DEF CreateLease, CacheEffect, storeVars
<1>3. CASE AuthorizeRequest(l)
  BY <1>3, RefreshEffect DEF AuthorizeRequest, storeVars
<1>4. CASE CompleteAuthorization(l)
  <2>1. lease' \in [Leases -> LeaseRecord]
    BY <1>4, LeaseStepType DEF LeaseStep, TypeOK
  <2>2. /\ lease'[l].granted \subseteq grants[KeyOf[l]]
        /\ lease'[l].granted \subseteq lease'[l].requested
        /\ lease'[l].generation \in {lease[l].generation, generation[Uid(l)]}
    BY <1>0, <1>4 DEF CompleteAuthorization, TypeOK, LeaseRecord
  <2>3. Coherent(lease'[l], l)
    BY <2>2, UidType DEF CacheCoherent, Coherent, TypeOK
  <2>4. lease' = [lease EXCEPT ![l] = lease'[l]]
    BY <1>4 DEF CompleteAuthorization, TypeOK
  <2>. QED
    BY <1>4, <2>1, <2>3, <2>4 DEF CompleteAuthorization, CacheEffect, storeVars
<1>5. CASE LeasePoll(l)
  BY <1>5, RefreshEffect DEF LeasePoll, storeVars
<1>6. CASE SubscribeRequest(l)
  BY <1>6, RefreshEffect DEF SubscribeRequest, storeVars
<1>7. CASE SubscribeApply(l)
  <2>. DEFINE L(old) == [old EXCEPT !.domains = conn[l].wanted]
  <2>0. Deactivated(lease[l]) \in LeaseRecord /\ Coherent(Deactivated(lease[l]), l)
    BY <1>0, DeactivatedType, DeactivatedCoherent DEF CacheCoherent
  <2>1. \A old \in LeaseRecord : L(old) \in LeaseRecord
    BY <1>0 DEF LeaseRecord, ConnRecord
  <2>2. \A old \in LeaseRecord : Coherent(old, l) => Coherent(L(old), l)
    BY DEF Coherent, LeaseRecord
  <2>3. \E old \in {lease[l], Deactivated(lease[l])} : lease' = [lease EXCEPT ![l] = L(old)]
    BY <1>7 DEF SubscribeApply
  <2>4. Coherent(lease[l], l)
    BY DEF CacheCoherent
  <2>. HIDE DEF L
  <2>. QED
    BY <1>0, <1>7, <2>0, <2>1, <2>2, <2>3, <2>4 DEF SubscribeApply, CacheEffect, storeVars
<1>8. CASE SourceRefresh(l)
  BY <1>8, RefreshEffect DEF SourceRefresh, storeVars
<1>9. CASE EndLease(l)
  <2>. DEFINE L == Deactivated(lease[l])
  <2>1. L \in LeaseRecord
    BY <1>0, DeactivatedType
  <2>2. Coherent(L, l)
    BY <1>0, DeactivatedCoherent DEF CacheCoherent
  <2>3. Released(L) \in LeaseRecord /\ Coherent(Released(L), l)
    BY <2>1, <2>2, ReleasedType, ReleasedCoherent
  <2>4. lease' = [lease EXCEPT ![l] = Released(L)]
    BY <1>9 DEF EndLease
  <2>. QED
    BY <1>9, <2>3, <2>4 DEF EndLease, CacheEffect, storeVars
<1>10. CASE EventFails(l)
  BY <1>0, <1>10, DeactivatedType, DeactivatedCoherent
     DEF EventFails, CacheCoherent, CacheEffect, storeVars
<1>. QED
  BY <1>1, <1>2, <1>3, <1>4, <1>5, <1>6, <1>7, <1>8, <1>9, <1>10 DEF LeaseStep

\* And so do the RPC threads.
LEMMA RpcCacheEffect ==
    ASSUME TypeOK, CacheCoherent, NEW r \in Rpcs, RpcStep(r)
    PROVE  CacheEffect
<1>0. rpc[r].pc # "closed" => rpc[r].lease \in Leases
  BY DEF TypeOK, RpcRecord
<1>1. ASSUME NEW l \in Leases, RpcBind(r, l)
      PROVE  CacheEffect
  <2>. DEFINE L == [lease[l] EXCEPT !.refs = @ + 1]
  <2>0. lease[l] \in LeaseRecord
    BY DEF TypeOK
  <2>1. L \in LeaseRecord
    BY <2>0 DEF LeaseRecord
  <2>2. Coherent(L, l)
    BY <2>0 DEF CacheCoherent, Coherent, LeaseRecord
  <2>3. lease' = [lease EXCEPT ![l] = L]
    BY <1>1 DEF RpcBind
  <2>. QED
    BY <1>1, <2>1, <2>2, <2>3 DEF RpcBind, CacheEffect, storeVars
<1>2. CASE RpcHello(r)
  BY <1>0, <1>2, RpcRefreshEffect DEF RpcHello, storeVars
<1>3. CASE RpcPoll(r)
  BY <1>0, <1>3, RpcRefreshEffect DEF RpcPoll, storeVars
<1>4. CASE ExecuteBegin(r)
  BY <1>0, <1>4, RpcRefreshEffect DEF ExecuteBegin, storeVars
<1>5. CASE CaptureCheck(r)
  BY <1>0, <1>5, RefreshEffect DEF CaptureCheck, storeVars
<1>6. CASE ExecuteCheck(r)
  BY <1>0, <1>6, RefreshEffect DEF ExecuteCheck, storeVars
<1>7. CASE OperationSync(r) \/ ChildSync(r) \/ Respond(r) \/ PermissionsRevoke(r)
  BY <1>7 DEF OperationSync, ChildSync, Respond, PermissionsRevoke, CacheEffect
<1>8. CASE RevokeAck(r)
  BY <1>0, <1>8, RpcRefreshEffect DEF RevokeAck, storeVars
<1>9. CASE RpcClose(r)
  <2>. DEFINE l == rpc[r].lease
  <2>1. l \in Leases /\ lease[l] \in LeaseRecord
    BY <1>0, <1>9 DEF RpcClose, TypeOK
  <2>2. Released(lease[l]) \in LeaseRecord /\ Coherent(Released(lease[l]), l)
    BY <2>1, ReleasedType, ReleasedCoherent DEF CacheCoherent
  <2>3. lease' = [lease EXCEPT ![l] = Released(lease[l])]
    BY <1>9 DEF RpcClose
  <2>. QED
    BY <1>9, <2>1, <2>2, <2>3 DEF RpcClose, CacheEffect, storeVars
<1>. QED
  BY <1>1, <1>2, <1>3, <1>4, <1>5, <1>6, <1>7, <1>8, <1>9 DEF RpcStep

\* A session that has just read the store is coherent with it.
LEMMA RereadCoherent ==
    ASSUME TypeOK, NEW l \in Leases, NEW session \in ConnRecord
    PROVE  Coherent(Reread(l, session), l)
<1>1. generation[Uid(l)] \in Nat
  BY UidType DEF TypeOK
<1>. QED
  BY <1>1 DEF Reread, Coherent, ConnRecord

\* Only its own thread changes the session of a lease connection, and only so.
LEMMA LeaseSessionEffect ==
    ASSUME TypeOK, CacheCoherent, SessionCoherent, NEW l \in Leases, LeaseStep(l)
    PROVE  SessionEffect
<1>0. conn[l] \in ConnRecord /\ lease[l] \in LeaseRecord
  BY DEF TypeOK
<1>1. conn' \in [Leases -> ConnRecord]
  BY LeaseStepType DEF TypeOK
<1>2. conn' = [conn EXCEPT ![l] = conn'[l]]
  BY DEF LeaseStep, LeaseHello, CheckGrants, AcquirePromptLock, PromptAnswer,
         FencedGrant, RecheckGrants, CreateLease, AuthorizeRequest,
         CompleteAuthorization, LeasePoll, SubscribeRequest, SubscribeApply,
         SourceRefresh, EventFails, LeaseDisconnect, EndLease, Finish, ConnAfter, TypeOK
<1>3. \/ UNCHANGED <<grants, generation>> /\ Coherent(conn'[l], l)
      \/ /\ conn'[l].granted = conn[l].granted
         /\ conn'[l].requested = conn[l].requested
         /\ conn'[l].generation = conn[l].generation
  <2>0. Coherent(NoConn, l)
    BY UidType DEF Coherent, NoConn, TypeOK
  <2>1. CASE LeaseHello(l) \/ CreateLease(l) \/ CompleteAuthorization(l) \/ EndLease(l)
    <3>1. UNCHANGED <<grants, generation>>
      BY <2>1 DEF LeaseHello, CreateLease, CompleteAuthorization, EndLease, storeVars
    <3>2. /\ conn'[l].granted = NoConn.granted
          /\ conn'[l].requested = NoConn.requested
          /\ conn'[l].generation = NoConn.generation
      <4>1. CASE LeaseHello(l)
        BY <4>1 DEF LeaseHello, NoConn, TypeOK
      <4>2. CASE CreateLease(l)
        BY <4>2 DEF CreateLease, NoConn, TypeOK
      <4>3. CASE CompleteAuthorization(l)
        BY <4>3 DEF CompleteAuthorization, NoConn, TypeOK
      <4>4. CASE EndLease(l)
        BY <4>4 DEF EndLease, NoConn, TypeOK
      <4>. QED
        BY <2>1, <4>1, <4>2, <4>3, <4>4
    <3>. QED
      BY <2>0, <3>1, <3>2 DEF Coherent
  <2>2. CASE CheckGrants(l)
    <3>. DEFINE asked == [conn[l] EXCEPT !.requested = @ \cup conn[l].wanted]
                read == Reread(l, asked)
    <3>1. asked \in ConnRecord
      BY <1>0 DEF ConnRecord
    <3>2. read \in ConnRecord /\ Coherent(read, l)
      BY <3>1, ReadType, RereadCoherent
    <3>3. Coherent(asked, l)
      BY <1>0 DEF SessionCoherent, Coherent, ConnRecord
    <3>. HIDE DEF asked, read
    <3>4. \E session \in {asked, read} :
            /\ conn'[l].granted = session.granted
            /\ conn'[l].requested = session.requested
            /\ conn'[l].generation = session.generation
      <4>1. CASE \E s \in Statuses : Finish(l, asked, s) \/ Finish(l, read, s)
        BY <3>1, <3>2, <4>1 DEF Finish, TypeOK, ConnRecord
      <4>2. CASE conn' = [conn EXCEPT ![l] = [read EXCEPT !.pc = "lock"]]
        BY <3>2, <4>2 DEF TypeOK, ConnRecord
      <4>. QED
        BY <2>2, <4>1, <4>2 DEF CheckGrants, Statuses, asked, read
    <3>. QED
      BY <2>2, <3>2, <3>3, <3>4 DEF CheckGrants, storeVars, Coherent
  <2>3. CASE AcquirePromptLock(l) \/ RecheckGrants(l)
    <3>. DEFINE read == Reread(l, conn[l])
    <3>2. read \in ConnRecord /\ Coherent(read, l)
      BY <1>0, ReadType, RereadCoherent
    <3>. HIDE DEF read
    <3>4. \E session \in {conn[l], read} :
            /\ conn'[l].granted = session.granted
            /\ conn'[l].requested = session.requested
            /\ conn'[l].generation = session.generation
      <4>1. CASE \E s \in Statuses : Finish(l, conn[l], s) \/ Finish(l, read, s)
        BY <1>0, <3>2, <4>1 DEF Finish, TypeOK, ConnRecord
      <4>2. CASE conn' = [conn EXCEPT ![l] = [read EXCEPT !.pc = "prompt"]]
        BY <3>2, <4>2 DEF TypeOK, ConnRecord
      <4>. QED
        BY <2>3, <4>1, <4>2 DEF AcquirePromptLock, RecheckGrants, Statuses, read
    <3>5. UNCHANGED <<grants, generation>>
      BY <2>3 DEF AcquirePromptLock, RecheckGrants, storeVars
    <3>. QED
      BY <3>2, <3>4, <3>5 DEF SessionCoherent, Coherent
  <2>4. CASE PromptAnswer(l) \/ FencedGrant(l) \/ LeasePoll(l) \/ SubscribeRequest(l)
             \/ SubscribeApply(l) \/ SourceRefresh(l) \/ LeaseDisconnect(l)
             \/ EventFails(l)
    <3>1. CASE PromptAnswer(l)
      BY <1>0, <3>1, ZenonT(40) DEF PromptAnswer, Finish, TypeOK, ConnRecord
    <3>2. CASE FencedGrant(l)
      <4>1. CASE \E s \in {"OTHER", "REVOKED"} : Finish(l, conn[l], s)
        BY <1>0, <4>1 DEF Finish, TypeOK, ConnRecord
      <4>2. CASE conn' = [conn EXCEPT ![l].pc = "recheck"]
        BY <1>0, <4>2 DEF TypeOK, ConnRecord
      <4>. QED
        BY <3>2, <4>1, <4>2 DEF FencedGrant
    <3>3. CASE LeasePoll(l)
      BY <1>0, <3>3 DEF LeasePoll, ConnAfter, TypeOK, ConnRecord
    <3>4. CASE SubscribeRequest(l)
      BY <1>0, <3>4 DEF SubscribeRequest, ConnAfter, TypeOK, ConnRecord
    <3>5. CASE SubscribeApply(l)
      BY <1>0, <3>5 DEF SubscribeApply, TypeOK, ConnRecord
    <3>6. CASE SourceRefresh(l)
      BY <1>0, <3>6 DEF SourceRefresh, TypeOK, ConnRecord
    <3>7. CASE LeaseDisconnect(l)
      BY <1>0, <3>7 DEF LeaseDisconnect, TypeOK, ConnRecord
    <3>8. CASE EventFails(l)
      BY <1>0, <3>8 DEF EventFails, TypeOK, ConnRecord
    <3>. QED
      BY <2>4, <3>1, <3>2, <3>3, <3>4, <3>5, <3>6, <3>7, <3>8
  <2>5. CASE AuthorizeRequest(l)
    <3>1. PICK o \in RefreshOutcomes(l, TRUE), sent \in BOOLEAN, scopes \in SUBSET Scopes :
            ConnAfter(l, o, TRUE, sent,
              [conn[l] EXCEPT !.pc = IF scopes = {} THEN "finish" ELSE "check",
                              !.status = "OTHER", !.wanted = scopes,
                              !.requested = lease[l].requested,
                              !.granted = o.granted, !.generation = o.generation])
      BY <2>5 DEF AuthorizeRequest
    <3>2. \/ /\ conn'[l].granted = conn[l].granted
             /\ conn'[l].requested = conn[l].requested
             /\ conn'[l].generation = conn[l].generation
          \/ /\ conn'[l].granted = o.granted
             /\ conn'[l].requested = lease[l].requested
             /\ conn'[l].generation = o.generation
      BY <1>0, <3>1 DEF ConnAfter, TypeOK, ConnRecord
    <3>. QED
      BY <2>5, <3>2, OutcomeFacts, ZenonT(40) DEF AuthorizeRequest, storeVars, Coherent
  <2>. QED
    BY <2>1, <2>2, <2>3, <2>4, <2>5 DEF LeaseStep
<1>. QED
  BY <1>1, <1>2, <1>3 DEF SessionEffect

\* Every step changes the caches and the sessions coherently.
LEMMA NextEffects ==
    ASSUME TypeOK, CacheCoherent, SessionCoherent, [Next]_vars
    PROVE  CacheEffect /\ SessionEffect
<1>1. CASE \E l \in Leases : LeaseStep(l)
  BY <1>1, LeaseCacheEffect, LeaseSessionEffect
<1>2. CASE \E r \in Rpcs : RpcStep(r)
  <2>1. UNCHANGED conn
    BY <1>2 DEF RpcStep, RpcBind, RpcHello, RpcPoll, ExecuteBegin, CaptureCheck,
         ExecuteCheck, OperationSync, ChildSync, Respond, PermissionsRevoke, RevokeAck, RpcClose
  <2>. QED
    BY <1>2, <2>1, RpcCacheEffect DEF SessionEffect
<1>3. CASE (\E l \in Leases : IdentityLost(l)) \/ OtherAuthority \/ UNCHANGED vars
  BY <1>3 DEF IdentityLost, OtherAuthority, vars, CacheEffect, SessionEffect
<1>. QED
  BY <1>1, <1>2, <1>3 DEF Next

\* A cache that a step leaves alone stays coherent while the store advances.
LEMMA AdvanceCoherent ==
    ASSUME TypeOK, TypeOK', Advances, NEW l \in Leases, NEW c, c.generation \in Nat,
           Coherent(c, l)
    PROVE  /\ c.generation <= generation'[Uid(l)]
           /\ c.granted \subseteq c.requested
           /\ c.generation = generation'[Uid(l)] => c.granted \subseteq grants'[KeyOf[l]]
<1>1. generation[Uid(l)] \in Nat /\ generation'[Uid(l)] \in Nat
  BY UidType DEF TypeOK
<1>. QED
  BY <1>1 DEF Advances, Coherent

\* The caches and the sessions stay coherent.
LEMMA NextCoherent ==
    ASSUME TypeOK, CacheCoherent, SessionCoherent, [Next]_vars
    PROVE  CacheCoherent' /\ SessionCoherent'
<1>0. TypeOK' /\ Advances /\ CacheEffect /\ SessionEffect
  BY NextType, StoreAdvances, NextEffects
<1>1. CacheCoherent'
  <2>. SUFFICES ASSUME NEW m \in Leases
                PROVE  Coherent(lease[m], m)'
    BY DEF CacheCoherent
  <2>0. lease[m] \in LeaseRecord /\ lease[m].generation \in Nat
    BY DEF TypeOK, LeaseRecord
  <2>1. CASE lease'[m] = lease[m]
    BY <1>0, <2>0, <2>1, AdvanceCoherent DEF CacheCoherent, Coherent, Uid
  <2>2. CASE /\ UNCHANGED <<grants, generation>>
             /\ Coherent(lease'[m], m)
    BY <2>2 DEF Coherent, Uid
  <2>. QED
    BY <1>0, <2>1, <2>2 DEF CacheEffect, TypeOK
<1>2. SessionCoherent'
  <2>. SUFFICES ASSUME NEW m \in Leases
                PROVE  Coherent(conn[m], m)'
    BY DEF SessionCoherent
  <2>0. conn[m] \in ConnRecord /\ conn[m].generation \in Nat
    BY DEF TypeOK, ConnRecord
  <2>1. CASE /\ conn'[m].granted = conn[m].granted
             /\ conn'[m].requested = conn[m].requested
             /\ conn'[m].generation = conn[m].generation
    BY <1>0, <2>0, <2>1, AdvanceCoherent DEF SessionCoherent, Coherent, Uid
  <2>2. CASE /\ UNCHANGED <<grants, generation>>
             /\ Coherent(conn'[m], m)
    BY <2>2 DEF Coherent, Uid
  <2>. QED
    BY <1>0, <2>1, <2>2 DEF SessionEffect, TypeOK
<1>. QED
  BY <1>1, <1>2

-----------------------------------------------------------------------------
(* The fence around a prompt *)

\* A revocation that withdraws from a lease's key moves its user's generation.
LEMMA RevokeWithdraws ==
    ASSUME TypeOK, NEW uid \in Uids, NEW targets, NEW scopes,
           \A k \in Keys : k \in targets => UidOf[k] = uid,
           StoreRevoke(uid, targets, scopes), NEW m \in Leases
    PROVE  \/ withdrawn'[m] = withdrawn[m]
           \/ generation'[Uid(m)] = generation[Uid(m)] + 1
<1>1. KeyOf[m] \in Keys /\ Uid(m) = UidOf[KeyOf[m]]
  BY UidType DEF Uid
<1>2. generation' = [generation EXCEPT ![uid] = @ + 1]
  BY DEF StoreRevoke
<1>3. withdrawn'[m] = IF KeyOf[m] \in targets /\ conn[m].pc \in Prompting
                      THEN withdrawn[m] \cup scopes ELSE withdrawn[m]
  BY DEF StoreRevoke
<1>. QED
  BY <1>1, <1>2, <1>3 DEF TypeOK

\* A lease thread touches no other lease connection.
LEMMA LeaseStepLocal ==
    ASSUME TypeOK, NEW l \in Leases, LeaseStep(l), NEW m \in Leases, m # l
    PROVE  conn'[m] = conn[m] /\ withdrawn'[m] = withdrawn[m]
<1>1. conn'[m] = conn[m]
  BY DEF LeaseStep, LeaseHello, CheckGrants, AcquirePromptLock, PromptAnswer,
         FencedGrant, RecheckGrants, CreateLease, AuthorizeRequest,
         CompleteAuthorization, LeasePoll, SubscribeRequest, SubscribeApply,
         SourceRefresh, EventFails, LeaseDisconnect, EndLease, Finish, ConnAfter, TypeOK
<1>2. withdrawn'[m] = withdrawn[m]
  BY DEF LeaseStep, LeaseHello, CheckGrants, AcquirePromptLock, PromptAnswer,
         FencedGrant, StoreGrant, RecheckGrants, CreateLease, AuthorizeRequest,
         CompleteAuthorization, LeasePoll, SubscribeRequest, SubscribeApply,
         SourceRefresh, EventFails, LeaseDisconnect, EndLease, storeVars, TypeOK
<1>. QED
  BY <1>1, <1>2

\* A lease thread enters the prompt with nothing withdrawn and then keeps its
\* generation.
LEMMA LeaseFence ==
    ASSUME TypeOK, NEW l \in Leases, LeaseStep(l), NEW m \in Leases,
           conn'[m].pc \in {"prompt", "approved"}
    PROVE  \/ withdrawn'[m] = {}
           \/ /\ conn[m].pc \in {"prompt", "approved"}
              /\ conn'[m].generation = conn[m].generation
              /\ withdrawn'[m] = withdrawn[m]
<1>. SUFFICES ASSUME m = l
              PROVE  \/ withdrawn'[m] = {}
                     \/ /\ conn[m].pc \in {"prompt", "approved"}
                        /\ conn'[m].generation = conn[m].generation
                        /\ withdrawn'[m] = withdrawn[m]
  BY LeaseStepLocal
<1>0. conn[l] \in ConnRecord /\ l \in DOMAIN conn
  BY DEF TypeOK
<1>a. ASSUME NEW session \in ConnRecord, NEW status, Finish(l, session, status)
      PROVE  FALSE
  <2>1. conn'[l] = [session EXCEPT !.pc = "finish", !.status = status]
    BY <1>0, <1>a DEF Finish
  <2>. QED
    BY <2>1 DEF ConnRecord
<1>1. CASE LeaseHello(l)
  BY <1>1 DEF LeaseHello, NoConn, TypeOK
<1>2. CASE CheckGrants(l)
  <2>. DEFINE asked == [conn[l] EXCEPT !.requested = @ \cup conn[l].wanted]
              read == Reread(l, asked)
  <2>1. asked \in ConnRecord
    BY <1>0 DEF ConnRecord
  <2>2. read \in ConnRecord
    BY <2>1, ReadType
  <2>. HIDE DEF asked, read
  <2>3. conn' = [conn EXCEPT ![l] = [read EXCEPT !.pc = "lock"]]
    BY <1>2, <1>a, <2>1, <2>2 DEF CheckGrants, asked, read
  <2>. QED
    BY <1>0, <2>2, <2>3 DEF ConnRecord
<1>3. CASE AcquirePromptLock(l)
  <2>1. Reread(l, conn[l]) \in ConnRecord
    BY <1>0, ReadType
  <2>. QED
    BY <1>0, <1>3, <1>a, <2>1 DEF AcquirePromptLock, TypeOK
<1>4. CASE PromptAnswer(l)
  <2>1. conn' = [conn EXCEPT ![l].pc = "approved"] /\ withdrawn' = withdrawn
    BY <1>0, <1>4, <1>a DEF PromptAnswer, storeVars
  <2>. QED
    BY <1>0, <1>4, <2>1 DEF PromptAnswer, ConnRecord
<1>5. CASE FencedGrant(l)
  <2>1. conn' = [conn EXCEPT ![l].pc = "recheck"]
    BY <1>0, <1>5, <1>a DEF FencedGrant
  <2>. QED
    BY <1>0, <2>1 DEF ConnRecord
<1>6. CASE RecheckGrants(l)
  <2>1. Reread(l, conn[l]) \in ConnRecord
    BY <1>0, ReadType
  <2>. QED
    BY <1>0, <1>6, <1>a, <2>1 DEF RecheckGrants
<1>7. CASE CreateLease(l)
  BY <1>7 DEF CreateLease, NoConn, TypeOK
<1>8. CASE AuthorizeRequest(l)
  BY <1>0, <1>8 DEF AuthorizeRequest, ConnAfter, ConnRecord
<1>9. CASE CompleteAuthorization(l)
  BY <1>9 DEF CompleteAuthorization, NoConn, TypeOK
<1>10. CASE LeasePoll(l)
  BY <1>0, <1>10 DEF LeasePoll, ConnAfter, ConnRecord
<1>11. CASE SubscribeRequest(l)
  BY <1>0, <1>11 DEF SubscribeRequest, ConnAfter, ConnRecord
<1>12. CASE SubscribeApply(l)
  BY <1>0, <1>12 DEF SubscribeApply, ConnRecord
<1>13. CASE SourceRefresh(l)
  BY <1>0, <1>13 DEF SourceRefresh, ConnRecord, storeVars
<1>14. CASE LeaseDisconnect(l)
  BY <1>0, <1>14 DEF LeaseDisconnect, ConnRecord
<1>15. CASE EndLease(l)
  BY <1>15 DEF EndLease, NoConn, TypeOK
<1>16. CASE EventFails(l)
  BY <1>0, <1>16 DEF EventFails, ConnRecord
<1>. QED
  BY <1>1, <1>2, <1>3, <1>4, <1>5, <1>6, <1>7, <1>8, <1>9, <1>10, <1>11,
     <1>12, <1>13, <1>14, <1>15, <1>16 DEF LeaseStep

\* A session under a prompt stays behind the store once something was
\* withdrawn from its executable.
LEMMA NextFence ==
    ASSUME TypeOK, SessionCoherent, FenceRemembers, [Next]_vars
    PROVE  FenceRemembers'
<1>. SUFFICES ASSUME NEW m \in Leases,
                     conn'[m].pc \in {"prompt", "approved"}, withdrawn'[m] # {}
              PROVE  conn'[m].generation < generation'[Uid(m)]
  BY DEF FenceRemembers, Uid
<1>1. /\ conn[m].generation \in Nat
      /\ generation[Uid(m)] \in Nat
      /\ generation[Uid(m)] <= generation'[Uid(m)]
      /\ conn[m].generation <= generation[Uid(m)]
  BY StoreAdvances, UidType DEF Advances, SessionCoherent, Coherent, TypeOK, ConnRecord
<1>2. generation'[Uid(m)] \in Nat
  BY NextType, UidType DEF TypeOK
<1>3. \/ /\ conn[m].pc \in {"prompt", "approved"}
         /\ conn'[m].generation = conn[m].generation
         /\ withdrawn'[m] = withdrawn[m]
      \/ /\ conn'[m].generation = conn[m].generation
         /\ generation'[Uid(m)] = generation[Uid(m)] + 1
  <2>1. CASE \E l \in Leases : LeaseStep(l)
    BY <2>1, LeaseFence
  <2>2. CASE \E r \in Rpcs : PermissionsRevoke(r)
    <3>. PICK r \in Rpcs : PermissionsRevoke(r)
      BY <2>2
    <3>1. rpc[r].lease \in Leases
      BY DEF PermissionsRevoke, TypeOK, RpcRecord
    <3>2. PICK scopes, targets :
            /\ StoreRevoke(Uid(rpc[r].lease), targets, scopes)
            /\ targets \subseteq KeysOf(Uid(rpc[r].lease))
      BY DEF PermissionsRevoke
    <3>3. \A k \in Keys : k \in targets => UidOf[k] = Uid(rpc[r].lease)
      BY <3>2 DEF KeysOf
    <3>4. \/ withdrawn'[m] = withdrawn[m]
          \/ generation'[Uid(m)] = generation[Uid(m)] + 1
      BY <3>1, <3>2, <3>3, RevokeWithdraws, UidType
    <3>. QED
      BY <3>4 DEF PermissionsRevoke
  <2>3. CASE \E r \in Rpcs : RpcStep(r) /\ ~PermissionsRevoke(r)
    BY <2>3 DEF RpcStep, RpcBind, RpcHello, RpcPoll, ExecuteBegin, CaptureCheck,
         ExecuteCheck, OperationSync, ChildSync, Respond, RevokeAck, RpcClose, storeVars
  <2>4. CASE OtherAuthority
    <3>1. CASE \E k \in Keys, s \in Scopes : StoreRevoke(UidOf[k], {k}, {s})
      <4>1. \/ withdrawn'[m] = withdrawn[m]
            \/ generation'[Uid(m)] = generation[Uid(m)] + 1
        BY <3>1, RevokeWithdraws, ConstantsOK
      <4>. QED
        BY <2>4, <4>1 DEF OtherAuthority
    <3>2. CASE \E k \in Keys : \E s \in Scopes \ grants[k] : StoreGrant(k, {s})
      BY <2>4, <3>2 DEF OtherAuthority, StoreGrant
    <3>. QED
      BY <2>4, <3>1, <3>2 DEF OtherAuthority
  <2>5. CASE (\E l \in Leases : IdentityLost(l)) \/ UNCHANGED vars
    BY <2>5 DEF IdentityLost, vars
  <2>. QED
    BY <2>1, <2>2, <2>3, <2>4, <2>5 DEF Next
<1>. QED
  BY <1>1, <1>2, <1>3 DEF FenceRemembers

-----------------------------------------------------------------------------
(* Operations in flight *)

\* OperationCoherent and ReleasedOnlyUninterrupted of one thread.
OperationOK(r) ==
    /\ rpc[r].pc = "running" => rpc[r].before <= generation[Uid(rpc[r].lease)]
    /\ rpc[r].pc # "respond" => rpc[r].verdict = "none"
    /\ interrupted[r] =>
         /\ rpc[r].pc \in {"running", "respond"}
         /\ rpc[r].scope # NoScope
         /\ rpc[r].pc = "running"
              => rpc[r].before < generation[Uid(rpc[r].lease)]
         /\ rpc[r].verdict # "result"

\* OperationOK splits the two invariants by thread.
LEMMA OperationParts ==
    /\ OperationCoherent /\ ReleasedOnlyUninterrupted
         <=> \A r \in Rpcs : OperationOK(r)
    /\ (OperationCoherent /\ ReleasedOnlyUninterrupted)'
         <=> \A r \in Rpcs : OperationOK(r)'
<1>1. OperationCoherent /\ ReleasedOnlyUninterrupted
         <=> \A r \in Rpcs : OperationOK(r)
  BY DEF OperationCoherent, ReleasedOnlyUninterrupted, OperationOK
<1>2. (OperationCoherent /\ ReleasedOnlyUninterrupted)'
         <=> \A r \in Rpcs : OperationOK(r)'
  BY DEF OperationCoherent, ReleasedOnlyUninterrupted, OperationOK, Uid
<1>. QED
  BY <1>1, <1>2

\* A store change that moves a generation interrupts the operations under it;
\* the threads themselves are where they were, or leave the idle state.
LEMMA InterruptKeeps ==
    ASSUME TypeOK, TypeOK', NEW uid \in Uids, NEW q \in Rpcs, OperationOK(q),
           generation' = [generation EXCEPT ![uid] = @ + 1], Interrupt(uid),
           \/ rpc'[q] = rpc[q]
           \/ /\ rpc[q].pc = "idle" /\ rpc'[q].pc = "revoked"
              /\ rpc'[q].verdict = rpc[q].verdict
    PROVE  OperationOK(q)'
<1>1. rpc[q] \in RpcRecord /\ rpc[q].before \in Nat
  BY DEF TypeOK, RpcRecord
<1>2. rpc[q].pc # "closed" => rpc[q].lease \in Leases
  BY <1>1 DEF TypeOK, RpcRecord
<1>3. rpc[q].pc = "running" =>
        /\ generation[Uid(rpc[q].lease)] \in Nat
        /\ generation'[Uid(rpc[q].lease)] =
             IF Uid(rpc[q].lease) = uid THEN generation[Uid(rpc[q].lease)] + 1
             ELSE generation[Uid(rpc[q].lease)]
  BY <1>2, UidType DEF TypeOK
<1>4. interrupted'[q] <=> \/ interrupted[q]
                          \/ /\ rpc[q].pc = "running"
                             /\ rpc[q].scope # NoScope
                             /\ Uid(rpc[q].lease) = uid
  BY DEF Interrupt
<1>5. CASE rpc'[q] = rpc[q]
  BY <1>1, <1>3, <1>4, <1>5 DEF OperationOK, Uid
<1>6. CASE /\ rpc[q].pc = "idle" /\ rpc'[q].pc = "revoked"
           /\ rpc'[q].verdict = rpc[q].verdict
  BY <1>4, <1>6 DEF OperationOK
<1>. QED
  BY <1>5, <1>6

\* While neither the store nor the thread moves, nothing changes.
LEMMA StillKeeps ==
    ASSUME NEW q \in Rpcs, OperationOK(q), rpc'[q] = rpc[q],
           UNCHANGED generation, interrupted'[q] = interrupted[q]
    PROVE  OperationOK(q)'
BY DEF OperationOK, Uid

\* A refresh that ends in an idle or closed thread carries no verdict.
LEMMA QuietRefresh ==
    ASSUME TypeOK, NEW r \in Rpcs, OperationOK(r), NEW o, NEW notify, NEW sent,
           NEW next, rpc[r].pc \notin {"running", "respond"},
           RpcRefresh(r, o, notify, sent, next),
           next.pc \notin {"running", "respond"}, next.verdict = rpc[r].verdict,
           UNCHANGED <<generation, interrupted>>
    PROVE  OperationOK(r)'
<1>1. rpc'[r] = next \/ rpc'[r] = NoRpc
  BY DEF RpcRefresh, TypeOK
<1>. QED
  BY <1>1 DEF OperationOK, NoRpc

\* The RPC threads keep OperationOK of every thread.
LEMMA RpcOperations ==
    ASSUME TypeOK, CacheCoherent, NEW r \in Rpcs, RpcStep(r), NEW q \in Rpcs,
           OperationOK(q), OperationOK(r)
    PROVE  OperationOK(q)'
<1>0. /\ rpc[r] \in RpcRecord
      /\ rpc[r].pc # "closed" => rpc[r].lease \in Leases
  BY DEF TypeOK, RpcRecord
<1>1. CASE PermissionsRevoke(r)
  <2>1. rpc[r].lease \in Leases
    BY <1>0, <1>1 DEF PermissionsRevoke
  <2>2. /\ generation' = [generation EXCEPT ![Uid(rpc[r].lease)] = @ + 1]
        /\ Interrupt(Uid(rpc[r].lease))
    BY <1>1 DEF PermissionsRevoke, StoreRevoke
  <2>3. \/ rpc'[q] = rpc[q]
        \/ /\ rpc[q].pc = "idle" /\ rpc'[q].pc = "revoked"
           /\ rpc'[q].verdict = rpc[q].verdict
    BY <1>0, <1>1 DEF PermissionsRevoke, TypeOK, RpcRecord
  <2>4. TypeOK'
    BY RpcStepType
  <2>. QED
    BY <2>1, <2>2, <2>3, <2>4, InterruptKeeps, UidType
<1>2. CASE ~PermissionsRevoke(r) /\ q # r
  <2>1. /\ rpc'[q] = rpc[q] /\ UNCHANGED generation
        /\ interrupted'[q] = interrupted[q]
    BY <1>2 DEF RpcStep, RpcBind, RpcHello, RpcPoll, ExecuteBegin, CaptureCheck,
         ExecuteCheck, OperationSync, ChildSync, Respond, RevokeAck, RpcClose, RpcRefresh,
         storeVars, TypeOK
  <2>. QED
    BY <2>1, StillKeeps
<1>3. CASE ~PermissionsRevoke(r) /\ q = r
  <2>. USE <1>3
  <2>1. CASE \E l \in Leases : RpcBind(r, l)
    <3>1. /\ rpc'[r].pc = "bound" /\ rpc'[r].verdict = rpc[r].verdict
          /\ UNCHANGED <<generation, interrupted>>
      BY <1>0, <2>1 DEF RpcBind, TypeOK, RpcRecord, storeVars
    <3>. QED
      BY <2>1, <3>1 DEF RpcBind, OperationOK
  <2>2. CASE RpcHello(r) \/ RevokeAck(r)
    <3>. DEFINE next == [rpc[r] EXCEPT !.pc = "idle"]
    <3>1. next.pc = "idle" /\ next.verdict = rpc[r].verdict
      BY <1>0 DEF RpcRecord
    <3>. HIDE DEF next
    <3>2. \E o, notify, sent : RpcRefresh(r, o, notify, sent, next)
      BY <2>2 DEF RpcHello, RevokeAck, next
    <3>. QED
      BY <2>2, <3>1, <3>2, QuietRefresh DEF RpcHello, RevokeAck, storeVars
  <2>3. CASE RpcPoll(r)
    BY <2>3, QuietRefresh DEF RpcPoll, storeVars
  <2>4. CASE ExecuteBegin(r)
    <3>. PICK o \in RefreshOutcomes(rpc[r].lease, TRUE), sent \in BOOLEAN,
              scope \in Scopes \cup {NoScope} :
           \/ RpcRefresh(r, o, TRUE, sent, rpc[r])
           \/ RpcRefresh(r, o, TRUE, sent,
                [rpc[r] EXCEPT !.pc = "running", !.scope = scope,
                               !.before = o.generation])
      BY <2>4 DEF ExecuteBegin
    <3>0. rpc[r].pc = "idle" /\ rpc[r].lease \in Leases /\ UNCHANGED <<generation, interrupted>>
      BY <1>0, <2>4 DEF ExecuteBegin, storeVars
    <3>1. CASE RpcRefresh(r, o, TRUE, sent, rpc[r])
      BY <3>0, <3>1, QuietRefresh
    <3>2. CASE RpcRefresh(r, o, TRUE, sent,
                 [rpc[r] EXCEPT !.pc = "running", !.scope = scope,
                                !.before = o.generation])
      <4>1. o.generation <= generation[Uid(rpc[r].lease)]
        BY <3>0, OutcomeFacts
      <4>2. \/ rpc'[r] = NoRpc
            \/ /\ rpc'[r].before = o.generation
               /\ rpc'[r].pc = "running" /\ rpc'[r].lease = rpc[r].lease
               /\ rpc'[r].verdict = rpc[r].verdict
        BY <1>0, <3>2 DEF RpcRefresh, TypeOK, RpcRecord
      <4>3. ~interrupted[r] /\ rpc[r].verdict = "none"
        BY <3>0 DEF OperationOK
      <4>. QED
        BY <3>0, <4>1, <4>2, <4>3 DEF OperationOK, NoRpc, Uid
    <3>. QED
      BY <3>1, <3>2
  <2>5. CASE CaptureCheck(r)
    BY <2>5, StillKeeps DEF CaptureCheck, storeVars
  <2>6. CASE ExecuteCheck(r)
    <3>. PICK o \in RefreshOutcomes(rpc[r].lease, TRUE), sent \in BOOLEAN :
           \/ rpc' = [rpc EXCEPT ![r].pc = "respond", ![r].verdict = "withheld"]
           \/ /\ StillValid(r, o, sent)
              /\ rpc' = [rpc EXCEPT ![r].pc = "respond", ![r].verdict = "result"]
           \/ /\ StillValid(r, o, sent)
              /\ rpc' = [rpc EXCEPT ![r].pc = "syncing"]
      BY <2>6 DEF ExecuteCheck
    <3>0. rpc[r].pc = "running" /\ rpc[r].lease \in Leases /\ UNCHANGED <<generation, interrupted>>
      BY <1>0, <2>6 DEF ExecuteCheck, storeVars
    <3>1. StillValid(r, o, sent) => ~interrupted[r]
      <4>1. o.ok => o.generation = generation[Uid(rpc[r].lease)]
        BY <3>0, OutcomeFacts
      <4>2. generation[Uid(rpc[r].lease)] \in Nat
        BY <3>0, UidType DEF TypeOK
      <4>. QED
        BY <3>0, <4>1, <4>2 DEF StillValid, Succeeds, OperationOK
    <3>2. \/ rpc'[r].pc = "respond" /\ rpc'[r].verdict = "withheld"
          \/ ~interrupted[r] /\ rpc'[r].pc = "respond"
          \/ ~interrupted[r] /\ rpc'[r].pc = "syncing" /\ rpc'[r].verdict = rpc[r].verdict
      BY <1>0, <3>1 DEF TypeOK, RpcRecord
    <3>3. rpc'[r].scope = rpc[r].scope
      BY <1>0 DEF TypeOK, RpcRecord
    <3>. QED
      BY <3>0, <3>2, <3>3 DEF OperationOK
  <2>7. CASE OperationSync(r) \/ ChildSync(r)
    <3>1. rpc'[r].pc = "respond" /\ UNCHANGED interrupted
      BY <1>0, <2>7 DEF OperationSync, ChildSync, TypeOK, RpcRecord, storeVars
    <3>. QED
      BY <2>7, <3>1 DEF OperationSync, ChildSync, OperationOK
  <2>8. CASE Respond(r)
    <3>1. rpc'[r].pc = "idle" /\ rpc'[r].verdict = "none" /\ interrupted'[r] = FALSE
      BY <1>0, <2>8 DEF Respond, TypeOK, RpcRecord
    <3>. QED
      BY <3>1 DEF OperationOK
  <2>9. CASE RpcClose(r)
    <3>1. rpc'[r] = NoRpc /\ UNCHANGED interrupted
      BY <2>9 DEF RpcClose, TypeOK, storeVars
    <3>. QED
      BY <2>9, <3>1 DEF RpcClose, OperationOK, NoRpc
  <2>. QED
    BY <2>1, <2>2, <2>3, <2>4, <2>5, <2>6, <2>7, <2>8, <2>9 DEF RpcStep
<1>. QED
  BY <1>1, <1>2, <1>3

\* Every step keeps OperationOK of every thread.
LEMMA NextOperations ==
    ASSUME TypeOK, CacheCoherent, \A r \in Rpcs : OperationOK(r), [Next]_vars,
           NEW q \in Rpcs
    PROVE  OperationOK(q)'
<1>1. ASSUME NEW uid \in Uids, UNCHANGED rpc,
             generation' = [generation EXCEPT ![uid] = @ + 1], Interrupt(uid)
      PROVE  OperationOK(q)'
  BY <1>1, NextType, InterruptKeeps
<1>2. CASE UNCHANGED <<rpc, generation, interrupted>>
  BY <1>2, StillKeeps
<1>3. ASSUME NEW key \in Keys, NEW scopes, StoreGrant(key, scopes), UNCHANGED rpc
      PROVE  OperationOK(q)'
  <2>1. UidOf[key] \in Uids
    BY ConstantsOK
  <2>. QED
    BY <1>1, <1>2, <1>3, <2>1 DEF StoreGrant
<1>4. ASSUME NEW l \in Leases, LeaseStep(l)
      PROVE  OperationOK(q)'
  <2>1. UNCHANGED rpc
    BY <1>4 DEF LeaseStep, LeaseHello, CheckGrants, AcquirePromptLock,
         PromptAnswer, FencedGrant, RecheckGrants, CreateLease, AuthorizeRequest,
         CompleteAuthorization, LeasePoll, SubscribeRequest, SubscribeApply,
         SourceRefresh, EventFails, LeaseDisconnect, EndLease
  <2>2. \/ UNCHANGED <<generation, interrupted>>
        \/ StoreGrant(KeyOf[l], conn[l].wanted \ conn[l].granted)
    BY <1>4 DEF LeaseStep, LeaseHello, CheckGrants, AcquirePromptLock,
         PromptAnswer, FencedGrant, RecheckGrants, CreateLease, AuthorizeRequest,
         CompleteAuthorization, LeasePoll, SubscribeRequest, SubscribeApply,
         SourceRefresh, EventFails, LeaseDisconnect, EndLease, storeVars
  <2>. QED
    BY <1>2, <1>3, <2>1, <2>2, UidType
<1>5. CASE \E r \in Rpcs : RpcStep(r)
  BY <1>5, RpcOperations
<1>6. CASE OtherAuthority
  <2>1. CASE \E k \in Keys, s \in Scopes : StoreRevoke(UidOf[k], {k}, {s})
    BY <1>1, <1>6, <2>1, ConstantsOK DEF OtherAuthority, StoreRevoke
  <2>2. CASE \E k \in Keys : \E s \in Scopes \ grants[k] : StoreGrant(k, {s})
    BY <1>3, <1>6, <2>2 DEF OtherAuthority
  <2>. QED
    BY <1>6, <2>1, <2>2 DEF OtherAuthority
<1>7. CASE (\E l \in Leases : IdentityLost(l)) \/ UNCHANGED vars
  BY <1>2, <1>7 DEF IdentityLost, vars
<1>. QED
  BY <1>4, <1>5, <1>6, <1>7 DEF Next

-----------------------------------------------------------------------------
(* The theorems *)

\* The inductive invariant holds in every reachable state.
THEOREM InductiveCorrect == Spec => []Inductive
<1>1. Init => Inductive
  <2>. SUFFICES ASSUME Init
                PROVE  Inductive
    OBVIOUS
  <2>1. TypeOK
    BY EmptyRecords DEF Init, TypeOK, NoRpc
  <2>2. \A l \in Leases : generation[Uid(l)] = 0
    BY UidType DEF Init
  <2>3. CacheCoherent /\ SessionCoherent
    BY <2>2 DEF Init, CacheCoherent, SessionCoherent, Coherent, NoLeaseRecord, NoConn
  <2>4. FenceRemembers
    BY DEF Init, FenceRemembers
  <2>5. OperationCoherent /\ ReleasedOnlyUninterrupted
    BY DEF Init, OperationCoherent, ReleasedOnlyUninterrupted, NoRpc
  <2>. QED
    BY <2>1, <2>3, <2>4, <2>5 DEF Inductive
<1>2. Inductive /\ [Next]_vars => Inductive'
  <2>. SUFFICES ASSUME Inductive, [Next]_vars
                PROVE  Inductive'
    OBVIOUS
  <2>1. TypeOK' /\ CacheCoherent' /\ SessionCoherent'
    BY NextType, NextCoherent DEF Inductive
  <2>2. FenceRemembers'
    BY NextFence DEF Inductive
  <2>3. OperationCoherent' /\ ReleasedOnlyUninterrupted'
    BY OperationParts, NextOperations DEF Inductive
  <2>. QED
    BY <2>1, <2>2, <2>3 DEF Inductive
<1>. QED
  BY <1>1, <1>2, PTL DEF Spec

\* The cached scopes of a lease are always coherent with the shared store,
\* whatever interleaving of lease, RPC and source threads refreshes them.
THEOREM CacheCorrect == Spec => []CacheCoherent
BY InductiveCorrect, PTL DEF Inductive

\* execute_operation never releases the result of an operation under which
\* the user's generation moved before its final check.
THEOREM ReleaseCorrect == Spec => []ReleasedOnlyUninterrupted
BY InductiveCorrect, PTL DEF Inductive

\* The body of NoLateGrant, as a relation between two states.
LateGrantStep ==
    \A l \in Leases :
        conn[l].pc = "approved" /\ conn'[l].pc = "recheck"
        => withdrawn[l] \cap (grants'[KeyOf[l]] \ grants[KeyOf[l]]) = {}

\* Only a step of the lease's own thread past a fence that holds takes an
\* approved prompt to its recheck.
LEMMA FenceStep ==
    ASSUME TypeOK, [Next]_vars, NEW l \in Leases,
           conn[l].pc = "approved", conn'[l].pc = "recheck"
    PROVE  FenceHolds(l)
<1>0. conn[l] \in ConnRecord /\ l \in DOMAIN conn
  BY DEF TypeOK
<1>1. LeaseStep(l)
  <2>1. ASSUME NEW m \in Leases, LeaseStep(m), m # l
        PROVE  FALSE
    BY <2>1, LeaseStepLocal
  <2>2. ASSUME NEW r \in Rpcs, RpcStep(r)
        PROVE  UNCHANGED conn
    BY <2>2 DEF RpcStep, RpcBind, RpcHello, RpcPoll, ExecuteBegin, CaptureCheck,
         ExecuteCheck, OperationSync, ChildSync, Respond, PermissionsRevoke, RevokeAck, RpcClose
  <2>. QED
    BY <2>1, <2>2 DEF Next, IdentityLost, OtherAuthority, vars
<1>2. FencedGrant(l) \/ SourceRefresh(l)
  BY <1>1 DEF LeaseStep, LeaseHello, CheckGrants, AcquirePromptLock, PromptAnswer,
         RecheckGrants, CreateLease, AuthorizeRequest, CompleteAuthorization,
         LeasePoll, SubscribeRequest, SubscribeApply, EventFails, LeaseDisconnect, EndLease
<1>3. ~SourceRefresh(l)
  BY <1>0 DEF SourceRefresh, ConnRecord
<1>4. ASSUME NEW status, Finish(l, conn[l], status)
      PROVE  FALSE
  BY <1>0, <1>4 DEF Finish, ConnRecord
<1>. QED
  BY <1>2, <1>3, <1>4 DEF FencedGrant

\* A late approval never recreates a grant that was revoked from the
\* executable while its prompt was open.
THEOREM NoLateGrantCorrect == Spec => NoLateGrant
<1>1. Inductive /\ [Next]_vars => [LateGrantStep]_vars
  <2>. SUFFICES ASSUME Inductive, [Next]_vars, NEW l \in Leases,
                       conn[l].pc = "approved", conn'[l].pc = "recheck"
                PROVE  withdrawn[l] = {}
    BY DEF LateGrantStep
  <2>1. FenceHolds(l)
    BY FenceStep DEF Inductive
  <2>2. generation[Uid(l)] \in Nat
    BY UidType DEF Inductive, TypeOK
  <2>. QED
    BY <2>1, <2>2 DEF Inductive, FenceRemembers, FenceHolds
<1>. QED
  BY <1>1, InductiveCorrect, PTL DEF Spec, NoLateGrant, LateGrantStep

\* The body of AdmittedOnlyWhileGranted.
AdmissionStep ==
    \A r \in Rpcs :
        /\ rpc[r].pc # "running"
        /\ rpc'[r].pc = "running"
        /\ rpc'[r].scope # NoScope
        => rpc'[r].scope \in grants[KeyOf[rpc'[r].lease]]

\* Scoped work starts only while the store grants its scope: no interleaving
\* lets execute_operation admit an operation on a stale cache.
THEOREM AdmissionCorrect == Spec => AdmittedOnlyWhileGranted
<1>1. Inductive /\ [Next]_vars => [AdmissionStep]_vars
  <2>. SUFFICES ASSUME Inductive, [Next]_vars, NEW r \in Rpcs,
                       rpc[r].pc # "running", rpc'[r].pc = "running",
                       rpc'[r].scope # NoScope
                PROVE  rpc'[r].scope \in grants[KeyOf[rpc'[r].lease]]
    BY DEF AdmissionStep
  <2>0. /\ TypeOK /\ CacheCoherent /\ rpc[r] \in RpcRecord
        /\ rpc[r].pc # "closed" => rpc[r].lease \in Leases
    BY DEF Inductive, TypeOK, RpcRecord
  <2>a. ASSUME NEW o, NEW notify, NEW sent, NEW next,
               RpcRefresh(r, o, notify, sent, next)
        PROVE  rpc'[r] = next
    <3>1. rpc'[r] = next \/ rpc'[r] = NoRpc
      BY <2>0, <2>a DEF RpcRefresh, TypeOK
    <3>. QED
      BY <3>1 DEF NoRpc
  <2>1. ExecuteBegin(r)
    <3>1. PICK q \in Rpcs : RpcStep(q)
      <4>1. ASSUME NEW l \in Leases, LeaseStep(l)
            PROVE  UNCHANGED rpc
        BY <4>1 DEF LeaseStep, LeaseHello, CheckGrants, AcquirePromptLock,
             PromptAnswer, FencedGrant, RecheckGrants, CreateLease,
             AuthorizeRequest, CompleteAuthorization, LeasePoll,
             SubscribeRequest, SubscribeApply, SourceRefresh, EventFails, LeaseDisconnect,
             EndLease
      <4>. QED
        BY <4>1 DEF Next, IdentityLost, OtherAuthority, vars
    <3>2. q = r
      BY <2>0, <3>1 DEF RpcStep, RpcBind, RpcHello, RpcPoll, ExecuteBegin,
         CaptureCheck, ExecuteCheck, OperationSync, ChildSync, Respond, PermissionsRevoke,
         RevokeAck, RpcClose, RpcRefresh, TypeOK
    <3>3. ~ \E l \in Leases : RpcBind(r, l)
      BY <2>0 DEF RpcBind, TypeOK, RpcRecord
    <3>4. ~RpcHello(r) /\ ~RevokeAck(r) /\ ~RpcPoll(r)
      <4>1. [rpc[r] EXCEPT !.pc = "idle"].pc = "idle"
        BY <2>0 DEF RpcRecord
      <4>. QED
        BY <2>a, <4>1 DEF RpcHello, RevokeAck, RpcPoll
    <3>5. /\ ~OperationSync(r) /\ ~ChildSync(r) /\ ~Respond(r)
          /\ ~PermissionsRevoke(r) /\ ~RpcClose(r)
      BY <2>0 DEF OperationSync, ChildSync, Respond, PermissionsRevoke, RpcClose, NoRpc,
                  TypeOK, RpcRecord
    <3>6. ~CaptureCheck(r) /\ ~ExecuteCheck(r)
      BY DEF CaptureCheck, ExecuteCheck
    <3>. QED
      BY <3>1, <3>2, <3>3, <3>4, <3>5, <3>6 DEF RpcStep
  <2>2. PICK o \in RefreshOutcomes(rpc[r].lease, TRUE), sent \in BOOLEAN,
             scope \in Scopes \cup {NoScope} :
          \/ RpcRefresh(r, o, TRUE, sent, rpc[r])
          \/ /\ Holds(o.granted, scope)
             /\ RpcRefresh(r, o, TRUE, sent,
                  [rpc[r] EXCEPT !.pc = "running", !.scope = scope,
                                 !.before = o.generation])
    BY <2>1 DEF ExecuteBegin
  <2>3. ~RpcRefresh(r, o, TRUE, sent, rpc[r])
    BY <2>a, <2>1 DEF ExecuteBegin
  <2>4. rpc'[r].scope = scope /\ rpc'[r].lease = rpc[r].lease
    <3>1. rpc'[r] = [rpc[r] EXCEPT !.pc = "running", !.scope = scope,
                                   !.before = o.generation]
      BY <2>a, <2>2, <2>3
    <3>. QED
      BY <2>0, <3>1 DEF RpcRecord
  <2>5. o.granted \subseteq grants[KeyOf[rpc[r].lease]]
    BY <2>0, <2>1, OutcomeFacts DEF ExecuteBegin
  <2>. QED
    BY <2>2, <2>3, <2>4, <2>5 DEF Holds
<1>. QED
  BY <1>1, InductiveCorrect, PTL DEF Spec, AdmittedOnlyWhileGranted, AdmissionStep
-----------------------------------------------------------------------------
(* The abstract operation of a thread. *)

Work(phase, key, scope, clean) ==
    [phase |-> phase, key |-> key, scope |-> scope, clean |-> clean]
Operation(phase, r) ==
    Work(phase, KeyOf[rpc[r].lease], rpc[r].scope, ~interrupted[r])
NoOperation == Work("idle", NoLease, NoScope, TRUE)

\* The fields of an abstract operation, and how its phase and its taint change.
LEMMA WorkFields ==
    ASSUME NEW phase, NEW key, NEW scope, NEW clean
    PROVE  /\ Work(phase, key, scope, clean).phase = phase
           /\ Work(phase, key, scope, clean).key = key
           /\ Work(phase, key, scope, clean).scope = scope
           /\ Work(phase, key, scope, clean).clean = clean
           /\ \A new : [Work(phase, key, scope, clean) EXCEPT !.clean = new]
                = Work(phase, key, scope, new)
           /\ \A new : [Work(phase, key, scope, clean) EXCEPT !.phase = new]
                = Work(new, key, scope, clean)
BY DEF Work

\* The operation of a thread has its key and its scope.
LEMMA OperationFields ==
    ASSUME NEW phase, NEW r
    PROVE  /\ Operation(phase, r).phase = phase
           /\ Operation(phase, r).key = KeyOf[rpc[r].lease]
           /\ Operation(phase, r).scope = rpc[r].scope
<1>1. PICK clean \in BOOLEAN : clean = ~interrupted[r]
  OBVIOUS
<1>2. Operation(phase, r) = Work(phase, KeyOf[rpc[r].lease], rpc[r].scope, clean)
  BY <1>1 DEF Operation
<1>. QED  BY <1>2, WorkFields

\* An idle thread has none.
LEMMA IdleOperation == NoOperation.phase = "idle"
<1>1. PICK clean \in BOOLEAN : clean = TRUE
  OBVIOUS
<1>2. NoOperation = Work("idle", NoLease, NoScope, clean)
  BY <1>1 DEF NoOperation
<1>. QED  BY <1>2, WorkFields

\* It is clean as long as it is not interrupted, and then tainted.
LEMMA OperationClean ==
    ASSUME NEW phase, NEW r
    PROVE  /\ Operation(phase, r).clean <=> ~interrupted[r]
           /\ Operation(phase, r)'.clean <=> ~interrupted'[r]
<1>1. PICK clean \in BOOLEAN : clean = ~interrupted[r]
  OBVIOUS
<1>2. Operation(phase, r) = Work(phase, KeyOf[rpc[r].lease], rpc[r].scope, clean)
  BY <1>1 DEF Operation
<1>3. PICK after \in BOOLEAN : after = ~interrupted'[r]
  OBVIOUS
<1>4. Operation(phase, r)' = Work(phase, KeyOf[rpc'[r].lease], rpc'[r].scope, after)
  BY <1>3 DEF Operation
<1>5. Operation(phase, r).clean = clean /\ Operation(phase, r)'.clean = after
  BY <1>2, <1>4, WorkFields
<1>. QED  BY <1>1, <1>3, <1>5

\* Tainting changes nothing else.
LEMMA OperationTainted ==
    ASSUME NEW phase, NEW r
    PROVE  [Operation(phase, r) EXCEPT !.clean = FALSE]
             = Work(phase, KeyOf[rpc[r].lease], rpc[r].scope, FALSE)
<1>1. PICK clean \in BOOLEAN : clean = ~interrupted[r]
  OBVIOUS
<1>2. Operation(phase, r) = Work(phase, KeyOf[rpc[r].lease], rpc[r].scope, clean)
  BY <1>1 DEF Operation
<1>3. PICK no \in BOOLEAN : no = FALSE
  OBVIOUS
<1>4. [Operation(phase, r) EXCEPT !.clean = no]
        = Work(phase, KeyOf[rpc[r].lease], rpc[r].scope, no)
  BY <1>2, WorkFields
<1>. QED  BY <1>3, <1>4

\* Nor does moving on.
LEMMA OperationMoves ==
    ASSUME NEW phase, NEW new, NEW r
    PROVE  [Operation(phase, r) EXCEPT !.phase = new] = Operation(new, r)
<1>1. PICK clean \in BOOLEAN : clean = ~interrupted[r]
  OBVIOUS
<1>2. \A p : Operation(p, r) = Work(p, KeyOf[rpc[r].lease], rpc[r].scope, clean)
  BY <1>1 DEF Operation
<1>. QED  BY <1>2, WorkFields

\* Where execute_operation is decides the phase.
LEMMA OperationPhases ==
    ASSUME NEW r
    PROVE  /\ rpc[r].pc = "running" => AbstractOp(r) = Operation("working", r)
           /\ rpc[r].pc = "syncing" => AbstractOp(r) = Operation("checked", r)
           /\ rpc[r].pc = "respond" /\ rpc[r].verdict = "result"
                => AbstractOp(r) = Operation("released", r)
           /\ rpc[r].pc = "respond" /\ rpc[r].verdict # "result"
                => AbstractOp(r) = Operation("withheld", r)
           /\ rpc[r].pc \notin {"running", "syncing", "respond"}
                => AbstractOp(r) = NoOperation
BY DEF AbstractOp, Operation, NoOperation, Work

\* The same in the next state.
LEMMA NextPhases ==
    ASSUME NEW r
    PROVE  /\ rpc'[r].pc = "running" => AbstractOp(r)' = Operation("working", r)'
           /\ rpc'[r].pc = "syncing" => AbstractOp(r)' = Operation("checked", r)'
           /\ rpc'[r].pc = "respond" /\ rpc'[r].verdict = "result"
                => AbstractOp(r)' = Operation("released", r)'
           /\ rpc'[r].pc = "respond" /\ rpc'[r].verdict # "result"
                => AbstractOp(r)' = Operation("withheld", r)'
           /\ rpc'[r].pc \notin {"running", "syncing", "respond"}
                => AbstractOp(r)' = NoOperation
BY DEF AbstractOp, Operation, NoOperation, Work

\* A thread that does not move and is not interrupted keeps its operation.
LEMMA SameOperation ==
    ASSUME NEW r, rpc'[r] = rpc[r], interrupted'[r] = interrupted[r]
    PROVE  AbstractOp(r)' = AbstractOp(r)
BY DEF AbstractOp

Op == [r \in Rpcs |-> AbstractOp(r)]

\* One thread's operation changes.
LEMMA OneOperation ==
    ASSUME NEW q \in Rpcs, NEW v, AbstractOp(q)' = v,
           \A r \in Rpcs : r # q => AbstractOp(r)' = AbstractOp(r)
    PROVE  Op' = [Op EXCEPT ![q] = v]
BY DEF Op

\* A step of the abstract specification.
GuardStep == [Guard!Next]_(Guard!guardVars)

\* When neither the store nor an operation changes, the promise stutters.
LEMMA GuardStutters ==
    ASSUME UNCHANGED grants, \A r \in Rpcs : AbstractOp(r)' = AbstractOp(r)
    PROVE  GuardStep
BY DEF GuardStep, Guard!guardVars

\* A change of the store: whoever works is interrupted or keeps its operation,
\* and whoever loses its grant is interrupted.
LEMMA StoreGuarded ==
    ASSUME TypeOK, TypeOK', OperationCoherent,
           \A r \in Rpcs : \/ rpc'[r] = rpc[r]
                           \/ rpc[r].pc = "idle" /\ rpc'[r].pc = "revoked",
           \A r \in Rpcs :
              interrupted'[r] # interrupted[r] => rpc[r].pc = "running" /\ interrupted'[r],
           \A r \in Rpcs :
              /\ rpc[r].pc = "running"
              /\ rpc[r].scope \in grants[KeyOf[rpc[r].lease]] \ grants'[KeyOf[rpc[r].lease]]
              => interrupted'[r]
    PROVE  GuardStep
<1>1. grants' \in [Keys -> SUBSET Scopes]
  BY DEF TypeOK
<1>2. ASSUME NEW r \in Rpcs
      PROVE  \/ AbstractOp(r)' = AbstractOp(r)
             \/ /\ AbstractOp(r).phase = "working"
                /\ AbstractOp(r)' = [AbstractOp(r) EXCEPT !.clean = FALSE]
  <2>1. CASE rpc'[r] = rpc[r] /\ interrupted'[r] = interrupted[r]
    BY <2>1, SameOperation
  <2>2. CASE rpc[r].pc = "idle" /\ rpc'[r].pc = "revoked"
    BY <2>2, OperationPhases, NextPhases
  <2>3. CASE rpc'[r] = rpc[r] /\ interrupted'[r] # interrupted[r]
    <3>1. rpc[r].pc = "running" /\ interrupted'[r]
      BY <2>3
    <3>2. AbstractOp(r) = Operation("working", r) /\ AbstractOp(r)' = Operation("working", r)'
      BY <2>3, <3>1, OperationPhases, NextPhases
    <3>3. Operation("working", r)' = Work("working", KeyOf[rpc[r].lease], rpc[r].scope, FALSE)
      <4>1. (~interrupted'[r]) = FALSE
        BY <3>1, Zenon
      <4>. QED  BY <2>3, <4>1 DEF Operation
    <3>4. AbstractOp(r)' = [AbstractOp(r) EXCEPT !.clean = FALSE]
      <4>1. [AbstractOp(r) EXCEPT !.clean = FALSE]
              = [Operation("working", r) EXCEPT !.clean = FALSE]
        BY <3>2, Zenon
      <4>2. [Operation("working", r) EXCEPT !.clean = FALSE]
              = Work("working", KeyOf[rpc[r].lease], rpc[r].scope, FALSE)
        BY OperationTainted, ZenonT(40)
      <4>3. [AbstractOp(r) EXCEPT !.clean = FALSE]
              = Work("working", KeyOf[rpc[r].lease], rpc[r].scope, FALSE)
        BY <4>1, <4>2, Zenon
      <4>. QED  BY <3>2, <3>3, <4>3, Zenon
    <3>. QED  BY <3>2, <3>4, OperationFields
  <2>. QED  BY <2>1, <2>2, <2>3
<1>3. ASSUME NEW r \in Rpcs, AbstractOp(r).phase = "working",
             AbstractOp(r).scope \in grants[AbstractOp(r).key] \ grants'[AbstractOp(r).key]
      PROVE  ~AbstractOp(r)'.clean
  <2>1. rpc[r].pc = "running"
    BY <1>3, OperationPhases, OperationFields, IdleOperation
  <2>2. AbstractOp(r) = Operation("working", r)
    BY <2>1, OperationPhases
  <2>3. interrupted'[r] /\ rpc'[r].pc = "running"
    BY <1>3, <2>1, <2>2, OperationFields
  <2>4. AbstractOp(r)' = Operation("working", r)'
    BY <2>3, NextPhases
  <2>5. Operation("working", r)'.clean <=> ~interrupted'[r]
    BY OperationClean
  <2>. QED  BY <2>3, <2>4, <2>5
<1>4. DOMAIN Op' = Rpcs /\ \A r \in Rpcs : Op[r] = AbstractOp(r) /\ Op'[r] = AbstractOp(r)'
  BY DEF Op
<1>5. Guard!ChangeGrants
  BY <1>1, <1>2, <1>3, <1>4 DEF Guard!ChangeGrants
<1>. QED  BY <1>5 DEF GuardStep, Guard!Next

\* A revocation of scopes from keys of one user is seen by all who work for
\* that user.
LEMMA RevokeGuarded ==
    ASSUME TypeOK, TypeOK', OperationCoherent, NEW uid \in Uids,
           NEW targets \in SUBSET KeysOf(uid), NEW scopes,
           StoreRevoke(uid, targets, scopes),
           \A r \in Rpcs : \/ rpc'[r] = rpc[r]
                           \/ rpc[r].pc = "idle" /\ rpc'[r].pc = "revoked"
    PROVE  GuardStep
<1>1. \A r \in Rpcs : interrupted'[r] = (interrupted[r] \/ ( /\ rpc[r].pc = "running"
                            /\ rpc[r].scope # NoScope
                            /\ Uid(rpc[r].lease) = uid ))
  BY DEF StoreRevoke, Interrupt
<1>2. \A r \in Rpcs : interrupted'[r] # interrupted[r] => rpc[r].pc = "running" /\ interrupted'[r]
  BY <1>1 DEF TypeOK
<1>3. ASSUME NEW r \in Rpcs, rpc[r].pc = "running",
             rpc[r].scope \in grants[KeyOf[rpc[r].lease]] \ grants'[KeyOf[rpc[r].lease]]
      PROVE  interrupted'[r]
  <2>1. rpc[r].lease \in Leases
    BY <1>3 DEF TypeOK, RpcRecord
  <2>2. KeyOf[rpc[r].lease] \in targets
    BY <1>3, <2>1, UidType DEF StoreRevoke
  <2>3. Uid(rpc[r].lease) = uid
    BY <2>2 DEF KeysOf, Uid
  <2>4. rpc[r].scope # NoScope
    BY <1>3, <2>1, UidType, ConstantsOK DEF TypeOK
  <2>. QED  BY <1>1, <1>3, <2>3, <2>4
<1>. QED  BY <1>2, <1>3, StoreGuarded

\* A grant takes nothing away.
LEMMA GrantGuarded ==
    ASSUME TypeOK, TypeOK', OperationCoherent, NEW key \in Keys, NEW scopes,
           StoreGrant(key, scopes), UNCHANGED rpc
    PROVE  GuardStep
<1>1. \A k \in Keys : grants[k] \subseteq grants'[k]
  BY DEF StoreGrant, TypeOK
<1>2. ASSUME NEW r \in Rpcs
      PROVE  interrupted'[r] # interrupted[r] => rpc[r].pc = "running" /\ interrupted'[r]
  BY DEF StoreGrant, Interrupt, TypeOK
<1>3. \A r \in Rpcs : rpc[r].pc = "running" => KeyOf[rpc[r].lease] \in Keys
  BY UidType DEF TypeOK, RpcRecord
<1>. QED  BY <1>1, <1>2, <1>3, StoreGuarded

\* A lease's thread changes the store only by an approved grant, and no
\* operation at all.
LEMMA LeaseGuarded ==
    ASSUME TypeOK, TypeOK', OperationCoherent, NEW l \in Leases, LeaseStep(l)
    PROVE  GuardStep
<1>1. UNCHANGED rpc
  BY DEF LeaseStep, LeaseHello, CheckGrants, AcquirePromptLock,
         PromptAnswer, FencedGrant, RecheckGrants, CreateLease, AuthorizeRequest,
         CompleteAuthorization, LeasePoll, SubscribeRequest, SubscribeApply,
         SourceRefresh, EventFails, LeaseDisconnect, EndLease
<1>2. \/ UNCHANGED <<grants, interrupted>>
      \/ StoreGrant(KeyOf[l], conn[l].wanted \ conn[l].granted)
  BY DEF LeaseStep, LeaseHello, CheckGrants, AcquirePromptLock,
         PromptAnswer, FencedGrant, RecheckGrants, CreateLease, AuthorizeRequest,
         CompleteAuthorization, LeasePoll, SubscribeRequest, SubscribeApply,
         SourceRefresh, EventFails, LeaseDisconnect, EndLease, storeVars
<1>3. CASE UNCHANGED <<grants, interrupted>>
  BY <1>1, <1>3, SameOperation, GuardStutters
<1>. QED  BY <1>1, <1>2, <1>3, GrantGuarded, UidType

\* A step of one RPC thread that leaves the store alone moves only its own
\* operation.
LEMMA OwnOperation ==
    ASSUME NEW r \in Rpcs, NEW v, AbstractOp(r)' = v,
           \A q \in Rpcs : q # r => rpc'[q] = rpc[q] /\ interrupted'[q] = interrupted[q]
    PROVE  Op' = [Op EXCEPT ![r] = v]
BY SameOperation, OneOperation

\* An idle thread stays without an operation when it refreshes.
LEMMA RefreshGuarded ==
    ASSUME TypeOK, NEW r \in Rpcs, NEW o, NEW notify, NEW sent, NEW next,
           RpcRefresh(r, o, notify, sent, next), UNCHANGED <<grants, interrupted>>,
           rpc[r].pc \notin {"running", "syncing", "respond"},
           next.pc \notin {"running", "syncing", "respond"}
    PROVE  GuardStep
<1>1. /\ rpc'[r] = next \/ rpc'[r] = NoRpc
      /\ \A q \in Rpcs : q # r => rpc'[q] = rpc[q]
  BY DEF RpcRefresh, TypeOK
<1>2. rpc'[r].pc \notin {"running", "syncing", "respond"}
  BY <1>1 DEF NoRpc
<1>3. AbstractOp(r)' = AbstractOp(r)
  BY <1>2, OperationPhases, NextPhases
<1>. QED  BY <1>1, <1>3, SameOperation, GuardStutters

\* execute_operation admits an operation under a grant.
LEMMA BeginGuarded ==
    ASSUME TypeOK, CacheCoherent, OperationCoherent, NEW r \in Rpcs, ExecuteBegin(r)
    PROVE  GuardStep
<1>0. /\ rpc[r] \in RpcRecord /\ rpc[r].pc = "idle" /\ rpc[r].lease \in Leases
      /\ UNCHANGED <<grants, interrupted>> /\ ~interrupted[r]
  BY DEF ExecuteBegin, TypeOK, RpcRecord, storeVars, OperationCoherent
<1>. DEFINE begun(s, g) == [rpc[r] EXCEPT !.pc = "running", !.scope = s, !.before = g]
<1>1. PICK o \in RefreshOutcomes(rpc[r].lease, TRUE), sent \in BOOLEAN,
           scope \in Scopes \cup {NoScope} :
         \/ RpcRefresh(r, o, TRUE, sent, rpc[r])
         \/ /\ Holds(o.granted, scope)
            /\ RpcRefresh(r, o, TRUE, sent, begun(scope, o.generation))
  BY DEF ExecuteBegin
<1>2. CASE RpcRefresh(r, o, TRUE, sent, rpc[r])
  BY <1>0, <1>2, RefreshGuarded
<1>3. CASE /\ Holds(o.granted, scope)
           /\ RpcRefresh(r, o, TRUE, sent, begun(scope, o.generation))
  <2>1. /\ rpc'[r] = begun(scope, o.generation) \/ rpc'[r] = NoRpc
        /\ \A q \in Rpcs : q # r => rpc'[q] = rpc[q]
    BY <1>3 DEF RpcRefresh, TypeOK
  <2>2. CASE rpc'[r] = NoRpc
    <3>1. AbstractOp(r)' = AbstractOp(r)
      BY <1>0, <2>2, OperationPhases, NextPhases DEF NoRpc
    <3>. QED  BY <1>0, <2>1, <3>1, SameOperation, GuardStutters
  <2>3. CASE rpc'[r] = begun(scope, o.generation)
    <3>1. rpc'[r].pc = "running" /\ rpc'[r].scope = scope /\ rpc'[r].lease = rpc[r].lease
      BY <1>0, <2>3 DEF RpcRecord
    <3>. DEFINE key == KeyOf[rpc[r].lease]
    <3>2. key \in Keys /\ (scope = NoScope \/ scope \in grants[key])
      BY <1>0, <1>3, OutcomeFacts, UidType DEF Holds
    <3>3. AbstractOp(r)' = Work("working", key, scope, TRUE)
      <4>1. AbstractOp(r)' = Operation("working", r)'
        BY <3>1, NextPhases
      <4>2. (~interrupted'[r]) = TRUE
        BY <1>0, Zenon
      <4>. QED  BY <3>1, <4>1, <4>2 DEF Operation
    <3>. HIDE DEF key
    <3>4. Op' = [Op EXCEPT ![r] = Work("working", key, scope, TRUE)]
      BY <1>0, <2>1, <3>3, OwnOperation
    <3>5. Op[r].phase = "idle"
      BY <1>0, OperationPhases, IdleOperation DEF Op
    <3>6. Guard!Admit(r)
      BY <1>0, <3>2, <3>4, <3>5 DEF Guard!Admit, Op, Work
    <3>. QED  BY <3>6 DEF GuardStep, Guard!Next
  <2>. QED  BY <2>1, <2>2, <2>3
<1>. QED  BY <1>1, <1>2, <1>3

\* A thread whose operation only moves on.
Continues(r) ==
    /\ rpc'[r].lease = rpc[r].lease /\ rpc'[r].scope = rpc[r].scope
    /\ \A q \in Rpcs : interrupted'[q] = interrupted[q]
    /\ \A q \in Rpcs : q # r => rpc'[q] = rpc[q]

\* Its abstract operation changes its phase and nothing else.
LEMMA PhaseStep ==
    ASSUME NEW r \in Rpcs, NEW old, NEW new, Continues(r),
           AbstractOp(r) = Operation(old, r), AbstractOp(r)' = Operation(new, r)'
    PROVE  Op' = [Op EXCEPT ![r].phase = new] /\ Op[r] = Operation(old, r)
<1>1. Op[r] = Operation(old, r)
  BY DEF Op
<1>2. Operation(new, r)' = Operation(new, r)
  BY DEF Operation, Continues
<1>3. [Op[r] EXCEPT !.phase = new] = Operation(new, r)
  BY <1>1, OperationMoves
<1>4. Op' = [Op EXCEPT ![r] = Operation(new, r)]
  BY <1>2, OwnOperation DEF Continues
<1>. QED  BY <1>1, <1>3, <1>4

\* The final check releases, keeps or withholds the result.
LEMMA CheckGuarded ==
    ASSUME TypeOK, CacheCoherent, OperationCoherent, NEW r \in Rpcs, ExecuteCheck(r)
    PROVE  GuardStep
<1>0. /\ rpc[r] \in RpcRecord /\ rpc[r].pc = "running" /\ rpc[r].lease \in Leases
      /\ UNCHANGED <<grants, interrupted>>
  BY DEF ExecuteCheck, TypeOK, RpcRecord, storeVars
<1>1. PICK o \in RefreshOutcomes(rpc[r].lease, TRUE), sent \in BOOLEAN :
         \/ rpc' = [rpc EXCEPT ![r].pc = "respond", ![r].verdict = "withheld"]
         \/ /\ StillValid(r, o, sent)
            /\ rpc' = [rpc EXCEPT ![r].pc = "respond", ![r].verdict = "result"]
         \/ /\ StillValid(r, o, sent)
            /\ rpc' = [rpc EXCEPT ![r].pc = "syncing"]
  BY DEF ExecuteCheck
<1>2. StillValid(r, o, sent) => ~interrupted[r]
  <2>1. o.ok => o.generation = generation[Uid(rpc[r].lease)]
    BY <1>0, OutcomeFacts
  <2>2. generation[Uid(rpc[r].lease)] \in Nat
    BY <1>0, UidType DEF TypeOK
  <2>. QED  BY <1>0, <2>1, <2>2 DEF StillValid, Succeeds, OperationCoherent
<1>3. Continues(r)
  BY <1>0, <1>1 DEF Continues, TypeOK, RpcRecord
<1>4. \/ rpc'[r].pc = "respond" /\ rpc'[r].verdict = "withheld"
      \/ ~interrupted[r] /\ rpc'[r].pc = "respond" /\ rpc'[r].verdict = "result"
      \/ ~interrupted[r] /\ rpc'[r].pc = "syncing"
  BY <1>0, <1>1, <1>2 DEF TypeOK, RpcRecord
<1>5. AbstractOp(r) = Operation("working", r)
  BY <1>0, OperationPhases
<1>6. CASE rpc'[r].pc = "respond" /\ rpc'[r].verdict = "withheld"
  <2>1. AbstractOp(r)' = Operation("withheld", r)'
    BY <1>6, NextPhases
  <2>2. Op' = [Op EXCEPT ![r].phase = "withheld"] /\ Op[r] = Operation("working", r)
    BY <1>3, <1>5, <2>1, PhaseStep
  <2>3. Guard!Withhold(r)
    BY <1>0, <2>2, OperationFields DEF Guard!Withhold, Op
  <2>. QED  BY <2>3 DEF GuardStep, Guard!Next
<1>7. CASE ~interrupted[r] /\ rpc'[r].pc = "respond" /\ rpc'[r].verdict = "result"
  <2>1. AbstractOp(r)' = Operation("released", r)'
    BY <1>7, NextPhases
  <2>2. Op' = [Op EXCEPT ![r].phase = "released"] /\ Op[r] = Operation("working", r)
    BY <1>3, <1>5, <2>1, PhaseStep
  <2>3. Op[r].phase = "working" /\ Op[r].clean
    BY <1>7, <2>2, OperationFields, OperationClean
  <2>4. Guard!Release(r)
    BY <1>0, <2>2, <2>3 DEF Guard!Release, Op
  <2>. QED  BY <2>4 DEF GuardStep, Guard!Next
<1>8. CASE ~interrupted[r] /\ rpc'[r].pc = "syncing"
  <2>1. AbstractOp(r)' = Operation("checked", r)'
    BY <1>8, NextPhases
  <2>2. Op' = [Op EXCEPT ![r].phase = "checked"] /\ Op[r] = Operation("working", r)
    BY <1>3, <1>5, <2>1, PhaseStep
  <2>3. Op[r].phase = "working" /\ Op[r].clean
    BY <1>8, <2>2, OperationFields, OperationClean
  <2>4. Guard!Check(r)
    BY <1>0, <2>2, <2>3 DEF Guard!Check, Op
  <2>. QED  BY <2>4 DEF GuardStep, Guard!Next
<1>. QED  BY <1>4, <1>6, <1>7, <1>8

\* The confirmation of a checked window mutation releases or withholds it.
LEMMA SyncGuarded ==
    ASSUME TypeOK, OperationCoherent, NEW r \in Rpcs, OperationSync(r) \/ ChildSync(r)
    PROVE  GuardStep
<1>0. /\ rpc[r] \in RpcRecord /\ rpc[r].pc = "syncing"
      /\ UNCHANGED <<grants, interrupted>> /\ ~interrupted[r]
  BY DEF OperationSync, ChildSync, TypeOK, storeVars, OperationCoherent
<1>1. PICK verdict \in {"result", "withheld"} :
         rpc' = [rpc EXCEPT ![r].pc = "respond", ![r].verdict = verdict]
  BY DEF OperationSync, ChildSync
<1>2. Continues(r) /\ rpc'[r].pc = "respond" /\ rpc'[r].verdict = verdict
  BY <1>0, <1>1 DEF Continues, TypeOK, RpcRecord
<1>3. AbstractOp(r) = Operation("checked", r)
  BY <1>0, OperationPhases
<1>4. CASE verdict = "withheld"
  <2>1. AbstractOp(r)' = Operation("withheld", r)'
    BY <1>2, <1>4, NextPhases
  <2>2. Op' = [Op EXCEPT ![r].phase = "withheld"] /\ Op[r] = Operation("checked", r)
    BY <1>2, <1>3, <2>1, PhaseStep
  <2>3. Guard!Withhold(r)
    BY <1>0, <2>2, OperationFields DEF Guard!Withhold, Op
  <2>. QED  BY <2>3 DEF GuardStep, Guard!Next
<1>5. CASE verdict = "result"
  <2>1. AbstractOp(r)' = Operation("released", r)'
    BY <1>2, <1>5, NextPhases
  <2>2. Op' = [Op EXCEPT ![r].phase = "released"] /\ Op[r] = Operation("checked", r)
    BY <1>2, <1>3, <2>1, PhaseStep
  <2>3. Op[r].phase = "checked" /\ Op[r].clean
    BY <1>0, <2>2, OperationFields, OperationClean
  <2>4. Guard!Release(r)
    BY <1>0, <2>2, <2>3 DEF Guard!Release, Op
  <2>. QED  BY <2>4 DEF GuardStep, Guard!Next
<1>. QED  BY <1>4, <1>5

\* The answer is written and the operation is over.
LEMMA RespondGuarded ==
    ASSUME TypeOK, NEW r \in Rpcs, Respond(r)
    PROVE  GuardStep
<1>1. /\ rpc[r].pc = "respond" /\ rpc'[r].pc = "idle" /\ UNCHANGED grants
      /\ \A q \in Rpcs : q # r => rpc'[q] = rpc[q] /\ interrupted'[q] = interrupted[q]
  BY DEF Respond, TypeOK, RpcRecord
<1>2. AbstractOp(r)' = NoOperation
  BY <1>1, NextPhases
<1>3. Op' = [Op EXCEPT ![r] = NoOperation]
  BY <1>1, <1>2, OwnOperation
<1>4. Op[r].phase \in {"released", "withheld"}
  BY <1>1, OperationPhases, OperationFields DEF Op
<1>5. Guard!NoOperation = NoOperation
  BY DEF Guard!NoOperation, NoOperation, Work
<1>6. Guard!Done(r)
  BY <1>1, <1>3, <1>4, <1>5 DEF Guard!Done, Op
<1>. QED  BY <1>6 DEF GuardStep, Guard!Next

\* Every step of an RPC thread is a step of the promise.
LEMMA RpcGuarded ==
    ASSUME TypeOK, TypeOK', CacheCoherent, OperationCoherent, NEW r \in Rpcs,
           RpcStep(r)
    PROVE  GuardStep
<1>0. rpc[r] \in RpcRecord
  BY DEF TypeOK
<1>1. CASE \E l \in Leases : RpcBind(r, l)
  <2>1. /\ rpc[r].pc = "closed" /\ rpc'[r].pc = "bound"
        /\ UNCHANGED <<grants, interrupted>> /\ \A q \in Rpcs : q # r => rpc'[q] = rpc[q]
    BY <1>0, <1>1 DEF RpcBind, TypeOK, RpcRecord, storeVars
  <2>2. AbstractOp(r)' = AbstractOp(r)
    BY <2>1, OperationPhases, NextPhases
  <2>. QED  BY <2>1, <2>2, SameOperation, GuardStutters
<1>2. CASE RpcHello(r) \/ RevokeAck(r)
  <2>. DEFINE next == [rpc[r] EXCEPT !.pc = "idle"]
  <2>1. next.pc = "idle"
    BY <1>0 DEF RpcRecord
  <2>. HIDE DEF next
  <2>2. \E o, notify, sent : RpcRefresh(r, o, notify, sent, next)
    BY <1>2 DEF RpcHello, RevokeAck, next
  <2>. QED  BY <1>2, <2>1, <2>2, RefreshGuarded DEF RpcHello, RevokeAck, storeVars
<1>3. CASE RpcPoll(r)
  BY <1>3, RefreshGuarded DEF RpcPoll, storeVars
<1>4. CASE ExecuteBegin(r)
  BY <1>4, BeginGuarded
<1>5. CASE CaptureCheck(r)
  BY <1>5, SameOperation, GuardStutters DEF CaptureCheck, storeVars
<1>6. CASE ExecuteCheck(r)
  BY <1>6, CheckGuarded
<1>7. CASE OperationSync(r) \/ ChildSync(r)
  BY <1>7, SyncGuarded
<1>8. CASE Respond(r)
  BY <1>8, RespondGuarded
<1>9. CASE PermissionsRevoke(r)
  <2>1. rpc[r].lease \in Leases /\ Uid(rpc[r].lease) \in Uids
    BY <1>0, <1>9, UidType DEF PermissionsRevoke, TypeOK, RpcRecord
  <2>2. PICK scopes \in SUBSET Scopes,
             targets \in {{k} : k \in KeysOf(Uid(rpc[r].lease))}
                           \cup {KeysOf(Uid(rpc[r].lease))} :
          StoreRevoke(Uid(rpc[r].lease), targets, scopes)
    BY <1>9 DEF PermissionsRevoke
  <2>3. targets \in SUBSET KeysOf(Uid(rpc[r].lease))
    BY <2>2
  <2>4. \A q \in Rpcs : \/ rpc'[q] = rpc[q]
                        \/ rpc[q].pc = "idle" /\ rpc'[q].pc = "revoked"
    BY <1>0, <1>9 DEF PermissionsRevoke, TypeOK, RpcRecord
  <2>. QED  BY <2>1, <2>2, <2>3, <2>4, RevokeGuarded
<1>10. CASE RpcClose(r)
  <2>1. /\ rpc[r].pc = "idle" /\ rpc'[r].pc = "closed"
        /\ UNCHANGED <<grants, interrupted>> /\ \A q \in Rpcs : q # r => rpc'[q] = rpc[q]
    BY <1>10 DEF RpcClose, TypeOK, NoRpc, storeVars
  <2>2. AbstractOp(r)' = AbstractOp(r)
    BY <2>1, OperationPhases, NextPhases
  <2>. QED  BY <2>1, <2>2, SameOperation, GuardStutters
<1>. QED
  BY <1>1, <1>2, <1>3, <1>4, <1>5, <1>6, <1>7, <1>8, <1>9, <1>10 DEF RpcStep

\* The daemon implements the promise of GrantGuard: whatever leases, caches,
\* prompts and refreshes do, each of its steps is an abstract one or invisible.
THEOREM GuardCorrect == Spec => ImplementsGuard
<1>1. Init => Guard!Init
  <2>. SUFFICES ASSUME Init PROVE Guard!Init
    OBVIOUS
  <2>1. \A r \in Rpcs : rpc[r].pc = "closed"
    BY DEF Init, NoRpc
  <2>2. \A r \in Rpcs : AbstractOp(r) = NoOperation
    BY <2>1, OperationPhases
  <2>3. Guard!NoOperation = NoOperation
    BY DEF Guard!NoOperation, NoOperation, Work
  <2>. QED  BY <2>2, <2>3 DEF Init, Guard!Init
<1>2. Inductive /\ [Next]_vars => GuardStep
  <2>. SUFFICES ASSUME Inductive, [Next]_vars PROVE GuardStep
    OBVIOUS
  <2>0. TypeOK /\ TypeOK' /\ CacheCoherent /\ OperationCoherent
    BY NextType DEF Inductive
  <2>1. ASSUME NEW l \in Leases, LeaseStep(l) PROVE GuardStep
    BY <2>0, <2>1, LeaseGuarded
  <2>2. ASSUME NEW r \in Rpcs, RpcStep(r) PROVE GuardStep
    BY <2>0, <2>2, RpcGuarded
  <2>3. CASE OtherAuthority
    <3>1. ASSUME NEW k \in Keys, NEW s \in Scopes, StoreRevoke(UidOf[k], {k}, {s})
          PROVE  GuardStep
      <4>1. UidOf[k] \in Uids /\ {k} \in SUBSET KeysOf(UidOf[k])
        BY ConstantsOK DEF KeysOf
      <4>2. \A r \in Rpcs : rpc'[r] = rpc[r]
        BY <2>3 DEF OtherAuthority
      <4>. QED  BY <2>0, <3>1, <4>1, <4>2, RevokeGuarded
    <3>2. ASSUME NEW k \in Keys, NEW s, StoreGrant(k, {s})
          PROVE  GuardStep
      BY <2>0, <2>3, <3>2, GrantGuarded DEF OtherAuthority
    <3>. QED  BY <2>3, <3>1, <3>2 DEF OtherAuthority
  <2>4. CASE (\E l \in Leases : IdentityLost(l)) \/ UNCHANGED vars
    BY <2>4, SameOperation, GuardStutters DEF IdentityLost, vars
  <2>. QED  BY <2>1, <2>2, <2>3, <2>4 DEF Next
<1>. QED
  BY <1>1, <1>2, InductiveCorrect, PTL DEF Spec, ImplementsGuard, Guard!Spec, GuardStep

-----------------------------------------------------------------------------
(* References. *)

\* The RPC threads that hold a reference to a lease.
Holders(l) == {r \in Rpcs : rpc[r].lease = l}

Live == {"idle", "subscribe", "closing"}

\* What LeaseReferences says of one lease, and that a lease nobody refers to is
\* inactive, which keeps RPC threads from binding to one that is only being
\* asked for.
Counted(l) ==
    /\ lease[l].refs = Cardinality(Holders(l))
         + (IF conn[l].pc \in {"closed"} \/ lease[l].refs = 0 THEN 0 ELSE 1)
    /\ conn[l].pc \in Live => lease[l].refs > 0
    /\ lease[l].active => conn[l].pc # "closed" /\ lease[l].refs > 0
    /\ ~lease[l].active => lease[l].granted = {}

\* The holders can be counted.
LEMMA HoldersFinite ==
    ASSUME NEW l
    PROVE  /\ IsFiniteSet(Holders(l)) /\ Cardinality(Holders(l)) \in Nat
           /\ \A r \in Rpcs : rpc[r].lease = l => Cardinality(Holders(l)) > 0
<1>1. IsFiniteSet(Holders(l)) /\ Cardinality(Holders(l)) \in Nat
  BY RpcsFinite, FS_Subset, FS_CardinalityType DEF Holders
<1>2. ASSUME NEW r \in Rpcs, rpc[r].lease = l PROVE Cardinality(Holders(l)) > 0
  <2>1. Holders(l) # {}
    BY <1>2 DEF Holders
  <2>. QED  BY <1>1, <2>1, FS_EmptySet
<1>. QED  BY <1>1, <1>2

\* A lease record after a step that neither takes nor drops a reference to it.
Quiet(old, new) ==
    /\ new.refs = old.refs
    /\ new.active => old.active
    /\ ~new.active => new.granted = {}

\* A refresh is such a step: an inactive lease is granted nothing, and one
\* that is deactivated loses its grants.
LEMMA RefreshQuiet ==
    ASSUME TypeOK, NEW l \in Leases, Counted(l), NEW force, NEW notify \in BOOLEAN,
           NEW sent \in BOOLEAN, NEW o \in RefreshOutcomes(l, force)
    PROVE  Quiet(lease[l], Refreshed(l, o, notify, sent))
<1>1. lease[l] \in LeaseRecord
  BY DEF TypeOK
<1>2. ~lease[l].active => o.granted = {}
  BY DEF RefreshOutcomes
<1>. DEFINE R == Refreshed(l, o, notify, sent)
<1>3. /\ R.refs = lease[l].refs
      /\ R.active <=> lease[l].active /\ (Announces(l, o, notify) => sent)
      /\ R.granted = IF Announces(l, o, notify) /\ ~sent THEN {} ELSE o.granted
  BY <1>1 DEF Refreshed, LeaseRecord
<1>. QED  BY <1>2, <1>3 DEF Quiet

\* lease_emit failing is one, too.
LEMMA DeactivatedQuiet ==
    ASSUME NEW L \in LeaseRecord
    PROVE  Quiet(L, Deactivated(L)) /\ ~Deactivated(L).active
BY DEF Quiet, Deactivated, LeaseRecord

\* Quiet steps of a connection that stays open keep the count.
LEMMA QuietCounted ==
    ASSUME NEW l \in Leases, Counted(l), Quiet(lease[l], lease'[l]),
           Holders(l)' = Holders(l),
           \/ conn'[l].pc = conn[l].pc
           \/ /\ conn[l].pc # "closed" /\ conn'[l].pc # "closed"
              /\ conn'[l].pc \in Live => conn[l].pc \in Live \/ lease[l].refs > 0
    PROVE  Counted(l)'
BY DEF Counted, Quiet

\* A lease that nobody changes is counted as before.
LEMMA StillCounted ==
    ASSUME TypeOK, NEW l \in Leases, Counted(l), lease'[l] = lease[l],
           conn'[l] = conn[l], Holders(l)' = Holders(l)
    PROVE  Counted(l)'
BY DEF Counted

\* The last reference frees the lease; another one only leaves.
LEMMA ReleasedCases ==
    ASSUME NEW L \in LeaseRecord
    PROVE  \/ L.refs = 1 /\ Released(L) = NoLeaseRecord
           \/ /\ L.refs # 1 /\ Released(L).refs = L.refs - 1
              /\ Released(L).active = L.active /\ Released(L).granted = L.granted
BY DEF Released, LeaseRecord

\* A lease thread changes no other lease.
LEMMA OtherLeases ==
    ASSUME TypeOK, NEW l \in Leases, LeaseStep(l), NEW m \in Leases, m # l
    PROVE  lease'[m] = lease[m] /\ conn'[m] = conn[m]
<1>1. lease'[m] = lease[m]
  BY DEF LeaseStep, LeaseHello, CheckGrants, AcquirePromptLock, PromptAnswer,
         FencedGrant, RecheckGrants, CreateLease, AuthorizeRequest,
         CompleteAuthorization, LeasePoll, SubscribeRequest, SubscribeApply,
         SourceRefresh, EventFails, LeaseDisconnect, EndLease, TypeOK
<1>. QED  BY <1>1, LeaseStepLocal

\* Where authorize_scopes leads its connection.
LEMMA AuthorizeStages ==
    ASSUME TypeOK, NEW l \in Leases,
           CheckGrants(l) \/ AcquirePromptLock(l) \/ PromptAnswer(l)
           \/ FencedGrant(l) \/ RecheckGrants(l)
    PROVE  /\ conn[l].pc \in ConnStages \ (Live \cup {"closed"})
           /\ conn'[l].pc \in ConnStages \ (Live \cup {"closed"})
           /\ UNCHANGED <<lease, rpc>>
<1>0. conn[l] \in ConnRecord
  BY DEF TypeOK
<1>1. ASSUME NEW session \in ConnRecord, NEW status, Finish(l, session, status)
      PROVE  conn'[l].pc = "finish"
  BY <1>1 DEF Finish, TypeOK, ConnRecord
<1>2. ASSUME NEW session \in ConnRecord, NEW stage,
             conn' = [conn EXCEPT ![l] = [session EXCEPT !.pc = stage]]
      PROVE  conn'[l].pc = stage
  BY <1>2 DEF TypeOK, ConnRecord
<1>. DEFINE asked == [conn[l] EXCEPT !.requested = @ \cup conn[l].wanted]
<1>3. asked \in ConnRecord
  BY <1>0 DEF ConnRecord
<1>4. Reread(l, asked) \in ConnRecord /\ Reread(l, conn[l]) \in ConnRecord
  BY <1>0, <1>3, ReadType
<1>. HIDE DEF asked
<1>5. conn'[l].pc \in {"finish", "lock", "prompt", "approved", "recheck"}
  <2>1. CASE CheckGrants(l)
    <3>1. \/ \E st : Finish(l, asked, st) \/ Finish(l, Reread(l, asked), st)
          \/ conn' = [conn EXCEPT ![l] = [Reread(l, asked) EXCEPT !.pc = "lock"]]
      BY <2>1 DEF CheckGrants, asked
    <3>. QED  BY <1>1, <1>2, <1>3, <1>4, <3>1
  <2>2. CASE AcquirePromptLock(l)
    BY <1>0, <1>1, <1>2, <1>4, <2>2 DEF AcquirePromptLock
  <2>3. CASE PromptAnswer(l)
    BY <1>0, <1>1, <2>3 DEF PromptAnswer, TypeOK, ConnRecord
  <2>4. CASE FencedGrant(l)
    BY <1>0, <1>1, <2>4 DEF FencedGrant, TypeOK, ConnRecord
  <2>5. CASE RecheckGrants(l)
    BY <1>0, <1>1, <1>4, <2>5 DEF RecheckGrants
  <2>. QED  BY <2>1, <2>2, <2>3, <2>4, <2>5
<1>. QED
  BY <1>5 DEF CheckGrants, AcquirePromptLock, PromptAnswer, FencedGrant,
         RecheckGrants, Live, ConnStages

\* Every step of a lease thread keeps the count of its lease.
LEMMA LeaseCounted ==
    ASSUME TypeOK, NEW l \in Leases, Counted(l), LeaseStep(l)
    PROVE  Counted(l)'
<1>0. conn[l] \in ConnRecord /\ lease[l] \in LeaseRecord
  BY DEF TypeOK
<1>a. Holders(l)' = Holders(l)
  BY DEF Holders, LeaseStep, LeaseHello, CheckGrants, AcquirePromptLock,
         PromptAnswer, FencedGrant, RecheckGrants, CreateLease, AuthorizeRequest,
         CompleteAuthorization, LeasePoll, SubscribeRequest, SubscribeApply,
         SourceRefresh, EventFails, LeaseDisconnect, EndLease
<1>b. Cardinality(Holders(l)) \in Nat
  BY HoldersFinite
<1>1. CASE LeaseHello(l)
  <2>1. /\ conn[l].pc = "closed" /\ lease[l].refs = 0 /\ UNCHANGED lease
        /\ conn'[l].pc \in {"finish", "check"}
    BY <1>1 DEF LeaseHello, TypeOK, NoConn
  <2>. QED  BY <1>a, <1>b, <2>1 DEF Counted, Live
<1>2. CASE CheckGrants(l) \/ AcquirePromptLock(l) \/ PromptAnswer(l)
           \/ FencedGrant(l) \/ RecheckGrants(l)
  <2>1. Quiet(lease[l], lease'[l])
    BY <1>2, AuthorizeStages DEF Quiet, Counted
  <2>. QED  BY <1>2, <1>a, <2>1, AuthorizeStages, QuietCounted
<1>3. CASE CreateLease(l)
  <2>0. lease[l].refs = 0 /\ conn[l].pc = "finish"
    BY <1>3 DEF CreateLease
  <2>1. Cardinality(Holders(l)) = 0
    BY <1>b, <2>0 DEF Counted
  <2>2. CASE conn' = [conn EXCEPT ![l] = NoConn] /\ UNCHANGED lease
    <3>1. conn'[l].pc = "closed" /\ lease'[l] = lease[l]
      BY <2>2 DEF TypeOK, NoConn
    <3>. QED  BY <1>a, <2>0, <2>1, <3>1 DEF Counted, Live
  <2>3. CASE /\ lease' = [lease EXCEPT ![l] =
                  [active |-> TRUE, requested |-> conn[l].requested,
                   granted |-> conn[l].granted, generation |-> conn[l].generation,
                   domains |-> {}, refs |-> 1]]
             /\ conn' = [conn EXCEPT ![l] = [NoConn EXCEPT !.pc = "idle"]]
    <3>1. conn'[l].pc = "idle" /\ lease'[l].refs = 1 /\ lease'[l].active
      BY <2>3 DEF TypeOK, NoConn
    <3>. QED  BY <1>a, <2>1, <3>1 DEF Counted
  <2>. QED  BY <1>3, <2>2, <2>3 DEF CreateLease
<1>4. CASE AuthorizeRequest(l) \/ LeasePoll(l) \/ SubscribeRequest(l)
  <2>1. PICK force \in BOOLEAN : \E o \in RefreshOutcomes(l, force), sent \in BOOLEAN :
          lease' = [lease EXCEPT ![l] = Refreshed(l, o, TRUE, sent)]
    BY <1>4 DEF AuthorizeRequest, LeasePoll, SubscribeRequest
  <2>2. Quiet(lease[l], lease'[l])
    <3>1. PICK o \in RefreshOutcomes(l, force), sent \in BOOLEAN :
            lease' = [lease EXCEPT ![l] = Refreshed(l, o, TRUE, sent)]
      BY <2>1
    <3>2. lease'[l] = Refreshed(l, o, TRUE, sent)
      BY <3>1 DEF TypeOK
    <3>. QED  BY <3>2, RefreshQuiet
  <2>3. conn[l].pc = "idle" /\ lease[l].refs > 0
    BY <1>4 DEF AuthorizeRequest, LeasePoll, SubscribeRequest, Counted, Live
  <2>4. conn'[l].pc # "closed"
    <3>1. \A p \in ConnStages, st \in Statuses : \A w, q, g, n :
            [conn[l] EXCEPT !.pc = p, !.status = st, !.wanted = w, !.requested = q,
                            !.granted = g, !.generation = n].pc = p
      BY <1>0 DEF ConnRecord
    <3>2. \A p \in ConnStages : \A w :
            /\ [conn[l] EXCEPT !.pc = p].pc = p
            /\ [conn[l] EXCEPT !.pc = p, !.wanted = w].pc = p
      BY <1>0 DEF ConnRecord
    <3>3. CASE AuthorizeRequest(l)
      BY <3>1, <3>2, <3>3 DEF AuthorizeRequest, ConnAfter, TypeOK, ConnStages, Statuses
    <3>4. CASE LeasePoll(l)
      BY <2>3, <3>2, <3>4 DEF LeasePoll, ConnAfter, TypeOK, ConnStages
    <3>5. CASE SubscribeRequest(l)
      <4>1. PICK o, sent, domains :
              ConnAfter(l, o, TRUE, sent,
                IF domains \subseteq o.granted
                THEN [conn[l] EXCEPT !.pc = "subscribe", !.wanted = domains]
                ELSE conn[l])
        BY <3>5 DEF SubscribeRequest
      <4>2. \/ conn'[l] = [conn[l] EXCEPT !.pc = "closing"]
            \/ conn'[l] = [conn[l] EXCEPT !.pc = "subscribe", !.wanted = domains]
            \/ conn'[l] = conn[l]
        BY <4>1 DEF ConnAfter, TypeOK
      <4>3. "closing" \in ConnStages /\ "subscribe" \in ConnStages
        BY DEF ConnStages
      <4>. QED  BY <2>3, <3>2, <4>2, <4>3
    <3>. QED  BY <1>4, <3>3, <3>4, <3>5
  <2>. QED  BY <1>a, <2>2, <2>3, <2>4, QuietCounted DEF Live
<1>5. CASE CompleteAuthorization(l)
  <2>1. conn[l].pc = "finish" /\ lease[l].refs > 0
    BY <1>5 DEF CompleteAuthorization
  <2>2. PICK current \in {c \in BOOLEAN : c => lease[l].active /\ trusted[l]},
             sent \in BOOLEAN :
          LET L == lease[l]
              requested == L.requested \cup conn[l].requested
              granted == IF current THEN grants[KeyOf[l]] \cap requested ELSE {}
              announced == granted # L.granted
              ok == current /\ (announced => sent)
          IN  /\ lease' = [lease EXCEPT ![l] =
                   [L EXCEPT !.requested = requested,
                             !.granted = IF announced /\ ~sent THEN {} ELSE granted,
                             !.generation = IF current THEN generation[Uid(l)] ELSE @,
                             !.domains = @ \ (L.granted \ granted),
                             !.active = @ /\ ok]]
              /\ conn' = [conn EXCEPT ![l] =
                   [NoConn EXCEPT !.pc = IF ok THEN "idle" ELSE "closing",
                                  !.source = conn[l].source]]
    BY <1>5 DEF CompleteAuthorization
  <2>. DEFINE granted == IF current THEN grants[KeyOf[l]] \cap (lease[l].requested \cup conn[l].requested) ELSE {}
              announced == granted # lease[l].granted
              ok == current /\ (announced => sent)
  <2>3. /\ lease'[l].refs = lease[l].refs
        /\ lease'[l].active <=> lease[l].active /\ ok
        /\ lease'[l].granted = IF announced /\ ~sent THEN {} ELSE granted
    BY <1>0, <2>2 DEF TypeOK, LeaseRecord
  <2>4. ~current => granted = {}
    OBVIOUS
  <2>5. current => lease[l].active
    BY <2>2
  <2>6. conn'[l].pc \in {"idle", "closing"}
    BY <2>2 DEF TypeOK, NoConn
  <2>. HIDE DEF granted
  <2>7. Quiet(lease[l], lease'[l])
    BY <2>3, <2>4, <2>5 DEF Quiet
  <2>. QED  BY <1>a, <2>1, <2>6, <2>7, QuietCounted DEF Live
<1>6. CASE SubscribeApply(l)
  <2>1. \E old \in {lease[l], Deactivated(lease[l])} :
          lease' = [lease EXCEPT ![l] = [old EXCEPT !.domains = conn[l].wanted]]
    BY <1>6 DEF SubscribeApply
  <2>2. \A old \in LeaseRecord :
          /\ [old EXCEPT !.domains = conn[l].wanted].refs = old.refs
          /\ [old EXCEPT !.domains = conn[l].wanted].active = old.active
          /\ [old EXCEPT !.domains = conn[l].wanted].granted = old.granted
    BY DEF LeaseRecord
  <2>3. Quiet(lease[l], lease[l])
    BY DEF Quiet, Counted
  <2>4. Deactivated(lease[l]) \in LeaseRecord /\ Quiet(lease[l], Deactivated(lease[l]))
    BY <1>0, DeactivatedType, DeactivatedQuiet
  <2>5. Quiet(lease[l], lease'[l])
    BY <1>0, <2>1, <2>2, <2>3, <2>4 DEF Quiet, TypeOK
  <2>6. conn[l].pc = "subscribe" /\ conn'[l].pc \in {"idle", "closing"}
    BY <1>0, <1>6 DEF SubscribeApply, TypeOK, ConnRecord
  <2>. QED  BY <1>a, <2>5, <2>6, QuietCounted DEF Live
<1>7. CASE SourceRefresh(l)
  <2>1. PICK force \in BOOLEAN : \E o \in RefreshOutcomes(l, force), sent \in BOOLEAN :
          /\ lease' = [lease EXCEPT ![l] = Refreshed(l, o, TRUE, sent)]
          /\ conn' = [conn EXCEPT ![l].source = Succeeds(l, o, TRUE, sent)]
    BY <1>7 DEF SourceRefresh
  <2>0. PICK o \in RefreshOutcomes(l, force), sent \in BOOLEAN :
          /\ lease' = [lease EXCEPT ![l] = Refreshed(l, o, TRUE, sent)]
          /\ conn' = [conn EXCEPT ![l].source = Succeeds(l, o, TRUE, sent)]
    BY <2>1
  <2>2. Quiet(lease[l], lease'[l])
    <3>1. lease'[l] = Refreshed(l, o, TRUE, sent)
      BY <2>0 DEF TypeOK
    <3>. QED  BY <3>1, RefreshQuiet
  <2>3. conn'[l].pc = conn[l].pc
    BY <1>0, <2>0 DEF TypeOK, ConnRecord
  <2>. QED  BY <1>a, <2>2, <2>3, QuietCounted
<1>8. CASE EventFails(l) \/ LeaseDisconnect(l)
  <2>1. conn[l].pc = "idle" /\ conn'[l].pc = "closing"
    BY <1>0, <1>8 DEF EventFails, LeaseDisconnect, TypeOK, ConnRecord
  <2>2. Quiet(lease[l], lease'[l])
    BY <1>0, <1>8, DeactivatedQuiet DEF EventFails, LeaseDisconnect, TypeOK, Quiet, Counted
  <2>. QED  BY <1>a, <2>1, <2>2, QuietCounted DEF Live
<1>9. CASE EndLease(l)
  <2>. DEFINE D == Deactivated(lease[l])
  <2>1. D \in LeaseRecord /\ D.refs = lease[l].refs /\ ~D.active /\ D.granted = {}
    BY <1>0, DeactivatedType, DeactivatedQuiet DEF Quiet
  <2>2. /\ conn[l].pc = "closing" /\ conn'[l].pc = "closed" /\ lease'[l] = Released(D)
    BY <1>9 DEF EndLease, TypeOK, NoConn
  <2>3. lease[l].refs = Cardinality(Holders(l)) + 1
    BY <1>b, <2>2 DEF Counted, Live
  <2>. HIDE DEF D
  <2>4. CASE D.refs = 1 /\ Released(D) = NoLeaseRecord
    BY <1>a, <1>b, <2>1, <2>2, <2>3, <2>4 DEF Counted, NoLeaseRecord, Live
  <2>5. CASE /\ D.refs # 1 /\ Released(D).refs = D.refs - 1
             /\ Released(D).active = D.active /\ Released(D).granted = D.granted
    BY <1>a, <1>b, <2>1, <2>2, <2>3, <2>5 DEF Counted, Live
  <2>. QED  BY <2>1, <2>4, <2>5, ReleasedCases
<1>. QED
  BY <1>1, <1>2, <1>3, <1>4, <1>5, <1>6, <1>7, <1>8, <1>9 DEF LeaseStep

\* An RPC thread that drops its reference.
LEMMA DropCounted ==
    ASSUME TypeOK, NEW r \in Rpcs, NEW l \in Leases, rpc[r].lease = l, Counted(l),
           NEW L \in LeaseRecord, Quiet(lease[l], L),
           lease' = [lease EXCEPT ![l] = Released(L)],
           UNCHANGED conn, rpc' = [rpc EXCEPT ![r] = NoRpc]
    PROVE  Counted(l)'
<1>. DEFINE n == Cardinality(Holders(l))
<1>1. lease'[l] = Released(L) /\ conn'[l] = conn[l]
  BY DEF TypeOK
<1>2. r \in Holders(l) /\ Holders(l)' = Holders(l) \ {r}
  <2>1. NoRpc.lease # l
    BY ConstantsOK DEF NoRpc
  <2>2. \A q \in Rpcs : rpc'[q] = IF q = r THEN NoRpc ELSE rpc[q]
    BY DEF TypeOK
  <2>. QED  BY <2>1, <2>2 DEF Holders
<1>3. n \in Nat /\ n > 0 /\ IsFiniteSet(Holders(l))
  BY HoldersFinite
<1>4. Cardinality(Holders(l)') = n - 1
  BY <1>2, <1>3, FS_RemoveElement, ZenonT(40)
<1>5. lease[l].refs = n + (IF conn[l].pc \in {"closed"} \/ lease[l].refs = 0 THEN 0 ELSE 1)
  BY DEF Counted
<1>. HIDE DEF n
<1>6. lease[l].refs = n + (IF conn[l].pc = "closed" THEN 0 ELSE 1)
  BY <1>3, <1>5
<1>a. /\ conn[l].pc \in Live => conn[l].pc # "closed"
      /\ conn[l].pc \in Live => lease[l].refs > 0
      /\ lease[l].active => conn[l].pc # "closed"
  BY DEF Counted, Live
<1>b. /\ L.refs = lease[l].refs /\ (L.active => lease[l].active)
      /\ ~L.active => L.granted = {}
  BY DEF Quiet
<1>7. CASE L.refs = 1 /\ Released(L) = NoLeaseRecord
  <2>1. n = 1 /\ conn[l].pc = "closed"
    BY <1>3, <1>6, <1>7, <1>b
  <2>2. /\ lease'[l].refs = 0 /\ ~lease'[l].active /\ lease'[l].granted = {}
        /\ conn'[l].pc = "closed" /\ Cardinality(Holders(l)') = 0
    BY <1>1, <1>4, <1>7, <2>1 DEF NoLeaseRecord
  <2>. QED  BY <2>2 DEF Counted, Live
<1>8. CASE /\ L.refs # 1 /\ Released(L).refs = L.refs - 1
           /\ Released(L).active = L.active /\ Released(L).granted = L.granted
  <2>1. /\ lease'[l].refs = lease[l].refs - 1 /\ lease[l].refs # 1
        /\ lease'[l].active => lease[l].active
        /\ ~lease'[l].active => lease'[l].granted = {}
    BY <1>1, <1>8, <1>b
  <2>2. /\ Cardinality(Holders(l)') = n - 1 /\ conn'[l].pc = conn[l].pc
        /\ lease'[l].refs > 0
        /\ lease'[l].refs = (n - 1) + (IF conn[l].pc = "closed" THEN 0 ELSE 1)
    BY <1>1, <1>3, <1>4, <1>6, <2>1
  <2>. QED  BY <1>3, <1>a, <2>1, <2>2 DEF Counted
<1>. QED  BY <1>7, <1>8, ReleasedCases

\* Every step of an RPC thread keeps the count of every lease.
LEMMA RpcCounted ==
    ASSUME TypeOK, NEW r \in Rpcs, RpcStep(r), \A l \in Leases : Counted(l),
           NEW m \in Leases
    PROVE  Counted(m)'
<1>0. /\ rpc[r] \in RpcRecord
      /\ rpc[r].pc # "closed" => rpc[r].lease \in Leases
      /\ rpc[r].pc = "closed" => rpc[r].lease = NoLease
  BY DEF TypeOK, RpcRecord
<1>a. UNCHANGED conn
  BY DEF RpcStep, RpcBind, RpcHello, RpcPoll, ExecuteBegin, CaptureCheck,
         ExecuteCheck, OperationSync, ChildSync, Respond, PermissionsRevoke, RevokeAck, RpcClose
<1>b. ASSUME \A q \in Rpcs : rpc'[q].lease = rpc[q].lease
      PROVE  Holders(m)' = Holders(m)
  BY <1>b DEF Holders
<1>c. ASSUME rpc[r].lease \in Leases, NEW L \in LeaseRecord,
             Quiet(lease[rpc[r].lease], L),
             lease' = [lease EXCEPT ![rpc[r].lease] = L],
             \A q \in Rpcs : rpc'[q].lease = rpc[q].lease
      PROVE  Counted(m)'
  <2>1. CASE m = rpc[r].lease
    BY <1>a, <1>b, <1>c, <2>1, QuietCounted DEF TypeOK
  <2>2. CASE m # rpc[r].lease
    BY <1>a, <1>b, <1>c, <2>2, StillCounted DEF TypeOK
  <2>. QED  BY <2>1, <2>2
<1>d. ASSUME rpc[r].lease \in Leases, NEW L \in LeaseRecord,
             Quiet(lease[rpc[r].lease], L),
             lease' = [lease EXCEPT ![rpc[r].lease] = Released(L)],
             rpc' = [rpc EXCEPT ![r] = NoRpc]
      PROVE  Counted(m)'
  <2>1. CASE m = rpc[r].lease
    BY <1>a, <1>d, <2>1, DropCounted
  <2>2. CASE m # rpc[r].lease
    <3>1. Holders(m)' = Holders(m)
      BY <1>d, <2>2, ConstantsOK DEF Holders, TypeOK, NoRpc
    <3>. QED  BY <1>a, <1>d, <2>2, <3>1, StillCounted DEF TypeOK
  <2>. QED  BY <2>1, <2>2
<1>e. ASSUME rpc[r].lease \in Leases, NEW force \in BOOLEAN, NEW notify \in BOOLEAN,
             NEW sent \in BOOLEAN, NEW o \in RefreshOutcomes(rpc[r].lease, force),
             NEW next, next.lease = rpc[r].lease,
             RpcRefresh(r, o, notify, sent, next)
      PROVE  Counted(m)'
  <2>. DEFINE L == Refreshed(rpc[r].lease, o, notify, sent)
  <2>1. L \in LeaseRecord
    BY <1>e, OutcomeType, RefreshedType
  <2>2. Quiet(lease[rpc[r].lease], L)
    BY <1>e, RefreshQuiet
  <2>3. \/ /\ lease' = [lease EXCEPT ![rpc[r].lease] = L]
           /\ rpc' = [rpc EXCEPT ![r] = next]
        \/ /\ lease' = [lease EXCEPT ![rpc[r].lease] = Released(L)]
           /\ rpc' = [rpc EXCEPT ![r] = NoRpc]
    BY <1>e DEF RpcRefresh
  <2>. HIDE DEF L
  <2>4. CASE /\ lease' = [lease EXCEPT ![rpc[r].lease] = L]
             /\ rpc' = [rpc EXCEPT ![r] = next]
    <3>1. \A q \in Rpcs : rpc'[q].lease = rpc[q].lease
      BY <1>e, <2>4 DEF TypeOK
    <3>. QED  BY <1>c, <1>e, <2>1, <2>2, <2>4, <3>1
  <2>5. CASE /\ lease' = [lease EXCEPT ![rpc[r].lease] = Released(L)]
             /\ rpc' = [rpc EXCEPT ![r] = NoRpc]
    BY <1>d, <1>e, <2>1, <2>2, <2>5
  <2>. QED  BY <2>3, <2>4, <2>5
<1>1. ASSUME NEW l \in Leases, RpcBind(r, l) PROVE Counted(m)'
  <2>1. /\ rpc[r].lease # l /\ lease[l] \in LeaseRecord /\ lease[l].active
        /\ \A q \in Rpcs : rpc'[q].lease = IF q = r THEN l ELSE rpc[q].lease
    BY <1>0, <1>1, ConstantsOK DEF RpcBind, TypeOK, RpcRecord
  <2>a. rpc[r].lease = NoLease
    BY <1>0, <1>1 DEF RpcBind
  <2>2. CASE m = l
    <3>1. Holders(l)' = Holders(l) \cup {r} /\ r \notin Holders(l)
      BY <2>1 DEF Holders
    <3>2. Cardinality(Holders(l)') = Cardinality(Holders(l)) + 1
      BY <3>1, HoldersFinite, FS_AddElement
    <3>3. /\ lease'[l].refs = lease[l].refs + 1 /\ lease'[l].active
      BY <1>1, <2>1 DEF RpcBind, TypeOK, LeaseRecord
    <3>4. Cardinality(Holders(l)) \in Nat
      BY HoldersFinite
    <3>5. conn[l].pc # "closed" /\ lease[l].refs > 0
      BY <2>1 DEF Counted
    <3>6. lease[l].refs = Cardinality(Holders(l)) + 1
      BY <3>4, <3>5 DEF Counted
    <3>. QED  BY <1>a, <2>2, <3>2, <3>3, <3>4, <3>5, <3>6 DEF Counted
  <2>3. CASE m # l
    <3>1. Holders(m)' = Holders(m)
      BY <1>0, <2>3, <2>1, <2>a, ConstantsOK DEF Holders
    <3>. QED  BY <1>1, <1>a, <2>3, <3>1, StillCounted DEF RpcBind, TypeOK
  <2>. QED  BY <2>2, <2>3
<1>2. CASE RpcHello(r) \/ RevokeAck(r)
  <2>. DEFINE next == [rpc[r] EXCEPT !.pc = "idle"]
  <2>1. next.lease = rpc[r].lease
    BY <1>0 DEF RpcRecord
  <2>. HIDE DEF next
  <2>2. \E o \in RefreshOutcomes(rpc[r].lease, TRUE), notify \in BOOLEAN, sent \in BOOLEAN :
          RpcRefresh(r, o, notify, sent, next)
    BY <1>2 DEF RpcHello, RevokeAck, next
  <2>3. rpc[r].lease \in Leases
    BY <1>0, <1>2 DEF RpcHello, RevokeAck
  <2>. QED  BY <1>e, <2>1, <2>2, <2>3
<1>3. CASE RpcPoll(r)
  BY <1>0, <1>3, <1>e DEF RpcPoll
<1>4. CASE ExecuteBegin(r)
  <2>1. \A s, g : [rpc[r] EXCEPT !.pc = "running", !.scope = s, !.before = g].lease
                    = rpc[r].lease
    BY <1>0 DEF RpcRecord
  <2>2. \E o \in RefreshOutcomes(rpc[r].lease, TRUE), sent \in BOOLEAN : \E next :
          next.lease = rpc[r].lease /\ RpcRefresh(r, o, TRUE, sent, next)
    BY <1>4, <2>1 DEF ExecuteBegin
  <2>. QED  BY <1>0, <1>4, <1>e, <2>2 DEF ExecuteBegin
<1>5. CASE CaptureCheck(r) \/ ExecuteCheck(r)
  <2>1. PICK o \in RefreshOutcomes(rpc[r].lease, TRUE), sent \in BOOLEAN :
          lease' = [lease EXCEPT ![rpc[r].lease] = Refreshed(rpc[r].lease, o, TRUE, sent)]
    BY <1>5 DEF CaptureCheck, ExecuteCheck
  <2>2. rpc[r].lease \in Leases
    BY <1>0, <1>5 DEF CaptureCheck, ExecuteCheck
  <2>3. /\ Refreshed(rpc[r].lease, o, TRUE, sent) \in LeaseRecord
        /\ Quiet(lease[rpc[r].lease], Refreshed(rpc[r].lease, o, TRUE, sent))
    BY <2>2, OutcomeType, RefreshedType, RefreshQuiet
  <2>4. \A q \in Rpcs : rpc'[q].lease = rpc[q].lease
    <3>1. CASE CaptureCheck(r)
      BY <3>1 DEF CaptureCheck
    <3>2. CASE ExecuteCheck(r)
      <4>1. \/ rpc' = [rpc EXCEPT ![r].pc = "respond", ![r].verdict = "withheld"]
            \/ rpc' = [rpc EXCEPT ![r].pc = "respond", ![r].verdict = "result"]
            \/ rpc' = [rpc EXCEPT ![r].pc = "syncing"]
        BY <3>2 DEF ExecuteCheck
      <4>2. \A v : rpc' = [rpc EXCEPT ![r].pc = "respond", ![r].verdict = v]
              => \A q \in Rpcs : rpc'[q].lease = rpc[q].lease
        BY <1>0 DEF TypeOK, RpcRecord
      <4>3. rpc' = [rpc EXCEPT ![r].pc = "syncing"]
              => \A q \in Rpcs : rpc'[q].lease = rpc[q].lease
        BY <1>0 DEF TypeOK, RpcRecord
      <4>. QED  BY <4>1, <4>2, <4>3
    <3>. QED  BY <1>5, <3>1, <3>2
  <2>. QED  BY <1>c, <2>1, <2>2, <2>3, <2>4
<1>6. CASE OperationSync(r) \/ ChildSync(r) \/ Respond(r) \/ PermissionsRevoke(r)
  <2>1. \A q \in Rpcs : rpc'[q].lease = rpc[q].lease
    BY <1>0, <1>6 DEF OperationSync, ChildSync, Respond, PermissionsRevoke, TypeOK, RpcRecord
  <2>2. UNCHANGED lease
    BY <1>6 DEF OperationSync, ChildSync, Respond, PermissionsRevoke
  <2>. QED  BY <1>a, <1>b, <2>1, <2>2, StillCounted
<1>7. CASE RpcClose(r)
  <2>1. rpc[r].lease \in Leases /\ lease[rpc[r].lease] \in LeaseRecord
    BY <1>0, <1>7 DEF RpcClose, TypeOK
  <2>2. Quiet(lease[rpc[r].lease], lease[rpc[r].lease])
    BY <2>1 DEF Quiet, Counted
  <2>3. /\ lease' = [lease EXCEPT ![rpc[r].lease] = Released(lease[rpc[r].lease])]
        /\ rpc' = [rpc EXCEPT ![r] = NoRpc]
    BY <1>7 DEF RpcClose
  <2>. QED  BY <1>d, <2>1, <2>2, <2>3
<1>. QED
  BY <1>1, <1>2, <1>3, <1>4, <1>5, <1>6, <1>7 DEF RpcStep

\* The references are exact at any time: a lease is freed by its last holder,
\* connection or RPC, and never while one is left (lease_bind, lease_release).
THEOREM ReferencesCorrect == Spec => []LeaseReferences
<1>. DEFINE Inv == \A l \in Leases : Counted(l)
<1>1. Init => Inv
  <2>. SUFFICES ASSUME Init, NEW l \in Leases PROVE Counted(l)
    OBVIOUS
  <2>1. Holders(l) = {}
    BY ConstantsOK DEF Init, Holders, NoRpc
  <2>2. Cardinality(Holders(l)) = 0
    BY <2>1, FS_EmptySet
  <2>3. lease[l] = NoLeaseRecord /\ conn[l] = NoConn
    BY DEF Init
  <2>. QED  BY <2>2, <2>3 DEF Counted, NoLeaseRecord, NoConn, Live
<1>2. Inv /\ Inductive /\ [Next]_vars => Inv'
  <2>. SUFFICES ASSUME Inv, TypeOK, [Next]_vars, NEW m \in Leases PROVE Counted(m)'
    BY DEF Inductive
  <2>1. ASSUME NEW l \in Leases, LeaseStep(l) PROVE Counted(m)'
    <3>1. CASE m = l
      BY <2>1, <3>1, LeaseCounted
    <3>2. CASE m # l
      <4>1. UNCHANGED rpc
        BY <2>1 DEF LeaseStep, LeaseHello, CheckGrants, AcquirePromptLock,
             PromptAnswer, FencedGrant, RecheckGrants, CreateLease, AuthorizeRequest,
             CompleteAuthorization, LeasePoll, SubscribeRequest, SubscribeApply,
             SourceRefresh, EventFails, LeaseDisconnect, EndLease
      <4>2. Holders(m)' = Holders(m)
        BY <4>1 DEF Holders
      <4>. QED  BY <2>1, <3>2, <4>2, OtherLeases, StillCounted
    <3>. QED  BY <3>1, <3>2
  <2>2. ASSUME NEW r \in Rpcs, RpcStep(r) PROVE Counted(m)'
    BY <2>2, RpcCounted
  <2>3. CASE UNCHANGED <<lease, conn, rpc>>
    BY <2>3, StillCounted DEF Holders
  <2>. QED  BY <2>1, <2>2, <2>3 DEF Next, IdentityLost, OtherAuthority, vars
<1>3. Inv => LeaseReferences
  BY DEF Counted, LeaseReferences, Holders, Live
<1>. HIDE DEF Inv
<1>. QED  BY <1>1, <1>2, <1>3, InductiveCorrect, PTL DEF Spec
=============================================================================
