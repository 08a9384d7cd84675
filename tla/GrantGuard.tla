----------------------------- MODULE GrantGuard -----------------------------
(***************************************************************************)
(* What authorization promises, without leases, caches or generations: an  *)
(* operation starts only under a grant its executable holds, and its       *)
(* result leaves the service only if that grant was not withdrawn between  *)
(* the start and the final check.  Scope-free operations are always        *)
(* allowed.                                                                *)
(***************************************************************************)
CONSTANTS Ops,      \* the threads that execute operations
          Keys,     \* executable identities of users
          Scopes,   \* permission scopes
          NoScope,  \* the scope of a scope-free operation
          NoKey     \* the key of a thread without an operation

VARIABLES grants,   \* the scopes granted to each key
          op        \* the operation of each thread

guardVars == <<grants, op>>

Phases == {"idle", "working", "checked", "released", "withheld"}

Operation ==
    [phase: Phases, key: Keys \cup {NoKey}, scope: Scopes \cup {NoScope},
     clean: BOOLEAN]

NoOperation ==
    [phase |-> "idle", key |-> NoKey, scope |-> NoScope, clean |-> TRUE]

Init ==
    /\ grants \in [Keys -> SUBSET Scopes]
    /\ op = [o \in Ops |-> NoOperation]

\* The store changes.  Work that loses its grant is tainted; the service may
\* taint other work too (it cannot tell which grant a generation was about).
ChangeGrants ==
    /\ grants' \in [Keys -> SUBSET Scopes]
    /\ DOMAIN op' = Ops
    /\ \A o \in Ops :
         \/ op'[o] = op[o]
         \/ op[o].phase = "working" /\ op'[o] = [op[o] EXCEPT !.clean = FALSE]
    /\ \A o \in Ops :
         ( /\ op[o].phase = "working"
           /\ op[o].scope \in grants[op[o].key] \ grants'[op[o].key] )
         => ~op'[o].clean

\* The operation is admitted under a grant.
Admit(o) ==
    /\ op[o].phase = "idle"
    /\ \E k \in Keys, s \in Scopes \cup {NoScope} :
         /\ s = NoScope \/ s \in grants[k]
         /\ op' = [op EXCEPT ![o] = [phase |-> "working", key |-> k,
                                     scope |-> s, clean |-> TRUE]]
    /\ UNCHANGED grants

\* The final check passes; the result may still wait to be confirmed.
Check(o) ==
    /\ op[o].phase = "working"
    /\ op[o].clean
    /\ op' = [op EXCEPT ![o].phase = "checked"]
    /\ UNCHANGED grants

\* A checked result is released.
Release(o) ==
    /\ op[o].phase \in {"working", "checked"}
    /\ op[o].clean
    /\ op' = [op EXCEPT ![o].phase = "released"]
    /\ UNCHANGED grants

\* The result is withheld.
Withhold(o) ==
    /\ op[o].phase \in {"working", "checked"}
    /\ op' = [op EXCEPT ![o].phase = "withheld"]
    /\ UNCHANGED grants

\* The answer was written.
Done(o) ==
    /\ op[o].phase \in {"released", "withheld"}
    /\ op' = [op EXCEPT ![o] = NoOperation]
    /\ UNCHANGED grants

Next ==
    \/ ChangeGrants
    \/ \E o \in Ops : Admit(o) \/ Check(o) \/ Release(o) \/ Withhold(o) \/ Done(o)

Spec == Init /\ [][Next]_guardVars
=============================================================================
