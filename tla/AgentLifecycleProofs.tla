------------------------ MODULE AgentLifecycleProofs ------------------------
(***************************************************************************)
(* Theorems about AgentLifecycle, for any sessions, plans, callers, budget *)
(* and numbers of switches, epochs and catalog revisions: the runtime and  *)
(* the durable rows agree between operations, what was burned is never     *)
(* redeemed, and the budget charges exactly what was granted.              *)
(*                                                                         *)
(* Within an operation the two disagree about its own session; OpInv says  *)
(* how, by the stage and by what the operation remembers of the session.   *)
(* What is burned stays burned since a generation is never given twice:    *)
(* every binding is of a generation already handed out, and a burned one   *)
(* of another than its session has.                                        *)
(***************************************************************************)
EXTENDS AgentLifecycle, FiniteSetTheorems, TLAPS

-----------------------------------------------------------------------------
(* The inductive invariant.                                                *)

Open == {"running", "paused", "failed"}

Stages == {"publish", "durable", "rejected", "unknown", "suspend", "abort"}

Ops == [name : Transitions, id : Ids, stage : Stages, abort : BOOLEAN,
        registered : BOOLEAN, active : BOOLEAN]

Switches == [phase : {"published"}, row : [Ids -> RowStatuses], root : Nat,
             session : [Ids -> SessionStates], bound : SUBSET Ids, next : Nat,
             tokens : SUBSET Bindings]

Calls == [phase : Phases, binding : Bindings, live : BOOLEAN]

TypeInv ==
    /\ row \in [Ids -> RowStatuses]
    /\ saved \in SUBSET Ids
    /\ poisoned \in BOOLEAN
    /\ bound \in SUBSET Ids
    /\ session \in [Ids -> SessionStates]
    /\ nextSessionGeneration \in Nat
    /\ tokens \in SUBSET Bindings
    /\ op \in Ops \cup {NoOp}
    /\ root \in Nat
    /\ switch \in Switches \cup {NoSwitch}
    /\ budget \in [epoch : Nat, spent : Nat]
    /\ granted \in Nat
    /\ revision \in Nat
    /\ call \in [Callers -> Calls]

\* A generation belongs to a registered session, and was handed out.
Generations(sessions, next) ==
    \A id \in Ids :
        /\ sessions[id].registered => sessions[id].generation \in 1 .. next
        /\ ~sessions[id].registered => sessions[id] = Unregistered

\* What a session with these flags and this row may be, in a store that is
\* poisoned or not.
Agree(registered, active, status, isBound, isPoisoned) ==
    /\ registered => isBound /\ status \in Open
    /\ active => registered /\ status = "running"
    /\ ~isPoisoned => (status \in Open => registered) /\ (status = "running" => active)

SessionAgrees(id) ==
    Agree(session[id].registered, session[id].active, row[id], id \in bound, poisoned)

\* The operation would have to restore this.
RememberedAgrees ==
    Agree(op.registered, op.active, row[op.id], op.id \in bound, poisoned)

\* Before the save, and when it was rejected: what the name has done so far.
Entered ==
    /\ RememberedAgrees
    /\ op.name = "begin" => row[op.id] = "none"
    /\ op.name = "discard" => row[op.id] = "recovery"
    /\ op.name = "resume" => row[op.id] \in {"paused", "failed"}
    /\ op.name \in {"complete", "close"} => ~session[op.id].registered
    /\ op.name \notin {"complete", "close"} => session[op.id].registered = op.registered
    /\ op.name \in {"pause", "fail"} => ~session[op.id].active
    /\ op.name \notin {"pause", "fail", "complete", "close"} =>
         session[op.id].active = op.active

\* What the operation in progress knows of its own session.
OpInv ==
    op # NoOp =>
        /\ op.stage \in {"publish", "rejected"} => Entered
        /\ op.stage = "durable" =>
             /\ ~poisoned
             /\ op.name = "begin" => row[op.id] = "running"
             /\ op.name = "resume" => row[op.id] = "running" /\ session[op.id].registered
                                      /\ op.registered /\ op.id \in bound
             /\ op.name \in {"complete", "close", "discard"} =>
                  row[op.id] = "completed" /\ ~session[op.id].registered
             /\ op.name \notin {"begin", "resume", "complete", "close", "discard"} =>
                  SessionAgrees(op.id)
        /\ op.stage = "unknown" =>
             poisoned /\ (session[op.id].registered => op.id \in bound)
        /\ op.stage = "suspend" =>
             /\ op.registered /\ ~op.active /\ RememberedAgrees
             /\ session[op.id].registered
        /\ op.stage = "abort" =>
             /\ op.name = "fail" /\ ~poisoned
             /\ row[op.id] = "running" /\ session[op.id].registered /\ session[op.id].active
             /\ op.id \in bound

\* Everybody else's session agrees with its row.
AgreementInv == \A id \in Ids : op = NoOp \/ id # op.id => SessionAgrees(id)

\* A switch has everything to itself, and remembers an agreement to go back to.
SwitchInv ==
    switch # NoSwitch =>
        /\ op = NoOp /\ tokens = {} /\ bound = {}
        /\ \A c \in Callers : call[c].phase = "idle"
        /\ session = [id \in Ids |-> Unregistered]
        /\ \A id \in Ids : row[id] \notin Open
        /\ Generations(switch.session, switch.next)
        /\ \A id \in Ids : Agree(switch.session[id].registered, switch.session[id].active,
                                 switch.row[id], id \in switch.bound, FALSE)

\* A binding of a generation handed out; burned only if its session moved on.
Bound(b, sessions, next) ==
    /\ b.generation \in 1 .. next
    /\ b.burned => sessions[b.id].generation # b.generation

BindingInv ==
    /\ Generations(session, nextSessionGeneration)
    /\ \A t \in tokens : Bound(t, session, nextSessionGeneration)
    /\ \A c \in Callers :
         call[c].phase \in Requesting =>
             Bound(call[c].binding, session, nextSessionGeneration)
    /\ BurnedStaysBurned

\* The call has reserved a capability that is neither granted nor released.
Reserves(v) == v.phase \in {"issuing", "auditing", "releasing"}

Reserved(calls, epoch) == {c \in Callers : Reserves(calls[c]) /\ calls[c].binding.epoch = epoch}

BudgetInv ==
    /\ \A c \in Callers : Reserves(call[c]) => call[c].binding.epoch <= budget.epoch
    /\ IsFiniteSet(Reserved(call, budget.epoch))
    /\ budget.spent <= Limit
    /\ budget.spent = granted + Cardinality(Reserved(call, budget.epoch))

RowInv == OpInv /\ AgreementInv /\ SwitchInv

Inv == TypeInv /\ RowInv /\ BindingInv /\ BudgetInv

-----------------------------------------------------------------------------
(* Sessions and bindings.                                                  *)

\* What burning leaves of the calls.
LEMMA BurningKeeps ==
    ASSUME TypeInv, NEW id \in Ids
    PROVE  /\ BurnedCalls({id}) \in [Callers -> Calls]
           /\ \A c \in Callers :
                /\ BurnedCalls({id})[c].phase = call[c].phase
                /\ BurnedCalls({id})[c].binding.epoch = call[c].binding.epoch
                /\ BurnedCalls({id})[c].binding.generation = call[c].binding.generation
                /\ BurnedCalls({id})[c].binding.id = call[c].binding.id
                /\ BurnedCalls({id})[c].binding.burned =>
                     call[c].binding.burned \/ call[c].binding.id = id
                /\ call[c].phase \notin Requesting => BurnedCalls({id})[c] = call[c]
<1>1. ASSUME NEW c \in Callers
      PROVE  /\ call[c] \in Calls /\ call[c].binding \in Bindings
             /\ Burn(call[c].binding, {id}) \in Bindings
             /\ Burn(call[c].binding, {id}).epoch = call[c].binding.epoch
             /\ Burn(call[c].binding, {id}).generation = call[c].binding.generation
             /\ Burn(call[c].binding, {id}).id = call[c].binding.id
             /\ Burn(call[c].binding, {id}).burned =
                  (call[c].binding.burned \/ call[c].binding.id = id)
  BY DEF TypeInv, Calls, Bindings, Burn
<1>2. ASSUME NEW c \in Callers
      PROVE  /\ [call[c] EXCEPT !.binding = Burn(@, {id})] \in Calls
             /\ [call[c] EXCEPT !.binding = Burn(@, {id})].phase = call[c].phase
             /\ [call[c] EXCEPT !.binding = Burn(@, {id})].binding = Burn(call[c].binding, {id})
  BY <1>1 DEF Calls
<1>3. ASSUME NEW c \in Callers
      PROVE  BurnedCalls({id})[c] =
               IF call[c].phase \in Requesting
               THEN [call[c] EXCEPT !.binding = Burn(@, {id})] ELSE call[c]
  BY DEF BurnedCalls
<1>4. BurnedCalls({id}) \in [Callers -> Calls]
  BY <1>1, <1>2 DEF BurnedCalls
<1>5. ASSUME NEW c \in Callers
      PROVE  /\ BurnedCalls({id})[c].phase = call[c].phase
             /\ BurnedCalls({id})[c].binding.epoch = call[c].binding.epoch
             /\ BurnedCalls({id})[c].binding.generation = call[c].binding.generation
             /\ BurnedCalls({id})[c].binding.id = call[c].binding.id
             /\ BurnedCalls({id})[c].binding.burned =>
                  call[c].binding.burned \/ call[c].binding.id = id
             /\ call[c].phase \notin Requesting => BurnedCalls({id})[c] = call[c]
  <2> DEFINE one == BurnedCalls({id})[c]
             other == [call[c] EXCEPT !.binding = Burn(@, {id})]
             old == call[c]
             burned == Burn(old.binding, {id})
  <2>1. CASE call[c].phase \in Requesting
    <3>1. one = other BY <1>3, <2>1
    <3>2. other.phase = old.phase /\ other.binding = burned BY <1>2
    <3>3. /\ burned.epoch = old.binding.epoch /\ burned.generation = old.binding.generation
          /\ burned.id = old.binding.id
          /\ burned.burned => old.binding.burned \/ old.binding.id = id
      BY <1>1
    <3>4. old.phase \in Requesting BY <2>1
    <3> HIDE DEF one, other, burned, old
    <3>5. /\ one.phase = old.phase /\ one.binding.epoch = old.binding.epoch
          /\ one.binding.generation = old.binding.generation /\ one.binding.id = old.binding.id
          /\ one.binding.burned => old.binding.burned \/ old.binding.id = id
      BY <3>1, <3>2, <3>3
    <3> QED BY <3>4, <3>5 DEF one, old
  <2>2. CASE call[c].phase \notin Requesting
    <3>1. one = old BY <1>3, <2>2
    <3> HIDE DEF one, old
    <3>2. /\ one.phase = old.phase /\ one.binding.epoch = old.binding.epoch
          /\ one.binding.generation = old.binding.generation /\ one.binding.id = old.binding.id
          /\ one.binding.burned => old.binding.burned
      BY <3>1
    <3> QED BY <3>1, <3>2 DEF one, old
  <2> QED BY <2>1, <2>2
<1> QED BY <1>4, <1>5

\* What burning leaves of the tokens.
LEMMA BurnedToken ==
    ASSUME TypeInv, NEW id \in Ids, NEW t \in BurnedTokens({id})
    PROVE  /\ t \in Bindings
           /\ \E u \in tokens :
                /\ t.generation = u.generation /\ t.id = u.id
                /\ t.burned => u.burned \/ u.id = id
<1>1. PICK u \in tokens : t = Burn(u, {id}) BY DEF BurnedTokens
<1>2. u \in Bindings BY DEF TypeInv
<1>3. Burn(u, {id}) \in Bindings /\ Burn(u, {id}).generation = u.generation
      /\ Burn(u, {id}).id = u.id /\ Burn(u, {id}).burned = (u.burned \/ u.id = id)
  BY <1>2 DEF Burn, Bindings
<1> QED BY <1>1, <1>3

\* The reservations depend on the phases and epochs of the calls only.
LEMMA SameReservations ==
    ASSUME BudgetInv, UNCHANGED <<budget, granted>>,
           \A c \in Callers : call'[c].phase = call[c].phase
                              /\ call'[c].binding.epoch = call[c].binding.epoch
    PROVE  BudgetInv'
<1>1. Reserved(call', budget'.epoch) = Reserved(call, budget.epoch) BY DEF Reserved, Reserves
<1>2. \A c \in Callers : Reserves(call'[c]) => call'[c].binding.epoch <= budget.epoch
  BY DEF BudgetInv, Reserves
<1> QED BY <1>1, <1>2 DEF BudgetInv

\* The steps of an operation on its session.
RuntimeStep(id) ==
    \/ RegisterSession(id)
    \/ session[id].registered /\ SuspendSession(id)
    \/ session[id].registered /\ ActivateSession(id)
    \/ UnregisterSession(id)
    \/ UNCHANGED <<session, nextSessionGeneration, tokens, call>>

\* A session is registered and suspended under a generation never used before.
LEMMA GenerationsMove ==
    ASSUME TypeInv, BindingInv, NEW id \in Ids, RuntimeStep(id)
    PROVE  /\ session' \in [Ids -> SessionStates]
           /\ \A other \in Ids \ {id} : session'[other] = session[other]
           /\ nextSessionGeneration' \in Nat /\ nextSessionGeneration <= nextSessionGeneration'
           /\ Generations(session', nextSessionGeneration')
           /\ \/ session'[id].generation = session[id].generation
              \/ session'[id].generation = 0
              \/ session'[id].generation = nextSessionGeneration + 1
<1>1. /\ session \in [Ids -> SessionStates] /\ nextSessionGeneration \in Nat
      /\ Generations(session, nextSessionGeneration)
  BY DEF TypeInv, BindingInv
<1>2. CASE RegisterSession(id)
  BY <1>1, <1>2 DEF RegisterSession, SessionStates, Generations
<1>3. CASE session[id].registered /\ SuspendSession(id)
  BY <1>1, <1>3 DEF SuspendSession, SessionStates, Generations
<1>4. CASE session[id].registered /\ ActivateSession(id)
  <2>1. /\ session' = [session EXCEPT ![id].active = TRUE]
        /\ nextSessionGeneration' = nextSessionGeneration
    BY <1>4 DEF ActivateSession
  <2>2. /\ session' \in [Ids -> SessionStates]
        /\ \A other \in Ids \ {id} : session'[other] = session[other]
        /\ session'[id].generation = session[id].generation
        /\ session'[id].registered
    BY <1>1, <1>4, <2>1 DEF SessionStates
  <2>3. Generations(session', nextSessionGeneration')
    BY <1>1, <1>4, <2>1, <2>2 DEF Generations
  <2> QED BY <1>1, <2>1, <2>2, <2>3
<1>5. CASE UnregisterSession(id)
  BY <1>1, <1>5 DEF UnregisterSession, SessionStates, Generations, Unregistered
<1>6. CASE UNCHANGED <<session, nextSessionGeneration, tokens, call>> BY <1>1, <1>6
<1> QED BY <1>2, <1>3, <1>4, <1>5, <1>6 DEF RuntimeStep

\* A generation that the session leaves burns what was bound to it.
LEMMA BurnsOrKeeps ==
    ASSUME TypeInv, BindingInv, NEW id \in Ids, RuntimeStep(id)
    PROVE  \/ /\ tokens' = BurnedTokens({id}) /\ call' = BurnedCalls({id})
              /\ session'[id].generation \in {0, nextSessionGeneration + 1}
           \/ /\ UNCHANGED <<tokens, call>>
              /\ \/ session'[id].generation = session[id].generation
                 \/ session'[id].generation = nextSessionGeneration + 1
<1>1. session \in [Ids -> SessionStates] /\ nextSessionGeneration \in Nat BY DEF TypeInv
<1>2. CASE RegisterSession(id) BY <1>1, <1>2 DEF RegisterSession
<1>3. CASE SuspendSession(id) BY <1>1, <1>3 DEF SuspendSession, SessionStates
<1>4. CASE ActivateSession(id) BY <1>1, <1>4 DEF ActivateSession, SessionStates
<1>5. CASE UnregisterSession(id) BY <1>1, <1>5 DEF UnregisterSession, Unregistered
<1>6. CASE UNCHANGED <<session, nextSessionGeneration, tokens, call>> BY <1>6
<1> QED BY <1>2, <1>3, <1>4, <1>5, <1>6 DEF RuntimeStep

\* A binding stays bound, burned or not.
LEMMA BoundLasts ==
    ASSUME TypeInv, BindingInv, NEW id \in Ids, RuntimeStep(id),
           NEW b \in Bindings, NEW b2 \in Bindings, Bound(b, session, nextSessionGeneration),
           b2.generation = b.generation, b2.id = b.id, b2.burned => b.burned \/ b.id = id,
           b2.burned /\ ~b.burned =>
               session'[id].generation \in {0, nextSessionGeneration + 1}
    PROVE  Bound(b2, session', nextSessionGeneration')
<1>1. /\ b.generation \in 1 .. nextSessionGeneration /\ nextSessionGeneration \in Nat
      /\ nextSessionGeneration' \in Nat /\ nextSessionGeneration <= nextSessionGeneration'
  BY GenerationsMove DEF Bound, TypeInv
<1>2. b2.generation \in 1 .. nextSessionGeneration' BY <1>1
<1>3. b.burned => session[b.id].generation # b.generation BY DEF Bound
<1>4. b.id \in Ids BY DEF Bindings
<1>5. b.id # id => session'[b.id].generation = session[b.id].generation
  BY <1>4, GenerationsMove
<1>6. \/ session'[id].generation = session[id].generation
      \/ session'[id].generation \in {0, nextSessionGeneration + 1}
  BY GenerationsMove
<1>7. b2.burned => session'[b2.id].generation # b2.generation
  BY <1>1, <1>3, <1>5, <1>6
<1> QED BY <1>2, <1>7 DEF Bound

\* A step on one session keeps what is known of bindings and budget.
LEMMA RuntimeKeeps ==
    ASSUME TypeInv, BindingInv, BudgetInv, NEW id \in Ids, RuntimeStep(id),
           UNCHANGED <<budget, granted>>
    PROVE  /\ session' \in [Ids -> SessionStates] /\ nextSessionGeneration' \in Nat
           /\ tokens' \in SUBSET Bindings /\ call' \in [Callers -> Calls]
           /\ BindingInv' /\ BudgetInv'
           /\ \A other \in Ids \ {id} : session'[other] = session[other]
           /\ \A c \in Callers : call'[c].phase = call[c].phase
<1>1. /\ session' \in [Ids -> SessionStates] /\ nextSessionGeneration' \in Nat
      /\ \A other \in Ids \ {id} : session'[other] = session[other]
      /\ Generations(session', nextSessionGeneration')
  BY GenerationsMove
<1>2. /\ tokens \in SUBSET Bindings /\ call \in [Callers -> Calls]
      /\ \A c \in Callers : call[c].binding \in Bindings
      /\ \A t \in tokens : Bound(t, session, nextSessionGeneration)
      /\ \A c \in Callers : call[c].phase \in Requesting =>
           Bound(call[c].binding, session, nextSessionGeneration)
      /\ BurnedStaysBurned
  BY DEF TypeInv, Calls, BindingInv
<1>3. CASE UNCHANGED <<tokens, call>>
  <2>1. \A t \in tokens : Bound(t, session', nextSessionGeneration') BY <1>2, BoundLasts
  <2>2. \A c \in Callers : call[c].phase \in Requesting =>
          Bound(call[c].binding, session', nextSessionGeneration')
    BY <1>2, BoundLasts
  <2>3. BindingInv' BY <1>1, <1>2, <1>3, <2>1, <2>2 DEF BindingInv, BurnedStaysBurned
  <2>4. BudgetInv' BY <1>3, SameReservations
  <2> QED BY <1>1, <1>2, <1>3, <2>3, <2>4
<1>4. CASE /\ tokens' = BurnedTokens({id}) /\ call' = BurnedCalls({id})
           /\ session'[id].generation \in {0, nextSessionGeneration + 1}
  <2>1. ASSUME NEW t \in tokens'
        PROVE  t \in Bindings /\ Bound(t, session', nextSessionGeneration')
    <3>1. t \in BurnedTokens({id}) BY <1>4
    <3>2. PICK u \in tokens : /\ t.generation = u.generation /\ t.id = u.id
                              /\ t.burned => u.burned \/ u.id = id
      BY <3>1, BurnedToken
    <3>3. t \in Bindings BY <3>1, BurnedToken
    <3>4. u \in Bindings /\ Bound(u, session, nextSessionGeneration) BY <1>2
    <3> QED BY <1>4, <3>2, <3>3, <3>4, BoundLasts
  <2>2. call' \in [Callers -> Calls] BY <1>4, BurningKeeps
  <2>3. ASSUME NEW c \in Callers, call'[c].phase \in Requesting
        PROVE  Bound(call'[c].binding, session', nextSessionGeneration')
    <3>1. /\ call'[c].phase = call[c].phase
          /\ call'[c].binding.generation = call[c].binding.generation
          /\ call'[c].binding.id = call[c].binding.id
          /\ call'[c].binding.burned => call[c].binding.burned \/ call[c].binding.id = id
      BY <1>4, BurningKeeps
    <3>2. call'[c].binding \in Bindings /\ call[c].binding \in Bindings
      BY <1>2, <2>2 DEF Calls
    <3>3. Bound(call[c].binding, session, nextSessionGeneration) BY <1>2, <2>3, <3>1
    <3> QED BY <1>4, <3>1, <3>2, <3>3, BoundLasts
  <2>4. ASSUME NEW c \in Callers, call'[c].phase \in {"starting", "running"}
        PROVE  ~call'[c].binding.burned
    <3>1. call'[c].phase = call[c].phase BY <1>4, BurningKeeps
    <3>2. call'[c] = call[c] BY <1>4, <2>4, <3>1, BurningKeeps DEF Requesting
    <3> QED BY <1>2, <2>4, <3>2 DEF BurnedStaysBurned
  <2>5. BindingInv' BY <1>1, <2>1, <2>3, <2>4 DEF BindingInv, BurnedStaysBurned
  <2>6. \A c \in Callers : call'[c].phase = call[c].phase
                           /\ call'[c].binding.epoch = call[c].binding.epoch
    BY <1>4, BurningKeeps
  <2>7. BudgetInv' BY <2>6, SameReservations
  <2> QED BY <1>1, <2>1, <2>2, <2>5, <2>6, <2>7
<1> QED BY <1>3, <1>4, BurnsOrKeeps

-----------------------------------------------------------------------------
(* Entering an operation.                                                  *)

\* Between operations every session agrees, and is found if it is registered.
LEMMA AdmittedKnows ==
    ASSUME TypeInv, RowInv, Admitted, NEW id \in Ids
    PROVE  /\ SessionAgrees(id)
           /\ Registered(id) = session[id].registered
           /\ Active(id) = session[id].active
           /\ session[id].registered \in BOOLEAN /\ session[id].active \in BOOLEAN
<1>1. SessionAgrees(id) BY DEF RowInv, AgreementInv, Admitted
<1>2. session[id] \in SessionStates BY DEF TypeInv
<1>3. session[id].registered \in BOOLEAN /\ session[id].active \in BOOLEAN
  BY <1>2 DEF SessionStates
<1>4. /\ session[id].registered => id \in bound
      /\ session[id].active => session[id].registered
  BY <1>1 DEF SessionAgrees, Agree
<1> QED BY <1>1, <1>3, <1>4 DEF Registered, Active

\* The operation entered, with what it remembers of the session.
LEMMA OperationEntered ==
    ASSUME TypeInv, RowInv, Admitted, NEW id \in Ids, NEW name \in Transitions,
           NEW abort \in BOOLEAN, Enter(name, id, abort)
    PROVE  /\ op' \in Ops /\ op' # NoOp /\ op'.name = name /\ op'.id = id
           /\ op'.stage = "publish" /\ op'.abort = abort
           /\ op'.registered = session[id].registered /\ op'.active = session[id].active
           /\ switch = NoSwitch
<1>1. /\ Registered(id) = session[id].registered /\ Active(id) = session[id].active
      /\ session[id].registered \in BOOLEAN /\ session[id].active \in BOOLEAN
  BY AdmittedKnows
<1>2. op' = [name |-> name, id |-> id, stage |-> "publish", abort |-> abort,
             registered |-> session[id].registered, active |-> session[id].active]
  BY <1>1 DEF Enter
<1>3. op' \in Ops BY <1>1, <1>2 DEF Ops, Stages
<1>4. op'.name # NoOp.name BY <1>2 DEF Transitions, NoOp
<1> QED BY <1>2, <1>3, <1>4 DEF Admitted

\* What is left of the rows when an operation is entered.
LEMMA EnteredKeeps ==
    ASSUME TypeInv, RowInv, Admitted, NEW id \in Ids, NEW name \in Transitions,
           NEW abort \in BOOLEAN, Enter(name, id, abort),
           UNCHANGED <<row, poisoned, bound, switch>>,
           \A other \in Ids \ {id} : session'[other] = session[other],
           name = "begin" => row[id] = "none",
           name = "discard" => row[id] = "recovery",
           name = "resume" => row[id] \in {"paused", "failed"},
           name \in {"complete", "close"} => ~session'[id].registered,
           name \notin {"complete", "close"} =>
               session'[id].registered = session[id].registered,
           name \in {"pause", "fail"} => ~session'[id].active,
           name \notin {"pause", "fail", "complete", "close"} =>
               session'[id].active = session[id].active
    PROVE  op' \in Ops \cup {NoOp} /\ RowInv'
<1>1. /\ op' \in Ops /\ op' # NoOp /\ op'.name = name /\ op'.id = id
      /\ op'.stage = "publish" /\ switch = NoSwitch
      /\ op'.registered = session[id].registered /\ op'.active = session[id].active
  BY OperationEntered
<1>2. RememberedAgrees'
  <2>1. SessionAgrees(id) BY AdmittedKnows
  <2> QED BY <1>1, <2>1 DEF SessionAgrees, RememberedAgrees
<1>3. Entered' BY <1>1, <1>2 DEF Entered
<1>4. OpInv' BY <1>1, <1>3 DEF OpInv
<1>5. AgreementInv'
  <2>1. ASSUME NEW other \in Ids, other # id PROVE SessionAgrees(other)'
    <3>1. SessionAgrees(other) BY AdmittedKnows
    <3> QED BY <2>1, <3>1 DEF SessionAgrees
  <2> QED BY <1>1, <2>1 DEF AgreementInv
<1>6. SwitchInv' BY <1>1 DEF SwitchInv
<1> QED BY <1>1, <1>4, <1>5, <1>6 DEF RowInv

\* Every operation of the lifecycle.
LEMMA OperationKeeps ==
    ASSUME Inv, NEW id \in Ids, Operation(id)
    PROVE  Inv'
<1> USE DEF Inv, runtimeVars, callVars
<1>1. CASE Begin(id) \/ Checkpoint(id) \/ Discard(id)
  <2>1. Admitted /\ UNCHANGED <<row, saved, poisoned, root, switch, runtimeVars, callVars>>
    BY <1>1 DEF Begin, Checkpoint, Discard
  <2>2. PICK name \in {"begin", "checkpoint", "discard"} :
          /\ Enter(name, id, FALSE)
          /\ name = "begin" => row[id] = "none"
          /\ name = "discard" => row[id] = "recovery"
    BY <1>1 DEF Begin, Checkpoint, Discard
  <2>3. op' \in Ops \cup {NoOp} /\ RowInv'
    BY <2>1, <2>2, EnteredKeeps DEF Transitions
  <2>4. TypeInv' BY <2>1, <2>3 DEF TypeInv
  <2>5. BindingInv' BY <2>1 DEF BindingInv, BurnedStaysBurned
  <2>6. BudgetInv' BY <2>1 DEF BudgetInv
  <2> QED BY <2>3, <2>4, <2>5, <2>6
<1>2. ASSUME RuntimeStep(id), UNCHANGED <<row, saved, poisoned, bound, root, switch, budget,
                                          granted, revision>>,
             op' \in Ops \cup {NoOp}, RowInv'
      PROVE  Inv'
  <2>1. TypeInv' BY <1>2, RuntimeKeeps DEF TypeInv
  <2> QED BY <1>2, <2>1, RuntimeKeeps
<1>3. ASSUME NEW name \in {"pause", "fail"}, PauseOrFail(name, id)
      PROVE  Inv'
  <2>1. /\ Admitted /\ Suspending(id) /\ Enter(name, id, FALSE)
        /\ UNCHANGED <<row, saved, poisoned, bound, root, switch, budget, granted, revision>>
    BY <1>3 DEF PauseOrFail
  <2>2. Active(id) = session[id].active /\ SessionAgrees(id) BY <2>1, AdmittedKnows
  <2>3. session[id].active => session[id].registered BY <2>2 DEF SessionAgrees, Agree
  <2>4. RuntimeStep(id) BY <2>1, <2>2, <2>3 DEF Suspending, RuntimeStep
  <2>5. session[id] \in SessionStates BY DEF TypeInv
  <2>6. ~session'[id].active /\ session'[id].registered = session[id].registered
    <3>1. CASE session[id].active
      <4>1. SuspendSession(id) BY <2>1, <2>2, <3>1 DEF Suspending
      <4> QED BY <2>5, <4>1 DEF SuspendSession, SessionStates, TypeInv
    <3>2. CASE ~session[id].active BY <2>1, <2>2, <3>2 DEF Suspending
    <3> QED BY <3>1, <3>2
  <2>7. \A other \in Ids \ {id} : session'[other] = session[other] BY <2>4, RuntimeKeeps, <2>1
  <2>8. op' \in Ops \cup {NoOp} /\ RowInv'
    BY <2>1, <2>6, <2>7, EnteredKeeps DEF Transitions
  <2> QED BY <1>2, <2>1, <2>4, <2>8
<1>4. ASSUME NEW abort \in BOOLEAN, ResumeLatest(id, abort) PROVE Inv'
  <2>1. /\ Admitted /\ Suspending(id) /\ Enter("resume", id, abort)
        /\ row[id] \in {"paused", "failed"}
        /\ UNCHANGED <<row, saved, poisoned, bound, root, switch, budget, granted, revision>>
    BY <1>4 DEF ResumeLatest
  <2>2. Active(id) = session[id].active /\ SessionAgrees(id) BY <2>1, AdmittedKnows
  <2>3. ~Active(id) BY <2>1, <2>2 DEF SessionAgrees, Agree
  <2>4. UNCHANGED <<session, nextSessionGeneration, tokens, call>> BY <2>1, <2>3 DEF Suspending
  <2>5. op' \in Ops \cup {NoOp} /\ RowInv'
    BY <2>1, <2>4, EnteredKeeps DEF Transitions
  <2> QED BY <1>2, <2>1, <2>4, <2>5 DEF RuntimeStep
<1>5. CASE Complete(id) \/ CloseByID(id)
  <2>1. PICK name \in {"complete", "close"} : Enter(name, id, FALSE)
    BY <1>5 DEF Complete, CloseByID
  <2>2. /\ Admitted /\ Unregistering(id)
        /\ UNCHANGED <<row, saved, poisoned, bound, root, switch, budget, granted, revision>>
    BY <1>5 DEF Complete, CloseByID
  <2>3. Registered(id) = session[id].registered BY <2>2, AdmittedKnows
  <2>4. RuntimeStep(id) BY <2>2 DEF Unregistering, RuntimeStep
  <2>5. ~session'[id].registered
    BY <2>2, <2>3 DEF Unregistering, UnregisterSession, Unregistered, TypeInv
  <2>6. \A other \in Ids \ {id} : session'[other] = session[other] BY <2>2, <2>4, RuntimeKeeps
  <2>7. op' \in Ops \cup {NoOp} /\ RowInv'
    BY <2>1, <2>2, <2>5, <2>6, EnteredKeeps DEF Transitions
  <2> QED BY <1>2, <2>2, <2>4, <2>7
<1> QED BY <1>1, <1>3, <1>4, <1>5 DEF Operation

-----------------------------------------------------------------------------
(* Publishing and settling an operation.                                   *)

\* What is known of an operation in progress.
LEMMA InProgress ==
    ASSUME TypeInv, RowInv, op # NoOp
    PROVE  /\ op \in Ops /\ switch = NoSwitch
           /\ \A id \in Ids \ {op.id} : SessionAgrees(id)
           /\ session[op.id] \in SessionStates
BY DEF TypeInv, RowInv, SwitchInv, AgreementInv, Ops

\* The save, whatever becomes of it.
LEMMA PublishKeeps ==
    ASSUME Inv, Publish
    PROVE  Inv'
<1>1. /\ op \in Ops /\ op # NoOp /\ op.stage = "publish" /\ switch = NoSwitch
      /\ \A id \in Ids \ {op.id} : SessionAgrees(id)
      /\ session[op.id] \in SessionStates
      /\ TypeInv /\ Entered
      /\ UNCHANGED <<root, switch, bound, session, nextSessionGeneration, tokens, budget,
                     granted, revision, call>>
  BY InProgress DEF Publish, Inv, RowInv, OpInv, runtimeVars, callVars
<1>2. PICK outcome \in {"durable", "rejected", "unknown"} :
        /\ poisoned \/ ~Accepts(op.name, row[op.id]) => outcome = "rejected"
        /\ op' = [op EXCEPT !.stage = outcome]
        /\ poisoned' = (poisoned \/ outcome = "unknown")
        /\ IF outcome = "rejected" THEN UNCHANGED <<row, saved>>
           ELSE /\ row' = [row EXCEPT ![op.id] = Target(op.name, @)]
                /\ saved' = IF op.name = "checkpoint" THEN saved \cup {op.id} ELSE saved
  BY DEF Publish
<1>3. /\ op.name \in Transitions /\ op.id \in Ids /\ op.registered \in BOOLEAN
      /\ op.active \in BOOLEAN
      /\ op' \in Ops /\ op' # NoOp /\ op'.name = op.name /\ op'.id = op.id
      /\ op'.stage = outcome /\ op'.registered = op.registered /\ op'.active = op.active
      /\ op'.abort = op.abort
  <2>1. op' \in Ops /\ op'.name = op.name /\ op.name \in Transitions
    BY <1>1, <1>2 DEF Ops, Stages
  <2>2. op'.name # "none" BY <2>1 DEF Transitions
  <2>3. op' # NoOp BY <2>2 DEF NoOp
  <2> QED BY <1>1, <1>2, <2>1, <2>3 DEF Ops
<1>4. /\ row' \in [Ids -> RowStatuses] /\ saved' \in SUBSET Ids /\ poisoned' \in BOOLEAN
      /\ \A id \in Ids \ {op.id} : row'[id] = row[id]
      /\ outcome # "rejected" => row'[op.id] = Target(op.name, row[op.id])
  <2>1. row \in [Ids -> RowStatuses] /\ row[op.id] \in RowStatuses
        /\ saved \in SUBSET Ids /\ poisoned \in BOOLEAN
    BY <1>1, <1>3 DEF TypeInv
  <2>2. Target(op.name, row[op.id]) \in RowStatuses
    BY <1>3, <2>1 DEF Target, Transitions, RowStatuses
  <2> QED BY <1>2, <1>3, <2>1, <2>2
<1>5. TypeInv' BY <1>1, <1>3, <1>4 DEF TypeInv
<1>6. BindingInv' /\ BudgetInv'
  BY <1>1 DEF Inv, BindingInv, BurnedStaysBurned, BudgetInv
<1>7. ASSUME NEW id \in Ids, id # op.id PROVE SessionAgrees(id)'
  <2>1. SessionAgrees(id) /\ row'[id] = row[id] BY <1>1, <1>4, <1>7
  <2>2. poisoned => poisoned' BY <1>2
  <2> QED BY <1>1, <1>4, <2>1, <2>2 DEF SessionAgrees, Agree, TypeInv
<1>8. AgreementInv' BY <1>3, <1>7 DEF AgreementInv
<1>9. SwitchInv' BY <1>1 DEF SwitchInv
<1>10. OpInv'
  <2>1. CASE outcome = "rejected"
    <3>1. row' = row /\ poisoned' = poisoned BY <1>1, <1>2, <2>1 DEF TypeInv
    <3>2. Entered' BY <1>1, <1>3, <3>1 DEF Entered, RememberedAgrees
    <3> QED BY <1>3, <2>1, <3>2 DEF OpInv
  <2>2. CASE outcome = "unknown"
    <3>1. poisoned' BY <1>2, <2>2
    <3>2. session[op.id].registered => op.id \in bound
      BY <1>1 DEF Entered, RememberedAgrees, Agree
    <3> QED BY <1>1, <1>3, <2>2, <3>1, <3>2 DEF OpInv
  <2>3. CASE outcome = "durable"
    <3>1. ~poisoned /\ ~poisoned' /\ Accepts(op.name, row[op.id])
          /\ row'[op.id] = Target(op.name, row[op.id])
      BY <1>1, <1>2, <1>4, <2>3
    <3>2. Agree(op.registered, op.active, row[op.id], op.id \in bound, FALSE)
      BY <1>1, <3>1 DEF Entered, RememberedAgrees, TypeInv, Agree
    <3>3. op.name = "begin" => row'[op.id] = "running" BY <3>1 DEF Target
    <3>4. op.name = "resume" => /\ row'[op.id] = "running" /\ session'[op.id].registered
                                /\ op'.registered /\ op'.id \in bound'
      <4>1. ASSUME op.name = "resume" PROVE op.registered /\ op.id \in bound
        <5>1. row[op.id] \in Open BY <1>1, <4>1 DEF Entered, Open
        <5> QED BY <3>2, <5>1 DEF Agree
      <4>2. op.name = "resume" => session[op.id].registered = op.registered
        BY <1>1 DEF Entered
      <4>3. op.name = "resume" => row'[op.id] = "running" BY <3>1 DEF Target
      <4> QED BY <1>1, <1>3, <4>1, <4>2, <4>3
    <3>5. op.name \in {"complete", "close", "discard"} =>
            row'[op.id] = "completed" /\ ~session'[op.id].registered
      <4>1. op.name \in {"complete", "close", "discard"} => row'[op.id] = "completed"
        BY <3>1 DEF Target
      <4>2. op.name = "discard" => ~op.registered
        BY <1>1, <3>2 DEF Entered, Agree, Open
      <4> QED BY <1>1, <4>1, <4>2 DEF Entered
    <3>6. op.name \notin {"begin", "resume", "complete", "close", "discard"} =>
            SessionAgrees(op.id)'
      <4>1. CASE op.name = "checkpoint"
        <5>1. row'[op.id] = row[op.id] BY <3>1, <4>1 DEF Target
        <5>2. session[op.id].registered = op.registered /\ session[op.id].active = op.active
          BY <1>1, <4>1 DEF Entered
        <5> QED BY <1>1, <1>3, <3>1, <3>2, <5>1, <5>2 DEF SessionAgrees, Agree
      <4>2. CASE op.name \in {"pause", "fail"}
        <5>1. row[op.id] = "running" /\ row'[op.id] \in {"paused", "failed"}
          BY <3>1, <4>2 DEF Target, Accepts
        <5>2. op.registered /\ op.id \in bound BY <3>2, <5>1 DEF Agree, Open
        <5>3. session[op.id].registered = op.registered /\ ~session[op.id].active
          BY <1>1, <4>2 DEF Entered
        <5> QED BY <1>1, <1>3, <3>1, <5>1, <5>2, <5>3 DEF SessionAgrees, Agree, Open
      <4> QED BY <1>3, <4>1, <4>2 DEF Transitions
    <3>7. op'.stage = "durable" BY <1>3, <2>3
    <3> QED BY <1>3, <3>1, <3>3, <3>4, <3>5, <3>6, <3>7 DEF OpInv
  <2> QED BY <1>2, <2>1, <2>2, <2>3
<1> QED BY <1>5, <1>6, <1>8, <1>9, <1>10 DEF Inv, RowInv

\* An operation that ends leaves its session in agreement.
LEMMA OperationEnds ==
    ASSUME TypeInv, RowInv, op # NoOp, op' = NoOp, UNCHANGED <<row, poisoned, switch>>,
           NEW own \in Ids, op.id = own,
           \A id \in Ids \ {own} : session'[id] = session[id] /\ (id \in bound' <=> id \in bound),
           SessionAgrees(own)'
    PROVE  RowInv'
<1>1. switch = NoSwitch /\ \A id \in Ids \ {op.id} : SessionAgrees(id) BY InProgress
<1>2. ASSUME NEW id \in Ids \ {op.id} PROVE SessionAgrees(id)'
  BY <1>1 DEF SessionAgrees
<1>3. AgreementInv' BY <1>2 DEF AgreementInv
<1> QED BY <1>1, <1>3 DEF RowInv, OpInv, SwitchInv

\* An operation that goes on: its session is its own business.
LEMMA OperationGoesOn ==
    ASSUME TypeInv, RowInv, op # NoOp, op' # NoOp, op'.id = op.id,
           UNCHANGED <<row, poisoned, switch>>,
           \A id \in Ids \ {op.id} : session'[id] = session[id] /\ (id \in bound' <=> id \in bound),
           OpInv'
    PROVE  RowInv'
<1>1. switch = NoSwitch /\ \A id \in Ids \ {op.id} : SessionAgrees(id) BY InProgress
<1>2. ASSUME NEW id \in Ids \ {op.id} PROVE SessionAgrees(id)'
  BY <1>1 DEF SessionAgrees
<1>3. AgreementInv' BY <1>2 DEF AgreementInv
<1> QED BY <1>1, <1>3 DEF RowInv, SwitchInv

\* The parts that a settling step has in common.
LEMMA SettlingKeeps ==
    ASSUME Inv, op # NoOp, UNCHANGED <<row, saved, poisoned, root, switch, budget, granted, revision>>,
           RuntimeStep(op.id), op' \in Ops \cup {NoOp}, bound' \in SUBSET Ids, RowInv'
    PROVE  Inv'
<1>1. op.id \in Ids BY InProgress DEF Inv, Ops
<1>2. /\ session' \in [Ids -> SessionStates] /\ nextSessionGeneration' \in Nat
      /\ tokens' \in SUBSET Bindings /\ call' \in [Callers -> Calls]
      /\ BindingInv' /\ BudgetInv'
  BY <1>1, RuntimeKeeps DEF Inv
<1>3. TypeInv' BY <1>2 DEF Inv, TypeInv
<1> QED BY <1>2, <1>3 DEF Inv

\* What the steps on one session make of it.
LEMMA SessionMoves ==
    ASSUME TypeInv, NEW id \in Ids
    PROVE  /\ RegisterSession(id) => session'[id].registered /\ session'[id].active
           /\ SuspendSession(id) =>
                session'[id].registered = session[id].registered /\ ~session'[id].active
           /\ ActivateSession(id) =>
                session'[id].registered = session[id].registered /\ session'[id].active
           /\ UnregisterSession(id) => ~session'[id].registered /\ ~session'[id].active
           /\ ~session[id].registered /\ BindingInv => ~session[id].active
<1>1. session \in [Ids -> SessionStates] BY DEF TypeInv
<1>2. RegisterSession(id) => session'[id].registered /\ session'[id].active
  BY <1>1 DEF RegisterSession
<1>3. SuspendSession(id) =>
        session'[id].registered = session[id].registered /\ ~session'[id].active
  BY <1>1 DEF SuspendSession, SessionStates
<1>4. ActivateSession(id) =>
        session'[id].registered = session[id].registered /\ session'[id].active
  BY <1>1 DEF ActivateSession, SessionStates
<1>5. UnregisterSession(id) => ~session'[id].registered /\ ~session'[id].active
  BY <1>1 DEF UnregisterSession, Unregistered
<1>6. ~session[id].registered /\ BindingInv => ~session[id].active
  BY DEF BindingInv, Generations, Unregistered
<1> QED BY <1>2, <1>3, <1>4, <1>5, <1>6

\* The session is as the operation remembers it, or as the row wants it, or
\* withdrawn together with its binding.
LEMMA FinishKeeps ==
    ASSUME Inv, Finish
    PROVE  Inv'
<1>0. PICK own \in Ids : own = op.id BY InProgress DEF Finish, Inv, Ops
<1>1. /\ op # NoOp /\ op \in Ops /\ own = op.id /\ op.name \in Transitions
      /\ op.registered \in BOOLEAN /\ op.active \in BOOLEAN
      /\ UNCHANGED <<row, saved, poisoned, root, switch, budget, granted, revision>>
      /\ TypeInv /\ RowInv /\ OpInv /\ BindingInv
      /\ bound \in SUBSET Ids
  BY <1>0, InProgress DEF Finish, Inv, RowInv, Ops, TypeInv
<1>2. ASSUME op' = NoOp, bound' \in SUBSET Ids, RuntimeStep(own),
             \A id \in Ids \ {own} : id \in bound' <=> id \in bound,
             SessionAgrees(own)'
      PROVE  Inv'
  <2>1. \A id \in Ids \ {own} : session'[id] = session[id]
    BY <1>1, <1>2, GenerationsMove
  <2>2. RowInv' BY <1>1, <1>2, <2>1, OperationEnds
  <2> QED BY <1>1, <1>2, <2>2, SettlingKeeps
<1>3. ASSUME op' \in Ops, op'.id = own, UNCHANGED bound, RuntimeStep(own), OpInv'
      PROVE  Inv'
  <2>1. \A id \in Ids \ {own} : session'[id] = session[id]
    BY <1>1, <1>3, GenerationsMove
  <2>2. op' # NoOp
    <3>1. op'.name \in Transitions BY <1>3 DEF Ops
    <3>2. op'.name # "none" BY <3>1 DEF Transitions
    <3> QED BY <3>2 DEF NoOp
  <2>3. RowInv' BY <1>1, <1>3, <2>1, <2>2, OperationGoesOn
  <2> QED BY <1>1, <1>3, <2>3, SettlingKeeps
<1>4. CASE Restore
  <2>1. op.stage = "rejected" /\ UNCHANGED bound /\ Entered /\ RememberedAgrees
    BY <1>1, <1>4 DEF Restore, OpInv, Entered
  <2>2. CASE op.name \in {"pause", "fail", "resume"} /\ op.active
    <3>1. ActivateSession(own) /\ op' = NoOp BY <1>1, <2>1, <2>2, <1>4 DEF Restore
    <3>2. session[own].registered /\ session[own].registered = op.registered
      BY <1>1, <2>1, <2>2 DEF Entered, RememberedAgrees, Agree
    <3>3. RuntimeStep(own) BY <3>1, <3>2 DEF RuntimeStep
    <3>4. session'[own].registered = op.registered /\ session'[own].active
      BY <1>1, <3>1, <3>2, SessionMoves
    <3>5. SessionAgrees(own)' 
      <4>1. Agree(session'[own].registered, session'[own].active, row[own], own \in bound, poisoned)
        BY <1>1, <2>1, <2>2, <3>4 DEF RememberedAgrees, Agree
      <4> QED BY <1>1, <2>1, <4>1 DEF SessionAgrees
    <3> QED BY <1>1, <1>2, <2>1, <3>1, <3>3, <3>5
  <2>3. CASE op.name \in {"complete", "close"} /\ op.registered /\ row[own] # "completed"
    <3>1. /\ RegisterSession(own)
          /\ op' = IF op.active THEN NoOp ELSE [op EXCEPT !.stage = "suspend"]
      BY <1>1, <2>1, <2>3, <1>4 DEF Restore
    <3>2. RuntimeStep(own) BY <3>1 DEF RuntimeStep
    <3>3. session'[own].registered /\ session'[own].active BY <1>1, <3>1, SessionMoves
    <3>4. CASE op.active
      <4>1. SessionAgrees(own)'
        <5>1. Agree(session'[own].registered, session'[own].active, row[own], own \in bound, poisoned)
          BY <1>1, <2>1, <2>3, <3>3, <3>4 DEF RememberedAgrees, Agree
        <5> QED BY <1>1, <2>1, <5>1 DEF SessionAgrees
      <4> QED BY <1>1, <1>2, <2>1, <3>1, <3>2, <3>4, <4>1
    <3>5. CASE ~op.active
      <4>1. /\ op' \in Ops /\ op'.id = own /\ op'.stage = "suspend" /\ op'.name = op.name
            /\ op'.registered = op.registered /\ op'.active = op.active
        BY <1>1, <3>1, <3>5 DEF Ops, Stages
      <4>2. RememberedAgrees' BY <1>1, <2>1, <4>1 DEF RememberedAgrees
      <4>3. OpInv' BY <2>3, <3>3, <3>5, <4>1, <4>2 DEF OpInv
      <4> QED BY <1>3, <2>1, <3>2, <4>1, <4>3
    <3> QED BY <3>4, <3>5
  <2>4. CASE /\ ~(op.name \in {"pause", "fail", "resume"} /\ op.active)
             /\ ~(op.name \in {"complete", "close"} /\ op.registered /\ row[own] # "completed")
    <3>1. op' = NoOp /\ UNCHANGED <<session, nextSessionGeneration, tokens, call>>
      BY <1>1, <2>1, <2>4, <1>4 DEF Restore
    <3>2. RuntimeStep(own) BY <3>1 DEF RuntimeStep
    <3>3. session[own].registered = op.registered
      BY <1>1, <2>1, <2>4 DEF Entered, RememberedAgrees, Agree, Open, TypeInv, SessionStates
    <3>4. session[own].active = op.active
      <4>1. session[own].active \in BOOLEAN /\ session[own].registered \in BOOLEAN
        BY <1>1 DEF TypeInv, SessionStates
      <4>2. op.active => op.registered BY <2>1 DEF RememberedAgrees, Agree
      <4>3. ~session[own].registered => ~session[own].active BY <1>1, SessionMoves
      <4> QED BY <1>1, <2>1, <2>4, <3>3, <4>1, <4>2, <4>3 DEF Entered
    <3>5. SessionAgrees(own)'
      <4>1. Agree(session'[own].registered, session'[own].active, row[own], own \in bound, poisoned)
        BY <1>1, <2>1, <3>1, <3>3, <3>4 DEF RememberedAgrees
      <4> QED BY <1>1, <2>1, <4>1 DEF SessionAgrees
    <3> QED BY <1>1, <1>2, <2>1, <3>1, <3>2, <3>5
  <2> QED BY <2>2, <2>3, <2>4
<1>5. CASE Resuspend
  <2>1. /\ SuspendSession(own) /\ op' = NoOp /\ UNCHANGED bound
        /\ op.registered /\ ~op.active /\ RememberedAgrees /\ session[own].registered
    BY <1>1, <1>5 DEF Resuspend, OpInv
  <2>2. RuntimeStep(own) BY <2>1 DEF RuntimeStep
  <2>3. session'[own].registered /\ ~session'[own].active BY <1>1, <2>1, SessionMoves
  <2>4. SessionAgrees(own)'
    <3>1. Agree(session'[own].registered, session'[own].active, row[own], own \in bound, poisoned)
      BY <1>1, <2>1, <2>3 DEF RememberedAgrees, Agree
    <3> QED BY <1>1, <2>1, <3>1 DEF SessionAgrees
  <2> QED BY <1>1, <1>2, <2>1, <2>2, <2>4
<1>6. CASE Revoke
  <2>1. /\ Unregistering(own) /\ bound' = bound \ {own} /\ op' = NoOp /\ poisoned
        /\ session[own].registered => own \in bound
    BY <1>1, <1>6 DEF Revoke, OpInv
  <2>2. RuntimeStep(own) BY <2>1 DEF Unregistering, RuntimeStep
  <2>3. SessionAgrees(own)'
    <3>1. CASE UnregisterSession(own)
      <4>1. ~session'[own].registered /\ ~session'[own].active BY <1>1, <3>1, SessionMoves
      <4> QED BY <1>1, <2>1, <4>1 DEF SessionAgrees, Agree
    <3>2. CASE ~Registered(own) /\ session' = session
      <4>1. ~session[own].registered BY <2>1, <3>2 DEF Registered
      <4>2. ~session[own].active BY <1>1, <4>1, SessionMoves
      <4> QED BY <1>1, <2>1, <3>2, <4>1, <4>2 DEF SessionAgrees, Agree
    <3> QED BY <2>1, <3>1, <3>2 DEF Unregistering
  <2> QED BY <1>1, <1>2, <2>1, <2>2, <2>3
<1>7. CASE Settle
  <2>1. op.stage = "durable" /\ ~poisoned BY <1>1, <1>7 DEF Settle, OpInv
  <2>2. CASE op.name = "begin"
    <3>1. /\ RegisterSession(own) /\ bound' = bound \cup {own} /\ op' = NoOp
          /\ row[own] = "running"
      BY <1>1, <1>7, <2>1, <2>2 DEF Settle, OpInv
    <3>2. RuntimeStep(own) BY <3>1 DEF RuntimeStep
    <3>3. session'[own].registered /\ session'[own].active BY <1>1, <3>1, SessionMoves
    <3>4. SessionAgrees(own)' BY <1>1, <3>1, <3>3 DEF SessionAgrees, Agree, Open
    <3> QED BY <1>1, <1>2, <3>1, <3>2, <3>4
  <2>3. CASE op.name = "resume"
    <3>1. /\ ActivateSession(own) /\ UNCHANGED bound
          /\ row[own] = "running" /\ session[own].registered /\ own \in bound
          /\ op' = IF op.abort THEN [op EXCEPT !.name = "fail", !.stage = "abort", !.abort = FALSE]
                   ELSE NoOp
      BY <1>1, <1>7, <2>1, <2>3 DEF Settle, OpInv
    <3>2. RuntimeStep(own) BY <3>1 DEF RuntimeStep
    <3>3. session'[own].registered /\ session'[own].active BY <1>1, <3>1, SessionMoves
    <3>4. CASE ~op.abort
      <4>1. SessionAgrees(own)' BY <1>1, <3>1, <3>3 DEF SessionAgrees, Agree, Open
      <4> QED BY <1>1, <1>2, <3>1, <3>2, <3>4, <4>1
    <3>5. CASE op.abort
      <4>1. op' = [op EXCEPT !.name = "fail", !.stage = "abort", !.abort = FALSE] BY <3>1, <3>5
      <4>2. op' \in Ops /\ op'.id = own /\ op'.stage = "abort" /\ op'.name = "fail"
        BY <1>1, <4>1 DEF Ops, Stages, Transitions
      <4>3. OpInv' BY <1>1, <2>1, <3>1, <3>3, <4>2 DEF OpInv
      <4> QED BY <1>3, <3>1, <3>2, <4>2, <4>3
    <3> QED BY <3>4, <3>5
  <2>4. CASE op.name \notin {"begin", "resume"}
    <3>1. /\ UNCHANGED <<session, nextSessionGeneration, tokens, call>> /\ op' = NoOp
          /\ bound' = IF op.name \in {"complete", "close"} THEN bound \ {own} ELSE bound
      BY <1>1, <1>7, <2>4 DEF Settle
    <3>2. RuntimeStep(own) BY <3>1 DEF RuntimeStep
    <3>3. SessionAgrees(own)'
      <4>1. CASE op.name \in {"complete", "close", "discard"}
        <5>1. row[own] = "completed" /\ ~session[own].registered
          BY <1>1, <2>1, <4>1 DEF OpInv
        <5>2. ~session[own].active BY <1>1, <5>1, SessionMoves
        <5> QED BY <1>1, <3>1, <5>1, <5>2 DEF SessionAgrees, Agree, Open
      <4>2. CASE op.name \notin {"complete", "close", "discard"}
        <5>1. SessionAgrees(own) /\ bound' = bound
          BY <1>1, <2>1, <2>4, <3>1, <4>2 DEF OpInv
        <5> QED BY <1>1, <3>1, <5>1 DEF SessionAgrees
      <4> QED BY <4>1, <4>2
    <3> QED BY <1>1, <1>2, <3>1, <3>2, <3>3
  <2> QED BY <2>2, <2>3, <2>4
<1>8. CASE AbortResumed
  <2>1. /\ SuspendSession(own) /\ UNCHANGED bound
        /\ op' = [op EXCEPT !.stage = "publish", !.registered = TRUE, !.active = TRUE]
        /\ op.name = "fail" /\ row[own] = "running" /\ session[own].registered
        /\ own \in bound
    BY <1>1, <1>8 DEF AbortResumed, OpInv
  <2>2. RuntimeStep(own) BY <2>1 DEF RuntimeStep
  <2>3. session'[own].registered /\ ~session'[own].active BY <1>1, <2>1, SessionMoves
  <2>4. /\ op' \in Ops /\ op'.id = own /\ op'.stage = "publish" /\ op'.name = "fail"
        /\ op'.registered /\ op'.active
    BY <1>1, <2>1 DEF Ops, Stages
  <2>5. RememberedAgrees' BY <1>1, <2>1, <2>4 DEF RememberedAgrees, Agree, Open
  <2>6. Entered' BY <2>3, <2>4, <2>5 DEF Entered
  <2>7. OpInv' BY <2>4, <2>6 DEF OpInv
  <2> QED BY <1>3, <2>1, <2>2, <2>4, <2>7
<1> QED BY <1>4, <1>5, <1>6, <1>7, <1>8 DEF Finish

-----------------------------------------------------------------------------
(* Requests and executions.                                                *)

\* One call moves: the others keep what they have reserved.
LEMMA OneCallReserves ==
    ASSUME NEW c \in Callers, NEW epoch,
           \A d \in Callers \ {c} : call'[d] = call[d]
    PROVE  /\ Reserved(call', epoch) \cup {c} = Reserved(call, epoch) \cup {c}
           /\ c \in Reserved(call, epoch) <=> Reserves(call[c]) /\ call[c].binding.epoch = epoch
           /\ c \in Reserved(call', epoch) <=>
                Reserves(call'[c]) /\ call'[c].binding.epoch = epoch
BY DEF Reserved

\* A call whose reservation stays as it is.
LEMMA ReservationStays ==
    ASSUME TypeInv, BudgetInv, NEW c \in Callers, \A d \in Callers \ {c} : call'[d] = call[d],
           Reserves(call'[c]) <=> Reserves(call[c]),
           Reserves(call[c]) => call'[c].binding.epoch = call[c].binding.epoch,
           UNCHANGED <<budget, granted>>
    PROVE  BudgetInv'
<1>1. Reserved(call', budget'.epoch) = Reserved(call, budget.epoch)
  <2>1. c \in Reserved(call', budget.epoch) <=> c \in Reserved(call, budget.epoch)
    BY OneCallReserves
  <2>2. Reserved(call', budget.epoch) \cup {c} = Reserved(call, budget.epoch) \cup {c}
    BY OneCallReserves
  <2>3. Reserved(call', budget.epoch) = Reserved(call, budget.epoch) BY <2>1, <2>2
  <2> QED BY <2>3
<1>2. \A d \in Callers : Reserves(call'[d]) => call'[d].binding.epoch <= budget.epoch
  BY DEF BudgetInv
<1> QED BY <1>1, <1>2 DEF BudgetInv

\* A call makes a reservation in the current epoch.
LEMMA ReservationMade ==
    ASSUME TypeInv, BudgetInv, NEW c \in Callers, \A d \in Callers \ {c} : call'[d] = call[d],
           ~Reserves(call[c]), Reserves(call'[c]), call'[c].binding.epoch = budget.epoch,
           budget' = [budget EXCEPT !.spent = @ + 1], budget.spent < Limit, UNCHANGED granted
    PROVE  BudgetInv'
<1>1. /\ budget.epoch \in Nat /\ budget.spent \in Nat /\ granted \in Nat /\ Limit \in Nat
      /\ budget'.epoch = budget.epoch /\ budget'.spent = budget.spent + 1
  BY LifecycleAssumption DEF TypeInv
<1>2. /\ IsFiniteSet(Reserved(call, budget.epoch))
      /\ budget.spent = granted + Cardinality(Reserved(call, budget.epoch))
  BY DEF BudgetInv
<1>3. c \notin Reserved(call, budget.epoch)
      /\ Reserved(call', budget.epoch) = Reserved(call, budget.epoch) \cup {c}
  BY OneCallReserves
<1>4. /\ IsFiniteSet(Reserved(call', budget.epoch))
      /\ Cardinality(Reserved(call', budget.epoch)) = Cardinality(Reserved(call, budget.epoch)) + 1
  BY <1>2, <1>3, FS_AddElement
<1>5. Cardinality(Reserved(call, budget.epoch)) \in Nat BY <1>2, FS_CardinalityType
<1>6. \A d \in Callers : Reserves(call'[d]) => call'[d].binding.epoch <= budget'.epoch
  BY <1>1 DEF BudgetInv
<1>7. budget'.spent <= Limit /\ granted' = granted BY <1>1
<1> QED BY <1>1, <1>2, <1>4, <1>5, <1>6, <1>7 DEF BudgetInv

\* A call gives up its reservation: it was granted, released, or is of an
\* earlier epoch.
LEMMA ReservationEnds ==
    ASSUME TypeInv, BudgetInv, NEW c \in Callers, \A d \in Callers \ {c} : call'[d] = call[d],
           Reserves(call[c]), ~Reserves(call'[c]),
           budget' \in [epoch : Nat, spent : Int], granted' \in Nat, budget'.epoch = budget.epoch,
           budget'.spent <= budget.spent,
           budget'.spent - granted' = budget.spent - granted
               - (IF call[c].binding.epoch = budget.epoch THEN 1 ELSE 0)
    PROVE  BudgetInv' /\ budget'.spent \in Nat
<1>1. budget.epoch \in Nat /\ budget.spent \in Nat /\ granted \in Nat /\ Limit \in Nat
  BY LifecycleAssumption DEF TypeInv
<1>2. /\ IsFiniteSet(Reserved(call, budget.epoch)) /\ budget.spent <= Limit
      /\ budget.spent = granted + Cardinality(Reserved(call, budget.epoch))
  BY DEF BudgetInv
<1>3. c \notin Reserved(call', budget.epoch)
      /\ Reserved(call', budget.epoch) = Reserved(call, budget.epoch) \ {c}
      /\ (c \in Reserved(call, budget.epoch) <=> call[c].binding.epoch = budget.epoch)
  BY OneCallReserves
<1>4. /\ IsFiniteSet(Reserved(call', budget.epoch))
      /\ Cardinality(Reserved(call', budget.epoch)) =
           Cardinality(Reserved(call, budget.epoch))
               - (IF call[c].binding.epoch = budget.epoch THEN 1 ELSE 0)
  <2>1. CASE c \in Reserved(call, budget.epoch) BY <1>2, <1>3, <2>1, FS_RemoveElement
  <2>2. CASE c \notin Reserved(call, budget.epoch)
    <3>1. Reserved(call', budget.epoch) = Reserved(call, budget.epoch) BY <1>3, <2>2
    <3>2. Cardinality(Reserved(call, budget.epoch)) \in Nat BY <1>2, FS_CardinalityType
    <3>3. call[c].binding.epoch # budget.epoch BY <1>3, <2>2
    <3> QED BY <1>2, <3>1, <3>2, <3>3
  <2> QED BY <2>1, <2>2
<1>5. /\ Cardinality(Reserved(call, budget.epoch)) \in Nat
      /\ Cardinality(Reserved(call', budget.epoch)) \in Nat
  BY <1>2, <1>4, FS_CardinalityType
<1>6. budget'.spent \in Int OBVIOUS
<1>7. budget'.spent = granted' + Cardinality(Reserved(call', budget.epoch))
  BY <1>1, <1>2, <1>4, <1>5, <1>6
<1>8. \A d \in Callers : Reserves(call'[d]) => call'[d].binding.epoch <= budget.epoch
  BY DEF BudgetInv
<1>9. budget'.spent <= Limit BY <1>1, <1>2, <1>6
<1>10. budget'.spent \in Nat BY <1>5, <1>7
<1> QED BY <1>4, <1>7, <1>8, <1>9, <1>10 DEF BudgetInv

\* A call moves with a binding of a generation that was handed out, and starts
\* a handler only with one that is not burned.
LEMMA OneCallBinds ==
    ASSUME BindingInv, NEW c \in Callers, \A d \in Callers \ {c} : call'[d] = call[d],
           UNCHANGED <<session, nextSessionGeneration>>,
           \A t \in tokens' : t \in tokens \/ Bound(t, session, nextSessionGeneration),
           call'[c].phase \in Requesting =>
               Bound(call'[c].binding, session, nextSessionGeneration),
           call'[c].phase \in {"starting", "running"} => ~call'[c].binding.burned
    PROVE  BindingInv'
<1>1. \A t \in tokens' : Bound(t, session, nextSessionGeneration) BY DEF BindingInv
<1>2. \A d \in Callers : call'[d].phase \in Requesting =>
          Bound(call'[d].binding, session, nextSessionGeneration)
  BY DEF BindingInv
<1>3. \A d \in Callers : call'[d].phase \in {"starting", "running"} => ~call'[d].binding.burned
  BY DEF BindingInv, BurnedStaysBurned
<1> QED BY <1>1, <1>2, <1>3 DEF BindingInv, BurnedStaysBurned

\* A call that ends holds nothing.
LEMMA OneCallEnds ==
    ASSUME TypeInv, NEW c \in Callers, Ends(c)
    PROVE  /\ call' \in [Callers -> Calls] /\ call'[c].phase = "idle"
           /\ \A d \in Callers \ {c} : call'[d] = call[d]
<1>1. NoBinding \in Bindings BY LifecycleAssumption DEF NoBinding, Bindings
<1>2. NoCall \in Calls /\ NoCall.phase = "idle" BY <1>1 DEF NoCall, Calls, Phases
<1> QED BY <1>2 DEF Ends, TypeInv

\* A call that moves keeps its binding.
LEMMA CallMoves ==
    ASSUME TypeInv, NEW c \in Callers, NEW phase \in Phases, Moves(c, phase)
    PROVE  /\ call' \in [Callers -> Calls] /\ call'[c].phase = phase
           /\ call'[c].binding = call[c].binding
           /\ \A d \in Callers \ {c} : call'[d] = call[d]
<1>1. call \in [Callers -> Calls] BY DEF TypeInv
<1> QED BY <1>1 DEF Moves, Calls

\* A binding that its session still answers to is not burned.
LEMMA LiveIsNotBurned ==
    ASSUME NEW b, Bound(b, session, nextSessionGeneration), LiveSession(b)
    PROVE  ~b.burned
BY DEF Bound, LiveSession

\* Every step of a request or of an execution.
LEMMA CallKeeps ==
    ASSUME Inv, NEW c \in Callers, CallStep(c)
    PROVE  Inv'
<1>1. /\ TypeInv /\ RowInv /\ BindingInv /\ BudgetInv /\ call[c] \in Calls
      /\ call[c].binding \in Bindings /\ call[c].phase \in Phases
      /\ tokens \in SUBSET Bindings
      /\ UNCHANGED <<row, saved, poisoned, bound, session, nextSessionGeneration, op,
                     root, switch>>
  BY DEF Inv, CallStep, TypeInv, Calls
<1>2. ASSUME call' \in [Callers -> Calls], tokens' \in SUBSET Bindings,
             budget' \in [epoch : Nat, spent : Nat], granted' \in Nat, revision' = revision,
             switch = NoSwitch, BindingInv', BudgetInv'
      PROVE  Inv'
  <2>1. TypeInv' BY <1>1, <1>2 DEF TypeInv
  <2>2. OpInv' BY <1>1 DEF RowInv, OpInv, Entered, RememberedAgrees, SessionAgrees
  <2>3. AgreementInv' BY <1>1 DEF RowInv, AgreementInv, SessionAgrees
  <2>4. SwitchInv' BY <1>1, <1>2 DEF SwitchInv
  <2> QED BY <1>2, <2>1, <2>2, <2>3, <2>4 DEF Inv, RowInv
<1>3. call[c].phase # "idle" => switch = NoSwitch BY <1>1 DEF RowInv, SwitchInv
<1>4. /\ budget \in [epoch : Nat, spent : Nat] /\ granted \in Nat
      /\ budget.spent \in Nat /\ budget.epoch \in Nat /\ revision \in Nat /\ root \in Nat
      /\ nextSessionGeneration \in Nat
  BY <1>1 DEF TypeInv
<1>5. call[c].phase \in Requesting => Bound(call[c].binding, session, nextSessionGeneration)
  BY <1>1 DEF BindingInv
<1>6. ASSUME Ends(c), UNCHANGED <<budget, granted, revision>>, tokens' \subseteq tokens,
             ~Reserves(call[c]), switch = NoSwitch
      PROVE  Inv'
  <2>1. /\ call' \in [Callers -> Calls] /\ call'[c].phase = "idle"
        /\ \A d \in Callers \ {c} : call'[d] = call[d]
    BY <1>1, <1>6, OneCallEnds
  <2>2. BudgetInv' BY <1>1, <1>6, <2>1, ReservationStays DEF Reserves
  <2>3. BindingInv' BY <1>1, <1>6, <2>1, OneCallBinds DEF Requesting
  <2> QED BY <1>1, <1>2, <1>4, <1>6, <2>1, <2>2, <2>3
<1>7. ASSUME NEW id \in Ids, Request(c, id) PROVE Inv'
  <2> DEFINE b == [id |-> id, generation |-> session[id].generation, root |-> root, epoch |-> 0,
                   revision |-> revision, burned |-> FALSE]
             v == [phase |-> "asking", live |-> TRUE, binding |-> b]
  <2>1. /\ switch = NoSwitch /\ call[c].phase = "idle" /\ session[id].active
        /\ call' = [call EXCEPT ![c] = v]
        /\ UNCHANGED <<tokens, budget, granted, revision>>
    BY <1>7 DEF Request
  <2>2. session[id] \in SessionStates /\ session[id].generation \in Nat
    BY <1>1 DEF TypeInv, SessionStates
  <2>3. session[id].generation \in 1 .. nextSessionGeneration
    BY <1>1, <2>1 DEF BindingInv, Generations, Unregistered
  <2>4. b \in Bindings BY <1>4, <2>2 DEF Bindings
  <2>5. Bound(b, session, nextSessionGeneration) BY <2>3 DEF Bound
  <2>6. v \in Calls /\ v.phase = "asking" /\ v.binding = b BY <2>4 DEF Calls, Phases
  <2> HIDE DEF b, v
  <2>7. /\ call' \in [Callers -> Calls] /\ call'[c] = v
        /\ \A d \in Callers \ {c} : call'[d] = call[d]
    BY <1>1, <2>1, <2>6 DEF TypeInv
  <2>8. BudgetInv' BY <1>1, <2>1, <2>6, <2>7, ReservationStays DEF Reserves
  <2>9. BindingInv' BY <1>1, <2>1, <2>5, <2>6, <2>7, OneCallBinds
  <2> QED BY <1>1, <1>2, <1>4, <2>1, <2>7, <2>8, <2>9
<1>8. CASE Approve(c)
  <2>1. call[c].phase = "asking" /\ UNCHANGED <<tokens, budget, granted, revision>>
    BY <1>8 DEF Approve
  <2>2. CASE Ends(c) BY <1>3, <1>6, <2>1, <2>2 DEF Reserves
  <2>3. CASE Moves(c, "reserving")
    <3>1. /\ call' \in [Callers -> Calls] /\ call'[c].phase = "reserving"
          /\ call'[c].binding = call[c].binding /\ \A d \in Callers \ {c} : call'[d] = call[d]
      BY <1>1, <2>3, CallMoves DEF Phases
    <3>2. BudgetInv' BY <1>1, <2>1, <3>1, ReservationStays DEF Reserves
    <3>3. BindingInv' BY <1>1, <1>5, <2>1, <3>1, OneCallBinds DEF Requesting
    <3> QED BY <1>1, <1>2, <1>3, <1>4, <2>1, <3>1, <3>2, <3>3
  <2> QED BY <1>8, <2>2, <2>3 DEF Approve
<1>9. CASE Reserve(c)
  <2>1. call[c].phase = "reserving" /\ UNCHANGED <<tokens, granted, revision>>
    BY <1>9 DEF Reserve
  <2>2. CASE Ends(c) /\ UNCHANGED budget BY <1>3, <1>6, <2>1, <2>2 DEF Reserves
  <2>3. CASE /\ budget.spent < Limit /\ budget' = [budget EXCEPT !.spent = @ + 1]
             /\ call' = [call EXCEPT ![c].phase = "issuing", ![c].binding.epoch = budget.epoch]
    <3>1. /\ call' \in [Callers -> Calls] /\ call'[c].phase = "issuing"
          /\ call'[c].binding.epoch = budget.epoch
          /\ call'[c].binding.generation = call[c].binding.generation
          /\ call'[c].binding.id = call[c].binding.id
          /\ call'[c].binding.burned = call[c].binding.burned
          /\ \A d \in Callers \ {c} : call'[d] = call[d]
      <4>1. call \in [Callers -> Calls] BY <1>1 DEF TypeInv
      <4> QED BY <1>1, <1>4, <2>3, <4>1 DEF Calls, Bindings, Phases
    <3>2. BudgetInv' BY <1>1, <2>1, <2>3, <3>1, ReservationMade DEF Reserves
    <3>3. Bound(call'[c].binding, session, nextSessionGeneration)
      BY <1>5, <2>1, <3>1 DEF Bound, Requesting
    <3>4. BindingInv' BY <1>1, <2>1, <3>1, <3>3, OneCallBinds
    <3>5. budget' \in [epoch : Nat, spent : Nat] BY <1>4, <2>3
    <3> QED BY <1>1, <1>2, <1>3, <1>4, <2>1, <3>1, <3>2, <3>4, <3>5
  <2> QED BY <1>9, <2>2, <2>3 DEF Reserve
<1>10. CASE Issue(c)
  <2>1. call[c].phase = "issuing" /\ UNCHANGED <<budget, granted, revision>>
    BY <1>10 DEF Issue
  <2>2. PICK phase \in {"auditing", "releasing"} :
          Moves(c, phase) /\ tokens' \subseteq tokens \cup {call[c].binding}
    BY <1>10 DEF Issue
  <2>3. /\ call' \in [Callers -> Calls] /\ call'[c].phase = phase
        /\ call'[c].binding = call[c].binding /\ \A d \in Callers \ {c} : call'[d] = call[d]
    BY <1>1, <2>2, CallMoves DEF Phases
  <2>4. BudgetInv' BY <1>1, <2>1, <2>3, ReservationStays DEF Reserves
  <2>5. BindingInv' BY <1>1, <1>5, <2>1, <2>2, <2>3, OneCallBinds DEF Requesting
  <2> QED BY <1>1, <1>2, <1>3, <1>4, <2>1, <2>2, <2>3, <2>4, <2>5
<1>11. CASE AuditGrant(c)
  <2>1. /\ call[c].phase = "auditing" /\ Reserves(call[c]) /\ UNCHANGED <<budget, revision>>
        /\ switch = NoSwitch
    BY <1>3, <1>11 DEF AuditGrant, Reserves
  <2>2. CASE /\ Ends(c) /\ UNCHANGED tokens
             /\ granted' = granted + (IF call[c].binding.epoch = budget.epoch THEN 1 ELSE 0)
    <3>1. /\ call' \in [Callers -> Calls] /\ call'[c].phase = "idle"
          /\ \A d \in Callers \ {c} : call'[d] = call[d]
      BY <1>1, <2>2, OneCallEnds
    <3>2. granted' \in Nat BY <1>4, <2>2
    <3>3. ~Reserves(call'[c]) BY <3>1 DEF Reserves
    <3>4. /\ budget' = budget /\ budget' \in [epoch : Nat, spent : Int]
          /\ budget'.spent <= budget.spent
          /\ budget'.spent - granted' = budget.spent - granted
                 - (IF call[c].binding.epoch = budget.epoch THEN 1 ELSE 0)
      BY <1>4, <2>1, <2>2
    <3>5. BudgetInv' BY <1>1, <2>1, <3>1, <3>2, <3>3, <3>4, ReservationEnds
    <3>6. BindingInv' BY <1>1, <2>2, <3>1, OneCallBinds DEF Requesting
    <3> QED BY <1>1, <1>2, <1>4, <2>1, <2>2, <3>1, <3>2, <3>5, <3>6
  <2>3. CASE Moves(c, "releasing") /\ tokens' = tokens \ {call[c].binding} /\ UNCHANGED granted
    <3>1. /\ call' \in [Callers -> Calls] /\ call'[c].phase = "releasing"
          /\ call'[c].binding = call[c].binding /\ \A d \in Callers \ {c} : call'[d] = call[d]
      BY <1>1, <2>3, CallMoves DEF Phases
    <3>2. BudgetInv' BY <1>1, <2>1, <2>3, <3>1, ReservationStays DEF Reserves
    <3>3. BindingInv' BY <1>1, <2>3, <3>1, OneCallBinds DEF Requesting
    <3> QED BY <1>1, <1>2, <1>4, <2>1, <2>3, <3>1, <3>2, <3>3
  <2> QED BY <1>11, <2>2, <2>3 DEF AuditGrant
<1>12. CASE ReleaseReservation(c)
  <2>1. /\ call[c].phase = "releasing" /\ Reserves(call[c]) /\ Ends(c)
        /\ budget' = IF call[c].binding.epoch = budget.epoch
                     THEN [budget EXCEPT !.spent = @ - 1] ELSE budget
        /\ UNCHANGED <<tokens, granted, revision>> /\ switch = NoSwitch
    BY <1>3, <1>12 DEF ReleaseReservation, Reserves
  <2>2. /\ call' \in [Callers -> Calls] /\ call'[c].phase = "idle"
        /\ \A d \in Callers \ {c} : call'[d] = call[d]
    BY <1>1, <2>1, OneCallEnds
  <2>3. ~Reserves(call'[c]) BY <2>2 DEF Reserves
  <2>4. /\ budget' \in [epoch : Nat, spent : Int] /\ budget'.epoch = budget.epoch
        /\ budget'.spent = budget.spent - (IF call[c].binding.epoch = budget.epoch THEN 1 ELSE 0)
    BY <1>4, <2>1
  <2>5. /\ budget'.spent <= budget.spent
        /\ budget'.spent - granted' = budget.spent - granted
               - (IF call[c].binding.epoch = budget.epoch THEN 1 ELSE 0)
    BY <1>4, <2>1, <2>4
  <2>6. granted' \in Nat BY <1>4, <2>1
  <2>7. BudgetInv' /\ budget'.spent \in Nat
    BY <1>1, <2>1, <2>2, <2>3, <2>4, <2>5, <2>6, ReservationEnds
  <2>8. BindingInv' BY <1>1, <2>1, <2>2, OneCallBinds DEF Requesting
  <2>9. budget' \in [epoch : Nat, spent : Nat] BY <2>4, <2>7
  <2> QED BY <1>1, <1>2, <1>4, <2>1, <2>2, <2>7, <2>8, <2>9
<1>13. ASSUME NEW t \in tokens, Redeem(c, t) PROVE Inv'
  <2>1. /\ switch = NoSwitch /\ call[c].phase = "idle" /\ tokens' = tokens \ {t}
        /\ UNCHANGED <<budget, granted, revision>>
        /\ \/ UNCHANGED call
           \/ /\ LiveSession(t)
              /\ call' = [call EXCEPT ![c] =
                            [phase |-> "starting", binding |-> t, live |-> TRUE]]
    BY <1>13 DEF Redeem
  <2>2. CASE UNCHANGED call
    <3>1. BudgetInv' BY <1>1, <2>1, <2>2 DEF BudgetInv
    <3>2. BindingInv' BY <1>1, <2>1, <2>2 DEF BindingInv, BurnedStaysBurned
    <3>3. call' \in [Callers -> Calls] BY <1>1, <2>2 DEF TypeInv
    <3> QED BY <1>1, <1>2, <1>4, <2>1, <3>1, <3>2, <3>3
  <2>3. CASE /\ LiveSession(t)
             /\ call' = [call EXCEPT ![c] = [phase |-> "starting", binding |-> t, live |-> TRUE]]
    <3>1. ~t.burned BY <1>1, <2>3, LiveIsNotBurned DEF BindingInv
    <3>2. t \in Bindings BY <1>1
    <3>3. /\ call' \in [Callers -> Calls] /\ call'[c].phase = "starting"
          /\ call'[c].binding = t /\ \A d \in Callers \ {c} : call'[d] = call[d]
      BY <1>1, <2>3, <3>2 DEF TypeInv, Calls, Phases
    <3>4. BudgetInv' BY <1>1, <2>1, <3>3, ReservationStays DEF Reserves
    <3>5. BindingInv' BY <1>1, <2>1, <3>1, <3>3, OneCallBinds DEF Requesting
    <3> QED BY <1>1, <1>2, <1>4, <2>1, <3>3, <3>4, <3>5
  <2> QED BY <2>1, <2>2, <2>3
<1>14. CASE BeginUsage(c)
  <2>1. /\ call[c].phase = "starting" /\ UNCHANGED <<tokens, budget, granted, revision>>
        /\ switch = NoSwitch
    BY <1>3, <1>14 DEF BeginUsage
  <2>2. CASE Ends(c) BY <1>6, <2>1, <2>2 DEF Reserves
  <2>3. CASE call' = [call EXCEPT ![c].phase = "running",
                                  ![c].live = Registered(call[c].binding.id)]
    <3>1. Registered(call[c].binding.id) \in BOOLEAN
      BY <1>1 DEF Registered, TypeInv, SessionStates, Bindings
    <3>2. /\ call' \in [Callers -> Calls] /\ call'[c].phase = "running"
          /\ call'[c].binding = call[c].binding /\ \A d \in Callers \ {c} : call'[d] = call[d]
      BY <1>1, <2>3, <3>1 DEF TypeInv, Calls, Phases
    <3>3. BudgetInv' BY <1>1, <2>1, <3>2, ReservationStays DEF Reserves
    <3>4. ~call[c].binding.burned BY <1>1, <2>1 DEF BindingInv, BurnedStaysBurned
    <3>5. BindingInv' BY <1>1, <2>1, <3>2, <3>4, OneCallBinds DEF Requesting
    <3> QED BY <1>1, <1>2, <1>4, <2>1, <3>2, <3>3, <3>5
  <2> QED BY <1>14, <2>2, <2>3 DEF BeginUsage
<1>15. CASE EndExecution(c)
  <2>1. call[c].phase = "running" /\ Ends(c) /\ UNCHANGED <<tokens, budget, granted, revision>>
    BY <1>15 DEF EndExecution
  <2> QED BY <1>3, <1>6, <2>1 DEF Reserves
<1> QED BY <1>7, <1>8, <1>9, <1>10, <1>11, <1>12, <1>13, <1>14, <1>15 DEF CallStep

-----------------------------------------------------------------------------
(* Epochs, catalogs and switches.                                          *)

\* A new epoch starts with nothing reserved in it.
LEMMA EpochKeeps ==
    ASSUME Inv, NewEpoch
    PROVE  Inv'
<1>1. /\ budget' = [epoch |-> budget.epoch + 1, spent |-> 0] /\ granted' = 0
      /\ UNCHANGED <<row, saved, poisoned, bound, session, nextSessionGeneration, tokens, op,
                     root, switch, revision, call>>
  BY DEF NewEpoch, runtimeVars
<1>2. budget \in [epoch : Nat, spent : Nat] /\ budget.epoch \in Nat /\ Limit \in Nat
  BY LifecycleAssumption DEF Inv, TypeInv
<1>3. budget' \in [epoch : Nat, spent : Nat] /\ budget'.epoch = budget.epoch + 1 /\ budget'.spent = 0
  BY <1>1, <1>2
<1>4. \A c \in Callers : call[c] \in Calls /\ call[c].binding.epoch \in Nat
  BY DEF Inv, TypeInv, Calls, Bindings
<1>5. \A c \in Callers : Reserves(call[c]) => call[c].binding.epoch < budget'.epoch
  BY <1>2, <1>3, <1>4 DEF Inv, BudgetInv
<1>6. Reserved(call', budget'.epoch) = {} BY <1>1, <1>2, <1>3, <1>4, <1>5 DEF Reserved
<1>7. IsFiniteSet({}) /\ Cardinality({}) = 0 BY FS_EmptySet
<1>8. \A c \in Callers : Reserves(call[c]) => call[c].binding.epoch <= budget'.epoch
  BY <1>2, <1>3, <1>4, <1>5
<1>9. BudgetInv' BY <1>1, <1>2, <1>3, <1>6, <1>7, <1>8 DEF BudgetInv
<1>10. TypeInv' BY <1>1, <1>3 DEF Inv, TypeInv
<1>11. BindingInv' BY <1>1 DEF Inv, BindingInv, BurnedStaysBurned
<1>12. RowInv'
  BY <1>1 DEF Inv, RowInv, OpInv, Entered, RememberedAgrees, SessionAgrees, AgreementInv, SwitchInv
<1> QED BY <1>9, <1>10, <1>11, <1>12 DEF Inv

\* A new catalog changes nothing but its revision.
LEMMA SourcesKeep ==
    ASSUME Inv, ReplaceSources
    PROVE  Inv'
<1>1. /\ revision' = revision + 1
      /\ UNCHANGED <<row, saved, poisoned, bound, session, nextSessionGeneration, tokens, op,
                     root, switch, budget, granted, call>>
  BY DEF ReplaceSources, runtimeVars
<1>2. revision' \in Nat BY <1>1 DEF Inv, TypeInv
<1>3. TypeInv' BY <1>1, <1>2 DEF Inv, TypeInv
<1>4. BindingInv' BY <1>1 DEF Inv, BindingInv, BurnedStaysBurned
<1>5. BudgetInv' BY <1>1 DEF Inv, BudgetInv
<1>6. RowInv'
  BY <1>1 DEF Inv, RowInv, OpInv, Entered, RememberedAgrees, SessionAgrees, AgreementInv, SwitchInv
<1> QED BY <1>3, <1>4, <1>5, <1>6 DEF Inv

\* Nobody is registered any more.
LEMMA NobodyRegistered ==
    ASSUME UnregisterAllSessions
    PROVE  /\ session' = [id \in Ids |-> Unregistered] /\ session' \in [Ids -> SessionStates]
           /\ \A id \in Ids : /\ session'[id] = Unregistered
                              /\ ~session'[id].registered /\ ~session'[id].active
           /\ tokens' = {} /\ bound' = {}
           /\ \A next : Generations(session', next)
<1>1. session' = [id \in Ids |-> Unregistered] /\ tokens' = {} /\ bound' = {}
  BY DEF UnregisterAllSessions
<1>2. Unregistered \in SessionStates BY DEF Unregistered, SessionStates
<1>3. \A id \in Ids : /\ session'[id] = Unregistered
                      /\ ~session'[id].registered /\ ~session'[id].active
  BY <1>1 DEF Unregistered
<1>4. \A next : Generations(session', next) BY <1>3 DEF Generations
<1> QED BY <1>1, <1>2, <1>3, <1>4

\* The snapshot is of an agreement, and the closed rows leave nothing open.
LEMMA BeginSwitchKeeps ==
    ASSUME Inv, BeginSwitch
    PROVE  Inv'
<1>1. /\ op = NoOp /\ \A c \in Callers : call[c].phase = "idle"
      /\ switch = NoSwitch
      /\ UNCHANGED <<saved, op, budget, granted, revision, call>>
      /\ TypeInv /\ BindingInv /\ BudgetInv /\ RowInv
  BY DEF BeginSwitch, Quiet, callVars, Inv
<1>2. PICK outcome \in {"durable", "rejected", "unknown"} :
        /\ poisoned => outcome = "unknown"
        /\ row' = IF poisoned \/ outcome = "rejected" THEN row ELSE ClosedRows
        /\ poisoned' = (poisoned \/ outcome = "unknown")
        /\ IF outcome = "rejected" THEN UNCHANGED runtimeVars
           ELSE UnregisterAllSessions /\ UNCHANGED nextSessionGeneration
        /\ IF outcome = "durable"
           THEN /\ root' = root + 1
                /\ switch' = [phase |-> "published", row |-> row, root |-> root,
                              session |-> session, bound |-> bound,
                              next |-> nextSessionGeneration, tokens |-> tokens]
           ELSE UNCHANGED <<root, switch>>
  BY DEF BeginSwitch
<1>3. \A id \in Ids : SessionAgrees(id) BY <1>1 DEF RowInv, AgreementInv
<1>4. ClosedRows \in [Ids -> RowStatuses] /\ \A id \in Ids : ClosedRows[id] \notin Open
  BY <1>1 DEF ClosedRows, TypeInv, RowStatuses, Open
<1>5. BudgetInv' BY <1>1 DEF BudgetInv
<1>6. CASE outcome = "rejected"
  <2>1. UNCHANGED <<row, poisoned, bound, session, nextSessionGeneration, tokens, root, switch>>
    BY <1>1, <1>2, <1>6 DEF runtimeVars, TypeInv
  <2>2. TypeInv' BY <1>1, <2>1 DEF TypeInv
  <2>3. BindingInv' BY <1>1, <2>1 DEF BindingInv, BurnedStaysBurned
  <2>4. RowInv' BY <1>1, <1>3, <2>1 DEF RowInv, OpInv, AgreementInv, SessionAgrees, SwitchInv
  <2> QED BY <1>5, <2>2, <2>3, <2>4 DEF Inv
<1>7. CASE outcome # "rejected"
  <2>1. UnregisterAllSessions /\ nextSessionGeneration' = nextSessionGeneration BY <1>2, <1>7
  <2>2. row' \in [Ids -> RowStatuses] /\ poisoned' \in BOOLEAN
    BY <1>1, <1>2, <1>4 DEF TypeInv
  <2>3. BindingInv'
    BY <1>1, <2>1, NobodyRegistered DEF BindingInv, BurnedStaysBurned, Requesting
  <2>4. CASE outcome = "unknown"
    <3>1. poisoned' /\ switch' = NoSwitch /\ root' = root BY <1>1, <1>2, <2>4
    <3>2. \A id \in Ids : SessionAgrees(id)'
      BY <2>1, <3>1, NobodyRegistered DEF SessionAgrees, Agree
    <3>3. RowInv' BY <1>1, <3>1, <3>2 DEF RowInv, OpInv, AgreementInv, SwitchInv
    <3>4. TypeInv' BY <1>1, <2>1, <2>2, <3>1, NobodyRegistered DEF TypeInv
    <3> QED BY <1>5, <2>3, <3>3, <3>4 DEF Inv
  <2>5. CASE outcome = "durable"
    <3>1. /\ ~poisoned /\ ~poisoned' /\ row' = ClosedRows /\ root' = root + 1
          /\ switch' = [phase |-> "published", row |-> row, root |-> root,
                        session |-> session, bound |-> bound,
                        next |-> nextSessionGeneration, tokens |-> tokens]
      BY <1>1, <1>2, <2>5 DEF TypeInv
    <3>2. switch' \in Switches BY <1>1, <3>1 DEF Switches, TypeInv
    <3>3. \A id \in Ids : SessionAgrees(id)'
      BY <1>4, <2>1, <3>1, NobodyRegistered DEF SessionAgrees, Agree, Open
    <3>4. \A id \in Ids : Agree(session[id].registered, session[id].active, row[id],
                                id \in bound, FALSE)
      BY <1>3, <3>1 DEF SessionAgrees, Agree
    <3>5. /\ switch'.session = session /\ switch'.row = row /\ switch'.bound = bound
          /\ switch'.next = nextSessionGeneration
      BY <3>1
    <3>6. SwitchInv'
      <4>1. \A id \in Ids : row'[id] \notin Open BY <1>4, <3>1
      <4>2. Generations(switch'.session, switch'.next) BY <1>1, <3>5 DEF BindingInv
      <4>3. \A id \in Ids : Agree(switch'.session[id].registered, switch'.session[id].active,
                                  switch'.row[id], id \in switch'.bound, FALSE)
        BY <3>4, <3>5
      <4> HIDE <3>1
      <4> QED BY <1>1, <2>1, <4>1, <4>2, <4>3, NobodyRegistered DEF SwitchInv
    <3>7. RowInv' BY <1>1, <3>3, <3>6 DEF RowInv, OpInv, AgreementInv
    <3>8. root' \in Nat BY <1>1, <3>1 DEF TypeInv
    <3>9. TypeInv' BY <1>1, <2>1, <2>2, <3>2, <3>8, NobodyRegistered DEF TypeInv
    <3> QED BY <1>5, <2>3, <3>7, <3>9 DEF Inv
  <2> QED BY <1>7, <2>4, <2>5
<1> QED BY <1>6, <1>7

\* A committed switch leaves every session closed.
LEMMA CommitSwitchKeeps ==
    ASSUME Inv, CommitSwitch
    PROVE  Inv'
<1>1. /\ switch # NoSwitch /\ switch' = NoSwitch
      /\ UNCHANGED <<row, saved, poisoned, root, op, bound, session, nextSessionGeneration,
                     tokens, budget, granted, revision, call>>
  BY DEF CommitSwitch, runtimeVars, callVars
<1>2. TypeInv' BY <1>1 DEF Inv, TypeInv
<1>3. BindingInv' BY <1>1 DEF Inv, BindingInv, BurnedStaysBurned
<1>4. BudgetInv' BY <1>1 DEF Inv, BudgetInv
<1>5. RowInv' BY <1>1 DEF Inv, RowInv, OpInv, AgreementInv, SessionAgrees, SwitchInv
<1> QED BY <1>2, <1>3, <1>4, <1>5 DEF Inv

\* A switch that is taken back restores the agreement or revokes everything.
LEMMA RollbackSwitchKeeps ==
    ASSUME Inv, RollbackSwitch
    PROVE  Inv'
<1>1. /\ switch # NoSwitch /\ switch' = NoSwitch /\ root' = switch.root
      /\ UNCHANGED <<saved, op, budget, granted, revision, call>>
      /\ TypeInv /\ BindingInv /\ BudgetInv /\ SwitchInv
      /\ switch \in Switches
  BY DEF RollbackSwitch, callVars, Inv, RowInv, TypeInv
<1>2. /\ op = NoOp /\ \A c \in Callers : call[c].phase = "idle"
      /\ Generations(switch.session, switch.next)
      /\ \A id \in Ids : Agree(switch.session[id].registered, switch.session[id].active,
                               switch.row[id], id \in switch.bound, FALSE)
  BY <1>1 DEF SwitchInv
<1>3. PICK outcome \in {"durable", "rejected", "unknown"}, skills \in BOOLEAN :
        /\ row' = IF outcome = "rejected" THEN row ELSE switch.row
        /\ poisoned' = (outcome # "durable" \/ ~skills)
        /\ IF outcome = "durable" /\ skills THEN RestoreRuntime
           ELSE UnregisterAllSessions /\ UNCHANGED nextSessionGeneration
  BY DEF RollbackSwitch
<1>4. /\ switch.row \in [Ids -> RowStatuses] /\ switch.session \in [Ids -> SessionStates]
      /\ switch.bound \in SUBSET Ids /\ switch.next \in Nat /\ switch.root \in Nat
  BY <1>1 DEF Switches
<1>5. row' \in [Ids -> RowStatuses] /\ poisoned' \in BOOLEAN /\ root' \in Nat
  BY <1>1, <1>3, <1>4 DEF TypeInv
<1>6. BudgetInv' BY <1>1 DEF BudgetInv
<1>7. CASE outcome = "durable" /\ skills
  <2>1. /\ row' = switch.row /\ ~poisoned' /\ session' = switch.session /\ bound' = switch.bound
        /\ nextSessionGeneration' = switch.next /\ tokens' = {}
    BY <1>3, <1>7 DEF RestoreRuntime
  <2>2. \A id \in Ids : SessionAgrees(id)' BY <1>2, <2>1 DEF SessionAgrees, Agree
  <2>3. RowInv' BY <1>1, <1>2, <2>2 DEF RowInv, OpInv, AgreementInv, SwitchInv
  <2>4. BindingInv' BY <1>1, <1>2, <2>1 DEF BindingInv, BurnedStaysBurned, Requesting
  <2>5. TypeInv' BY <1>1, <1>4, <1>5, <2>1 DEF TypeInv
  <2> QED BY <1>6, <2>3, <2>4, <2>5 DEF Inv
<1>8. CASE ~(outcome = "durable" /\ skills)
  <2>1. /\ UnregisterAllSessions /\ nextSessionGeneration' = nextSessionGeneration /\ poisoned'
    BY <1>3, <1>8
  <2>2. \A id \in Ids : SessionAgrees(id)'
    BY <2>1, NobodyRegistered DEF SessionAgrees, Agree
  <2>3. RowInv' BY <1>1, <1>2, <2>2 DEF RowInv, OpInv, AgreementInv, SwitchInv
  <2>4. BindingInv'
    BY <1>1, <1>2, <2>1, NobodyRegistered DEF BindingInv, BurnedStaysBurned, Requesting
  <2>5. TypeInv' BY <1>1, <1>5, <2>1, NobodyRegistered DEF TypeInv
  <2> QED BY <1>6, <2>3, <2>4, <2>5 DEF Inv
<1> QED BY <1>7, <1>8

-----------------------------------------------------------------------------
(* The theorems.                                                           *)

\* Nobody is registered in the beginning, and no row is open.
LEMMA InitEstablishes == LifecycleInit => Inv
<1> SUFFICES ASSUME LifecycleInit PROVE Inv OBVIOUS
<1> USE DEF LifecycleInit
<1>1. Unregistered \in SessionStates /\ ~Unregistered.registered /\ ~Unregistered.active
  BY DEF Unregistered, SessionStates
<1>2. NoBinding \in Bindings BY LifecycleAssumption DEF NoBinding, Bindings
<1>3. NoCall \in Calls /\ NoCall.phase = "idle" BY <1>2 DEF NoCall, Calls, Phases
<1>4. /\ \A id \in Ids : session[id] = Unregistered /\ row[id] \notin Open
      /\ \A c \in Callers : call[c] = NoCall
      /\ row \in [Ids -> RowStatuses]
  BY DEF Open, RowStatuses
<1>5. TypeInv BY <1>1, <1>3, <1>4 DEF TypeInv
<1>6. \A id \in Ids : SessionAgrees(id) BY <1>1, <1>4 DEF SessionAgrees, Agree, Open
<1>7. RowInv BY <1>6 DEF RowInv, OpInv, AgreementInv, SwitchInv
<1>8. Generations(session, nextSessionGeneration) BY <1>1, <1>4 DEF Generations
<1>9. BindingInv BY <1>3, <1>4, <1>8 DEF BindingInv, BurnedStaysBurned, Requesting
<1>10. Reserved(call, budget.epoch) = {} BY <1>3, <1>4 DEF Reserved, Reserves
<1>11. IsFiniteSet({}) /\ Cardinality({}) = 0 BY FS_EmptySet
<1>12. BudgetInv
  BY <1>3, <1>4, <1>10, <1>11, LifecycleAssumption DEF BudgetInv, Reserves
<1> QED BY <1>5, <1>7, <1>9, <1>12 DEF Inv

\* Every step keeps the invariant.
LEMMA StepPreserves == Inv /\ [LifecycleNext]_lifecycleVars => Inv'
<1> SUFFICES ASSUME Inv, [LifecycleNext]_lifecycleVars PROVE Inv' OBVIOUS
<1>1. CASE \E id \in Ids : Operation(id) BY <1>1, OperationKeeps
<1>2. CASE Publish BY <1>2, PublishKeeps
<1>3. CASE Finish BY <1>3, FinishKeeps
<1>4. CASE \E c \in Callers : CallStep(c) BY <1>4, CallKeeps
<1>5. CASE NewEpoch BY <1>5, EpochKeeps
<1>6. CASE ReplaceSources BY <1>6, SourcesKeep
<1>7. CASE BeginSwitch BY <1>7, BeginSwitchKeeps
<1>8. CASE CommitSwitch BY <1>8, CommitSwitchKeeps
<1>9. CASE RollbackSwitch BY <1>9, RollbackSwitchKeeps
<1>10. CASE UNCHANGED lifecycleVars
  <2>1. TypeInv' BY <1>10 DEF Inv, TypeInv, lifecycleVars
  <2>2. BindingInv' BY <1>10 DEF Inv, BindingInv, BurnedStaysBurned, lifecycleVars
  <2>3. BudgetInv' BY <1>10 DEF Inv, BudgetInv, lifecycleVars
  <2>4. RowInv'
    BY <1>10 DEF Inv, RowInv, OpInv, Entered, RememberedAgrees, SessionAgrees, AgreementInv,
                 SwitchInv, lifecycleVars
  <2> QED BY <2>1, <2>2, <2>3, <2>4 DEF Inv
<1> QED BY <1>1, <1>2, <1>3, <1>4, <1>5, <1>6, <1>7, <1>8, <1>9, <1>10 DEF LifecycleNext

\* The inductive invariant holds in every reachable state.
THEOREM Invariance == LifecycleSpec => []Inv
<1>1. LifecycleInit => Inv BY InitEstablishes
<1>2. Inv /\ [LifecycleNext]_lifecycleVars => Inv' BY StepPreserves
<1> QED BY <1>1, <1>2, PTL DEF LifecycleSpec

\* The types of LifecycleTypeOK: no budget is ever overdrawn below nothing.
THEOREM TypeCorrect == LifecycleSpec => []LifecycleTypeOK
<1>1. Inv => LifecycleTypeOK BY DEF Inv, TypeInv, Ops, Calls, LifecycleTypeOK
<1> QED BY <1>1, Invariance, PTL

\* Between operations, whichever step of the last one failed, the sessions that
\* may use tools are those with a running row.
THEOREM RuntimeFollowsRows == LifecycleSpec => []AuthorityFollowsRows
<1>1. ASSUME Inv, op = NoOp, NEW id \in Ids
      PROVE  /\ session[id].registered =>
                  id \in bound /\ row[id] \in {"running", "paused", "failed"}
             /\ session[id].active => session[id].registered /\ row[id] = "running"
             /\ row[id] = "running" /\ ~poisoned => session[id].active
  <2>1. SessionAgrees(id) BY <1>1 DEF Inv, RowInv, AgreementInv
  <2> QED BY <2>1 DEF SessionAgrees, Agree, Open
<1>2. Inv => AuthorityFollowsRows BY <1>1 DEF AuthorityFollowsRows
<1> QED BY <1>2, Invariance, PTL

\* No handler runs with a capability whose authority was suspended, revoked or
\* switched away after its request.
THEOREM WhatIsBurnedIsGone == LifecycleSpec => []BurnedStaysBurned
<1>1. Inv => BurnedStaysBurned BY DEF Inv, BindingInv
<1> QED BY <1>1, Invariance, PTL

\* The budget is spent on what was granted in its epoch and what is reserved.
THEOREM BudgetsBalance == LifecycleSpec => []BudgetMatchesGrants
<1>1. ASSUME Inv PROVE BudgetMatchesGrants
  <2>1. Reserved(call, budget.epoch) =
          {c \in Callers : /\ call[c].phase \in {"issuing", "auditing", "releasing"}
                           /\ call[c].binding.epoch = budget.epoch}
    BY DEF Reserved, Reserves
  <2> QED BY <1>1, <2>1 DEF Inv, BudgetInv, BudgetMatchesGrants
<1> QED BY <1>1, Invariance, PTL
=============================================================================
