------------------------ MODULE ControllerBudgetProofs ------------------------
(***************************************************************************)
(* Proof that retries are bounded: whatever crashes, failed writes, stale  *)
(* snapshots and lost or repeated requests do, an assignment is attempted  *)
(* no more often than its budget, its approvals and the failed writes      *)
(* account for.                                                            *)
(***************************************************************************)
EXTENDS ControllerHistoryProofs, FiniteSetTheorems

-----------------------------------------------------------------------------
(* Room for further attempts, as a fact about a snapshot.                   *)

LEMMA OneType ==
    ASSUME NEW b \in BOOLEAN
    PROVE  One(b) \in {0, 1} /\ One(b) \in Nat
BY DEF One

\* The room that a snapshot has is kept by a copy of it, and grows with what
\* approvals and failed writes allow.
LEMMA FitsCopy ==
    ASSUME NEW s \in State, NEW t, NEW id \in LeaseIDs,
           t.lease[RoleOf[id]] = s.lease[RoleOf[id]], t.history[id] = s.history[id],
           NEW n \in Nat, NEW m \in Nat, NEW k \in Int, NEW k2 \in Int,
           Fits(s, id, n, k), m + k <= n + k2
    PROVE  Fits(t, id, m, k2)
<1>1. Budget \in Nat
  BY StateAssumption DEF Budget
<1>2. RoleOf[id] \in Roles
  BY StateAssumption
<1>3. s.lease[RoleOf[id]].attempt \in Nat /\ s.history[id].attempt \in Nat
  BY <1>2, LeaseTypes, LeaseOrNone
<1>4. n <= k /\ m <= k2
  BY DEF Fits
<1>5. s.lease[RoleOf[id]].id = id => s.lease[RoleOf[id]].attempt + m <= Budget + k2
  BY <1>1, <1>3 DEF Fits
<1>6. s.history[id].id = id => s.history[id].attempt + m <= Budget + k2
  BY <1>1, <1>3 DEF Fits
<1> QED
  BY <1>4, <1>5, <1>6 DEF Fits

LEMMA FitsMore ==
    ASSUME NEW s \in State, NEW id \in LeaseIDs, NEW n \in Nat,
           NEW k \in Int, NEW k2 \in Int, Fits(s, id, n, k), k <= k2
    PROVE  Fits(s, id, n, k2)
BY FitsCopy

LEMMA FitsEmpty ==
    ASSUME NEW id \in LeaseIDs, NEW n, NEW k, n <= k
    PROVE  Fits(EmptyState, id, n, k)
BY StateAssumption DEF Fits, EmptyState, NoLease

LEMMA FitsResult ==
    ASSUME NEW s \in State, Coherent(s), NEW r \in Roles, Unresolved(s.lease[r]),
           NEW outcome \in Outcomes, NEW at \in Nat,
           NEW id \in LeaseIDs, NEW n \in Nat, NEW k \in Int, Fits(s, id, n, k)
    PROVE  Fits(WithResult(s, r, outcome, at), id, n, k)
<1> DEFINE old == s.lease[r]
<1> DEFINE l == [old EXCEPT !.outcome = outcome, !.beat = at]
<1> DEFINE t == WithResult(s, r, outcome, at)
<1>1. old \in Lease /\ old.id \in LeaseIDs /\ RoleOf[old.id] = r
  BY LeaseTypes, LeaseOrNone DEF Coherent, LeaseOfItsRole, Unresolved, NoLease
<1>2. l.id = old.id /\ l.attempt = old.attempt
  BY <1>1 DEF Lease
<1> HIDE DEF l
<1>3. t.lease = [s.lease EXCEPT ![r] = l] /\ t.history = [s.history EXCEPT ![old.id] = l]
  BY <1>2 DEF WithResult, State, l
<1>4. /\ \A q \in Roles : t.lease[q] = IF q = r THEN l ELSE s.lease[q]
      /\ t.history[id] = IF id = old.id THEN l ELSE s.history[id]
  BY <1>3 DEF State
<1>5. RoleOf[id] \in Roles
  BY StateAssumption
<1> HIDE DEF t
<1>6. /\ t.lease[RoleOf[id]].id = s.lease[RoleOf[id]].id
      /\ t.lease[RoleOf[id]].attempt = s.lease[RoleOf[id]].attempt
  BY <1>2, <1>4, <1>5
<1>7. \/ t.history[id] = s.history[id]
      \/ id = old.id /\ t.history[id].attempt = s.lease[RoleOf[id]].attempt
  BY <1>1, <1>2, <1>4
<1>8. Fits(t, id, n, k)
  BY <1>1, <1>6, <1>7 DEF Fits
<1> QED
  BY <1>8 DEF t

LEMMA FitsProcess ==
    ASSUME NEW s \in State, NEW r \in Roles, Unresolved(s.lease[r]), NEW p \in Nat,
           NEW id \in LeaseIDs, NEW n \in Nat, NEW k \in Int, Fits(s, id, n, k)
    PROVE  Fits(WithProcess(s, r, p), id, n, k)
<1> DEFINE l == [s.lease[r] EXCEPT !.process = p]
<1> DEFINE t == WithProcess(s, r, p)
<1>1. s.lease[r] \in Lease
  BY LeaseTypes, LeaseOrNone DEF Unresolved, NoLease
<1>2. l.id = s.lease[r].id /\ l.attempt = s.lease[r].attempt
  BY <1>1 DEF Lease
<1> HIDE DEF l
<1>3. t.lease = [s.lease EXCEPT ![r] = l] /\ t.history = s.history
  BY DEF WithProcess, State, l
<1>4. RoleOf[id] \in Roles
  BY StateAssumption
<1>5. /\ t.lease[RoleOf[id]].id = s.lease[RoleOf[id]].id
      /\ t.lease[RoleOf[id]].attempt = s.lease[RoleOf[id]].attempt
      /\ t.history[id] = s.history[id]
  BY <1>2, <1>3, <1>4 DEF State
<1> HIDE DEF t
<1>6. Fits(t, id, n, k)
  BY <1>5 DEF Fits
<1> QED
  BY <1>6 DEF t

\* A launch uses the room that an approval, or the budget, has left: q uses are
\* still queued besides those in the snapshot.
LEMMA FitsGrant ==
    ASSUME NEW s \in State, Coherent(s), NEW r \in Roles, NEW id \in LeaseIDs,
           RoleOf[id] = r, MayLaunch(s, r, id), NEW at \in Nat,
           NEW j \in LeaseIDs, NEW q \in Nat, NEW k \in Int,
           Fits(s, j, One(j \in s.approvals) + q, k)
    PROVE  /\ Fits(Granted(s, r, id, at), j,
                   One(j \in Granted(s, r, id, at).approvals) + q, k)
           /\ Fits(RefusedGrant(s, r, id, at), j,
                   One(j \in RefusedGrant(s, r, id, at).approvals) + q, k)
<1> DEFINE old == s.lease[r]
<1> DEFINE new == NewLease(s, r, id, at)
<1> DEFINE g == Granted(s, r, id, at)
<1> DEFINE f == RefusedGrant(s, r, id, at)
<1>1. /\ new.id = id /\ new.attempt = NextAttempt(s, r, id) /\ new \in Lease
      /\ old = NoLease \/ Ended(old)
      /\ Ended(old) => old # NoLease /\ old.id \in LeaseIDs /\ RoleOf[old.id] = r
      /\ g.history[j] = IF Ended(old) /\ old.id = j THEN old ELSE s.history[j]
      /\ f.history[j] = g.history[j]
      /\ g.approvals \subseteq s.approvals \ {id} /\ f.approvals = g.approvals
  BY GrantParts
<1>2. /\ \A p \in Roles \ {r} : g.lease[p] = s.lease[p] /\ f.lease[p] = s.lease[p]
      /\ g.lease[r] = new
      /\ f.lease[r] = IF old = NoLease THEN NoLease ELSE new
  BY GrantedLeases
<1>3. RoleOf[j] \in Roles /\ Budget \in Nat /\ Budget = MaxFailedSessionRetries + 1
  BY StateAssumption DEF Budget
<1>4. /\ s.lease[RoleOf[j]].attempt \in Nat /\ s.history[j].attempt \in Nat
      /\ new.attempt \in Nat
  BY <1>1, <1>3, LeaseTypes, LeaseOrNone
<1> DEFINE n == One(j \in s.approvals) + q
<1> DEFINE m == One(j \in g.approvals) + q
<1>5. n \in Nat /\ m \in Nat /\ m <= n /\ q <= m /\ n <= k
  <2>1. j \in g.approvals => j \in s.approvals
    BY <1>1
  <2> HIDE DEF g
  <2>2. /\ One(j \in s.approvals) \in {0, 1} /\ One(j \in g.approvals) \in {0, 1}
        /\ One(j \in g.approvals) <= One(j \in s.approvals)
    BY <2>1 DEF One
  <2> QED
    BY <2>2 DEF Fits
<1>6. /\ s.lease[RoleOf[j]].id = j => s.lease[RoleOf[j]].attempt + n <= Budget + k
      /\ s.history[j].id = j => s.history[j].attempt + n <= Budget + k
  BY DEF Fits
<1>7. j = id => m = q /\ (id \in s.approvals => n = q + 1)
  BY <1>1 DEF One
<1>8. j = id => new.attempt + q <= Budget + k
  <2> SUFFICES ASSUME j = id PROVE NextAttempt(s, r, id) + q <= Budget + k
    BY <1>1
  <2> DEFINE Bounded(l) ==
        /\ l.id = id /\ l.attempt \in Nat /\ l.attempt + n <= Budget + k
        /\ MayRerun(s, l)
        /\ NextAttempt(s, r, id) = IF l.outcome \in Uncounted THEN l.attempt
                                   ELSE l.attempt + 1
  <2>1. \A l : Bounded(l) => NextAttempt(s, r, id) + q <= Budget + k
    <3> SUFFICES ASSUME NEW l, Bounded(l) PROVE NextAttempt(s, r, id) + q <= Budget + k
      OBVIOUS
    <3>1. CASE id \in s.approvals
      <4>1. n = q + 1
        BY <1>7, <3>1
      <4> HIDE DEF n
      <4> QED
        BY <1>3, <1>5, <4>1
    <3>2. CASE id \notin s.approvals
      <4>1. l.attempt <= MaxFailedSessionRetries \/ l.outcome \in Uncounted
        BY <3>2 DEF MayRerun
      <4>2. q <= n /\ q <= k
        BY <1>5
      <4> HIDE DEF n, m
      <4> QED
        BY <1>3, <1>5, <4>1, <4>2, StateAssumption
    <3> QED
      BY <3>1, <3>2
  <2>2. CASE NextAttempt(s, r, id) = 1
    <3>1. 1 <= Budget
      BY <1>3, StateAssumption
    <3>2. q <= k
      BY <1>5
    <3> QED
      BY <1>3, <2>2, <3>1, <3>2
  <2>3. CASE Ended(old) /\ old.id = id
    <3>1. Bounded(old)
      BY <1>1, <1>4, <1>6, <2>3, LaunchCases
    <3> QED
      BY <2>1, <3>1
  <2>4. CASE Ended(old) /\ old.id # id /\ s.history[id] # NoLease
    <3>1. Bounded(s.history[id])
      BY <1>1, <1>4, <1>6, <2>4, LaunchCases
    <3> QED
      BY <2>1, <3>1
  <2> QED
    BY <2>2, <2>3, <2>4, LaunchCases
<1> HIDE DEF old, new, g, f, n, m
<1>9. /\ s.lease[RoleOf[j]].id = j => s.lease[RoleOf[j]].attempt + m <= Budget + k
      /\ s.history[j].id = j => s.history[j].attempt + m <= Budget + k
      /\ m <= k
  BY <1>3, <1>4, <1>5, <1>6
<1>10. \A t \in {g, f} : t.history[j].id = j => t.history[j].attempt + m <= Budget + k
  <2>1. Ended(old) /\ old.id = j => old = s.lease[RoleOf[j]]
    BY <1>1 DEF old
  <2> QED
    BY <1>1, <1>9, <2>1
<1>11. \A t \in {g, f} :
          t.lease[RoleOf[j]].id = j => t.lease[RoleOf[j]].attempt + m <= Budget + k
  <2>1. CASE RoleOf[j] # r
    BY <1>2, <1>3, <1>9, <2>1
  <2>2. CASE RoleOf[j] = r
    <3>1. new.id = j => new.attempt + m <= Budget + k
      BY <1>1, <1>7, <1>8
    <3>2. NoLease.id # j
      BY StateAssumption DEF NoLease
    <3> QED
      BY <1>2, <2>2, <3>1, <3>2
  <2> QED
    BY <2>1, <2>2
<1>12. Fits(g, j, m, k) /\ Fits(f, j, m, k)
  BY <1>9, <1>10, <1>11 DEF Fits
<1> QED
  BY <1>1, <1>12 DEF g, f, m

-----------------------------------------------------------------------------
(* What approvals and failed writes allow never shrinks.                    *)

LEMMA SpareType ==
    ASSUME LeaseInv, IsFiniteSet(Active)
    PROVE  Spare \in Int /\ Spare <= granted + faults
<1>1. granted \in Nat /\ faults \in Nat
  BY DEF LeaseInv, TypeInv, TypeOK
<1>2. Cardinality(Active) \in Nat
  BY FS_CardinalityType
<1> QED
  BY <1>1, <1>2 DEF Spare

\* A step of the controller, or of a session, leaves the commands alone.
LEMMA SpareKept ==
    ASSUME LeaseInv, IsFiniteSet(Active), UNCHANGED <<cli, granted>>,
           faults' \in {faults, faults + 1}
    PROVE  IsFiniteSet(Active') /\ Spare' = Spare + (faults' - faults)
             /\ Spare' \in Int /\ Spare' >= Spare
<1>1. granted \in Nat /\ faults \in Nat
  BY DEF LeaseInv, TypeInv, TypeOK
<1>2. Cardinality(Active) \in Nat
  BY FS_CardinalityType
<1>3. Active' = Active
  BY DEF Active
<1> QED
  BY <1>1, <1>2, <1>3 DEF Spare

\* A command that begins takes the approval it was granted with it.
LEMMA SpareBegins ==
    ASSUME LeaseInv, IsFiniteSet(Active), NEW o \in Operators, NEW id \in LeaseIDs,
           ApproveLoad(o, id)
    PROVE  IsFiniteSet(Active') /\ Spare' = Spare /\ Spare' \in Int
<1>1. /\ granted \in Nat /\ faults \in Nat
      /\ cli \in [Operators -> Command \union {NoCommand}]
  BY DEF LeaseInv, TypeInv, TypeOK
<1>2. /\ cli[o] = NoCommand /\ granted' = granted + 1 /\ faults' = faults
      /\ cli' = [cli EXCEPT ![o] = [stage |-> "loaded", id |-> id,
                                   snap |-> disk, file |-> {}]]
  BY DEF ApproveLoad
<1>3. [stage |-> "loaded", id |-> id, snap |-> disk, file |-> {}] # NoCommand
  BY DEF NoCommand
<1>4. Active' = Active \union {o} /\ o \notin Active
  BY <1>1, <1>2, <1>3 DEF Active
<1>5. /\ IsFiniteSet(Active') /\ Cardinality(Active') = Cardinality(Active) + 1
      /\ Cardinality(Active) \in Nat
  BY <1>4, FS_AddElement, FS_CardinalityType
<1> QED
  BY <1>1, <1>2, <1>5 DEF Spare

\* A command that ends, having queued or committed its approval, gives it up.
LEMMA SpareEnds ==
    ASSUME LeaseInv, IsFiniteSet(Active), NEW o \in Operators,
           cli[o] # NoCommand, cli' = [cli EXCEPT ![o] = NoCommand],
           granted' = granted, faults' \in {faults, faults + 1}
    PROVE  IsFiniteSet(Active') /\ Spare' >= Spare + 1 /\ Spare' \in Int
<1>1. /\ granted \in Nat /\ faults \in Nat
      /\ cli \in [Operators -> Command \union {NoCommand}]
  BY DEF LeaseInv, TypeInv, TypeOK
<1>2. Active' = Active \ {o} /\ o \in Active
  BY <1>1 DEF Active
<1>3. /\ IsFiniteSet(Active') /\ Cardinality(Active') = Cardinality(Active) - 1
      /\ Cardinality(Active) \in Nat
  BY <1>2, FS_RemoveElement, FS_CardinalityType
<1> QED
  BY <1>1, <1>3 DEF Spare

\* Uses as a function of what it reads: phase p, queue q, batch b and the
\* approvals a of a snapshot.
UsesOf(p, q, b, a, id) ==
    IF p \in {"plan", "launch"} THEN One(id \in a) + One(id \in q)
    ELSE One(id \in a \union q \union b)

UsesBefore(a, id) == UsesOf(phase, queue, batch, a, id)
UsesAfter(a, id) == UsesOf(phase', queue', batch', a, id)

LEMMA UsesType ==
    ASSUME NEW p, NEW q, NEW b, NEW a, NEW id
    PROVE  UsesOf(p, q, b, a, id) \in {0, 1, 2}
BY DEF UsesOf, One

\* The step leaves no approval more uses than are paid for.
UsesPaid ==
    \A a \in SUBSET LeaseIDs, id \in LeaseIDs :
       UsesAfter(a, id) + Spare <= UsesBefore(a, id) + Spare'

\* A step that grants no lease, and leaves no approval more to use than is paid
\* for, keeps the room of every snapshot.
LEMMA RoomKept ==
    ASSUME LeaseInv, LeaseInv', BudgetInv,
           disk'.approvals = disk.approvals,
           \A id \in LeaseIDs, n \in Nat, k \in Int : Fits(disk, id, n, k) => Fits(disk', id, n, k),
           durable' = durable \/ (durable' = disk /\ disk' = disk) \/ durable' = EmptyState,
           UsesPaid, IsFiniteSet(Active'), Spare' \in Int, Spare' >= Spare,
           \A o \in Operators :
              cli'[o].stage = "loaded" => cli'[o] = cli[o] \/ cli'[o].snap = disk
    PROVE  BudgetInv'
<1>1. /\ disk \in State /\ durable \in State /\ disk' \in State
      /\ cli \in [Operators -> Command \union {NoCommand}]
      /\ IsFiniteSet(Active) /\ Spare \in Int
  BY SpareType DEF LeaseInv, TypeInv, TypeOK, BudgetInv
<1>2. \A a, id : UsesBefore(a, id) \in Nat /\ UsesAfter(a, id) \in Nat
  BY UsesType DEF UsesBefore, UsesAfter
<1>3. disk.approvals \in SUBSET LeaseIDs /\ durable.approvals \in SUBSET LeaseIDs
  BY <1>1 DEF State
<1>4. ASSUME NEW id \in LeaseIDs
      PROVE  /\ Fits(disk, id, UsesAfter(disk.approvals, id), Spare')
             /\ Fits(durable, id, UsesAfter(durable.approvals, id), Spare')
  <2>1. /\ Fits(disk, id, UsesBefore(disk.approvals, id), Spare)
        /\ Fits(durable, id, UsesBefore(durable.approvals, id), Spare)
    BY DEF BudgetInv, BudgetKept, Uses, UsesBefore, UsesOf
  <2>2. /\ UsesAfter(disk.approvals, id) + Spare <= UsesBefore(disk.approvals, id) + Spare'
        /\ UsesAfter(durable.approvals, id) + Spare <= UsesBefore(durable.approvals, id) + Spare'
    BY <1>3 DEF UsesPaid
  <2>3. Fits(disk, id, UsesAfter(disk.approvals, id), Spare')
    BY <1>1, <1>2, <2>1, <2>2, FitsCopy
  <2>4. Fits(durable, id, UsesAfter(durable.approvals, id), Spare')
    BY <1>1, <1>2, <2>1, <2>2, FitsCopy
  <2> QED
    BY <2>3, <2>4
<1>5. BudgetKept(disk)'
  <2> SUFFICES ASSUME NEW id \in LeaseIDs
               PROVE  Fits(disk', id, UsesAfter(disk.approvals, id), Spare')
    BY DEF BudgetKept, Uses, UsesAfter, UsesOf
  <2> QED
    BY <1>2, <1>4
<1>6. BudgetKept(durable)'
  <2> SUFFICES ASSUME NEW id \in LeaseIDs
               PROVE  Fits(durable', id, UsesAfter(durable'.approvals, id), Spare')
    BY DEF BudgetKept, Uses, UsesAfter, UsesOf
  <2>1. CASE durable' \in {durable, disk}
    BY <1>4, <2>1
  <2>2. CASE durable' = EmptyState
    <3>1. UsesAfter({}, id) <= UsesAfter(disk.approvals, id)
      <4>1. One(id \in {}) = 0 /\ One(id \in disk.approvals) \in {0, 1} /\ One(id \in queue') \in {0, 1}
        BY DEF One
      <4>2. One(id \in {} \union queue' \union batch')
               <= One(id \in disk.approvals \union queue' \union batch')
        BY DEF One
      <4> QED
        BY <4>1, <4>2 DEF UsesAfter, UsesOf
    <3>2. UsesAfter(disk.approvals, id) <= Spare'
      BY <1>4 DEF Fits
    <3>3. UsesAfter({}, id) <= Spare'
      BY <1>2, <3>1, <3>2
    <3>4. EmptyState.approvals = {}
      BY DEF EmptyState
    <3> QED
      BY <2>2, <3>3, <3>4, FitsEmpty
  <2> QED
    BY <2>1, <2>2
<1>7. SnapshotBudget'
  <2> SUFFICES ASSUME NEW o \in Operators, NEW id \in LeaseIDs, cli'[o].stage = "loaded"
               PROVE  Fits(cli'[o].snap, id, 0, Spare')
    BY DEF SnapshotBudget
  <2>1. CASE cli'[o] = cli[o]
    <3>1. Fits(cli[o].snap, id, 0, Spare) /\ cli[o].snap \in State
      BY <1>1, <2>1, EmptyStateType DEF BudgetInv, SnapshotBudget, Command, NoCommand
    <3> QED
      BY <1>1, <2>1, <3>1, FitsCopy
  <2>2. CASE cli'[o].snap = disk
    <3>1. Fits(disk, id, UsesAfter(disk.approvals, id), Spare')
      BY <1>4
    <3> QED
      BY <1>1, <1>2, <2>2, <3>1, FitsCopy
  <2> QED
    BY <2>1, <2>2
<1> QED
  BY <1>5, <1>6, <1>7 DEF BudgetInv

LEMMA BudgetInit == Init => BudgetInv
<1> SUFFICES ASSUME Init PROVE BudgetInv
  OBVIOUS
<1>1. Active = {} /\ IsFiniteSet(Active) /\ Cardinality(Active) = 0
  BY FS_EmptySet DEF Init, Active
<1>2. Spare = 0
  BY <1>1 DEF Init, Spare
<1>3. \A id \in LeaseIDs : Uses(EmptyState, id) = 0
  BY DEF Init, Uses, One, EmptyState
<1>4. BudgetKept(EmptyState)
  BY <1>2, <1>3, FitsEmpty DEF BudgetKept
<1>5. SnapshotBudget
  BY DEF Init, SnapshotBudget, NoCommand
<1> QED
  BY <1>1, <1>4, <1>5 DEF Init, BudgetInv

-----------------------------------------------------------------------------
(* Every step.                                                              *)

\* The uses left never grow by a step of the controller that reads or drops a
\* copy, empties the queue it has committed, or goes on to its next stage.
LEMMA ControlUses ==
    ASSUME Start \/ Crash \/ Exit \/ Shutdown \/ TickLoad \/ TickRemove \/ TickPlan \/ TickEnd,
           NEW a \in SUBSET LeaseIDs, NEW id \in LeaseIDs
    PROVE  UsesAfter(a, id) <= UsesBefore(a, id)
<1> USE DEF UsesAfter, UsesBefore, UsesOf, One
<1>1. CASE Start
  BY <1>1 DEF Start
<1>2. CASE Crash \/ Exit
  <2>1. phase' = "down" /\ queue' = queue /\ batch' = {}
    BY <1>2 DEF Crash, Exit, Stop
  <2> QED
    BY <2>1
<1>3. CASE Shutdown
  BY <1>3 DEF Shutdown
<1>4. CASE TickLoad
  BY <1>4 DEF TickLoad
<1>5. CASE TickRemove
  BY <1>5 DEF TickRemove
<1>6. CASE TickPlan
  BY <1>6 DEF TickPlan
<1>7. CASE TickEnd
  BY <1>7 DEF TickEnd
<1> QED
  BY <1>1, <1>2, <1>3, <1>4, <1>5, <1>6, <1>7

\* A step that leaves the file, the commands and the failed writes alone, and
\* no approval more to use, keeps the budget.
LEMMA QuietBudget ==
    ASSUME LeaseInv, LeaseInv', BudgetInv, UNCHANGED <<disk, cli, granted, faults>>,
           durable' = durable \/ durable' = disk \/ durable' = EmptyState,
           \A a \in SUBSET LeaseIDs, id \in LeaseIDs : UsesAfter(a, id) <= UsesBefore(a, id)
    PROVE  BudgetInv'
<1>1. IsFiniteSet(Active) /\ faults \in Nat
  BY DEF BudgetInv, LeaseInv, TypeInv, TypeOK
<1>2. IsFiniteSet(Active') /\ Spare' = Spare + (faults' - faults) /\ Spare' \in Int /\ Spare' >= Spare
  BY <1>1, SpareKept
<1>3. Spare \in Int
  BY <1>1, SpareType
<1>4. Spare' = Spare
  BY <1>1, <1>2, <1>3
<1>5. UsesPaid
  <2> SUFFICES ASSUME NEW a \in SUBSET LeaseIDs, NEW id \in LeaseIDs
               PROVE  UsesAfter(a, id) + Spare <= UsesBefore(a, id) + Spare'
    BY DEF UsesPaid
  <2>1. UsesAfter(a, id) \in {0, 1, 2} /\ UsesBefore(a, id) \in {0, 1, 2}
    BY UsesType DEF UsesAfter, UsesBefore
  <2>2. UsesAfter(a, id) <= UsesBefore(a, id)
    OBVIOUS
  <2> QED
    BY <1>3, <1>4, <2>1, <2>2
<1> QED
  BY <1>2, <1>5, RoomKept

LEMMA ControlBudget ==
    ASSUME LeaseInv, LeaseInv', BudgetInv,
           Start \/ Crash \/ Exit \/ Shutdown \/ TickLoad \/ TickRemove \/ TickPlan \/ TickEnd
    PROVE  BudgetInv'
<1>1. \A a \in SUBSET LeaseIDs, id \in LeaseIDs : UsesAfter(a, id) <= UsesBefore(a, id)
  BY ControlUses
<1>2. /\ UNCHANGED <<disk, cli, granted, faults>>
      /\ durable' = durable \/ durable' = disk \/ durable' = EmptyState
  <2>1. CASE Crash \/ Exit
    BY <2>1 DEF Crash, Exit, Stop
  <2>2. CASE Start \/ Shutdown \/ TickLoad \/ TickRemove \/ TickPlan \/ TickEnd
    BY <2>2 DEF Start, Shutdown, TickLoad, TickRemove, TickPlan, TickEnd, bounds
  <2> QED
    BY <2>1, <2>2
<1> QED
  BY <1>1, <1>2, QuietBudget

\* The steps that touch neither the file, nor an approval, nor a copy of
\* either.
LEMMA SilentBudget ==
    ASSUME LeaseInv, LeaseInv', BudgetInv,
           UNCHANGED <<disk, queue, phase, durable, batch, cli, granted, faults>>
    PROVE  BudgetInv'
<1>1. \A a \in SUBSET LeaseIDs, id \in LeaseIDs : UsesAfter(a, id) <= UsesBefore(a, id)
  <2> SUFFICES ASSUME NEW a \in SUBSET LeaseIDs, NEW id \in LeaseIDs
               PROVE  UsesAfter(a, id) <= UsesBefore(a, id)
    OBVIOUS
  <2>1. UsesAfter(a, id) = UsesBefore(a, id)
    BY DEF UsesAfter, UsesBefore, UsesOf
  <2>2. UsesBefore(a, id) \in {0, 1, 2}
    BY UsesType DEF UsesBefore
  <2> QED
    BY <2>1, <2>2
<1> QED
  BY <1>1, QuietBudget

\* A session or a recovery writes the file: no attempt is added.
LEMMA WriterBudget ==
    ASSUME LeaseInv, LeaseInv', HistoryInv, BudgetInv, NEW r \in Roles,
           RecordProcess(r) \/ Report(r) \/ Recover(r)
    PROVE  BudgetInv'
<1> DEFINE Grows(s) == /\ s.approvals = disk.approvals
                       /\ \A id \in LeaseIDs, n \in Nat, k \in Int :
                             Fits(disk, id, n, k) => Fits(s, id, n, k)
<1>1. /\ disk \in State /\ Coherent(disk) /\ now \in Nat /\ faults \in Nat
      /\ IsFiniteSet(Active) /\ MaxFaults \in Nat
  BY ControllerAssumption
  DEF LeaseInv, TypeInv, TypeOK, HistoryInv, SnapshotsCoherent, BudgetInv
<1>2. /\ UNCHANGED <<queue, phase, durable, batch, cli, granted>>
  BY DEF RecordProcess, Report, Recover, tickVars
<1>3. \A outcome \in Outcomes :
         Unresolved(disk.lease[r]) => Grows(WithResult(disk, r, outcome, now))
  <2> SUFFICES ASSUME NEW outcome \in Outcomes, Unresolved(disk.lease[r])
               PROVE  Grows(WithResult(disk, r, outcome, now))
    OBVIOUS
  <2>1. WithResult(disk, r, outcome, now).approvals = disk.approvals
    BY <1>1 DEF WithResult, State
  <2> QED
    BY <1>1, <2>1, FitsResult
<1>4. \A p \in Nat :
         Unresolved(disk.lease[r]) => Grows(WithProcess(disk, r, p))
  <2> SUFFICES ASSUME NEW p \in Nat, Unresolved(disk.lease[r])
               PROVE  Grows(WithProcess(disk, r, p))
    OBVIOUS
  <2>1. WithProcess(disk, r, p).approvals = disk.approvals
    BY <1>1 DEF WithProcess, State
  <2> QED
    BY <1>1, <2>1, FitsProcess
<1>5. Grows(disk)
  OBVIOUS
<1> HIDE DEF Grows
<1>6. Grows(disk') /\ faults' \in {faults, faults + 1}
  <2>1. CASE Report(r)
    <3>1. session[r].outcome \in Outcomes
      BY <2>1 DEF Report, LeaseInv, ResultKnown
    <3>2. CASE disk.lease[r].id = session[r].id /\ Unresolved(disk.lease[r])
      <4>1. PICK ok \in BOOLEAN : Commit(WithResult(disk, r, session[r].outcome, now), ok)
        BY <2>1, <3>2 DEF Report
      <4> QED
        BY <1>3, <1>5, <3>1, <3>2, <4>1 DEF Commit
    <3>3. CASE ~(disk.lease[r].id = session[r].id /\ Unresolved(disk.lease[r]))
      BY <1>5, <2>1, <3>3 DEF Report
    <3> QED
      BY <3>2, <3>3
  <2>2. CASE RecordProcess(r)
    <3>1. CASE disk.lease[r].id = session[r].id /\ Unresolved(disk.lease[r])
      <4>1. PICK ok \in BOOLEAN : Commit(WithProcess(disk, r, disk.lease[r].beat), ok)
        BY <2>2, <3>1 DEF RecordProcess
      <4>2. disk.lease[r].beat \in Nat
        BY <1>1, LeaseTypes, BeatType
      <4> QED
        BY <1>4, <1>5, <3>1, <4>1, <4>2 DEF Commit
    <3>2. CASE ~(disk.lease[r].id = session[r].id /\ Unresolved(disk.lease[r]))
      BY <1>5, <2>2, <3>2 DEF RecordProcess
    <3> QED
      BY <3>1, <3>2
  <2>3. CASE Recover(r)
    <3>1. PICK ok \in BOOLEAN : Commit(WithResult(disk, r, "cancelled", now), ok)
      BY <2>3 DEF Recover
    <3>2. Unresolved(disk.lease[r]) /\ "cancelled" \in Outcomes
      BY <2>3 DEF Recover, Outcomes
    <3> QED
      BY <1>3, <1>5, <3>1, <3>2 DEF Commit
  <2> QED
    BY <2>1, <2>2, <2>3
<1>7. IsFiniteSet(Active') /\ Spare' \in Int /\ Spare' >= Spare
  BY <1>1, <1>2, <1>6, SpareKept
<1>8. UsesPaid
  <2> SUFFICES ASSUME NEW a \in SUBSET LeaseIDs, NEW id \in LeaseIDs
               PROVE  UsesAfter(a, id) + Spare <= UsesBefore(a, id) + Spare'
    BY DEF UsesPaid
  <2>1. UsesAfter(a, id) = UsesBefore(a, id)
    BY <1>2 DEF UsesAfter, UsesBefore, UsesOf
  <2>2. UsesBefore(a, id) \in {0, 1, 2}
    BY UsesType DEF UsesBefore
  <2>3. Spare \in Int
    BY <1>1, SpareType
  <2> QED
    BY <1>7, <2>1, <2>2, <2>3
<1> QED
  BY <1>2, <1>6, <1>7, <1>8, RoomKept DEF Grows

\* A command reads the file, or the request file, or replaces the request file.
LEMMA CommandBudget ==
    ASSUME LeaseInv, LeaseInv', BudgetInv, NEW o \in Operators,
           \/ \E id \in LeaseIDs : ApproveLoad(o, id)
           \/ QueueRead(o) \/ QueueWrite(o)
    PROVE  BudgetInv'
<1>1. /\ faults \in Nat /\ IsFiniteSet(Active) /\ Spare \in Int
      /\ cli \in [Operators -> Command \union {NoCommand}]
      /\ queue \subseteq LeaseIDs
  BY SpareType DEF LeaseInv, TypeInv, TypeOK, BudgetInv
<1>2. UNCHANGED <<disk, durable, phase, batch>>
  BY DEF ApproveLoad, QueueRead, QueueWrite, tickVars
<1>3. CASE \E id \in LeaseIDs : ApproveLoad(o, id)
  <2>1. PICK id \in LeaseIDs : ApproveLoad(o, id)
    BY <1>3
  <2>2. IsFiniteSet(Active') /\ Spare' = Spare
    BY <1>1, <2>1, SpareBegins
  <2>3. queue' = queue /\ cli' = [cli EXCEPT ![o] =
                  [stage |-> "loaded", id |-> id, snap |-> disk, file |-> {}]]
    BY <2>1 DEF ApproveLoad
  <2>4. \A p \in Operators : cli'[p] = cli[p] \/ cli'[p].snap = disk
    BY <1>1, <2>3
  <2>5. UsesPaid
    <3> SUFFICES ASSUME NEW a \in SUBSET LeaseIDs, NEW j \in LeaseIDs
                 PROVE  UsesAfter(a, j) + Spare <= UsesBefore(a, j) + Spare'
      BY DEF UsesPaid
    <3>1. UsesAfter(a, j) = UsesBefore(a, j)
      BY <1>2, <2>3 DEF UsesAfter, UsesBefore, UsesOf
    <3>2. UsesBefore(a, j) \in {0, 1, 2}
      BY UsesType DEF UsesBefore
    <3> QED
      BY <1>1, <2>2, <3>1, <3>2
  <2> QED
    BY <1>1, <1>2, <2>2, <2>4, <2>5, RoomKept
<1>4. CASE QueueRead(o)
  <2>1. /\ cli[o] \in Command /\ queue' = queue /\ granted' = granted /\ faults' = faults
        /\ cli' = [cli EXCEPT ![o].stage = "queueing", ![o].snap = EmptyState,
                              ![o].file = queue]
    BY <1>1, <1>4 DEF QueueRead, NoCommand, bounds
  <2>2. cli'[o].stage = "queueing" /\ \A p \in Operators \ {o} : cli'[p] = cli[p]
    BY <1>1, <2>1 DEF Command
  <2>3. cli'[o] # NoCommand /\ cli[o] # NoCommand
    <3>1. NoCommand.stage = "none"
      BY DEF NoCommand
    <3>2. cli[o].stage = "loaded"
      BY <1>4 DEF QueueRead
    <3> QED
      BY <2>2, <3>1, <3>2
  <2>4. Active' = Active
    BY <2>2, <2>3 DEF Active
  <2>5. IsFiniteSet(Active') /\ Spare' = Spare
    BY <1>1, <2>1, <2>4 DEF Spare
  <2>6. UsesPaid
    <3> SUFFICES ASSUME NEW a \in SUBSET LeaseIDs, NEW j \in LeaseIDs
                 PROVE  UsesAfter(a, j) + Spare <= UsesBefore(a, j) + Spare'
      BY DEF UsesPaid
    <3>1. UsesAfter(a, j) = UsesBefore(a, j)
      BY <1>2, <2>1 DEF UsesAfter, UsesBefore, UsesOf
    <3>2. UsesBefore(a, j) \in {0, 1, 2}
      BY UsesType DEF UsesBefore
    <3> QED
      BY <1>1, <2>5, <3>1, <3>2
  <2>7. \A p \in Operators : cli'[p].stage = "loaded" => cli'[p] = cli[p]
    BY <2>2
  <2> QED
    BY <1>1, <1>2, <2>5, <2>6, <2>7, RoomKept
<1>5. CASE QueueWrite(o)
  <2>1. /\ cli[o] \in Command /\ queue' = cli[o].file \union {cli[o].id}
        /\ granted' = granted /\ faults' = faults
        /\ cli' = [cli EXCEPT ![o] = NoCommand]
    BY <1>1, <1>5 DEF QueueWrite, NoCommand, bounds
  <2>2. cli[o] # NoCommand
    BY <1>5 DEF QueueWrite, NoCommand
  <2>3. IsFiniteSet(Active') /\ Spare' >= Spare + 1 /\ Spare' \in Int
    BY <1>1, <2>1, <2>2, SpareEnds
  <2>4. Spare' >= Spare
    BY <1>1, <2>3
  <2>5. UsesPaid
    <3> SUFFICES ASSUME NEW a \in SUBSET LeaseIDs, NEW j \in LeaseIDs
                 PROVE  UsesAfter(a, j) + Spare <= UsesBefore(a, j) + Spare'
      BY DEF UsesPaid
    <3>1. UsesAfter(a, j) <= UsesBefore(a, j) + 1
      <4>1. UsesOf(phase, queue', batch, a, j) <= UsesOf(phase, queue, batch, a, j) + 1
        BY DEF UsesOf, One
      <4> QED
        BY <1>2, <4>1 DEF UsesAfter, UsesBefore
    <3>2. UsesBefore(a, j) \in {0, 1, 2} /\ UsesAfter(a, j) \in {0, 1, 2}
      BY UsesType DEF UsesBefore, UsesAfter
    <3> QED
      BY <1>1, <2>3, <3>1, <3>2
  <2>6. \A p \in Operators : cli'[p].stage = "loaded" => cli'[p] = cli[p]
    BY <1>1, <2>1 DEF NoCommand
  <2> QED
    BY <1>1, <1>2, <2>3, <2>4, <2>5, <2>6, RoomKept
<1> QED
  BY <1>3, <1>4, <1>5

\* A command adds its approval to the snapshot it has read, however old that
\* snapshot is: what it still counts as unused is what the command pays for.
LEMMA ApproveBudget ==
    ASSUME LeaseInv, LeaseInv', BudgetInv, NEW o \in Operators, ApproveCommit(o)
    PROVE  BudgetInv'
<1> DEFINE cand == WithApprovals(cli[o].snap, {cli[o].id})
<1>1. /\ faults \in Nat /\ MaxFaults \in Nat /\ IsFiniteSet(Active) /\ Spare \in Int
      /\ cli \in [Operators -> Command \union {NoCommand}]
      /\ disk \in State /\ durable \in State
  BY SpareType, ControllerAssumption DEF LeaseInv, TypeInv, TypeOK, BudgetInv
<1>2. /\ phase = "down" /\ UNCHANGED <<queue, phase, durable, batch, granted>>
      /\ cli[o].stage = "loaded" /\ cli' = [cli EXCEPT ![o] = NoCommand]
  BY DEF ApproveCommit, tickVars
<1>3. PICK ok \in BOOLEAN : Commit(cand, ok)
  BY DEF ApproveCommit
<1>4. cli[o] # NoCommand /\ cli[o] \in Command
  BY <1>1, <1>2 DEF NoCommand
<1>5. /\ cli[o].snap \in State /\ cli[o].id \in LeaseIDs
  BY <1>4 DEF Command
<1>6. /\ cand.lease = cli[o].snap.lease /\ cand.history = cli[o].snap.history
  BY <1>5 DEF WithApprovals, State
<1> HIDE DEF cand
<1>7. (disk' = disk \/ disk' = cand) /\ faults' \in {faults, faults + 1}
  BY <1>3 DEF Commit
<1>8. IsFiniteSet(Active') /\ Spare' >= Spare + 1 /\ Spare' \in Int
  BY <1>1, <1>2, <1>4, <1>7, SpareEnds
<1>9. \A a, id : /\ UsesAfter(a, id) = UsesBefore(a, id)
                 /\ UsesAfter(a, id) \in {0, 1}
  BY <1>2 DEF UsesAfter, UsesBefore, UsesOf, One
<1>10. ASSUME NEW id \in LeaseIDs
       PROVE  /\ Fits(disk, id, UsesAfter(disk.approvals, id), Spare')
              /\ Fits(durable, id, UsesAfter(durable.approvals, id), Spare')
              /\ Fits(cand, id, UsesAfter(cand.approvals, id), Spare')
  <2>1. /\ Fits(disk, id, UsesAfter(disk.approvals, id), Spare)
        /\ Fits(durable, id, UsesAfter(durable.approvals, id), Spare)
        /\ Fits(cli[o].snap, id, 0, Spare)
    <3>1. /\ Fits(disk, id, UsesBefore(disk.approvals, id), Spare)
          /\ Fits(durable, id, UsesBefore(durable.approvals, id), Spare)
          /\ Fits(cli[o].snap, id, 0, Spare)
      BY <1>2 DEF BudgetInv, BudgetKept, SnapshotBudget, Uses, UsesBefore, UsesOf
    <3> QED
      BY <1>9, <3>1
  <2>2. Spare <= Spare'
    BY <1>1, <1>8
  <2>3. UsesAfter(cand.approvals, id) + Spare <= 0 + Spare'
    BY <1>1, <1>8, <1>9
  <2>4. /\ UsesAfter(disk.approvals, id) \in Nat
        /\ UsesAfter(durable.approvals, id) \in Nat
        /\ UsesAfter(cand.approvals, id) \in Nat
    BY <1>9
  <2>5. Fits(disk, id, UsesAfter(disk.approvals, id), Spare')
    BY <1>1, <1>8, <2>1, <2>2, <2>4, FitsMore
  <2>6. Fits(durable, id, UsesAfter(durable.approvals, id), Spare')
    BY <1>1, <1>8, <2>1, <2>2, <2>4, FitsMore
  <2>7. Fits(cand, id, UsesAfter(cand.approvals, id), Spare')
    BY <1>1, <1>5, <1>6, <1>8, <2>1, <2>3, <2>4, FitsCopy
  <2> QED
    BY <2>5, <2>6, <2>7
<1>11. BudgetKept(disk)' /\ BudgetKept(durable)'
  BY <1>2, <1>7, <1>10 DEF BudgetKept, Uses, UsesAfter, UsesOf
<1>12. SnapshotBudget'
  <2> SUFFICES ASSUME NEW p \in Operators, NEW id \in LeaseIDs, cli'[p].stage = "loaded"
               PROVE  Fits(cli'[p].snap, id, 0, Spare')
    BY DEF SnapshotBudget
  <2>1. cli'[p] = cli[p]
    BY <1>1, <1>2 DEF NoCommand
  <2>2. Fits(cli[p].snap, id, 0, Spare) /\ cli[p].snap \in State
    BY <1>1, <2>1, EmptyStateType DEF BudgetInv, SnapshotBudget, Command, NoCommand
  <2>3. Spare <= Spare'
    BY <1>1, <1>8
  <2> QED
    BY <1>1, <1>8, <2>1, <2>2, <2>3, FitsMore
<1> QED
  BY <1>8, <1>11, <1>12 DEF BudgetInv

\* The commands' snapshots gain room with what a failed write allows.
LEMMA SnapshotsFit ==
    ASSUME LeaseInv, BudgetInv, UNCHANGED cli, Spare' \in Int, Spare' >= Spare
    PROVE  SnapshotBudget'
<1> SUFFICES ASSUME NEW p \in Operators, NEW id \in LeaseIDs, cli[p].stage = "loaded"
             PROVE  Fits(cli[p].snap, id, 0, Spare')
  BY DEF SnapshotBudget
<1>1. /\ IsFiniteSet(Active) /\ Spare \in Int
      /\ cli \in [Operators -> Command \union {NoCommand}]
  BY SpareType DEF LeaseInv, TypeInv, TypeOK, BudgetInv
<1>2. Fits(cli[p].snap, id, 0, Spare) /\ cli[p].snap \in State
  BY <1>1, EmptyStateType DEF BudgetInv, SnapshotBudget, Command, NoCommand
<1> QED
  BY <1>1, <1>2, FitsMore

\* The tick commits the requests it has read, or goes on with a copy that has
\* them while the file does not: the failed write pays for the second use.
LEMMA ConsumeBudget ==
    ASSUME LeaseInv, LeaseInv', HistoryInv, BudgetInv, TickConsume
    PROVE  BudgetInv'
<1> DEFINE cand == WithApprovals(durable, batch)
<1>1. /\ faults \in Nat /\ MaxFaults \in Nat /\ IsFiniteSet(Active) /\ Spare \in Int
      /\ disk \in State /\ durable \in State /\ batch \in SUBSET LeaseIDs
  BY SpareType, ControllerAssumption DEF LeaseInv, TypeInv, TypeOK, BudgetInv
<1>2. /\ phase = "consume" /\ durable' = cand /\ UNCHANGED <<queue, batch, cli, granted>>
  BY DEF TickConsume
<1>3. PICK ok \in BOOLEAN : Commit(cand, ok) /\ phase' = IF ok THEN "remove" ELSE "plan"
  BY DEF TickConsume
<1>4. \A r \in Roles : SameRole(r)
  BY <1>2 DEF HistoryInv, CopySame, Pending, Ticking
<1>5. /\ cand.lease = durable.lease /\ cand.history = durable.history
      /\ cand.approvals = durable.approvals \union batch
  BY <1>1 DEF WithApprovals, State
<1> HIDE DEF cand
<1>6. ValidTransition(disk, cand)
  <2> SUFFICES ASSUME NEW r \in Roles PROVE LeaseMoves(disk.lease[r], cand.lease[r])
    BY DEF ValidTransition
  <2>1. cand.lease[r] = disk.lease[r] /\ disk.lease[r] \in Lease \union {NoLease}
    BY <1>1, <1>4, <1>5, LeaseTypes DEF SameRole
  <2> QED
    BY <2>1, MovesToItself
<1>7. /\ disk' = disk \/ disk' = cand
      /\ \/ phase' = "remove" /\ disk' = cand /\ faults' = faults
         \/ phase' = "plan" /\ faults' = faults + 1
  BY <1>3, <1>6 DEF Commit
<1>8. /\ IsFiniteSet(Active') /\ Spare' \in Int /\ Spare' >= Spare
      /\ Spare' = Spare + (faults' - faults)
  BY <1>1, <1>2, <1>7, SpareKept
<1>9. ASSUME NEW id \in LeaseIDs, NEW s \in {disk, durable}, NEW t \in {s, cand},
             t.approvals = s.approvals \/ s = durable
      PROVE  Fits(t, id, UsesAfter(t.approvals, id), Spare')
  <2>1. s \in State /\ Fits(s, id, UsesBefore(s.approvals, id), Spare)
    BY <1>1 DEF BudgetInv, BudgetKept, Uses, UsesBefore, UsesOf
  <2>2. RoleOf[id] \in Roles
    BY StateAssumption
  <2>3. t.lease[RoleOf[id]] = s.lease[RoleOf[id]] /\ t.history[id] = s.history[id]
    BY <1>4, <1>5, <2>2 DEF SameRole
  <2>4. t.approvals = s.approvals \/ t.approvals = durable.approvals \union batch
    BY <1>5
  <2>5. /\ UsesAfter(t.approvals, id) \in {0, 1, 2}
        /\ UsesBefore(s.approvals, id) \in {0, 1, 2}
    BY UsesType DEF UsesAfter, UsesBefore
  <2>6. UsesAfter(t.approvals, id) + Spare <= UsesBefore(s.approvals, id) + Spare'
    <3>1. CASE phase' = "remove"
      <4>1. \/ s = durable /\ t.approvals = durable.approvals \union batch
            \/ t.approvals = s.approvals
        BY <2>4, <1>9
      <4>2. UsesOf("remove", queue, batch, t.approvals, id)
               <= UsesOf("consume", queue, batch, s.approvals, id)
        BY <4>1 DEF UsesOf, One
      <4> QED
        BY <1>1, <1>2, <1>8, <2>5, <3>1, <4>2 DEF UsesAfter, UsesBefore
    <3>2. CASE phase' = "plan"
      <4>1. \/ s = durable /\ t.approvals = durable.approvals \union batch
            \/ t.approvals = s.approvals
        BY <2>4, <1>9
      <4>2. UsesOf("plan", queue, batch, t.approvals, id)
               <= UsesOf("consume", queue, batch, s.approvals, id) + 1
        BY <4>1 DEF UsesOf, One
      <4>3. Spare' = Spare + 1
        BY <1>1, <1>7, <1>8, <3>2
      <4> QED
        BY <1>1, <1>2, <2>5, <3>2, <4>2, <4>3 DEF UsesAfter, UsesBefore
    <3> QED
      BY <1>7, <3>1, <3>2
  <2> QED
    BY <1>1, <1>8, <2>1, <2>3, <2>5, <2>6, FitsCopy
<1>10. ASSUME NEW id \in LeaseIDs
       PROVE  /\ Fits(durable', id, UsesAfter(durable'.approvals, id), Spare')
              /\ Fits(disk', id, UsesAfter(disk'.approvals, id), Spare')
  <2>1. Fits(cand, id, UsesAfter(cand.approvals, id), Spare')
    BY <1>9
  <2>2. Fits(disk, id, UsesAfter(disk.approvals, id), Spare')
    BY <1>9
  <2> QED
    BY <1>2, <1>7, <2>1, <2>2
<1>11. BudgetKept(disk)' /\ BudgetKept(durable)'
  BY <1>10 DEF BudgetKept, Uses, UsesAfter, UsesOf
<1>12. SnapshotBudget'
  BY <1>2, <1>8, SnapshotsFit
<1> QED
  BY <1>8, <1>11, <1>12 DEF BudgetInv

\* A launch takes its attempt from the budget or from the approval it uses up.
LEMMA LaunchBudget ==
    ASSUME LeaseInv, LeaseInv', HistoryInv, BudgetInv, NEW r \in Roles,
           Launch(r) \/ ReloadFails(r)
    PROVE  BudgetInv'
<1> DEFINE g == Granted(durable, r, desired[r], now')
<1> DEFINE f == RefusedGrant(durable, r, desired[r], now')
<1>1. /\ r \in todo /\ Launchable(r) /\ now' \in Nat /\ phase' = "launch"
      /\ UNCHANGED <<batch, cli, granted, queue>>
      /\ disk' = disk \/ disk' = g
      /\ (disk' = g /\ durable' = disk') \/ durable' = f \/ durable' = EmptyState
      /\ faults' \in {faults, faults + 1}
  BY LaunchOutcome
<1>2. /\ desired[r] \in LeaseIDs /\ RoleOf[desired[r]] = r /\ phase = "launch"
      /\ MayLaunch(durable, r, desired[r])
      /\ disk \in State /\ durable \in State /\ Coherent(durable)
  BY <1>1, LaunchableFacts
<1>3. IsFiniteSet(Active) /\ Spare \in Int
  BY SpareType DEF BudgetInv
<1>4. IsFiniteSet(Active') /\ Spare' \in Int /\ Spare' >= Spare
  <2>1. UNCHANGED <<cli, granted>>
    BY <1>1
  <2> QED
    BY <1>1, <1>3, <2>1, SpareKept
<1>5. g \in State /\ f \in State
  BY <1>1, <1>2, GrantedType
<1>6. ASSUME NEW id \in LeaseIDs
      PROVE  /\ Fits(g, id, One(id \in g.approvals) + One(id \in queue), Spare)
             /\ Fits(f, id, One(id \in f.approvals) + One(id \in queue), Spare)
             /\ Fits(disk, id, One(id \in disk.approvals) + One(id \in queue), Spare)
             /\ 0 + One(id \in queue) <= Spare
  <2>1. /\ Fits(disk, id, One(id \in disk.approvals) + One(id \in queue), Spare)
        /\ Fits(durable, id, One(id \in durable.approvals) + One(id \in queue), Spare)
    BY <1>2 DEF BudgetInv, BudgetKept, Uses
  <2>2. One(id \in queue) \in Nat /\ One(id \in disk.approvals) \in Nat
    BY DEF One
  <2>3. One(id \in disk.approvals) + One(id \in queue) <= Spare
    BY <2>1 DEF Fits
  <2>4. 0 + One(id \in queue) <= Spare
    BY <1>3, <2>2, <2>3
  <2>5. /\ Fits(g, id, One(id \in g.approvals) + One(id \in queue), Spare)
        /\ Fits(f, id, One(id \in f.approvals) + One(id \in queue), Spare)
    BY <1>1, <1>2, <1>3, <2>1, <2>2, FitsGrant
  <2> QED
    BY <2>1, <2>4, <2>5
<1> HIDE DEF g, f
<1>7. ASSUME NEW id \in LeaseIDs, NEW s \in {g, f, disk, EmptyState}
      PROVE  Fits(s, id, One(id \in s.approvals) + One(id \in queue), Spare')
  <2>1. Fits(s, id, One(id \in s.approvals) + One(id \in queue), Spare)
    <3>1. CASE s = EmptyState
      <4>1. s.approvals = {} /\ One(id \in {}) = 0
        BY <3>1 DEF EmptyState, One
      <4>2. One(id \in s.approvals) + One(id \in queue) <= Spare
        BY <1>6, <4>1
      <4> QED
        BY <3>1, <4>2, FitsEmpty
    <3>2. CASE s \in {g, f, disk}
      BY <1>6, <3>2
    <3> QED
      BY <3>1, <3>2
  <2>2. s \in State
    BY <1>2, <1>5, EmptyStateType
  <2>3. One(id \in s.approvals) + One(id \in queue) \in Nat
    BY DEF One
  <2> QED
    BY <1>3, <1>4, <2>1, <2>2, <2>3, FitsMore
<1>8. ASSUME NEW id \in LeaseIDs
      PROVE  /\ Fits(disk', id, One(id \in disk'.approvals) + One(id \in queue'), Spare')
             /\ Fits(durable', id, One(id \in durable'.approvals) + One(id \in queue'), Spare')
  <2>1. disk' \in {g, f, disk, EmptyState} /\ durable' \in {g, f, disk, EmptyState}
    BY <1>1
  <2> QED
    BY <1>1, <1>7, <2>1
<1>9. BudgetKept(disk)' /\ BudgetKept(durable)'
  BY <1>1, <1>8 DEF BudgetKept, Uses
<1>10. SnapshotBudget'
  <2>1. UNCHANGED cli
    BY <1>1
  <2> QED
    BY <1>4, <2>1, SnapshotsFit
<1> QED
  BY <1>4, <1>9, <1>10 DEF BudgetInv

\* The budget invariant survives every step.
LEMMA BudgetStep ==
    LeaseInv /\ LeaseInv' /\ HistoryInv /\ BudgetInv /\ [Next]_vars => BudgetInv'
<1> SUFFICES ASSUME LeaseInv, LeaseInv', HistoryInv, BudgetInv, [Next]_vars
             PROVE  BudgetInv'
  OBVIOUS
<1> USE DEF tickVars, bounds
<1>1. CASE Start \/ Crash \/ Exit \/ Shutdown \/ TickLoad \/ TickRemove \/ TickPlan \/ TickEnd
  BY <1>1, ControlBudget
<1>2. CASE TickConsume
  BY <1>2, ConsumeBudget
<1>3. ASSUME NEW r \in Roles, Launch(r) \/ ReloadFails(r) PROVE BudgetInv'
  BY <1>3, LaunchBudget
<1>4. ASSUME NEW r \in Roles,
             \/ Delay(r) \/ Skip(r)
             \/ PrepareFails(r) \/ StartWorker(r) \/ WorkerExits(r) \/ Land(r)
             \/ Deregister(r) \/ OrphanExits(r)
      PROVE  BudgetInv'
  <2>1. UNCHANGED <<disk, queue, phase, durable, batch, cli, granted, faults>>
    BY <1>4 DEF Delay, Skip, PrepareFails, StartWorker, WorkerExits, Land, Deregister,
                OrphanExits
  <2> QED
    BY <2>1, SilentBudget
<1>5. ASSUME NEW r \in Roles, RecordProcess(r) \/ Report(r) \/ Recover(r) PROVE BudgetInv'
  BY <1>5, WriterBudget
<1>6. ASSUME NEW o \in Operators, ApproveCommit(o) PROVE BudgetInv'
  BY <1>6, ApproveBudget
<1>7. ASSUME NEW o \in Operators,
             \/ \E id \in LeaseIDs : ApproveLoad(o, id)
             \/ QueueRead(o) \/ QueueWrite(o)
      PROVE  BudgetInv'
  BY <1>7, CommandBudget
<1>8. CASE UNCHANGED vars
  BY <1>8, SilentBudget DEF vars
<1> QED
  BY <1>1, <1>2, <1>3, <1>4, <1>5, <1>6, <1>7, <1>8 DEF Next, Tick, SessionStep, OperatorStep

-----------------------------------------------------------------------------
(* The theorems.                                                            *)

\* Every attempt above the budget, and every use that an approval still has,
\* is paid for by an approval or a failed write, in every reachable state.
THEOREM BudgetInvariant == Spec => []BudgetInv
BY BudgetInit, BudgetStep, LeaseInvariant, HistoryInvariant, PTL DEF Spec

LEMMA BoundedNow == LeaseInv /\ HistoryInv /\ BudgetInv => AttemptBudget
<1> SUFFICES ASSUME LeaseInv, HistoryInv, BudgetInv, NEW r \in Roles
             PROVE  disk.lease[r].attempt <= MaxFailedSessionRetries + 1 + granted + faults
  BY DEF AttemptBudget
<1>1. /\ disk \in State /\ granted \in Nat /\ faults \in Nat
      /\ MaxFailedSessionRetries \in Nat
      /\ IsFiniteSet(Active) /\ Coherent(disk)
  BY StateAssumption
  DEF LeaseInv, TypeInv, TypeOK, HistoryInv, SnapshotsCoherent, BudgetInv
<1>2. Spare \in Int /\ Spare <= granted + faults
  BY <1>1, SpareType
<1>3. CASE disk.lease[r] = NoLease
  BY <1>1, <1>3 DEF NoLease
<1>4. CASE disk.lease[r] # NoLease
  <2> DEFINE id == disk.lease[r].id
  <2>1. id \in LeaseIDs /\ RoleOf[id] = r /\ disk.lease[r].attempt \in Nat
    BY <1>1, <1>4, LeaseTypes, LeaseOrNone DEF Coherent, LeaseOfItsRole
  <2>2. disk.lease[RoleOf[id]].id = id
    BY <2>1
  <2> HIDE DEF id
  <2>3. Fits(disk, id, Uses(disk, id), Spare)
    BY <2>1 DEF BudgetInv, BudgetKept
  <2>4. disk.lease[r].attempt + Uses(disk, id) <= MaxFailedSessionRetries + 1 + Spare
    BY <2>1, <2>2, <2>3 DEF Fits, Budget
  <2>5. Uses(disk, id) \in {0, 1, 2}
    BY DEF Uses, One
  <2> QED
    BY <1>1, <1>2, <2>1, <2>4, <2>5
<1> QED
  BY <1>3, <1>4

\* Retries are bounded, for every number of operators, crashes, failed writes
\* and approvals.
THEOREM RetriesBounded == Spec => []AttemptBudget
BY BoundedNow, LeaseInvariant, HistoryInvariant, BudgetInvariant, PTL
=============================================================================
