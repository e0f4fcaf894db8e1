----------------------- MODULE ControllerHistoryProofs -----------------------
(***************************************************************************)
(* Proofs about the history a snapshot tells: that the tick's own commits  *)
(* are valid, that a role is never handed on while its lease on disk is    *)
(* held, that attempt counts are kept and completed work is not repeated,  *)
(* for every value of the constants.                                       *)
(***************************************************************************)
EXTENDS ControllerProofs

-----------------------------------------------------------------------------
(* Every writer of the snapshot keeps it coherent.                          *)

LEMMA LeaseTypes ==
    ASSUME NEW s \in State
    PROVE  /\ \A r \in Roles : s.lease[r] \in Lease \union {NoLease}
           /\ \A id \in LeaseIDs : s.history[id] \in Lease \union {NoLease}
           /\ s.past \subseteq Lease
           /\ s.approvals \subseteq LeaseIDs
           /\ s.rationale \subseteq LeaseIDs
BY DEF State

\* A lease and "no lease" are told apart by each of their fields.
LEMMA LeaseOrNone ==
    ASSUME NEW l \in Lease \union {NoLease}
    PROVE  /\ l = NoLease <=> l.id = None
           /\ l = NoLease <=> l.attempt = 0
           /\ l = NoLease <=> ~Ended(l) /\ ~Unresolved(l)
           /\ l # NoLease => l \in Lease /\ l.id \in LeaseIDs /\ l.attempt \in Nat \ {0}
           /\ l.attempt \in Nat /\ l.beat \in Nat /\ l.process \in Nat
BY StateAssumption DEF Lease, NoLease, Ended, Unresolved, Outcomes

LEMMA EmptyCoherent == Coherent(EmptyState)
BY DEF Coherent, EmptyState, LeaseOfItsRole, HistoryByLease, ResultsHaveRole,
       CompletedOverridden, NoLease

\* The two ways in which a role may be launched (recoveryLeaseDecision), for
\* an assignment of that role.
LEMMA LaunchCases ==
    ASSUME NEW s \in State, Coherent(s), NEW r \in Roles, NEW id \in LeaseIDs,
           RoleOf[id] = r, MayLaunch(s, r, id)
    PROVE  \/ /\ s.lease[r] = NoLease
              /\ s.history[id] = NoLease
              /\ \A l \in s.past : l.id # id
              /\ NextAttempt(s, r, id) = 1
           \/ /\ Ended(s.lease[r])
              /\ s.lease[r].id = id
              /\ MayRerun(s, s.lease[r])
              /\ NextAttempt(s, r, id) = IF s.lease[r].outcome \in Uncounted
                                         THEN s.lease[r].attempt
                                         ELSE s.lease[r].attempt + 1
           \/ /\ Ended(s.lease[r])
              /\ s.lease[r].id # id
              /\ s.history[id] = NoLease
              /\ NextAttempt(s, r, id) = 1
           \/ /\ Ended(s.lease[r])
              /\ s.lease[r].id # id
              /\ s.history[id] # NoLease
              /\ s.history[id].id = id
              /\ MayRerun(s, s.history[id])
              /\ NextAttempt(s, r, id) = IF s.history[id].outcome \in Uncounted
                                         THEN s.history[id].attempt
                                         ELSE s.history[id].attempt + 1
<1>1. CASE s.lease[r] = NoLease
  <2>1. s.history[id] = NoLease /\ \A l \in s.past : l.id # id
    BY <1>1 DEF Coherent, ResultsHaveRole
  <2>2. Considered(s, r, id) = NoLease
    BY <1>1 DEF Considered, NoLease, Ended, Outcomes
  <2>3. NoLease.id # id
    BY StateAssumption DEF NoLease
  <2> QED
    BY <1>1, <2>1, <2>2, <2>3 DEF NextAttempt
<1>2. CASE s.lease[r] # NoLease
  <2>1. Ended(s.lease[r]) /\ ~AwaitsReview(s, r)
    BY <1>2 DEF MayLaunch
  <2>2. Considered(s, r, id).id # id \/ MayRerun(s, Considered(s, r, id))
    BY <1>2 DEF MayLaunch
  <2>3. CASE s.lease[r].id = id
    BY <2>1, <2>2, <2>3 DEF Considered, NextAttempt
  <2>4. CASE s.lease[r].id # id /\ s.history[id] = NoLease
    BY <2>1, <2>4 DEF Considered, NextAttempt
  <2>5. CASE s.lease[r].id # id /\ s.history[id] # NoLease
    <3>1. s.history[id].id = id
      BY <2>5 DEF Coherent, HistoryByLease
    <3>2. Considered(s, r, id) = s.history[id]
      BY <2>1, <2>5 DEF Considered
    <3> QED
      BY <2>1, <2>2, <2>5, <3>1, <3>2 DEF NextAttempt
  <2> QED
    BY <2>3, <2>4, <2>5
<1> QED
  BY <1>1, <1>2

\* A completed result is run again only with an approval, or as an unblock pass.
LEMMA RerunOfCompleted ==
    ASSUME NEW s, NEW l, MayRerun(s, l), l.outcome = "completed",
           s.approvals \subseteq s.rationale
    PROVE  l.id \in Rerunnable(s)
BY DEF MayRerun, RetryableResult, CompletedUnblockPass, Uncounted, Rerunnable

\* A launch proposes, for its own role, a lease that the validator accepts.
LEMMA GrantMoves ==
    ASSUME NEW s \in State, Coherent(s), NEW r \in Roles, NEW id \in LeaseIDs,
           RoleOf[id] = r, MayLaunch(s, r, id), NEW at \in Nat
    PROVE  LeaseMoves(s.lease[r], NewLease(s, r, id, at))
<1> DEFINE old == s.lease[r]
<1> DEFINE new == NewLease(s, r, id, at)
<1>1. new.id = id /\ Unresolved(new) /\ new.attempt = NextAttempt(s, r, id) /\ new.id # None
  BY StateAssumption DEF NewLease, Unresolved
<1>2. CASE old = NoLease
  BY <1>2 DEF LeaseMoves, NoLease
<1>3. CASE Ended(old) /\ old.id # id
  BY <1>1, <1>3 DEF LeaseMoves, Replaces
<1>4. CASE old.id = id /\ Ended(old) /\ old # NoLease
  <2>1. new.attempt = old.attempt \/ new.attempt = old.attempt + 1
    BY <1>1, <1>4, LaunchCases
  <2>2. new.attempt = old.attempt => old.outcome \in Uncounted
    <3>1. old.attempt \in Nat
      BY LeaseTypes, LeaseOrNone
    <3>2. NextAttempt(s, r, id) = IF old.outcome \in Uncounted THEN old.attempt
                                  ELSE old.attempt + 1
      BY <1>4, LaunchCases
    <3> QED
      BY <1>1, <3>1, <3>2
  <2> QED
    BY <1>1, <1>4, <2>1, <2>2 DEF LeaseMoves, Resumes, Retries
<1> QED
  BY <1>2, <1>3, <1>4, LaunchCases

\* What a launch proposes, and what a refused one leaves, part by part.
LEMMA GrantParts ==
    ASSUME NEW s \in State, Coherent(s), NEW r \in Roles, NEW id \in LeaseIDs,
           RoleOf[id] = r, MayLaunch(s, r, id), NEW at \in Nat
    PROVE  /\ NewLease(s, r, id, at) \in Lease
           /\ NewLease(s, r, id, at).id = id
           /\ NewLease(s, r, id, at).attempt = NextAttempt(s, r, id)
           /\ Unresolved(NewLease(s, r, id, at))
           /\ NewLease(s, r, id, at) # NoLease
           /\ s.lease[r] = NoLease \/ Ended(s.lease[r])
           /\ Ended(s.lease[r]) => /\ s.lease[r] # NoLease
                                  /\ s.lease[r].id \in LeaseIDs
                                  /\ RoleOf[s.lease[r].id] = r
           /\ \A j \in LeaseIDs :
                 /\ Granted(s, r, id, at).history[j] =
                       IF Ended(s.lease[r]) /\ s.lease[r].id = j THEN s.lease[r]
                       ELSE s.history[j]
                 /\ RefusedGrant(s, r, id, at).history[j] = Granted(s, r, id, at).history[j]
           /\ Granted(s, r, id, at).past =
                 s.past \union (IF Ended(s.lease[r]) /\ s.lease[r].id = id
                               THEN {s.lease[r]} ELSE {})
           /\ RefusedGrant(s, r, id, at).past = s.past
           /\ Granted(s, r, id, at).rationale = s.rationale
           /\ RefusedGrant(s, r, id, at).rationale = s.rationale
           /\ Granted(s, r, id, at).approvals \subseteq s.approvals \ {id}
           /\ RefusedGrant(s, r, id, at).approvals = Granted(s, r, id, at).approvals
<1>1. NewLease(s, r, id, at) \in Lease
  BY NewLeaseType
<1>2. /\ NewLease(s, r, id, at).id = id
      /\ NewLease(s, r, id, at).attempt = NextAttempt(s, r, id)
      /\ Unresolved(NewLease(s, r, id, at))
  BY DEF NewLease, Unresolved
<1>3. NewLease(s, r, id, at) # NoLease
  BY <1>2, StateAssumption DEF NoLease
<1>4. s.lease[r] = NoLease \/ Ended(s.lease[r])
  BY LaunchCases
<1>5. Ended(s.lease[r]) => /\ s.lease[r] # NoLease
                          /\ s.lease[r].id \in LeaseIDs
                          /\ RoleOf[s.lease[r].id] = r
  BY LeaseTypes, LeaseOrNone DEF Coherent, LeaseOfItsRole
<1>6. \A j \in LeaseIDs :
         /\ Granted(s, r, id, at).history[j] =
               IF Ended(s.lease[r]) /\ s.lease[r].id = j THEN s.lease[r] ELSE s.history[j]
         /\ RefusedGrant(s, r, id, at).history[j] = Granted(s, r, id, at).history[j]
  BY <1>5 DEF Granted, RefusedGrant, Archive, State
<1>7. /\ Granted(s, r, id, at).past =
            s.past \union (IF Ended(s.lease[r]) /\ s.lease[r].id = id
                          THEN {s.lease[r]} ELSE {})
      /\ RefusedGrant(s, r, id, at).past = s.past
      /\ Granted(s, r, id, at).rationale = s.rationale
      /\ RefusedGrant(s, r, id, at).rationale = s.rationale
      /\ Granted(s, r, id, at).approvals \subseteq s.approvals \ {id}
      /\ RefusedGrant(s, r, id, at).approvals = Granted(s, r, id, at).approvals
  BY DEF Granted, RefusedGrant
<1> QED
  BY <1>1, <1>2, <1>3, <1>4, <1>5, <1>6, <1>7

\* A launch keeps the snapshot coherent, also when its commit is refused.
LEMMA GrantCoherent ==
    ASSUME NEW s \in State, Coherent(s), NEW r \in Roles, NEW id \in LeaseIDs,
           RoleOf[id] = r, MayLaunch(s, r, id), NEW at \in Nat
    PROVE  /\ Coherent(Granted(s, r, id, at))
           /\ Coherent(RefusedGrant(s, r, id, at))
<1> DEFINE old == s.lease[r]
<1> DEFINE new == NewLease(s, r, id, at)
<1> DEFINE g == Granted(s, r, id, at)
<1> DEFINE f == RefusedGrant(s, r, id, at)
<1>1. new \in Lease /\ new.id = id /\ new.outcome = "unresolved" /\ new # NoLease
  BY GrantParts DEF Unresolved
<1>2. old = NoLease \/ Ended(old)
  BY GrantParts
<1>3. Ended(old) => /\ old # NoLease
                    /\ old.id \in LeaseIDs
                    /\ RoleOf[old.id] = r
  BY GrantParts
<1>4. /\ \A q \in Roles \ {r} : g.lease[q] = s.lease[q] /\ f.lease[q] = s.lease[q]
      /\ g.lease[r] = new
      /\ f.lease[r] = IF old = NoLease THEN NoLease ELSE new
  BY GrantedLeases
<1>5. \A j \in LeaseIDs :
         /\ g.history[j] = IF Ended(old) /\ old.id = j THEN old ELSE s.history[j]
         /\ f.history[j] = g.history[j]
  BY GrantParts
<1>6. /\ g.past = s.past \union (IF Ended(old) /\ old.id = id THEN {old} ELSE {})
      /\ f.past = s.past
      /\ g.rationale = s.rationale /\ f.rationale = s.rationale
      /\ g.approvals \subseteq s.approvals /\ f.approvals = g.approvals
  BY GrantParts
<1> HIDE DEF g, f, new, old
<1>7. \A t \in {g, f} : LeaseOfItsRole(t)
  BY <1>1, <1>4 DEF Coherent, LeaseOfItsRole
<1>8. \A t \in {g, f} : HistoryByLease(t)
  BY <1>5 DEF Coherent, HistoryByLease
<1>9. \A t \in {g, f} : ResultsHaveRole(t)
  <2> SUFFICES ASSUME NEW t \in {g, f}, NEW j \in LeaseIDs, t.lease[RoleOf[j]] = NoLease
               PROVE  t.history[j] = NoLease /\ \A l \in t.past : l.id # j
    BY DEF ResultsHaveRole
  <2>1. RoleOf[j] \in Roles
    BY StateAssumption
  <2>2. s.lease[RoleOf[j]] = NoLease
    BY <1>1, <1>4, <2>1 DEF old
  <2>3. s.history[j] = NoLease /\ \A l \in s.past : l.id # j
    BY <2>2 DEF Coherent, ResultsHaveRole
  <2>4. RoleOf[j] = r => old = NoLease
    BY <2>2 DEF old
  <2>5. Ended(old) => RoleOf[old.id] # RoleOf[j]
    BY <1>3, <2>4
  <2> QED
    BY <1>5, <1>6, <2>3, <2>5
<1>10. \A t \in {g, f} : CompletedOverridden(t)
  <2> SUFFICES ASSUME NEW t \in {g, f} PROVE CompletedOverridden(t)
    OBVIOUS
  <2>1. Rerunnable(t) = Rerunnable(s)
    BY <1>6 DEF Rerunnable
  <2>2. Ended(old) /\ old.id = id /\ old.outcome = "completed" => id \in Rerunnable(s)
    <3>1. Ended(old) /\ old.id = id => MayRerun(s, old)
      BY <1>3, LaunchCases DEF old
    <3> QED
      BY <3>1, RerunOfCompleted DEF Coherent
  <2>3. \A l \in t.past : l.outcome = "completed" => l.id \in Rerunnable(t)
    BY <1>6, <2>1, <2>2 DEF Coherent, CompletedOverridden
  <2> SUFFICES ASSUME NEW j \in LeaseIDs, t.history[j].outcome = "completed",
                      t.lease[RoleOf[j]].id = j, t.lease[RoleOf[j]].outcome # "completed"
               PROVE  j \in Rerunnable(s)
    BY <2>1, <2>3 DEF CompletedOverridden
  <2>4. RoleOf[j] \in Roles
    BY StateAssumption
  <2>5. CASE RoleOf[j] # r
    <3>1. t.lease[RoleOf[j]] = s.lease[RoleOf[j]] /\ t.history[j] = s.history[j]
      BY <1>3, <1>4, <1>5, <2>4, <2>5
    <3> QED
      BY <3>1 DEF Coherent, CompletedOverridden
  <2>6. CASE RoleOf[j] = r
    <3>1. t.lease[r] = new /\ j = id
      BY <1>1, <1>4, <2>6, StateAssumption DEF NoLease
    <3>2. CASE old = NoLease
      <4>1. s.history[j] = NoLease
        BY <2>6, <3>2 DEF Coherent, ResultsHaveRole, old
      <4> QED
        BY <1>5, <3>2, <4>1 DEF NoLease, Ended, Outcomes
    <3>3. CASE Ended(old) /\ old.id = id
      BY <1>5, <2>2, <3>1, <3>3
    <3>4. CASE Ended(old) /\ old.id # id
      <4>1. s.history[id].outcome = "completed"
        BY <1>5, <3>1, <3>4
      <4>2. s.history[id].id = id /\ MayRerun(s, s.history[id])
        BY <3>4, <4>1, LaunchCases DEF old, NoLease
      <4> QED
        BY <3>1, <4>1, <4>2, RerunOfCompleted DEF Coherent
    <3> QED
      BY <1>2, <3>2, <3>3, <3>4
  <2> QED
    BY <2>5, <2>6
<1>11. \A t \in {g, f} : t.approvals \subseteq t.rationale
  BY <1>6 DEF Coherent
<1>12. Coherent(g) /\ Coherent(f)
  BY <1>7, <1>8, <1>9, <1>10, <1>11 DEF Coherent
<1> QED
  BY <1>12 DEF g, f

\* The result of a run becomes its assignment's history.
LEMMA ResultCoherent ==
    ASSUME NEW s \in State, Coherent(s), NEW r \in Roles, Unresolved(s.lease[r]),
           NEW outcome \in Outcomes, NEW at \in Nat
    PROVE  /\ Coherent(WithResult(s, r, outcome, at))
           /\ \A id \in LeaseIDs :
                 Attempts(WithResult(s, r, outcome, at), id) = Attempts(s, id)
<1> DEFINE old == s.lease[r]
<1> DEFINE l == [old EXCEPT !.outcome = outcome, !.beat = at]
<1> DEFINE t == WithResult(s, r, outcome, at)
<1>1. old \in Lease /\ old.id \in LeaseIDs /\ old # NoLease /\ RoleOf[old.id] = r
        /\ old.outcome = "unresolved"
  BY LeaseTypes, LeaseOrNone DEF Coherent, LeaseOfItsRole, Unresolved, NoLease
<1>2. l.id = old.id /\ l.outcome = outcome /\ l # NoLease /\ Ended(l)
        /\ l.attempt = old.attempt
  BY <1>1, StateAssumption DEF Lease, NoLease, Ended
<1> HIDE DEF l
<1>3. /\ t.lease = [s.lease EXCEPT ![r] = l]
      /\ t.history = [s.history EXCEPT ![old.id] = l]
      /\ t.past = s.past /\ t.rationale = s.rationale /\ t.approvals = s.approvals
  BY <1>2 DEF WithResult, State, l
<1>4. /\ \A q \in Roles : t.lease[q] = IF q = r THEN l ELSE s.lease[q]
      /\ \A j \in LeaseIDs : t.history[j] = IF j = old.id THEN l ELSE s.history[j]
  BY <1>3 DEF State
<1>5. \A j \in LeaseIDs : RoleOf[j] \in Roles
  BY StateAssumption
<1> HIDE DEF t
<1>6. LeaseOfItsRole(t)
  BY <1>1, <1>2, <1>4 DEF Coherent, LeaseOfItsRole
<1>7. HistoryByLease(t)
  BY <1>2, <1>4 DEF Coherent, HistoryByLease
<1>8. ResultsHaveRole(t)
  BY <1>1, <1>2, <1>3, <1>4, <1>5 DEF Coherent, ResultsHaveRole
<1>9. CompletedOverridden(t)
  <2>1. Rerunnable(t) = Rerunnable(s)
    BY <1>3 DEF Rerunnable
  <2> SUFFICES ASSUME NEW j \in LeaseIDs, t.history[j].outcome = "completed",
                      t.lease[RoleOf[j]].id = j, t.lease[RoleOf[j]].outcome # "completed"
               PROVE  j \in Rerunnable(s)
    BY <1>3, <2>1 DEF Coherent, CompletedOverridden
  <2>2. CASE RoleOf[j] = r
    BY <1>1, <1>2, <1>4, <1>5, <2>2
  <2>3. CASE RoleOf[j] # r
    <3>1. t.lease[RoleOf[j]] = s.lease[RoleOf[j]] /\ t.history[j] = s.history[j]
      BY <1>1, <1>4, <1>5, <2>3
    <3> QED
      BY <3>1 DEF Coherent, CompletedOverridden
  <2> QED
    BY <2>2, <2>3
<1>10. Coherent(t)
  BY <1>3, <1>6, <1>7, <1>8, <1>9 DEF Coherent
<1>11. \A j \in LeaseIDs : Attempts(t, j) = Attempts(s, j)
  <2> SUFFICES ASSUME NEW j \in LeaseIDs PROVE Attempts(t, j) = Attempts(s, j)
    OBVIOUS
  <2>1. CASE RoleOf[j] = r
    BY <1>1, <1>2, <1>4, <1>5, <2>1 DEF Attempts
  <2>2. CASE RoleOf[j] # r
    BY <1>1, <1>4, <1>5, <2>2 DEF Attempts
  <2> QED
    BY <2>1, <2>2
<1> QED
  BY <1>10, <1>11 DEF t

LEMMA ProcessCoherent ==
    ASSUME NEW s \in State, Coherent(s), NEW r \in Roles, Unresolved(s.lease[r]),
           NEW p \in Nat
    PROVE  /\ Coherent(WithProcess(s, r, p))
           /\ \A id \in LeaseIDs : Attempts(WithProcess(s, r, p), id) = Attempts(s, id)
<1> DEFINE old == s.lease[r]
<1> DEFINE l == [old EXCEPT !.process = p]
<1> DEFINE t == WithProcess(s, r, p)
<1>1. old \in Lease /\ old # NoLease
  BY LeaseTypes, LeaseOrNone DEF Unresolved, NoLease
<1>2. l.id = old.id /\ l.outcome = old.outcome /\ l # NoLease /\ l.attempt = old.attempt
  BY <1>1, StateAssumption DEF Lease, NoLease
<1> HIDE DEF l
<1>3. /\ t.lease = [s.lease EXCEPT ![r] = l]
      /\ t.history = s.history
      /\ t.past = s.past /\ t.rationale = s.rationale /\ t.approvals = s.approvals
  BY DEF WithProcess, State, l
<1>4. \A q \in Roles : t.lease[q] = IF q = r THEN l ELSE s.lease[q]
  BY <1>3 DEF State
<1>5. \A j \in LeaseIDs : RoleOf[j] \in Roles
  BY StateAssumption
<1> HIDE DEF t
<1>6. \A q \in Roles : /\ t.lease[q] = NoLease <=> s.lease[q] = NoLease
                       /\ t.lease[q].id = s.lease[q].id
                       /\ t.lease[q].outcome = s.lease[q].outcome
                       /\ t.lease[q].attempt = s.lease[q].attempt
  BY <1>1, <1>2, <1>4
<1>7. Coherent(t)
  BY <1>3, <1>5, <1>6 DEF Coherent, LeaseOfItsRole, HistoryByLease, ResultsHaveRole,
                          CompletedOverridden, Rerunnable
<1>8. \A j \in LeaseIDs : Attempts(t, j) = Attempts(s, j)
  BY <1>3, <1>5, <1>6 DEF Attempts
<1> QED
  BY <1>7, <1>8 DEF t

LEMMA ApprovalsCoherent ==
    ASSUME NEW s \in State, Coherent(s), NEW ids \in SUBSET LeaseIDs
    PROVE  /\ Coherent(WithApprovals(s, ids))
           /\ \A id \in LeaseIDs : Attempts(WithApprovals(s, ids), id) = Attempts(s, id)
<1> DEFINE t == WithApprovals(s, ids)
<1>1. /\ t.lease = s.lease /\ t.history = s.history /\ t.past = s.past
      /\ t.approvals = s.approvals \union ids /\ t.rationale = s.rationale \union ids
  BY DEF WithApprovals, State
<1> HIDE DEF t
<1>2. Coherent(t)
  BY <1>1 DEF Coherent, LeaseOfItsRole, HistoryByLease, ResultsHaveRole,
              CompletedOverridden, Rerunnable
<1>3. \A j \in LeaseIDs : Attempts(t, j) = Attempts(s, j)
  BY <1>1 DEF Attempts
<1> QED
  BY <1>2, <1>3 DEF t

\* A launch never lowers an attempt count of its role, and leaves the others.
LEMMA GrantCounts ==
    ASSUME NEW s \in State, Coherent(s), NEW r \in Roles, NEW id \in LeaseIDs,
           RoleOf[id] = r, MayLaunch(s, r, id), NEW at \in Nat, NEW j \in LeaseIDs
    PROVE  /\ RoleOf[j] # r =>
                 /\ Attempts(Granted(s, r, id, at), j) = Attempts(s, j)
                 /\ Attempts(RefusedGrant(s, r, id, at), j) = Attempts(s, j)
           /\ RoleOf[j] = r => Attempts(Granted(s, r, id, at), j) >= Attempts(s, j)
           /\ RoleOf[j] = r /\ s.lease[r] # NoLease =>
                 Attempts(RefusedGrant(s, r, id, at), j) >= Attempts(s, j)
<1> DEFINE old == s.lease[r]
<1> DEFINE new == NewLease(s, r, id, at)
<1> DEFINE g == Granted(s, r, id, at)
<1> DEFINE f == RefusedGrant(s, r, id, at)
<1>1. /\ new.id = id /\ new.attempt = NextAttempt(s, r, id)
      /\ old = NoLease \/ Ended(old)
      /\ Ended(old) => old # NoLease /\ old.id \in LeaseIDs /\ RoleOf[old.id] = r
      /\ g.history[j] = IF Ended(old) /\ old.id = j THEN old ELSE s.history[j]
      /\ f.history[j] = g.history[j]
  BY GrantParts
<1>2. /\ \A q \in Roles \ {r} : g.lease[q] = s.lease[q] /\ f.lease[q] = s.lease[q]
      /\ g.lease[r] = new
      /\ f.lease[r] = IF old = NoLease THEN NoLease ELSE new
  BY GrantedLeases
<1>3. RoleOf[j] \in Roles
  BY StateAssumption
<1>4. old.attempt \in Nat /\ s.history[j].attempt \in Nat
  BY LeaseTypes, LeaseOrNone
<1>5. old = NoLease => s.history[id] = NoLease
  BY DEF Coherent, ResultsHaveRole
<1>6. id = j => NextAttempt(s, r, id) >= Attempts(s, j)
  <2> SUFFICES ASSUME id = j PROVE NextAttempt(s, r, id) >= Attempts(s, id)
    OBVIOUS
  <2>1. CASE old.id = id
    <3>1. Attempts(s, id) = old.attempt /\ old # NoLease
      BY <2>1, StateAssumption DEF Attempts, NoLease
    <3>2. NextAttempt(s, r, id) = old.attempt \/ NextAttempt(s, r, id) = old.attempt + 1
      BY <2>1, <3>1, LaunchCases
    <3> QED
      BY <1>4, <3>1, <3>2
  <2>2. CASE old.id # id /\ s.history[id] = NoLease
    <3>1. Attempts(s, id) = 0
      BY <2>2 DEF Attempts, NoLease
    <3>2. NextAttempt(s, r, id) = 1
      BY <2>2, LaunchCases
    <3> QED
      BY <3>1, <3>2
  <2>3. CASE old.id # id /\ s.history[id] # NoLease
    <3>1. Attempts(s, id) = s.history[id].attempt
      BY <2>3 DEF Attempts
    <3>2. \/ NextAttempt(s, r, id) = s.history[id].attempt
          \/ NextAttempt(s, r, id) = s.history[id].attempt + 1
      BY <2>3, LaunchCases
    <3> QED
      BY <1>4, <3>1, <3>2
  <2> QED
    BY <2>1, <2>2, <2>3
<1>7. Attempts(s, j) \in Nat
  BY <1>3, LeaseTypes, LeaseOrNone DEF Attempts
<1>8. RoleOf[j] = r => Attempts(g, j) >= Attempts(s, j)
  <2>1. CASE id = j
    BY <1>1, <1>2, <1>6, <2>1 DEF Attempts
  <2>2. CASE id # j /\ RoleOf[j] = r
    <3>1. Attempts(g, j) = Attempts(s, j)
      <4>1. old = NoLease => old.id # j /\ ~Ended(old)
        BY StateAssumption DEF NoLease, Ended, Outcomes
      <4> QED
        BY <1>1, <1>2, <2>2, <4>1 DEF Attempts
    <3> QED
      BY <1>7, <3>1
  <2> QED
    BY <2>1, <2>2
<1>9. old # NoLease /\ RoleOf[j] = r => Attempts(f, j) = Attempts(g, j)
  BY <1>1, <1>2 DEF Attempts
<1>10. RoleOf[j] # r => Attempts(g, j) = Attempts(s, j) /\ Attempts(f, j) = Attempts(s, j)
  BY <1>1, <1>2, <1>3 DEF Attempts
<1> QED
  BY <1>8, <1>9, <1>10

-----------------------------------------------------------------------------
(* The copy a tick works from.                                              *)

LEMMA MovesToItself ==
    ASSUME NEW l \in Lease \union {NoLease}
    PROVE  LeaseMoves(l, l)
<1>1. l.beat \in Nat
  BY LeaseOrNone
<1> QED
  BY <1>1 DEF LeaseMoves, Observes

LEMMA AttemptsType ==
    ASSUME NEW s \in State, NEW id \in LeaseIDs
    PROVE  Attempts(s, id) \in Nat
<1>1. RoleOf[id] \in Roles
  BY StateAssumption
<1> QED
  BY <1>1, LeaseTypes, LeaseOrNone DEF Attempts

LEMMA SameAttempts ==
    ASSUME NEW s, NEW t, NEW id \in LeaseIDs,
           s.lease[RoleOf[id]] = t.lease[RoleOf[id]], s.history[id] = t.history[id]
    PROVE  Attempts(s, id) = Attempts(t, id)
BY DEF Attempts

\* A copy that tells of every role what the file tells is behind in nothing.
LEMMA IdenticalCopy ==
    ASSUME disk' \in State, \A r \in Roles : SameRole(r)'
    PROVE  CopySame' /\ CopyAhead'
<1>1. \A r \in Roles : LeaseMoves(disk'.lease[r], durable'.lease[r])
  BY LeaseTypes, MovesToItself DEF SameRole
<1>2. ASSUME NEW id \in LeaseIDs PROVE Attempts(durable', id) >= Attempts(disk', id)
  <2>1. RoleOf[id] \in Roles
    BY StateAssumption
  <2>2. Attempts(durable', id) = Attempts(disk', id)
    BY <2>1, SameAttempts DEF SameRole
  <2> QED
    BY <2>2, AttemptsType
<1> QED
  BY <1>1, <1>2 DEF CopySame, CopyAhead

LEMMA HistoryInit == Init => HistoryInv
<1> SUFFICES ASSUME Init PROVE HistoryInv
  OBVIOUS
<1>1. SnapshotsCoherent
  BY EmptyCoherent DEF Init, SnapshotsCoherent, NoCommand
<1> QED
  BY <1>1 DEF Init, HistoryInv, TodoOfThisTick, Ticking

\* Steps that write neither the file nor the copy.
LEMMA QuietHistory ==
    ASSUME LeaseInv, HistoryInv,
           UNCHANGED <<disk, durable, batch, desired, phase>>, todo' \subseteq todo,
           \A o \in Operators : cli'[o].snap \in {cli[o].snap, disk, EmptyState}
    PROVE  HistoryInv'
<1>1. SnapshotsCoherent'
  BY EmptyCoherent DEF HistoryInv, SnapshotsCoherent
<1>2. TodoOfThisTick'
  BY DEF HistoryInv, TodoOfThisTick
<1>3. \A r \in Roles : SameRole(r)' <=> SameRole(r)
  BY DEF SameRole
<1>4. CopySame => CopySame'
  BY <1>3 DEF CopySame, Pending
<1>5. CopyAhead => CopyAhead'
  BY DEF CopyAhead, Attempts
<1>6. (CopyApprovals => CopyApprovals') /\ (CopyRationale => CopyRationale')
  BY DEF CopyApprovals, CopyRationale
<1> QED
  BY <1>1, <1>2, <1>4, <1>5, <1>6 DEF HistoryInv

\* A tick begins or ends, a tick decides what it wants, a process stops.
LEMMA ControlHistory ==
    ASSUME LeaseInv, HistoryInv,
           \/ Start \/ Crash \/ Shutdown \/ Exit
           \/ TickLoad \/ TickRemove \/ TickPlan \/ TickEnd
    PROVE  HistoryInv'
<1> USE DEF tickVars, bounds
<1>1. disk \in State /\ durable \in State
  BY DEF LeaseInv, TypeInv, TypeOK
<1>2. SnapshotsCoherent'
  <2>1. UNCHANGED <<disk, cli>> /\ durable' \in {durable, disk, EmptyState}
    BY DEF Start, Crash, Shutdown, Exit, Stop, TickLoad, TickRemove, TickPlan, TickEnd
  <2> QED
    BY <2>1, EmptyCoherent DEF HistoryInv, SnapshotsCoherent
<1>3. CASE Start \/ Crash \/ Shutdown \/ Exit \/ TickEnd
  <2>1. phase' \notin Ticking
    BY <1>3 DEF Start, Crash, Shutdown, Exit, Stop, TickEnd, Ticking
  <2>2. todo' = {}
    BY <1>3 DEF Start, Crash, Shutdown, Exit, Stop, TickEnd, HistoryInv, TodoOfThisTick
  <2> QED
    BY <1>2, <2>1, <2>2 DEF HistoryInv, TodoOfThisTick
<1>4. CASE TickLoad
  <2>1. todo' = {} /\ phase' \in {"consume", "plan"} /\ durable' = disk' /\ disk' \in State
    BY <1>1, <1>4 DEF TickLoad, HistoryInv, TodoOfThisTick
  <2>2. \A r \in Roles : SameRole(r)'
    BY <2>1 DEF SameRole
  <2>3. CopySame' /\ CopyAhead'
    BY <2>1, <2>2, IdenticalCopy
  <2>4. CopyApprovals' /\ CopyRationale'
    BY <2>1 DEF CopyApprovals, CopyRationale
  <2> QED
    BY <1>2, <2>1, <2>3, <2>4 DEF HistoryInv, TodoOfThisTick
<1>5. CASE TickRemove \/ TickPlan
  <2>1. /\ UNCHANGED <<disk, durable, batch>>
        /\ phase \in {"remove", "plan"} /\ phase' \in {"plan", "launch"}
    BY <1>5 DEF TickRemove, TickPlan
  <2>2. CopySame /\ CopyAhead /\ CopyApprovals /\ CopyRationale
    BY <2>1 DEF HistoryInv, Ticking
  <2>3. \A r \in Roles : SameRole(r)'
    BY <2>1, <2>2 DEF CopySame, Pending, SameRole
  <2>4. CopySame' /\ CopyAhead'
    BY <1>1, <2>1, <2>3, IdenticalCopy
  <2>5. CopyApprovals' /\ CopyRationale'
    BY <2>1, <2>2 DEF CopyApprovals, CopyRationale
  <2>6. TodoOfThisTick'
    <3>1. CASE TickRemove
      BY <3>1 DEF TickRemove, HistoryInv, TodoOfThisTick
    <3>2. CASE TickPlan
      <4>1. PICK board \in Boards :
              desired' = [r \in Roles |-> IF board[r] = None THEN None
                                          ELSE ContinuationKey(durable, board[r])]
        BY <3>2 DEF TickPlan
      <4> SUFFICES ASSUME NEW r \in todo' PROVE RoleOf[desired'[r]] = r
        BY <3>2 DEF TickPlan, TodoOfThisTick
      <4>2. r \in Roles /\ desired'[r] # None
        BY <3>2 DEF TickPlan
      <4>3. board[r] \in LeaseIDs /\ RoleOf[board[r]] = r
        BY <4>1, <4>2, ControllerAssumption
      <4>4. desired'[r] \in {board[r], PlainOf[board[r]]}
        BY <4>1, <4>2 DEF ContinuationKey
      <4> QED
        BY <4>3, <4>4, StateAssumption
    <3> QED
      BY <1>5, <3>1, <3>2
  <2> QED
    BY <1>2, <2>4, <2>5, <2>6 DEF HistoryInv
<1> QED
  BY <1>3, <1>4, <1>5

\* What is known of a role that is about to be launched.
LEMMA LaunchableFacts ==
    ASSUME LeaseInv, HistoryInv, NEW r \in todo, Launchable(r)
    PROVE  /\ r \in Roles /\ desired[r] \in LeaseIDs /\ RoleOf[desired[r]] = r
           /\ phase = "launch" /\ session[r] = NoSession
           /\ MayLaunch(durable, r, desired[r])
           /\ disk \in State /\ durable \in State /\ now \in Nat
           /\ Coherent(disk) /\ Coherent(durable)
           /\ SameRole(r)
           /\ CopySame /\ CopyAhead /\ CopyApprovals
           /\ disk.rationale \subseteq durable.rationale
<1>1. /\ r \in Roles /\ desired[r] \in LeaseIDs
      /\ disk \in State /\ durable \in State /\ now \in Nat
  BY DEF LeaseInv, TypeInv, TypeOK
<1>2. phase = "launch" /\ session[r] = NoSession /\ MayLaunch(durable, r, desired[r])
  BY DEF Launchable
<1>3. RoleOf[desired[r]] = r /\ Coherent(disk) /\ Coherent(durable)
  BY DEF HistoryInv, TodoOfThisTick, SnapshotsCoherent
<1>4. CopySame /\ CopyAhead /\ CopyApprovals /\ CopyRationale
  BY <1>2 DEF HistoryInv, Ticking
<1>5. SameRole(r)
  BY <1>1, <1>4 DEF CopySame, Pending
<1>6. disk.rationale \subseteq durable.rationale
  BY <1>4 DEF CopyRationale
<1> QED
  BY <1>1, <1>2, <1>3, <1>4, <1>5, <1>6

\* What a launch does to the file and to the copy.
LEMMA LaunchOutcome ==
    ASSUME LeaseInv, HistoryInv, NEW r \in Roles, Launch(r) \/ ReloadFails(r)
    PROVE  /\ r \in todo /\ Launchable(r) /\ now' = now + 1 /\ now' \in Nat
           /\ phase' = "launch" /\ todo' \subseteq todo \ {r}
           /\ UNCHANGED <<desired, batch, cli, granted, queue>>
           /\ \/ disk' = disk
              \/ /\ ValidTransition(disk, Granted(durable, r, desired[r], now'))
                 /\ disk' = Granted(durable, r, desired[r], now')
           /\ \/ /\ disk' = Granted(durable, r, desired[r], now')
                 /\ durable' = disk'
              \/ durable' = RefusedGrant(durable, r, desired[r], now')
              \/ durable' = EmptyState /\ todo' = {}
           /\ faults' \in {faults, faults + 1}
           /\ UNCHANGED session \/ disk' = Granted(durable, r, desired[r], now')
           /\ \A q \in Roles \ {r} : session'[q] = session[q]
           /\ session'[r].id # None => session'[r].id = desired[r]
<1> USE DEF tickVars, bounds
<1>1. /\ now \in Nat /\ faults \in Nat /\ MaxFaults \in Nat
      /\ session \in [Roles -> Session \union {NoSession}]
  BY ControllerAssumption DEF LeaseInv, TypeInv, TypeOK
<1>2. /\ r \in todo /\ Launchable(r) /\ now' = now + 1 /\ now' \in Nat
      /\ phase' = "launch" /\ todo' \subseteq todo \ {r}
      /\ UNCHANGED <<desired, batch, cli, granted, queue>>
      /\ session[r] = NoSession
  BY <1>1 DEF Launch, ReloadFails, Launchable
<1> DEFINE cand == Granted(durable, r, desired[r], now')
<1> DEFINE refused == RefusedGrant(durable, r, desired[r], now')
<1>3. CASE Launch(r)
  <2>1. PICK ok \in BOOLEAN :
          /\ Commit(cand, ok)
          /\ IF ok
             THEN /\ durable' = disk'
                  /\ session' = [session EXCEPT ![r] =
                        [id |-> desired[r], stage |-> "preparing",
                         cancelled |-> FALSE, outcome |-> "unknown"]]
             ELSE /\ durable' = refused
                  /\ UNCHANGED session
    BY <1>3 DEF Launch
  <2> HIDE DEF cand, refused
  <2>2. /\ disk' = disk \/ (ValidTransition(disk, cand) /\ disk' = cand)
        /\ ok => disk' = cand
        /\ faults' \in {faults, faults + 1}
    BY <2>1 DEF Commit
  <2>3. CASE ok
    BY <1>1, <1>2, <2>1, <2>2, <2>3 DEF cand, refused
  <2>4. CASE ~ok
    BY <1>2, <2>1, <2>2, <2>4 DEF cand, refused, NoSession
  <2> QED
    BY <2>3, <2>4
<1>4. CASE ReloadFails(r)
  <2>1. /\ ValidTransition(disk, cand) /\ disk' = cand
        /\ durable' = EmptyState /\ todo' = {}
        /\ UNCHANGED session /\ faults' = faults + 1
    BY <1>4 DEF ReloadFails
  <2> HIDE DEF cand, refused
  <2> QED
    BY <1>2, <2>1 DEF cand, refused, NoSession
<1> QED
  BY <1>3, <1>4

\* A launch, committed or refused, leaves a copy that is not behind the file.
LEMMA LaunchHistory ==
    ASSUME LeaseInv, HistoryInv, TypeInv', NEW r \in Roles, Launch(r) \/ ReloadFails(r)
    PROVE  HistoryInv'
<1> DEFINE id == desired[r]
<1> DEFINE g == Granted(durable, r, id, now')
<1> DEFINE f == RefusedGrant(durable, r, id, now')
<1> DEFINE new == NewLease(durable, r, id, now')
<1>1. /\ r \in todo /\ Launchable(r) /\ now' \in Nat
      /\ phase' = "launch" /\ todo' \subseteq todo \ {r}
      /\ UNCHANGED <<desired, batch, cli>>
      /\ disk' = disk \/ disk' = g
      /\ (disk' = g /\ durable' = disk') \/ durable' = f \/ (durable' = EmptyState /\ todo' = {})
  BY LaunchOutcome
<1>2. /\ id \in LeaseIDs /\ RoleOf[id] = r
      /\ phase = "launch"
      /\ MayLaunch(durable, r, id)
      /\ disk \in State /\ durable \in State
      /\ Coherent(disk) /\ Coherent(durable)
      /\ SameRole(r)
      /\ CopySame /\ CopyAhead /\ CopyApprovals
      /\ disk.rationale \subseteq durable.rationale
  BY <1>1, LaunchableFacts
<1>3. disk' \in State /\ g \in State /\ f \in State /\ Coherent(g) /\ Coherent(f)
  BY <1>1, <1>2, GrantCoherent, GrantedType DEF TypeInv, TypeOK
<1>4. /\ \A q \in Roles \ {r} : g.lease[q] = durable.lease[q] /\ f.lease[q] = durable.lease[q]
      /\ g.lease[r] = new
      /\ f.lease[r] = IF durable.lease[r] = NoLease THEN NoLease ELSE new
  BY <1>1, <1>2, GrantedLeases
<1>5. /\ \A j \in LeaseIDs : /\ RoleOf[j] # r => f.history[j] = durable.history[j]
                             /\ f.history[j] = g.history[j]
      /\ f.approvals = g.approvals /\ f.approvals \subseteq durable.approvals
      /\ f.rationale = durable.rationale /\ g.rationale = durable.rationale
  <2>1. \A j \in LeaseIDs : /\ RoleOf[j] # r => f.history[j] = durable.history[j]
                           /\ f.history[j] = g.history[j]
    BY <1>1, <1>2, GrantParts
  <2> QED
    BY <1>1, <1>2, <2>1, GrantParts
<1>6. LeaseMoves(durable.lease[r], new)
  BY <1>1, <1>2, GrantMoves
<1>7. \A j \in LeaseIDs :
         /\ RoleOf[j] # r => Attempts(f, j) = Attempts(durable, j)
         /\ RoleOf[j] = r /\ durable.lease[r] # NoLease => Attempts(f, j) >= Attempts(durable, j)
  BY <1>1, <1>2, GrantCounts
<1> HIDE DEF id, f, g, new
<1>8. SnapshotsCoherent'
  BY <1>1, <1>2, <1>3, EmptyCoherent DEF HistoryInv, SnapshotsCoherent
<1>9. TodoOfThisTick'
  BY <1>1 DEF HistoryInv, TodoOfThisTick
<1>10. CASE durable' = disk'
  <2>1. CopySame' /\ CopyAhead'
    BY <1>3, <1>10, IdenticalCopy DEF SameRole
  <2>2. CopyApprovals' /\ CopyRationale'
    BY <1>10 DEF CopyApprovals, CopyRationale
  <2> QED
    BY <1>8, <1>9, <2>1, <2>2 DEF HistoryInv
<1>11. CASE durable' = EmptyState /\ todo' = {}
  <2>1. CopySame' /\ CopyAhead' /\ CopyApprovals' /\ CopyRationale'
    BY <1>1, <1>11 DEF CopySame, Pending, CopyAhead, CopyApprovals, CopyRationale, EmptyState
  <2> QED
    BY <1>8, <1>9, <2>1 DEF HistoryInv
<1>12. CASE durable' = f /\ disk' = disk
  <2>1. CopySame'
    <3> SUFFICES ASSUME NEW q \in Roles, Pending(q)' PROVE SameRole(q)'
      BY DEF CopySame
    <3>1. q # r /\ SameRole(q)
      BY <1>1, <1>2 DEF CopySame, Pending
    <3> QED
      BY <1>4, <1>5, <1>12, <3>1 DEF SameRole
  <2>2. CopyAhead'
    <3> SUFFICES ASSUME NEW q \in Roles, f.lease[q] # NoLease
                 PROVE  /\ LeaseMoves(disk.lease[q], f.lease[q])
                        /\ \A j \in LeaseIDs :
                              RoleOf[j] = q => Attempts(f, j) >= Attempts(disk, j)
      BY <1>12 DEF CopyAhead
    <3>1. CASE q = r
      <4>1. LeaseMoves(disk.lease[q], f.lease[q]) /\ durable.lease[r] # NoLease
        BY <1>2, <1>4, <1>6, <3>1 DEF SameRole
      <4>2. ASSUME NEW j \in LeaseIDs, RoleOf[j] = r PROVE Attempts(f, j) >= Attempts(disk, j)
        <5>1. Attempts(disk, j) = Attempts(durable, j)
          BY <1>2, <4>2, SameAttempts DEF SameRole
        <5> QED
          BY <1>7, <4>1, <4>2, <5>1
      <4> QED
        BY <3>1, <4>1, <4>2
    <3>2. CASE q # r
      <4>1. f.lease[q] = durable.lease[q]
        BY <1>4, <3>2
      <4> QED
        BY <1>2, <1>7, <3>2, <4>1 DEF CopyAhead
    <3> QED
      BY <3>1, <3>2
  <2>3. CopyApprovals' /\ CopyRationale'
    BY <1>1, <1>2, <1>5, <1>12 DEF CopyApprovals, CopyRationale
  <2> QED
    BY <1>8, <1>9, <2>1, <2>2, <2>3 DEF HistoryInv
<1>13. CASE durable' = f /\ disk' = g
  <2>1. \A q \in Roles : (f.lease[q] = NoLease /\ q = r) \/ f.lease[q] = g.lease[q]
    BY <1>4
  <2>2. CopySame'
    BY <1>1, <1>4, <1>5, <1>13 DEF CopySame, Pending, SameRole
  <2>3. CopyAhead'
    <3> SUFFICES ASSUME NEW q \in Roles, f.lease[q] # NoLease
                 PROVE  /\ LeaseMoves(g.lease[q], f.lease[q])
                        /\ \A j \in LeaseIDs :
                              RoleOf[j] = q => Attempts(f, j) >= Attempts(g, j)
      BY <1>13 DEF CopyAhead
    <3>1. f.lease[q] = g.lease[q]
      BY <2>1
    <3>2. LeaseMoves(g.lease[q], f.lease[q])
      BY <1>3, <3>1, LeaseTypes, MovesToItself
    <3>3. ASSUME NEW j \in LeaseIDs, RoleOf[j] = q PROVE Attempts(f, j) >= Attempts(g, j)
      <4>1. Attempts(f, j) = Attempts(g, j)
        BY <1>5, <3>1, <3>3, SameAttempts
      <4> QED
        BY <1>3, <4>1, AttemptsType
    <3> QED
      BY <3>2, <3>3
  <2>4. CopyApprovals' /\ CopyRationale'
    BY <1>5, <1>13 DEF CopyApprovals, CopyRationale
  <2> QED
    BY <1>8, <1>9, <2>2, <2>3, <2>4 DEF HistoryInv
<1> QED
  BY <1>1, <1>10, <1>11, <1>12, <1>13

\* What the other writers do to the file: a session or an operator finds no
\* tick at work, and what they commit is coherent.
LEMMA WriterOutcome ==
    ASSUME LeaseInv, HistoryInv,
           \/ \E r \in Roles : RecordProcess(r) \/ Report(r) \/ Recover(r)
           \/ \E o \in Operators : ApproveCommit(o)
    PROVE  /\ phase \notin Ticking
           /\ UNCHANGED <<durable, batch, phase, desired, todo>>
           /\ \A o \in Operators : cli'[o].snap \in {cli[o].snap, EmptyState}
           /\ Coherent(disk')
           /\ \A id \in LeaseIDs :
                 \/ Attempts(disk', id) = Attempts(disk, id)
                 \/ \E o \in Operators :
                       /\ CommitsOldSnapshot(o)
                       /\ Attempts(disk', id) = Attempts(cli[o].snap, id)
<1> USE DEF tickVars, bounds
<1>1. /\ disk \in State /\ Coherent(disk) /\ now \in Nat /\ faults \in Nat /\ MaxFaults \in Nat
      /\ cli \in [Operators -> Command \union {NoCommand}]
      /\ \A o \in Operators : Coherent(cli[o].snap)
  BY ControllerAssumption DEF LeaseInv, TypeInv, TypeOK, HistoryInv, SnapshotsCoherent
<1>2. ASSUME NEW r \in Roles, Report(r)
      PROVE  \/ disk' = disk
             \/ Unresolved(disk.lease[r]) /\ disk' = WithResult(disk, r, session[r].outcome, now)
  <2>1. CASE disk.lease[r].id = session[r].id /\ Unresolved(disk.lease[r])
    BY <1>1, <1>2, <2>1, CommitOutcome DEF Report
  <2>2. CASE ~(disk.lease[r].id = session[r].id /\ Unresolved(disk.lease[r]))
    BY <1>2, <2>2 DEF Report
  <2> QED
    BY <2>1, <2>2
<1>3. ASSUME NEW r \in Roles, RecordProcess(r)
      PROVE  \/ disk' = disk
             \/ /\ Unresolved(disk.lease[r])
                /\ disk' = WithProcess(disk, r, disk.lease[r].beat)
  <2>1. CASE disk.lease[r].id = session[r].id /\ Unresolved(disk.lease[r])
    BY <1>1, <1>3, <2>1, CommitOutcome DEF RecordProcess
  <2>2. CASE ~(disk.lease[r].id = session[r].id /\ Unresolved(disk.lease[r]))
    BY <1>3, <2>2 DEF RecordProcess
  <2> QED
    BY <2>1, <2>2
<1>4. CASE \E r \in Roles : RecordProcess(r) \/ Report(r) \/ Recover(r)
  <2>1. PICK r \in Roles : RecordProcess(r) \/ Report(r) \/ Recover(r)
    BY <1>4
  <2>2. /\ phase \notin Ticking
        /\ UNCHANGED <<durable, batch, phase, desired, todo, cli>>
    BY <2>1 DEF RecordProcess, Report, Recover, Ticking
  <2>3. Report(r) => session[r].outcome \in Outcomes
    BY DEF Report, LeaseInv, ResultKnown
  <2>4. \/ disk' = disk
        \/ /\ Unresolved(disk.lease[r])
           /\ \/ disk' = WithProcess(disk, r, disk.lease[r].beat)
              \/ \E outcome \in Outcomes : disk' = WithResult(disk, r, outcome, now)
    <3>1. CASE Recover(r)
      BY <1>1, <3>1, CommitOutcome DEF Recover, Outcomes
    <3> QED
      BY <1>2, <1>3, <2>1, <2>3, <3>1
  <2>5. disk.lease[r].beat \in Nat
    BY <1>1, BeatType
  <2>6. Coherent(disk') /\ \A id \in LeaseIDs : Attempts(disk', id) = Attempts(disk, id)
    <3>1. CASE disk' = disk
      BY <1>1, <3>1
    <3>2. CASE Unresolved(disk.lease[r]) /\ disk' = WithProcess(disk, r, disk.lease[r].beat)
      BY <1>1, <2>5, <3>2, ProcessCoherent
    <3>3. ASSUME NEW outcome \in Outcomes, Unresolved(disk.lease[r]),
                 disk' = WithResult(disk, r, outcome, now)
          PROVE  Coherent(disk') /\ \A id \in LeaseIDs : Attempts(disk', id) = Attempts(disk, id)
      BY <1>1, <3>3, ResultCoherent
    <3> QED
      BY <2>4, <3>1, <3>2, <3>3
  <2> QED
    BY <2>2, <2>6
<1>5. ASSUME NEW o \in Operators, ApproveCommit(o)
      PROVE  /\ phase \notin Ticking
             /\ UNCHANGED <<durable, batch, phase, desired, todo>>
             /\ \A p \in Operators : cli'[p].snap \in {cli[p].snap, EmptyState}
             /\ CommitsOldSnapshot(o)
             /\ Coherent(disk')
             /\ \A id \in LeaseIDs : \/ Attempts(disk', id) = Attempts(disk, id)
                                     \/ Attempts(disk', id) = Attempts(cli[o].snap, id)
  <2>1. cli[o] \in Command
    BY <1>1, <1>5 DEF ApproveCommit, NoCommand
  <2> DEFINE cand == WithApprovals(cli[o].snap, {cli[o].id})
  <2>2. cli[o].snap \in State /\ {cli[o].id} \in SUBSET LeaseIDs
    BY <2>1 DEF Command
  <2>3. disk' = disk \/ disk' = cand
    BY <1>1, <1>5, CommitOutcome DEF ApproveCommit
  <2>4. Coherent(cand) /\ \A id \in LeaseIDs : Attempts(cand, id) = Attempts(cli[o].snap, id)
    BY <1>1, <2>2, ApprovalsCoherent
  <2> HIDE DEF cand
  <2>5. Coherent(disk') /\ \A id \in LeaseIDs : \/ Attempts(disk', id) = Attempts(disk, id)
                                               \/ Attempts(disk', id) = Attempts(cli[o].snap, id)
    BY <1>1, <2>3, <2>4
  <2>6. /\ phase \notin Ticking
        /\ UNCHANGED <<durable, batch, phase, desired, todo>>
        /\ cli' = [cli EXCEPT ![o] = NoCommand] /\ cli[o].stage = "loaded"
    BY <1>5 DEF ApproveCommit, Ticking
  <2>7. \A p \in Operators : cli'[p].snap \in {cli[p].snap, EmptyState}
    BY <1>1, <2>6 DEF NoCommand
  <2> QED
    BY <1>1, <2>5, <2>6, <2>7 DEF CommitsOldSnapshot
<1>6. CASE \E o \in Operators : ApproveCommit(o)
  BY <1>5, <1>6
<1> QED
  BY <1>4, <1>6

\* The approvals a tick has read are added to a copy that is still the file's.
LEMMA ConsumeHistory ==
    ASSUME LeaseInv, HistoryInv, TypeInv', TickConsume
    PROVE  /\ HistoryInv'
           /\ \A id \in LeaseIDs : Attempts(disk', id) = Attempts(disk, id)
<1> USE DEF tickVars, bounds
<1> DEFINE cand == WithApprovals(durable, batch)
<1>1. /\ disk \in State /\ durable \in State /\ batch \in SUBSET LeaseIDs /\ disk' \in State
      /\ faults \in Nat /\ MaxFaults \in Nat
      /\ Coherent(disk) /\ Coherent(durable)
  BY ControllerAssumption DEF LeaseInv, TypeInv, TypeOK, HistoryInv, SnapshotsCoherent
<1>2. /\ phase = "consume" /\ phase' \in {"remove", "plan"}
      /\ durable' = cand /\ (disk' = disk \/ disk' = cand)
      /\ UNCHANGED <<batch, desired, todo, cli>>
  BY <1>1, CommitOutcome DEF TickConsume
<1>3. todo = {} /\ (\A r \in Roles : SameRole(r)) /\ CopyApprovals /\ CopyRationale
  BY <1>2 DEF HistoryInv, TodoOfThisTick, CopySame, Pending, Ticking
<1>4. /\ cand.lease = durable.lease /\ cand.history = durable.history
      /\ cand.approvals = durable.approvals \union batch
      /\ cand.rationale = durable.rationale \union batch
  BY <1>1 DEF WithApprovals, State
<1>5. Coherent(cand)
  BY <1>1, ApprovalsCoherent
<1> HIDE DEF cand
<1>6. \A r \in Roles : SameRole(r)'
  BY <1>2, <1>3, <1>4 DEF SameRole
<1>7. CopySame' /\ CopyAhead'
  BY <1>1, <1>6, IdenticalCopy
<1>8. CopyApprovals' /\ CopyRationale'
  BY <1>2, <1>3, <1>4 DEF CopyApprovals, CopyRationale
<1>9. SnapshotsCoherent' /\ TodoOfThisTick'
  BY <1>2, <1>3, <1>5 DEF HistoryInv, SnapshotsCoherent, TodoOfThisTick
<1>10. ASSUME NEW id \in LeaseIDs PROVE Attempts(disk', id) = Attempts(disk, id)
  <2>1. RoleOf[id] \in Roles
    BY StateAssumption
  <2>2. cand.lease[RoleOf[id]] = disk.lease[RoleOf[id]] /\ cand.history[id] = disk.history[id]
    BY <1>3, <1>4, <2>1 DEF SameRole
  <2> QED
    BY <1>2, <2>2, SameAttempts
<1> QED
  BY <1>7, <1>8, <1>9, <1>10 DEF HistoryInv

\* The history invariant survives every step.
LEMMA HistoryStep == LeaseInv /\ LeaseInv' /\ HistoryInv /\ [Next]_vars => HistoryInv'
<1> SUFFICES ASSUME LeaseInv, LeaseInv', HistoryInv, [Next]_vars PROVE HistoryInv'
  OBVIOUS
<1> USE DEF tickVars, bounds
<1>1. TypeInv'
  BY DEF LeaseInv
<1>2. CASE \/ Start \/ Crash \/ Shutdown \/ Exit
           \/ TickLoad \/ TickRemove \/ TickPlan \/ TickEnd
  BY <1>2, ControlHistory
<1>3. CASE TickConsume
  BY <1>1, <1>3, ConsumeHistory
<1>4. ASSUME NEW r \in Roles, Launch(r) \/ ReloadFails(r) PROVE HistoryInv'
  BY <1>1, <1>4, LaunchHistory
<1>5. ASSUME NEW r \in Roles,
             \/ Delay(r) \/ Skip(r)
             \/ PrepareFails(r) \/ StartWorker(r) \/ WorkerExits(r) \/ Land(r)
             \/ Deregister(r) \/ OrphanExits(r)
      PROVE  HistoryInv'
  <2>1. UNCHANGED <<disk, durable, batch, desired, phase, cli>> /\ todo' \subseteq todo
    BY <1>5 DEF Delay, Skip, PrepareFails, StartWorker, WorkerExits, Land, Deregister,
                OrphanExits
  <2> QED
    BY <2>1, QuietHistory
<1>6. CASE \/ \E r \in Roles : RecordProcess(r) \/ Report(r) \/ Recover(r)
           \/ \E o \in Operators : ApproveCommit(o)
  <2>1. /\ phase' \notin Ticking
        /\ UNCHANGED <<durable, phase, desired, todo>>
        /\ \A o \in Operators : cli'[o].snap \in {cli[o].snap, EmptyState}
        /\ Coherent(disk')
    BY <1>6, WriterOutcome
  <2> QED
    BY <2>1, EmptyCoherent DEF HistoryInv, SnapshotsCoherent, TodoOfThisTick
<1>7. ASSUME NEW o \in Operators,
             \/ \E id \in LeaseIDs : ApproveLoad(o, id)
             \/ QueueRead(o) \/ QueueWrite(o)
      PROVE  HistoryInv'
  <2>1. cli \in [Operators -> Command \union {NoCommand}]
    BY DEF LeaseInv, TypeInv, TypeOK
  <2>2. \A p \in Operators : cli'[p].snap \in {cli[p].snap, disk, EmptyState}
    <3>1. CASE \E id \in LeaseIDs : ApproveLoad(o, id)
      BY <2>1, <3>1 DEF ApproveLoad
    <3>2. CASE QueueRead(o)
      <4>1. cli[o] \in Command
        BY <2>1, <3>2 DEF QueueRead, NoCommand
      <4> QED
        BY <2>1, <3>2, <4>1 DEF QueueRead, Command
    <3>3. CASE QueueWrite(o)
      BY <2>1, <3>3 DEF QueueWrite, NoCommand
    <3> QED
      BY <1>7, <3>1, <3>2, <3>3
  <2>3. UNCHANGED <<disk, durable, batch, desired, phase, todo>>
    BY <1>7 DEF ApproveLoad, QueueRead, QueueWrite
  <2> QED
    BY <2>2, <2>3, QuietHistory
<1>8. CASE UNCHANGED vars
  BY <1>8, QuietHistory DEF vars
<1> QED
  BY <1>2, <1>3, <1>4, <1>5, <1>6, <1>7, <1>8 DEF Next, Tick, SessionStep, OperatorStep

-----------------------------------------------------------------------------
(* The theorems.                                                            *)

\* What a snapshot tells, and how far the tick's copy may be from the file,
\* holds in every reachable state.
THEOREM HistoryInvariant == Spec => []HistoryInv
BY HistoryInit, HistoryStep, LeaseInvariant, PTL DEF Spec

\* The lease the tick grants always passes ValidateControllerTransition, and
\* so does what it carries along of the other roles, also after a commit that
\* failed earlier in the same tick.
LEMMA AcceptedNow == LeaseInv /\ HistoryInv => OwnCommitsAccepted
<1> SUFFICES ASSUME LeaseInv, HistoryInv,
                    \A r \in Roles : durable.lease[r] = NoLease => disk.lease[r] = NoLease,
                    NEW r \in todo, Launchable(r)
             PROVE  ValidTransition(disk, Granted(durable, r, desired[r], now + 1))
  BY DEF OwnCommitsAccepted
<1>1. /\ r \in Roles /\ desired[r] \in LeaseIDs /\ RoleOf[desired[r]] = r
      /\ MayLaunch(durable, r, desired[r])
      /\ disk \in State /\ durable \in State /\ now \in Nat
      /\ Coherent(durable) /\ SameRole(r) /\ CopyAhead
  BY LaunchableFacts
<1>2. now + 1 \in Nat
  BY <1>1
<1> DEFINE g == Granted(durable, r, desired[r], now + 1)
<1> DEFINE new == NewLease(durable, r, desired[r], now + 1)
<1>3. g.lease[r] = new /\ \A q \in Roles \ {r} : g.lease[q] = durable.lease[q]
  BY <1>1, <1>2, GrantedLeases
<1>4. LeaseMoves(disk.lease[r], new)
  BY <1>1, <1>2, GrantMoves DEF SameRole
<1> HIDE DEF g, new
<1> SUFFICES ASSUME NEW q \in Roles PROVE LeaseMoves(disk.lease[q], g.lease[q])
  BY DEF ValidTransition, g
<1>5. CASE q = r
  BY <1>3, <1>4, <1>5
<1>6. CASE q # r /\ durable.lease[q] = NoLease
  <2>1. disk.lease[q].id = None
    BY <1>6 DEF NoLease
  <2> QED
    BY <2>1 DEF LeaseMoves
<1>7. CASE q # r /\ durable.lease[q] # NoLease
  BY <1>1, <1>3, <1>7 DEF CopyAhead
<1> QED
  BY <1>5, <1>6, <1>7

\* reconcileWithMode's own commits are never refused by the validator.
THEOREM CommitsAccepted == Spec => []OwnCommitsAccepted
BY AcceptedNow, LeaseInvariant, HistoryInvariant, PTL

LEMMA NotHeldNow == LeaseInv /\ HistoryInv => NoLaunchOverHeldRole
<1> SUFFICES ASSUME LeaseInv, HistoryInv, NEW r \in todo, Launchable(r)
             PROVE  /\ ~Unresolved(disk.lease[r])
                    /\ disk.lease[r].outcome = "blocked" =>
                          disk.lease[r].id \in disk.approvals \union batch
  BY DEF NoLaunchOverHeldRole
<1>1. /\ r \in Roles /\ desired[r] \in LeaseIDs
      /\ MayLaunch(durable, r, desired[r])
      /\ durable \in State
      /\ durable.lease[r] = disk.lease[r]
      /\ CopyApprovals
  BY LaunchableFacts DEF SameRole
<1>2. ~Unresolved(disk.lease[r])
  BY <1>1, HeldRoleRefused
<1>3. disk.lease[r].outcome = "blocked" => disk.lease[r].id \in durable.approvals
  BY <1>1 DEF MayLaunch, AwaitsReview, NoLease
<1> QED
  BY <1>1, <1>2, <1>3 DEF CopyApprovals

\* The tick's copy never hands on a role that the file holds, for a worker
\* that may live or for a review that was not given.
THEOREM HeldRolesKept == Spec => []NoLaunchOverHeldRole
BY NotHeldNow, LeaseInvariant, HistoryInvariant, PTL

\* A launch that reaches the file lowers no attempt count, of its own role or
\* of a role the copy carries along.
LEMMA LaunchCounts ==
    ASSUME LeaseInv, HistoryInv, NEW r \in Roles, Launch(r) \/ ReloadFails(r),
           NEW j \in LeaseIDs
    PROVE  Attempts(disk', j) >= Attempts(disk, j)
<1> DEFINE g == Granted(durable, r, desired[r], now')
<1>1. /\ r \in todo /\ Launchable(r) /\ now' \in Nat
      /\ disk' = disk \/ (ValidTransition(disk, g) /\ disk' = g)
  BY LaunchOutcome
<1>2. /\ desired[r] \in LeaseIDs /\ RoleOf[desired[r]] = r
      /\ MayLaunch(durable, r, desired[r])
      /\ disk \in State /\ durable \in State
      /\ Coherent(disk) /\ Coherent(durable)
      /\ SameRole(r) /\ CopyAhead
  BY <1>1, LaunchableFacts
<1>3. Attempts(disk, j) \in Nat /\ RoleOf[j] \in Roles
  BY <1>2, AttemptsType, StateAssumption
<1>4. CASE disk' = disk
  BY <1>3, <1>4
<1>5. CASE ValidTransition(disk, g) /\ disk' = g
  <2>1. CASE RoleOf[j] = r
    <3>1. Attempts(g, j) >= Attempts(durable, j)
      BY <1>1, <1>2, <2>1, GrantCounts
    <3>2. Attempts(durable, j) = Attempts(disk, j)
      BY <1>2, <2>1, SameAttempts DEF SameRole
    <3> HIDE DEF g
    <3> QED
      BY <1>5, <3>1, <3>2
  <2>2. CASE RoleOf[j] # r
    <3>1. Attempts(g, j) = Attempts(durable, j)
      BY <1>1, <1>2, <2>2, GrantCounts
    <3>2. g.lease[RoleOf[j]] = durable.lease[RoleOf[j]]
      BY <1>1, <1>2, <1>3, <2>2, GrantedLeases
    <3> HIDE DEF g
    <3>3. CASE durable.lease[RoleOf[j]] # NoLease
      BY <1>2, <1>3, <1>5, <3>1, <3>3 DEF CopyAhead
    <3>4. CASE durable.lease[RoleOf[j]] = NoLease
      <4>1. LeaseMoves(disk.lease[RoleOf[j]], NoLease)
        BY <1>3, <1>5, <3>2, <3>4 DEF ValidTransition
      <4>2. disk.lease[RoleOf[j]].id = None
        BY <4>1 DEF LeaseMoves, NoLease
      <4>3. disk.lease[RoleOf[j]] = NoLease
        BY <1>2, <1>3, <4>2, LeaseTypes, LeaseOrNone
      <4>4. disk.history[j] = NoLease
        BY <1>2, <4>3 DEF Coherent, ResultsHaveRole
      <4>5. Attempts(disk, j) = 0
        BY <4>3, <4>4 DEF Attempts, NoLease
      <4>6. Attempts(durable, j) \in Nat
        BY <1>2, AttemptsType
      <4> QED
        BY <1>5, <3>1, <4>5, <4>6
    <3> QED
      BY <3>3, <3>4
  <2> QED
    BY <2>1, <2>2
<1> QED
  BY <1>1, <1>4, <1>5

LEMMA DiskWriters ==
    ASSUME [Next]_vars
    PROVE  \/ UNCHANGED disk
           \/ TickConsume
           \/ \E r \in Roles : Launch(r) \/ ReloadFails(r)
           \/ \E r \in Roles : RecordProcess(r) \/ Report(r) \/ Recover(r)
           \/ \E o \in Operators : ApproveCommit(o)
BY DEF Next, Tick, SessionStep, OperatorStep, Start, Crash, Shutdown, Exit, Stop,
       TickLoad, TickRemove, TickPlan, TickEnd, Delay, Skip, PrepareFails, StartWorker,
       WorkerExits, Land, Deregister, OrphanExits, ApproveLoad, QueueRead, QueueWrite, vars

\* An attempt count goes back only with the snapshot an operator read earlier.
THEOREM CountsRetained == Spec => AttemptCountRetained
<1> DEFINE CountKept(id) ==
              \/ Attempts(disk', id) >= Attempts(disk, id)
              \/ \E o \in Operators :
                    /\ CommitsOldSnapshot(o)
                    /\ Attempts(disk', id) = Attempts(cli[o].snap, id)
<1>1. LeaseInv /\ LeaseInv' /\ HistoryInv /\ [Next]_vars => \A id \in LeaseIDs : CountKept(id)
  <2> SUFFICES ASSUME LeaseInv, LeaseInv', HistoryInv, [Next]_vars, NEW id \in LeaseIDs
               PROVE  CountKept(id)
    OBVIOUS
  <2>1. disk \in State /\ TypeInv' /\ Attempts(disk, id) \in Nat
    BY AttemptsType DEF LeaseInv, TypeInv, TypeOK
  <2>2. CASE UNCHANGED disk
    BY <2>1, <2>2
  <2>3. CASE TickConsume
    <3>1. Attempts(disk', id) = Attempts(disk, id)
      BY <2>1, <2>3, ConsumeHistory
    <3> QED
      BY <2>1, <3>1
  <2>4. CASE \E r \in Roles : Launch(r) \/ ReloadFails(r)
    BY <2>4, LaunchCounts
  <2>5. CASE \/ \E r \in Roles : RecordProcess(r) \/ Report(r) \/ Recover(r)
             \/ \E o \in Operators : ApproveCommit(o)
    <3>1. \/ Attempts(disk', id) = Attempts(disk, id)
          \/ \E o \in Operators : /\ CommitsOldSnapshot(o)
                                 /\ Attempts(disk', id) = Attempts(cli[o].snap, id)
      BY <2>5, WriterOutcome
    <3> QED
      BY <2>1, <3>1
  <2> QED
    BY <2>2, <2>3, <2>4, <2>5, DiskWriters
<1>2. LeaseInv /\ LeaseInv' /\ HistoryInv /\ [Next]_vars =>
         [\A id \in LeaseIDs : CountKept(id)]_vars
  BY <1>1
<1> QED
  BY <1>2, LeaseInvariant, HistoryInvariant, PTL DEF Spec, AttemptCountRetained

LEMMA SessionStarts ==
    ASSUME LeaseInv, [Next]_vars, NEW r \in Roles, session[r] = NoSession,
           session'[r] # NoSession
    PROVE  \E q \in Roles : Launch(q)
<1>1. session \in [Roles -> Session \union {NoSession}]
  BY DEF LeaseInv, TypeInv, TypeOK
<1>2. NoSession.stage = "none"
  BY DEF NoSession
<1>3. \A roles \in SUBSET Roles : Cancelled(roles)[r] = NoSession
  BY <1>2 DEF Cancelled
<1>4. ~(Start \/ TickLoad \/ TickConsume \/ TickRemove \/ TickEnd \/ OperatorStep
          \/ UNCHANGED vars)
  BY DEF Start, TickLoad, TickConsume, TickRemove, TickEnd, OperatorStep, Recover,
         ApproveLoad, ApproveCommit, QueueRead, QueueWrite, vars
<1>5. ~(Crash \/ Exit)
  BY DEF Crash, Exit, Stop
<1>6. ~(Shutdown \/ TickPlan)
  <2>1. ASSUME Shutdown \/ TickPlan PROVE \E roles \in SUBSET Roles : session' = Cancelled(roles)
    BY <2>1 DEF Shutdown, TickPlan
  <2> QED
    BY <1>3, <2>1
<1>7. ASSUME NEW q \in Roles, ReloadFails(q) \/ Delay(q) \/ Skip(q) PROVE FALSE
  BY <1>7 DEF ReloadFails, Delay, Skip
<1>8. ASSUME NEW q \in Roles, SessionStep(q) \/ OrphanExits(q) PROVE FALSE
  <2>1. session[q].stage # "none" \/ OrphanExits(q)
    BY <1>8 DEF SessionStep, PrepareFails, StartWorker, RecordProcess, WorkerExits, Land,
           Report, Deregister
  <2>2. q # r \/ OrphanExits(q)
    BY <1>2, <2>1
  <2> QED
    BY <1>1, <1>8, <2>2 DEF SessionStep, PrepareFails, StartWorker, RecordProcess,
           WorkerExits, Land, Report, Deregister, OrphanExits, Ends
<1> QED
  BY <1>4, <1>5, <1>6, <1>7, <1>8 DEF Next, Tick

\* An assignment that starts has no completed result, unless an operator has
\* approved another run of it or it is an unblock pass.
LEMMA StartsUnfinished ==
    ASSUME LeaseInv, HistoryInv, [Next]_vars, NEW r \in Roles, session[r] = NoSession,
           session'[r] # NoSession
    PROVE  \/ session'[r].id \in UnblockPasses \union disk'.rationale
           \/ \A l \in Evidence(disk) : l.id = session'[r].id => l.outcome # "completed"
<1>1. PICK q \in Roles : Launch(q)
  BY SessionStarts
<1> DEFINE g == Granted(durable, r, desired[r], now')
<1>2. q = r
  BY <1>1, LaunchOutcome
<1>3. /\ r \in todo /\ Launchable(r) /\ now' \in Nat /\ disk' = g
      /\ session'[r].id = desired[r]
  <2>1. session'[r].id # None
    <3>1. session' \in [Roles -> Session \union {NoSession}]
      BY LeaseStep DEF LeaseInv, TypeInv, TypeOK
    <3> QED
      BY <3>1, StateAssumption DEF Session
  <2> QED
    BY <1>1, <1>2, <2>1, LaunchOutcome
<1> DEFINE id == desired[r]
<1>4. /\ id \in LeaseIDs /\ RoleOf[id] = r
      /\ MayLaunch(durable, r, id)
      /\ disk \in State /\ durable \in State
      /\ Coherent(disk) /\ Coherent(durable)
      /\ disk.lease[r] = durable.lease[r] /\ disk.history[id] = durable.history[id]
      /\ disk.rationale \subseteq durable.rationale
  BY <1>3, LaunchableFacts DEF SameRole
<1>5. disk'.rationale = durable.rationale
  BY <1>3, <1>4, GrantParts
<1> HIDE DEF id, g
<1> SUFFICES ASSUME id \notin Rerunnable(durable), NEW l \in Evidence(disk),
                    l.id = id, l.outcome = "completed"
             PROVE  FALSE
  BY <1>3, <1>5 DEF Rerunnable, id
<1>6. id \notin Rerunnable(disk)
  BY <1>4 DEF Rerunnable
<1>7. l \notin disk.past
  BY <1>4, <1>6 DEF Coherent, CompletedOverridden
<1>8. disk.lease[r].id = id => disk.lease[r].outcome # "completed"
  <2> SUFFICES ASSUME disk.lease[r].id = id, disk.lease[r].outcome = "completed"
               PROVE  FALSE
    OBVIOUS
  <2>1. MayRerun(durable, durable.lease[r])
    BY <1>4, LaunchCases, StateAssumption DEF NoLease
  <2> QED
    BY <1>4, <2>1, RerunOfCompleted DEF Coherent
<1>9. disk.history[id].outcome # "completed"
  <2> SUFFICES ASSUME disk.history[id].outcome = "completed" PROVE FALSE
    OBVIOUS
  <2>1. disk.history[id] # NoLease
    BY DEF NoLease
  <2>2. CASE disk.lease[r].id = id
    BY <1>4, <1>6, <1>8, <2>2 DEF Coherent, CompletedOverridden
  <2>3. CASE disk.lease[r].id # id
    <3>1. MayRerun(durable, durable.history[id]) /\ durable.history[id].id = id
      BY <1>4, <2>1, <2>3, LaunchCases
    <3> QED
      BY <1>4, <3>1, RerunOfCompleted DEF Coherent
  <2> QED
    BY <2>2, <2>3
<1>10. ASSUME NEW p \in Roles, l = disk.lease[p] PROVE FALSE
  <2>1. l # NoLease
    BY DEF NoLease
  <2>2. p = r
    BY <1>4, <1>10, <2>1 DEF Coherent, LeaseOfItsRole
  <2> QED
    BY <1>8, <1>10, <2>2
<1>11. ASSUME NEW j \in LeaseIDs, l = disk.history[j] PROVE FALSE
  <2>1. l # NoLease
    BY DEF NoLease
  <2>2. j = id
    BY <1>4, <1>11, <2>1 DEF Coherent, HistoryByLease
  <2> QED
    BY <1>9, <1>11, <2>2
<1> QED
  BY <1>7, <1>10, <1>11 DEF Evidence

\* Completed work is not repeated behind the operator's back.
THEOREM CompletedKept == Spec => CompletedNotRerun
<1> DEFINE StartAllowed == \A r \in Roles :
              session[r] = NoSession /\ session'[r] # NoSession =>
                \/ session'[r].id \in UnblockPasses \union disk'.rationale
                \/ \A l \in Evidence(disk) :
                      l.id = session'[r].id => l.outcome # "completed"
<1>1. LeaseInv /\ HistoryInv /\ [Next]_vars => [StartAllowed]_vars
  BY StartsUnfinished
<1> QED
  BY <1>1, LeaseInvariant, HistoryInvariant, PTL DEF Spec, CompletedNotRerun
=============================================================================
