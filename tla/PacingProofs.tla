---------------------------- MODULE PacingProofs ----------------------------
(***************************************************************************)
(* Proofs about Pacing, for any keys, roles, delays and boards: within the *)
(* cooldown of a usage limit nothing starts but the one role that was past *)
(* its checks, nothing is cancelled before its grace period is over, and a *)
(* failed assignment is not started again before its delay is over.        *)
(***************************************************************************)
EXTENDS Pacing, TLAPS

Session == [id : Keys \cup {None}, recorded : BOOLEAN, cancelled : BOOLEAN, limited : BOOLEAN]

\* The sessions and the tick have their types.
Typed ==
    /\ session \in [Roles -> Session]
    /\ desired \in [Roles -> Keys \cup {None}]
    /\ cleared \in Roles \cup {None}
    /\ mark \in [Roles -> 0 .. Grace \cup {None}]
    /\ off \in [Roles -> 0 .. Grace \cup {None}]
    /\ pause \in 0 .. Cooldown
    /\ limit \in 0 .. Cooldown

\* The pause covers what is left of the cooldown.
PauseCovers == pause + limit >= Cooldown

\* While a tick is under way no other one begins; the role that is past its checks
\* has them still fulfilled, but for a limit that was met since.
Clearance ==
    /\ Ticking => read = None
    /\ cleared # None => /\ Asked(cleared) /\ Rested(cleared, desired[cleared])
                         /\ pause = 0 \/ spared = cleared

\* A mark is not older than the row of mismatches it stands for, and a session
\* that has ended leaves none.
MarkDated ==
    \A r \in Roles :
        /\ mark[r] # None => off[r] # None /\ mark[r] <= off[r]
        /\ Idle(r) => mark[r] = None

\* The board asks a role for what is its own, and the role's lease is about that.
OwnKeys ==
    /\ wants \in [Roles -> Keys \cup {None}]
    /\ \A r \in Roles : wants[r] \in KeysOf[r] \cup {None}
    /\ read # None => /\ read \in [Roles -> Keys \cup {None}]
                      /\ \A r \in Roles : read[r] \in KeysOf[r] \cup {None}
    /\ \A r \in Roles : desired[r] \in KeysOf[r] \cup {None}
    /\ \A r \in Roles : snapshot.lease[r] = Durable!NoLease \/ snapshot.lease[r].id \in KeysOf[r]

\* The lease of a running session is open; the lease a role has left, and every
\* result in the history, is the last one of its assignment.
LeasesTell ==
    /\ snapshot \in Durable!State
    /\ \A r \in Roles : ~Idle(r) => /\ snapshot.lease[r].id = session[r].id
                                    /\ Durable!Unresolved(snapshot.lease[r])
    /\ \A r \in Roles : Durable!Ended(snapshot.lease[r]) =>
          snapshot.history[snapshot.lease[r].id] = snapshot.lease[r]
    /\ \A r \in Roles : \A k \in KeysOf[r] : snapshot.history[k] # Durable!NoLease =>
          snapshot.history[k].id = k /\ snapshot.lease[r] # Durable!NoLease

PacingInv == Typed /\ PauseCovers /\ Clearance /\ MarkDated /\ OwnKeys /\ LeasesTell

-----------------------------------------------------------------------------
(* Facts about ages and about the decisions of the tick.                   *)

LEMMA Ages ==
    ASSUME NEW most \in Nat, NEW age \in 0 .. most
    PROVE  /\ age # None
           /\ Later(age, most) = IF age < most THEN age + 1 ELSE most
           /\ Later(age, most) \in 0 .. most
<1>1. age # None
  BY PacingAssumption
<1> DEFINE S == {age + 1, most}
           least == IF age < most THEN age + 1 ELSE most
<1>2. least \in S /\ \A y \in S : least <= y
  OBVIOUS
<1>3. \A x \in S : (\A y \in S : x <= y) => x = least
  OBVIOUS
<1>4. Min(S) = least
  <2>1. Min(S) \in S /\ \A y \in S : Min(S) <= y
    BY <1>2 DEF Min
  <2> HIDE DEF S, least
  <2> QED
    BY <2>1, <1>3
<1> QED
  BY <1>1, <1>4 DEF Later

LEMMA Delays == Grace \in Nat \ {0} /\ Cooldown \in Nat \ {0} /\ RetryDelay \in Nat \ {0}
BY PacingAssumption

LEMMA NoRole == None \notin Keys /\ None \notin Roles
BY PacingAssumption

\* What the checks have established for the role that is started.
LEMMA LaunchedIsIdle ==
    ASSUME Typed, Clearance, NEW r \in Roles, Launch(r)
    PROVE  /\ cleared = r /\ Idle(r) /\ desired[r] # None /\ desired[r] \in Keys
           /\ Durable!MayLaunch(snapshot, r, desired[r]) /\ Rested(r, desired[r])
           /\ pause = 0 \/ r = spared
           /\ session'[r].id = desired[r] /\ session'[r] # NoSession
           /\ \A q \in Roles \ {r} : session'[q] = session[q]
<1>1. cleared = r /\ cleared # None
  BY NoRole DEF Launch
<1>2. Asked(r) /\ Rested(r, desired[r]) /\ (pause = 0 \/ r = spared)
  BY <1>1 DEF Clearance
<1>3. session' = [session EXCEPT ![r] = [NoSession EXCEPT !.id = desired[r]]]
  BY DEF Launch
<1>4. [NoSession EXCEPT !.id = desired[r]].id = desired[r] /\ NoSession.id = None
  BY DEF NoSession
<1> QED
  BY <1>1, <1>2, <1>3, <1>4 DEF Typed, Asked

\* A session begins in no other step than that.
LEMMA BeginsInLaunch ==
    ASSUME Typed, [Next]_vars, NEW r \in Roles, Begins(r)
    PROVE  Launch(r)
<1> USE DEF Begins, Idle, NoSession, Typed
<1>1. CASE Reconcile
  <2>1. r \notin CancelNow
    BY DEF CancelNow, Unmatched, Running
  <2> QED
    BY <1>1, <2>1 DEF Reconcile
<1>2. ASSUME NEW q \in Roles, LimitHit(q) PROVE FALSE
  <2>1. q # r
    BY <1>2 DEF LimitHit
  <2> QED
    BY <1>2, <2>1 DEF LimitHit
<1>3. ASSUME NEW q \in Roles, Records(q) PROVE FALSE
  BY <1>3 DEF Records
<1>4. ASSUME NEW q \in Roles, NEW outcome, Ends(q, outcome) PROVE FALSE
  BY <1>4 DEF Ends
<1>5. ASSUME NEW q \in Roles, Launch(q) PROVE Launch(r)
  BY <1>5 DEF Launch
<1>6. CASE UNCHANGED session
  BY <1>6
<1> QED
  BY <1>1, <1>2, <1>3, <1>4, <1>5, <1>6
     DEF Next, Tick, vars, ReadBoard, Check, Lands, BoardChanges, Approve, TimePasses, Age, Restart

-----------------------------------------------------------------------------
(* What the tick, the sessions and the time do to the ages.                *)

LEMMA InitTyped == Init => Typed /\ PauseCovers /\ Clearance /\ MarkDated
<1> SUFFICES ASSUME Init PROVE Typed /\ PauseCovers /\ Clearance /\ MarkDated
  OBVIOUS
<1> QED
  BY Delays, PacingAssumption
     DEF Init, Typed, Session, PauseCovers, Clearance, Ticking, MarkDated, Idle, NoSession

LEMMA TypedStep == Typed /\ Clearance /\ OwnKeys /\ [Next]_vars => Typed'
<1> SUFFICES ASSUME Typed, Clearance, OwnKeys, [Next]_vars PROVE Typed'
  OBVIOUS
<1> USE Delays DEF Typed
<1>1. CASE Reconcile
  <2>1. session' \in [Roles -> Session]
    BY <1>1 DEF Reconcile, Session
  <2>2. mark' \in [Roles -> 0 .. Grace \cup {None}]
    BY <1>1 DEF Reconcile, MarkAfterTick
  <2>3. off' \in [Roles -> 0 .. Grace \cup {None}]
    BY <1>1 DEF Reconcile
  <2>4. desired' \in [Roles -> Keys \cup {None}]
    BY <1>1 DEF Reconcile, OwnKeys
  <2> QED
    BY <1>1, <2>1, <2>2, <2>3, <2>4 DEF Reconcile
<1>2. ASSUME NEW r \in Roles, Check(r) PROVE Typed'
  <2>1. desired' \in [Roles -> Keys \cup {None}] /\ cleared' \in Roles \cup {None}
    BY <1>2 DEF Check
  <2> QED
    BY <1>2, <2>1 DEF Check, observed
<1>3. ASSUME NEW r \in Roles, Launch(r) PROVE Typed'
  <2>1. desired[r] \in Keys
    BY <1>3, LaunchedIsIdle
  <2>2. session' \in [Roles -> Session]
    BY <1>3, <2>1 DEF Launch, NoSession, Session
  <2>3. desired' \in [Roles -> Keys \cup {None}]
    BY <1>3 DEF Launch
  <2> QED
    BY <1>3, <2>2, <2>3 DEF Launch, memory
<1>4. ASSUME NEW r \in Roles, LimitHit(r) PROVE Typed'
  <2>1. session' \in [Roles -> Session]
    BY <1>4 DEF LimitHit, Session
  <2>2. UNCHANGED <<desired, cleared, mark, off>> /\ pause' = Cooldown /\ limit' = 0
    BY <1>4 DEF LimitHit, tick
  <2> QED
    BY <2>1, <2>2
<1>5. ASSUME NEW r \in Roles, Records(r) PROVE Typed'
  <2>1. session' \in [Roles -> Session]
    BY <1>5 DEF Records, Session
  <2> QED
    BY <1>5, <2>1 DEF Records, tick, memory, observed
<1>6. ASSUME NEW r \in Roles, NEW outcome, Ends(r, outcome) PROVE Typed'
  <2>1. session' \in [Roles -> Session]
    BY <1>6 DEF Ends, NoSession, Session
  <2>2. mark' \in [Roles -> 0 .. Grace \cup {None}] /\ off' \in [Roles -> 0 .. Grace \cup {None}]
    BY <1>6 DEF Ends, Unmarked
  <2> QED
    BY <1>6, <2>1, <2>2 DEF Ends, tick
<1>7. CASE TimePasses
  <2>1. \A r \in Roles : /\ Later(mark[r], Grace) \in 0 .. Grace \cup {None}
                         /\ Later(off[r], Grace) \in 0 .. Grace \cup {None}
    BY Ages DEF Later
  <2>2. limit' \in 0 .. Cooldown
    BY <1>7, Ages DEF TimePasses, Age
  <2> QED
    BY <1>7, <2>1, <2>2 DEF TimePasses, Age, tick
<1>8. CASE Restart
  BY <1>8 DEF Restart, tick
<1>9. CASE UNCHANGED <<session, desired, cleared, mark, off, pause, limit>>
  BY <1>9
<1> QED
  BY <1>1, <1>2, <1>3, <1>4, <1>5, <1>6, <1>7, <1>8, <1>9
     DEF Next, Tick, vars, ReadBoard, Lands, BoardChanges, Approve, tick, memory, observed

LEMMA PauseStep == Typed /\ PauseCovers /\ [Next]_vars => PauseCovers'
<1> SUFFICES ASSUME Typed, PauseCovers, [Next]_vars PROVE PauseCovers'
  OBVIOUS
<1> USE Delays DEF Typed, PauseCovers
<1>1. ASSUME NEW r \in Roles, LimitHit(r) PROVE PauseCovers'
  BY <1>1 DEF LimitHit
<1>2. CASE TimePasses
  BY <1>2, Ages DEF TimePasses, Age
<1>3. CASE Restart
  BY <1>3 DEF Restart
<1>4. CASE UNCHANGED <<pause, limit>>
  BY <1>4
<1> QED
  BY <1>1, <1>2, <1>3, <1>4
     DEF Next, Tick, vars, ReadBoard, Reconcile, Check, Launch, Records, Lands, Ends, BoardChanges,
         Approve, memory, observed

\* What the checks have found stays true until the role is started.
LEMMA ClearanceStep == Typed /\ Clearance /\ [Next]_vars => Clearance'
<1> SUFFICES ASSUME Typed, Clearance, [Next]_vars PROVE Clearance'
  OBVIOUS
<1> USE NoRole DEF Typed
<1> DEFINE clear(r) == Asked(r) /\ Rested(r, desired[r]) /\ (pause = 0 \/ spared = r)
<1>a. cleared # None => clear(cleared)
  BY DEF Clearance
<1>b. ~Ticking => cleared = None
  BY <1>a DEF Ticking, Asked
<1>1. CASE Reconcile
  <2>1. ~Ticking
    BY <1>1 DEF Reconcile, Clearance
  <2> QED
    BY <1>1, <1>b, <2>1 DEF Reconcile, Clearance
<1>2. ASSUME NEW r \in Roles, Check(r) PROVE Clearance'
  <2>1. Ticking /\ read' = read
    BY <1>2 DEF Check, Ticking
  <2>2. read' = None
    BY <2>1 DEF Clearance
  <2>3. CASE MayStart(r)
    <3>1. cleared' = r /\ UNCHANGED <<desired, session, snapshot, rest, pause>>
      BY <1>2, <2>3 DEF Check
    <3>2. clear(r)'
      BY <2>3, <3>1 DEF MayStart, Asked, Idle, Rested
    <3> QED
      BY <2>2, <3>1, <3>2 DEF Clearance
  <2>4. CASE ~MayStart(r)
    BY <1>2, <2>2, <2>4 DEF Check, Clearance
  <2> QED
    BY <2>3, <2>4
<1>3. ASSUME NEW r \in Roles, Launch(r) PROVE Clearance'
  <2>1. Ticking /\ read' = read /\ cleared' = None
    BY <1>3, LaunchedIsIdle DEF Launch, Ticking
  <2> QED
    BY <2>1 DEF Clearance
<1>4. ASSUME NEW r \in Roles, LimitHit(r) PROVE Clearance'
  <2>1. UNCHANGED <<read, desired, cleared, snapshot, rest>> /\ spared' = cleared
    BY <1>4 DEF LimitHit, tick
  <2>2. Ticking' = Ticking
    BY <2>1 DEF Ticking
  <2>3. ASSUME cleared # None PROVE Idle(cleared)'
    <3>1. Idle(cleared) /\ cleared # r
      BY <1>4, <1>a, <2>3 DEF Asked, LimitHit, Idle, NoSession
    <3> QED
      BY <1>4, <2>1, <2>3, <3>1 DEF LimitHit, Idle
  <2>4. ASSUME cleared # None PROVE clear(cleared)'
    BY <1>a, <2>1, <2>3, <2>4 DEF Asked, Rested
  <2> QED
    BY <2>1, <2>2, <2>4 DEF Clearance
<1>5. CASE UNCHANGED <<read, desired, cleared, session, snapshot, rest, pause, spared>>
  BY <1>5 DEF Clearance, Ticking, Asked, Idle, Rested
<1>6. CASE UNCHANGED <<desired, cleared>> /\ ~Ticking
  BY <1>6, <1>b DEF Clearance, Ticking
<1> QED
  BY <1>1, <1>2, <1>3, <1>4, <1>5, <1>6
     DEF Next, Tick, vars, ReadBoard, Records, Lands, Ends, BoardChanges, Approve, TimePasses, Age,
         Restart, tick, memory, observed

LEMMA MarkStep == Typed /\ Clearance /\ MarkDated /\ [Next]_vars => MarkDated'
<1> SUFFICES ASSUME Typed, Clearance, MarkDated, [Next]_vars, NEW r \in Roles
             PROVE  /\ mark'[r] # None => off'[r] # None /\ mark'[r] <= off'[r]
                    /\ Idle(r)' => mark'[r] = None
  BY DEF MarkDated
<1> DEFINE goal == /\ mark'[r] # None => off'[r] # None /\ mark'[r] <= off'[r]
                   /\ Idle(r)' => mark'[r] = None
<1> USE Delays DEF Typed
<1>a. /\ mark[r] # None => off[r] # None /\ mark[r] <= off[r]
      /\ Idle(r) => mark[r] = None
  BY DEF MarkDated
<1>1. CASE Reconcile
  <2>1. CASE Idle(r)
    BY <1>1, <1>a, <2>1 DEF Reconcile, MarkAfterTick
  <2>2. CASE ~Idle(r)
    <3>1. ~Idle(r)'
      <4>1. CASE r \in CancelNow
        BY <1>1, <2>2, <4>1 DEF Reconcile, Idle, NoSession
      <4>2. CASE r \notin CancelNow
        BY <1>1, <2>2, <4>2 DEF Reconcile, Idle, NoSession
      <4> QED
        BY <4>1, <4>2
    <3>2. mark'[r] # None => off'[r] # None /\ mark'[r] <= off'[r]
      BY <1>1, <1>a, <2>2, Ages DEF Reconcile, MarkAfterTick
    <3> QED
      BY <3>1, <3>2
  <2> QED
    BY <2>1, <2>2
<1>2. ASSUME NEW q \in Roles, LimitHit(q) \/ Records(q) PROVE goal
  <2>1. UNCHANGED <<mark, off>> /\ (Idle(r)' => Idle(r))
    BY <1>2 DEF LimitHit, Records, Idle, NoSession, memory, observed
  <2> QED
    BY <1>a, <2>1
<1>3. ASSUME NEW q \in Roles, NEW outcome, Ends(q, outcome) PROVE goal
  BY <1>3, <1>a DEF Ends, Unmarked, Idle, NoSession
<1>4. CASE TimePasses
  <2>1. mark'[r] = Later(mark[r], Grace) /\ off'[r] = Later(off[r], Grace) /\ Idle(r)' = Idle(r)
    BY <1>4 DEF TimePasses, Age, Idle
  <2>2. Later(None, Grace) = None
    BY DEF Later
  <2>3. CASE mark[r] = None
    BY <1>a, <2>1, <2>2, <2>3
  <2>4. CASE mark[r] # None
    <3>1. mark[r] \in 0 .. Grace /\ off[r] \in 0 .. Grace /\ mark[r] <= off[r] /\ ~Idle(r)
      BY <1>a, <2>4
    <3>2. Grace \in Nat
      OBVIOUS
    <3>3. /\ mark'[r] = IF mark[r] < Grace THEN mark[r] + 1 ELSE Grace
          /\ off'[r] = IF off[r] < Grace THEN off[r] + 1 ELSE Grace
          /\ off'[r] \in 0 .. Grace
      BY <2>1, <3>1, <3>2, Ages
    <3>4. off'[r] # None
      BY <3>2, <3>3, Ages
    <3> QED
      BY <2>1, <3>1, <3>2, <3>3, <3>4
  <2> QED
    BY <2>3, <2>4
<1>5. CASE Restart
  BY <1>5, <1>a DEF Restart, Running, Idle
<1>6. CASE UNCHANGED <<session, mark, off>>
  BY <1>6, <1>a DEF Idle
<1>7. ASSUME NEW q \in Roles, Launch(q) PROVE goal
  <2>1. UNCHANGED <<mark, off>>
    BY <1>7 DEF Launch, memory
  <2>2. CASE q = r
    BY <1>7, <1>a, <2>1, <2>2, LaunchedIsIdle DEF Idle
  <2>3. CASE q # r
    BY <1>7, <1>a, <2>1, <2>3, LaunchedIsIdle DEF Idle
  <2> QED
    BY <2>2, <2>3
<1> QED
  BY <1>1, <1>2, <1>3, <1>4, <1>5, <1>6, <1>7
     DEF Next, Tick, vars, ReadBoard, Check, Lands, BoardChanges, Approve, memory, observed

-----------------------------------------------------------------------------
(* What the leases tell.                                                   *)

LEMMA InitLeases == Init => OwnKeys /\ LeasesTell
<1> SUFFICES ASSUME Init PROVE OwnKeys /\ LeasesTell
  OBVIOUS
<1> USE DEF Init
<1>1. OwnKeys
  BY PacingAssumption DEF OwnKeys, Durable!EmptyState
<1>2. snapshot \in Durable!State
  BY DEF Durable!State, Durable!EmptyState
<1>3. \A r \in Roles : snapshot.lease[r] = Durable!NoLease
  BY DEF Durable!EmptyState
<1>4. \A k \in Keys : snapshot.history[k] = Durable!NoLease
  BY DEF Durable!EmptyState
<1>5. ~Durable!Ended(Durable!NoLease)
  BY DEF Durable!Ended, Durable!NoLease, Durable!Outcomes
<1>6. \A r \in Roles : Idle(r)
  BY DEF Idle
<1>7. \A r \in Roles : KeysOf[r] \subseteq Keys
  BY PacingAssumption
<1> QED
  BY <1>1, <1>2, <1>3, <1>4, <1>5, <1>6, <1>7 DEF LeasesTell

\* The lease of a session that starts; the other leases and the history are left alone.
LEMMA LaunchedLease ==
    ASSUME Typed, Clearance, LeasesTell, NEW r \in Roles, Launch(r)
    PROVE  \E l \in Durable!Lease :
              /\ l.id = desired[r] /\ Durable!Unresolved(l)
              /\ snapshot'.lease = [snapshot.lease EXCEPT ![r] = l]
              /\ snapshot'.history = snapshot.history
              /\ snapshot' \in Durable!State
<1> DEFINE k == desired[r]
           l == Durable!Considered(snapshot, r, k)
           new == Durable!NewLease(snapshot, r, k, 0)
<1>1. k \in Keys
  BY LaunchedIsIdle
<1>2. snapshot' = WithLease(snapshot, r, k)
  BY DEF Launch
<1>3. l \in Durable!Lease \cup {Durable!NoLease}
  BY <1>1 DEF LeasesTell, Durable!State, Durable!Considered
<1> HIDE DEF k
<1>4. Durable!NextAttempt(snapshot, r, k) \in Nat \ {0}
  <2>1. CASE l.id # k
    BY <2>1 DEF Durable!NextAttempt
  <2>2. CASE l.id = k
    <3>1. l \in Durable!Lease
      BY <1>1, <1>3, <2>2, PacingAssumption DEF Durable!NoLease
    <3>2. l.attempt \in Nat \ {0}
      BY <3>1 DEF Durable!Lease
    <3> QED
      BY <2>2, <3>2 DEF Durable!NextAttempt
  <2> QED
    BY <2>1, <2>2
<1>5. new \in Durable!Lease /\ new.id = k /\ Durable!Unresolved(new)
  BY <1>1, <1>4 DEF Durable!NewLease, Durable!Lease, Durable!Unresolved
<1>6. /\ snapshot'.lease = [snapshot.lease EXCEPT ![r] = new]
      /\ snapshot'.history = snapshot.history
      /\ snapshot' \in Durable!State
  <2> HIDE DEF new
  <2>1. /\ snapshot'.lease = [snapshot.lease EXCEPT ![r] = new]
        /\ snapshot'.history = snapshot.history
        /\ snapshot'.past = snapshot.past /\ snapshot'.rationale = snapshot.rationale
        /\ snapshot'.approvals \subseteq snapshot.approvals
        /\ DOMAIN snapshot' = DOMAIN snapshot
    BY <1>2 DEF WithLease, LeasesTell, Durable!State, new
  <2>2. [snapshot.lease EXCEPT ![r] = new] \in [Roles -> Durable!Lease \cup {Durable!NoLease}]
    BY <1>5 DEF LeasesTell, Durable!State
  <2>3. snapshot' \in Durable!State
    BY <1>2, <2>1, <2>2 DEF WithLease, LeasesTell, Durable!State
  <2> QED
    BY <2>1, <2>3
<1> QED
  BY <1>5, <1>6 DEF k

\* A session's result: the lease ends, in the role and in the history.
LEMMA ResultLease ==
    ASSUME Typed, LeasesTell, OwnKeys, NEW r \in Roles, NEW outcome \in Durable!Outcomes,
           Ends(r, outcome)
    PROVE  \E l \in Durable!Lease :
              /\ l.id = session[r].id /\ l.id \in KeysOf[r] /\ l.outcome = outcome
              /\ snapshot'.lease = [snapshot.lease EXCEPT ![r] = l]
              /\ snapshot'.history = [snapshot.history EXCEPT ![l.id] = l]
              /\ snapshot'.approvals = snapshot.approvals
              /\ snapshot' \in Durable!State
<1> DEFINE old == snapshot.lease[r]
           l == [old EXCEPT !.outcome = outcome, !.beat = 0]
<1>1. old \in Durable!Lease \cup {Durable!NoLease}
  BY DEF LeasesTell, Durable!State
<1>2. ~Idle(r) /\ old.id = session[r].id /\ Durable!Unresolved(old)
  BY DEF Ends, LeasesTell
<1>3. old \in Durable!Lease /\ old.id \in KeysOf[r]
  BY <1>1, <1>2 DEF Durable!Unresolved, Durable!NoLease, OwnKeys
<1>4. l \in Durable!Lease /\ l.id = old.id /\ l.outcome = outcome
  BY <1>3 DEF Durable!Lease
<1>5. snapshot' = Kept(Durable!WithResult(snapshot, r, outcome, 0))
  BY DEF Ends
<1>6. l.id \in Keys
  BY <1>4 DEF Durable!Lease
<1> HIDE DEF old
<1>7. /\ snapshot'.lease = [snapshot.lease EXCEPT ![r] = l]
      /\ snapshot'.history = [snapshot.history EXCEPT ![l.id] = l]
      /\ snapshot'.approvals = snapshot.approvals
      /\ snapshot' \in Durable!State
  <2>1. Durable!WithResult(snapshot, r, outcome, 0)
          = [snapshot EXCEPT !.lease[r] = l, !.history[l.id] = l]
    BY DEF Durable!WithResult, old
  <2>2. snapshot' = [lease |-> [snapshot.lease EXCEPT ![r] = l],
                     history |-> [snapshot.history EXCEPT ![l.id] = l],
                     approvals |-> snapshot.approvals, past |-> {}, rationale |-> {}]
    BY <1>5, <2>1 DEF Kept, LeasesTell, Durable!State
  <2> HIDE DEF l
  <2>3. /\ [snapshot.lease EXCEPT ![r] = l] \in [Roles -> Durable!Lease \cup {Durable!NoLease}]
        /\ [snapshot.history EXCEPT ![l.id] = l] \in [Keys -> Durable!Lease \cup {Durable!NoLease}]
        /\ snapshot.approvals \in SUBSET Keys
    BY <1>4, <1>6 DEF LeasesTell, Durable!State
  <2> QED
    BY <2>2, <2>3 DEF Durable!State
<1> QED
  BY <1>2, <1>3, <1>4, <1>7

LEMMA OwnKeysStep == Typed /\ Clearance /\ OwnKeys /\ LeasesTell /\ [Next]_vars => OwnKeys'
<1> SUFFICES ASSUME Typed, Clearance, OwnKeys, LeasesTell, [Next]_vars PROVE OwnKeys'
  OBVIOUS
<1> DEFINE own(s) == \A r \in Roles : s.lease[r] = Durable!NoLease \/ s.lease[r].id \in KeysOf[r]
           board == /\ wants' \in [Roles -> Keys \cup {None}]
                    /\ \A r \in Roles : wants'[r] \in KeysOf[r] \cup {None}
           read_ == read' # None =>
                    /\ read' \in [Roles -> Keys \cup {None}]
                    /\ \A r \in Roles : read'[r] \in KeysOf[r] \cup {None}
           todo == \A r \in Roles : desired'[r] \in KeysOf[r] \cup {None}
<1>1. board
  <2>1. CASE UNCHANGED wants
    BY <2>1 DEF OwnKeys
  <2>2. CASE BoardChanges
    <3>1. PICK r \in Roles : \E k \in KeysOf[r] \cup {None} : wants' = [wants EXCEPT ![r] = k]
      BY <2>2 DEF BoardChanges
    <3>2. PICK k \in KeysOf[r] \cup {None} : wants' = [wants EXCEPT ![r] = k]
      BY <3>1
    <3>3. k \in Keys \cup {None}
      BY PacingAssumption
    <3> QED
      BY <3>2, <3>3 DEF OwnKeys
  <2> QED
    BY <2>1, <2>2 DEF Next, Tick, vars, ReadBoard, Reconcile, Check, Launch, Records, LimitHit,
                      Ends, Lands, Approve, TimePasses, Age, Restart
<1>2. read_
  <2>1. CASE UNCHANGED read
    BY <2>1 DEF OwnKeys
  <2>2. CASE ReadBoard
    BY <2>2 DEF ReadBoard, OwnKeys
  <2>3. CASE Reconcile
    BY <2>3 DEF Reconcile
  <2> QED
    BY <2>1, <2>2, <2>3 DEF Next, Tick, vars, Check, Launch, BoardChanges, Records, LimitHit,
                            Ends, Lands, Approve, TimePasses, Age, Restart, tick
<1>4. todo
  <2>1. CASE UNCHANGED desired
    BY <2>1 DEF OwnKeys
  <2>2. CASE Reconcile
    BY <2>2 DEF Reconcile, OwnKeys
  <2>3. ASSUME NEW r \in Roles, Check(r) \/ Launch(r) PROVE todo
    BY <2>3 DEF Check, Launch, OwnKeys, Typed
  <2> QED
    BY <2>1, <2>2, <2>3 DEF Next, Tick, vars, ReadBoard, BoardChanges, Records, LimitHit,
                            Ends, Lands, Approve, TimePasses, Age, Restart, tick
<1>3. own(snapshot')
  <2>1. CASE UNCHANGED snapshot
    BY <2>1 DEF OwnKeys
  <2>2. ASSUME NEW r \in Roles, Launch(r) PROVE own(snapshot')
    <3>1. desired[r] \in KeysOf[r]
      BY <2>2, LaunchedIsIdle DEF OwnKeys
    <3>2. PICK l \in Durable!Lease : /\ l.id = desired[r]
                                     /\ snapshot'.lease = [snapshot.lease EXCEPT ![r] = l]
      BY <2>2, LaunchedLease
    <3>3. DOMAIN snapshot.lease = Roles
      BY DEF LeasesTell, Durable!State
    <3> QED
      BY <3>1, <3>2, <3>3 DEF OwnKeys
  <2>3. ASSUME NEW r \in Roles, NEW outcome \in Durable!Outcomes, Ends(r, outcome)
        PROVE own(snapshot')
    <3>1. PICK l \in Durable!Lease : /\ l.id \in KeysOf[r]
                                     /\ snapshot'.lease = [snapshot.lease EXCEPT ![r] = l]
      BY <2>3, ResultLease
    <3>2. DOMAIN snapshot.lease = Roles
      BY DEF LeasesTell, Durable!State
    <3> QED
      BY <3>1, <3>2 DEF OwnKeys
  <2>4. ASSUME NEW k \in Keys, Approve(k) PROVE own(snapshot')
    BY <2>4 DEF Approve, OwnKeys, LeasesTell, Durable!State
  <2> QED
    BY <2>1, <2>2, <2>3, <2>4
       DEF Next, Tick, vars, ReadBoard, Reconcile, Check, Records, LimitHit, Lands, BoardChanges,
           TimePasses, Age, Restart
<1> QED
  BY <1>1, <1>2, <1>3, <1>4 DEF OwnKeys

\* The two parts of LeasesTell that relate leases, sessions and history, for a role.
Told(r) ==
    /\ ~Idle(r) => /\ snapshot.lease[r].id = session[r].id
                   /\ Durable!Unresolved(snapshot.lease[r])
    /\ Durable!Ended(snapshot.lease[r]) =>
          snapshot.history[snapshot.lease[r].id] = snapshot.lease[r]
    /\ \A k \in KeysOf[r] : snapshot.history[k] # Durable!NoLease =>
          snapshot.history[k].id = k /\ snapshot.lease[r] # Durable!NoLease

LEMMA ToldOfAll == LeasesTell <=> snapshot \in Durable!State /\ \A r \in Roles : Told(r)
BY DEF LeasesTell, Told

LEMMA OpenLease ==
    ASSUME NEW l, Durable!Unresolved(l)
    PROVE  ~Durable!Ended(l) /\ l # Durable!NoLease
BY DEF Durable!Unresolved, Durable!Ended, Durable!Outcomes, Durable!NoLease

LEMMA TellOfLaunch ==
    ASSUME Typed, Clearance, OwnKeys, LeasesTell, NEW r \in Roles, Launch(r)
    PROVE  LeasesTell'
<1>1. PICK l \in Durable!Lease :
         /\ l.id = desired[r] /\ Durable!Unresolved(l)
         /\ snapshot'.lease = [snapshot.lease EXCEPT ![r] = l]
         /\ snapshot'.history = snapshot.history
         /\ snapshot' \in Durable!State
  BY LaunchedLease
<1>2. /\ session'[r].id = desired[r]
      /\ \A q \in Roles \ {r} : session'[q] = session[q]
  BY LaunchedIsIdle
<1>3. DOMAIN snapshot.lease = Roles
  BY DEF LeasesTell, Durable!State
<1>4. Told(r)'
  <2>1. snapshot'.lease[r] = l
    BY <1>1, <1>3
  <2>2. ~Durable!Ended(l) /\ l # Durable!NoLease
    BY <1>1, OpenLease
  <2>3. Told(r)
    BY ToldOfAll
  <2> QED
    BY <1>1, <1>2, <2>1, <2>2, <2>3 DEF Told
<1>5. ASSUME NEW q \in Roles, q # r PROVE Told(q)'
  <2>1. snapshot'.lease[q] = snapshot.lease[q] /\ session'[q] = session[q]
    BY <1>1, <1>2, <1>3, <1>5
  <2>2. Told(q)
    BY ToldOfAll
  <2> QED
    BY <1>1, <2>1, <2>2 DEF Told, Idle
<1> QED
  BY <1>1, <1>4, <1>5 DEF LeasesTell, Told

\* A step that leaves the snapshot alone and starts or renames no session.
LEMMA TellOfOthers ==
    ASSUME LeasesTell, UNCHANGED snapshot,
           \A r \in Roles : session'[r].id = session[r].id /\ (~Idle(r)' => ~Idle(r))
    PROVE  LeasesTell'
BY DEF LeasesTell

LEMMA TellOfResult ==
    ASSUME Typed, OwnKeys, LeasesTell,
           NEW r \in Roles, NEW outcome \in Durable!Outcomes, Ends(r, outcome)
    PROVE  LeasesTell'
<1>1. PICK l \in Durable!Lease :
         /\ l.id = session[r].id /\ l.id \in KeysOf[r] /\ l.outcome = outcome
         /\ snapshot'.lease = [snapshot.lease EXCEPT ![r] = l]
         /\ snapshot'.history = [snapshot.history EXCEPT ![l.id] = l]
         /\ snapshot'.approvals = snapshot.approvals
         /\ snapshot' \in Durable!State
  BY ResultLease
<1>2. l # Durable!NoLease /\ l.id \in Keys
  BY <1>1, PacingAssumption DEF Durable!Lease, Durable!NoLease
<1>3. DOMAIN snapshot.lease = Roles /\ DOMAIN snapshot.history = Keys
  BY DEF LeasesTell, Durable!State
<1>4. session' = [session EXCEPT ![r] = NoSession]
  BY DEF Ends
<1>5. ASSUME NEW q \in Roles, q # r PROVE Told(q)'
  <2>1. snapshot'.lease[q] = snapshot.lease[q]
    BY <1>1, <1>3, <1>5
  <2>2. \A k \in KeysOf[q] : snapshot'.history[k] = snapshot.history[k]
    BY <1>1, <1>3, <1>5, PacingAssumption
  <2>3. session'[q] = session[q]
    BY <1>4, <1>5 DEF Typed
  <2>4. Told(q)
    BY ToldOfAll
  <2>5. Durable!Ended(snapshot.lease[q]) => snapshot.lease[q].id \in KeysOf[q]
    BY DEF OwnKeys, Durable!Ended, Durable!Outcomes, Durable!NoLease
  <2>6. ~Idle(q)' => ~Idle(q)
    BY <2>3 DEF Idle
  <2> QED
    BY <2>1, <2>2, <2>3, <2>4, <2>5, <2>6 DEF Told
<1>6. Told(r)'
  <2>1. snapshot'.lease[r] = l /\ snapshot'.history[l.id] = l
    BY <1>1, <1>2, <1>3
  <2>2. Idle(r)'
    BY <1>4 DEF Idle, Typed
  <2>3. \A k \in KeysOf[r] : k # l.id => snapshot'.history[k] = snapshot.history[k]
    BY <1>1, <1>3, PacingAssumption
  <2>4. Told(r)
    BY ToldOfAll
  <2> QED
    BY <1>2, <2>1, <2>2, <2>3, <2>4 DEF Told
<1> QED
  BY <1>1, <1>5, <1>6 DEF LeasesTell, Told

LEMMA LeasesTellStep ==
    Typed /\ Clearance /\ OwnKeys /\ LeasesTell /\ [Next]_vars => LeasesTell'
<1> SUFFICES ASSUME Typed, Clearance, OwnKeys, LeasesTell, [Next]_vars PROVE LeasesTell'
  OBVIOUS
<1>1. CASE UNCHANGED <<session, snapshot>>
  BY <1>1 DEF LeasesTell, Idle
<1>2. ASSUME NEW k \in Keys, Approve(k) PROVE LeasesTell'
  <2>1. /\ snapshot'.lease = snapshot.lease /\ snapshot'.history = snapshot.history
        /\ snapshot' \in Durable!State /\ UNCHANGED session
    BY <1>2 DEF Approve, LeasesTell, Durable!State
  <2> QED
    BY <2>1 DEF LeasesTell, Idle
<1>3. ASSUME NEW r \in Roles, LimitHit(r) \/ Records(r) PROVE LeasesTell'
  <2>1. UNCHANGED snapshot
    BY <1>3 DEF LimitHit, Records
  <2>2. \A q \in Roles : session'[q].id = session[q].id
    <3>1. CASE LimitHit(r)
      BY <3>1 DEF LimitHit, Typed, Session
    <3>2. CASE Records(r)
      BY <3>2 DEF Records, Typed, Session
    <3> QED
      BY <1>3, <3>1, <3>2
  <2>3. ~Idle(r)
    BY <1>3 DEF LimitHit, Records, Idle, NoSession
  <2>4. \A q \in Roles : ~Idle(q)' => ~Idle(q)
    BY <1>3, <2>3 DEF LimitHit, Records, Idle, Typed
  <2> QED
    BY <2>1, <2>2, <2>4, TellOfOthers
<1>4. CASE Reconcile
  <2>1. UNCHANGED snapshot
    BY <1>4 DEF Reconcile
  <2>2. \A q \in Roles : session'[q].id = session[q].id
    BY <1>4 DEF Reconcile, Typed
  <2>3. \A q \in Roles : ~Idle(q)' => ~Idle(q)
    <3> SUFFICES ASSUME NEW q \in Roles, Idle(q) PROVE Idle(q)'
      OBVIOUS
    <3>1. q \notin CancelNow
      BY DEF CancelNow, Unmatched, Running
    <3> QED
      BY <1>4, <3>1 DEF Reconcile, Idle
  <2> QED
    BY <2>1, <2>2, <2>3, TellOfOthers
<1> QED
  BY <1>1, <1>2, <1>3, <1>4, TellOfLaunch, TellOfResult
     DEF Next, Tick, vars, ReadBoard, Check, Lands, BoardChanges, TimePasses, Age, Restart

-----------------------------------------------------------------------------
(* The theorems.                                                           *)

\* The delays, the sessions and the leases agree in every reachable state
\* (scheduler.go, the maps that the tick keeps in memory).
THEOREM PacingInvariant == Spec => []PacingInv
<1>1. Init => PacingInv
  BY InitTyped, InitLeases DEF PacingInv
<1>2. PacingInv /\ [Next]_vars => PacingInv'
  BY TypedStep, PauseStep, ClearanceStep, MarkStep, OwnKeysStep, LeasesTellStep DEF PacingInv
<1> QED
  BY <1>1, <1>2, PTL DEF Spec

\* While the controller lives, nothing starts for the whole cooldown after a
\* usage limit, whatever the order of limits, polls and results, but for the one
\* role that was past its check of the pause then (scheduler.go:541, 566, 777).
THEOREM LimitsRespected == Spec => LimitRespected
<1>1. ASSUME PacingInv, [Next]_vars, NEW r \in Roles, Begins(r)
      PROVE  limit = Cooldown \/ r = spared
  <2> USE <1>1 DEF PacingInv
  <2>1. Launch(r)
    BY <1>1, BeginsInLaunch
  <2>2. pause = 0 \/ r = spared
    BY <2>1, LaunchedIsIdle
  <2> QED
    BY <2>2, Delays DEF PauseCovers, Typed
<1>2. PacingInv /\ [Next]_vars
         => [\A r \in Roles : Begins(r) => limit = Cooldown \/ r = spared]_vars
  BY <1>1
<1> QED
  BY <1>2, PacingInvariant, PTL DEF Spec, LimitRespected

\* A session is cancelled only after a whole grace period of mismatches.
THEOREM CancelsAfterGrace == Spec => CancelledAfterGrace
<1> DEFINE Cancels(r) == session'[r].cancelled /\ ~session[r].cancelled
           Waited(r) == off[r] # None /\ off[r] >= Grace
<1>1. ASSUME PacingInv, [Next]_vars, NEW r \in Roles, Cancels(r) PROVE Waited(r)
  <2> USE <1>1 DEF PacingInv, Typed
  <2>1. CASE Reconcile
    <3>1. r \in CancelNow
      BY <1>1, <2>1 DEF Reconcile, NoSession
    <3>2. mark[r] # None /\ mark[r] >= Grace
      BY <3>1 DEF CancelNow
    <3>3. off[r] # None /\ mark[r] <= off[r]
      BY <3>2 DEF MarkDated
    <3>4. mark[r] \in 0 .. Grace /\ off[r] \in 0 .. Grace
      BY <3>2, <3>3
    <3> QED
      BY <3>2, <3>3, <3>4, Delays
  <2>2. ASSUME NEW q \in Roles, LimitHit(q) PROVE FALSE
    BY <1>1, <2>2 DEF LimitHit
  <2>3. ASSUME NEW q \in Roles, NEW outcome, Ends(q, outcome) PROVE FALSE
    BY <1>1, <2>3 DEF Ends, NoSession
  <2>4. CASE UNCHANGED session
    BY <1>1, <2>4
  <2>5. ASSUME NEW q \in Roles, Launch(q) PROVE FALSE
    BY <1>1, <2>5 DEF Launch, NoSession
  <2>6. ASSUME NEW q \in Roles, Records(q) PROVE FALSE
    BY <1>1, <2>6 DEF Records
  <2> QED
    BY <1>1, <2>1, <2>2, <2>3, <2>4, <2>5, <2>6
       DEF Next, Tick, vars, ReadBoard, Check, Lands, BoardChanges, Approve, TimePasses, Age, Restart
<1>2. PacingInv /\ [Next]_vars => [\A r \in Roles : Cancels(r) => Waited(r)]_vars
  BY <1>1
<1> QED
  BY <1>2, PacingInvariant, PTL DEF Spec, CancelledAfterGrace

\* A failed assignment is not started again within the retry delay, whatever
\* the role has done in between, and also by a restarted controller.
THEOREM RetriesAreSpaced == Spec => RetriesSpaced
<1> DEFINE Again(r) == Begins(r) /\ snapshot.history[session'[r].id].outcome = "failed"
           Rests(r) == rest[session'[r].id] >= RetryDelay
<1>1. ASSUME PacingInv, [Next]_vars, NEW r \in Roles, Again(r) PROVE Rests(r)
  <2> USE <1>1 DEF PacingInv
  <2> DEFINE k == desired[r]
             old == snapshot.lease[r]
             l == Durable!Considered(snapshot, r, k)
  <2>1. Launch(r) /\ session'[r].id = k
    BY <1>1, BeginsInLaunch, LaunchedIsIdle
  <2>2. /\ Idle(r) /\ k # None /\ Durable!MayLaunch(snapshot, r, k) /\ Rested(r, k)
        /\ k \in KeysOf[r]
    BY <2>1, LaunchedIsIdle DEF OwnKeys
  <2>3. snapshot.history[k].outcome = "failed" /\ snapshot.history[k] # Durable!NoLease
    BY <1>1, <2>1 DEF Durable!NoLease
  <2>4. snapshot.history[k].id = k /\ old # Durable!NoLease
    BY <2>2, <2>3 DEF LeasesTell
  <2>5. Durable!Ended(old) /\ ~Durable!AwaitsReview(snapshot, r)
    BY <2>2, <2>4 DEF Durable!MayLaunch
  <2>6. l = snapshot.history[k]
    <3>1. CASE old.id = k
      BY <2>5, <3>1 DEF LeasesTell, Durable!Considered
    <3>2. CASE old.id # k
      BY <2>3, <2>5, <3>2 DEF Durable!Considered
    <3> QED
      BY <3>1, <3>2
  <2> QED
    BY <2>1, <2>2, <2>3, <2>4, <2>6 DEF Rested
<1>2. PacingInv /\ [Next]_vars => [\A r \in Roles : Again(r) => Rests(r)]_vars
  BY <1>1
<1> QED
  BY <1>2, PacingInvariant, PTL DEF Spec, RetriesSpaced
=============================================================================
