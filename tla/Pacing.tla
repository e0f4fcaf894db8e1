------------------------------- MODULE Pacing -------------------------------
(***************************************************************************)
(* The time between two sessions: the delay before a retry, the circuit    *)
(* breaker of a task, the pause after a usage limit, and the grace period  *)
(* before a session that the board no longer asks for is cancelled.        *)
(*                                                                         *)
(* Ages are counted in units of time up to the longest that is compared    *)
(* with them.  A key is one assignment of a role, or one unblock pass of   *)
(* the Team Lead.                                                          *)
(***************************************************************************)
EXTENDS Naturals, FiniteSetsExt

CONSTANTS
    Keys, Unblocks,     \* what roles work on; the unblock passes among it
    Devs, Lead, KeysOf, \* the roles, and what each may be asked to do
    None,
    MaxFailedSessionRetries,
    Threshold,          \* circuitThreshold
    RetryDelay, BaseDelay, MaxDelay, Cooldown, Grace,
    Starts              \* the first boards, whether the provider has a limit, and
                        \* how many changes, restarts and approvals follow

Roles == Devs \cup {Lead}

ASSUME PacingAssumption ==
    /\ Unblocks \subseteq Keys
    /\ None \notin Keys \cup Roles \cup Nat
    /\ Lead \notin Devs
    /\ KeysOf \in [Roles -> SUBSET Keys]
    /\ \A q, r \in Roles : q # r => KeysOf[q] \cap KeysOf[r] = {}
    /\ \A d \in Devs : KeysOf[d] \cap Unblocks = {}
    /\ {RetryDelay, Grace, Cooldown} \subseteq Nat \ {0}
    /\ BaseDelay \in RetryDelay .. MaxDelay /\ Threshold \in Nat \ {0}
    /\ {MaxFailedSessionRetries, MaxDelay} \subseteq Nat
    /\ Starts \subseteq [wants : [Roles -> Keys \cup {None}], metered : BOOLEAN,
                         changes : Nat, restarts : Nat, approvals : Nat]
    /\ \A s \in Starts : \A r \in Roles : s.wants[r] \in KeysOf[r] \cup {None}

VARIABLES
    wants,      \* the board: the key asked of each role
    metered,    \* the provider has a usage limit
    read,       \* the board as the poll loop read it for the next tick, or None
    desired,    \* what the tick has still to look at
    cleared,    \* the role that is past its checks and not yet running, or None
    landed,     \* the keys whose task counts as done
    session,    \* running
    snapshot,   \* the controller's snapshot
    rest,       \* the age of a key's last result
    circuit,    \* circuitBreakers
    pause,      \* what is left until codexPausedUntil
    mark,       \* the age of cancelPendingSince, None without one
    \* what happened, for the properties: failures in a row since the start of
    \* the controller, the age of the last usage limit, the age of the first
    \* poll of the present row that found the session not wanted, the role that
    \* was past its checks when the last limit was met
    streak, limit, off, spared,
    changes, restarts, approvals    \* how many are left

tick == <<read, desired, cleared>>
memory == <<circuit, pause, mark>>
observed == <<streak, limit, off, spared>>
bounds == <<metered, changes, restarts, approvals>>
vars == <<wants, tick, landed, session, snapshot, rest, memory, observed, bounds>>

NoSession == [id |-> None, recorded |-> FALSE, cancelled |-> FALSE, limited |-> FALSE]
Idle(r) == session[r] = NoSession
Running == {r \in Roles : ~Idle(r)}

\* controllerMu is held by the tick: no result is recorded.
Ticking == \E r \in Roles : desired[r] # None

Durable == INSTANCE ControllerState WITH
    TeamLead <- Lead, LeaseIDs <- Keys, MaxFailedSessionRetries <- MaxFailedSessionRetries,
    RoleOf <- <<>>, TaskOf <- <<>>, ContinueAfter <- <<>>, PlainOf <- <<>>,
    UnblockPasses <- Unblocks

\* PastResults and the rationales are not read here.
Kept(s) == [s EXCEPT !.past = {}, !.rationale = {}]

-----------------------------------------------------------------------------
(* The circuit breaker of a key.                                           *)

NewCircuit == [state |-> "closed", failures |-> 0, cooldown |-> 0]

\* Mutant: every cooldown is the first one.
DoubledNever(cooldown) == BaseDelay

Doubled(cooldown) == IF cooldown = 0 THEN BaseDelay ELSE Min({2 * cooldown, MaxDelay})

\* recordCircuitResultLocked; a run that was cancelled or limited is no result.
Recorded(c, outcome) ==
    CASE outcome \in Durable!Uncounted -> c
      [] outcome = "completed" -> NewCircuit
      [] OTHER -> IF c.failures + 1 < Threshold THEN [c EXCEPT !.failures = @ + 1]
                  ELSE [state |-> "open", failures |-> c.failures + 1,
                        cooldown |-> Doubled(c.cooldown)]

\* Mutant: only a success closes an open circuit.
CooledNever(k) == FALSE

\* An open circuit has cooled down.  It was opened by the key's last result.
Cooled(k) == rest[k] >= circuit[k].cooldown

-----------------------------------------------------------------------------
(* The tick.  It holds controllerMu throughout, and no result is recorded   *)
(* meanwhile; a usage limit takes mu alone and comes between its steps.    *)

ReadBoard ==
    /\ read = None /\ ~Ticking
    /\ read' = wants
    /\ UNCHANGED <<wants, desired, cleared, landed, session, snapshot, rest, memory, observed, bounds>>

\* The session is wanted, or its task is done; the Team Lead is never disturbed.
Matches(r) == r = Lead \/ session[r].id = read[r] \/ session[r].id \in landed

Unmatched == {r \in Running : ~Matches(r)}

\* decideCancel
CancelNow == {r \in Unmatched : mark[r] # None /\ mark[r] >= Grace}

\* Mutant: every poll that finds a mismatch dates it anew.
MarkOfLastTick(r) ==
    IF Idle(r) THEN mark[r]
    ELSE IF r \notin Unmatched \/ r \in CancelNow THEN None
    ELSE 0

MarkAfterTick(r) ==
    IF Idle(r) THEN mark[r]
    ELSE IF r \notin Unmatched \/ r \in CancelNow THEN None
    ELSE IF mark[r] = None THEN 0
    ELSE mark[r]

\* The tick's first part: cancellations, decided and done under mu.
Reconcile ==
    /\ read # None
    /\ read' = None
    /\ desired' = [r \in Roles |-> IF Idle(r) THEN read[r] ELSE None]
    /\ session' = [r \in Roles |->
           IF r \in CancelNow THEN [session[r] EXCEPT !.cancelled = TRUE] ELSE session[r]]
    /\ mark' = [r \in Roles |-> MarkAfterTick(r)]
    /\ off' = [r \in Roles |->
           IF r \notin Unmatched THEN None ELSE IF off[r] = None THEN 0 ELSE off[r]]
    /\ UNCHANGED <<wants, cleared, landed, snapshot, rest, circuit, pause, streak, limit, spared, bounds>>

\* Mutant: the delay is kept for the role's own lease alone.
RestedInRole(r, k) ==
    LET l == snapshot.lease[r]
    IN  l.id = k /\ l.outcome = "failed" => rest[k] >= RetryDelay

\* finished, restored from the lease or the history, and
\* canRetryFailedSessionLocked: results that may be repeated are, after a delay.
Rested(r, k) ==
    LET l == Durable!Considered(snapshot, r, k)
    IN  /\ l.id = k
        /\ l.outcome = "failed" \/ Durable!CompletedUnblockPass(l)
        => rest[k] >= RetryDelay

\* The lease decision lets the role start.
Asked(r) == Idle(r) /\ desired[r] # None /\ Durable!MayLaunch(snapshot, r, desired[r])

Open(k) == circuit[k].state = "open" /\ ~Cooled(k)

\* Every check there is, the usage pause being the last.
MayStart(r) == Asked(r) /\ Rested(r, desired[r]) /\ ~Open(desired[r]) /\ pause = 0

\* circuitOpenLocked lets a probe through, whether or not one is started.
Probed(k) == IF circuit[k].state = "open" /\ Cooled(k)
             THEN [circuit[k] EXCEPT !.state = "half-open"] ELSE circuit[k]

\* The roles are looked at one by one, in any order.
Check(r) ==
    /\ cleared = None /\ desired[r] # None
    /\ circuit' = IF Asked(r) THEN [circuit EXCEPT ![desired[r]] = Probed(desired[r])] ELSE circuit
    /\ IF MayStart(r)
       THEN cleared' = r /\ UNCHANGED desired
       ELSE desired' = [desired EXCEPT ![r] = None] /\ UNCHANGED cleared
    /\ UNCHANGED <<wants, read, landed, session, snapshot, rest, pause, mark, observed, bounds>>

\* commitRecoveryLease
WithLease(s, r, k) ==
    LET old == s.lease[r]
    IN  [s EXCEPT !.lease[r] = Durable!NewLease(s, r, k, 0),
                  !.approvals = @ \ ({k} \cup IF Durable!Ended(old) THEN {old.id} ELSE {})]

\* The lease is committed and read back, and the session starts, without
\* another look at the pause.
Launch(r) ==
    /\ cleared = r
    /\ session' = [session EXCEPT ![r] = [NoSession EXCEPT !.id = desired[r]]]
    /\ snapshot' = WithLease(snapshot, r, desired[r])
    /\ desired' = [desired EXCEPT ![r] = None]
    /\ cleared' = None
    /\ spared' = None
    /\ UNCHANGED <<wants, read, landed, rest, memory, streak, limit, off, bounds>>

-----------------------------------------------------------------------------
(* Sessions.                                                               *)

\* The provider's process is written to the lease (which is left out), under
\* controllerMu and before its end is awaited.
Records(r) ==
    /\ ~Idle(r) /\ ~Ticking /\ ~session[r].recorded
    /\ session' = [session EXCEPT ![r].recorded = TRUE]
    /\ UNCHANGED <<wants, tick, landed, snapshot, rest, memory, observed, bounds>>

\* Mutant: a limit that is met during a pause does not prolong it.
LimitHitOnce(r) ==
    /\ metered /\ session[r].recorded /\ ~session[r].cancelled /\ ~session[r].limited
    /\ session' = [session EXCEPT ![r].limited = TRUE]
    /\ pause' = IF pause = 0 THEN Cooldown ELSE pause
    /\ limit' = 0 /\ spared' = cleared
    /\ UNCHANGED <<wants, tick, landed, snapshot, rest, circuit, mark, streak, off, bounds>>

\* The provider refuses a session; launches are paused before it is reported.
LimitHit(r) ==
    /\ metered /\ session[r].recorded /\ ~session[r].cancelled /\ ~session[r].limited
    /\ session' = [session EXCEPT ![r].limited = TRUE]
    /\ pause' = Cooldown
    /\ limit' = 0 /\ spared' = cleared
    /\ UNCHANGED <<wants, tick, landed, snapshot, rest, circuit, mark, streak, off, bounds>>

\* The work of a dev agent's session reaches the base branch or the archive.
Lands(d) ==
    /\ d \in Running
    /\ session[d].id \notin landed
    /\ landed' = landed \cup {session[d].id}
    /\ UNCHANGED <<wants, tick, session, snapshot, rest, memory, observed, bounds>>

\* A session that is cancelled while it lands ends as the landing does.
Outcomes(r) ==
    IF session[r].limited THEN {"usage-limited"}
    ELSE IF ~session[r].cancelled THEN {"failed", "completed"}
    ELSE {"cancelled", "failed", "completed"}

\* Mutant: the mark of a session stays behind.
UnmarkedNever(r) == mark

Unmarked(r) == [mark EXCEPT ![r] = None]

Ends(r, outcome) ==
    LET k == session[r].id
    IN  /\ ~Idle(r) /\ ~Ticking /\ outcome \in Outcomes(r)
        /\ outcome = "completed" /\ r \in Devs => k \in landed
        /\ session' = [session EXCEPT ![r] = NoSession]
        /\ snapshot' = Kept(Durable!WithResult(snapshot, r, outcome, 0))
        /\ rest' = [rest EXCEPT ![k] = 0]
        /\ mark' = Unmarked(r)
        /\ off' = [off EXCEPT ![r] = None]
        /\ circuit' = [circuit EXCEPT ![k] = Recorded(@, outcome)]
        /\ streak' = [streak EXCEPT ![k] = IF outcome = "failed" THEN @ + 1
                                           ELSE IF outcome = "completed" THEN 0 ELSE @]
        /\ UNCHANGED <<wants, tick, landed, pause, limit, spared, bounds>>

-----------------------------------------------------------------------------
(* What happens meanwhile.                                                 *)

BoardChanges ==
    /\ changes > 0
    /\ changes' = changes - 1
    /\ \E r \in Roles : \E k \in KeysOf[r] \cup {None} :
          wants[r] # k /\ wants' = [wants EXCEPT ![r] = k]
    /\ UNCHANGED <<tick, landed, session, snapshot, rest, memory, observed, metered, restarts, approvals>>

\* An operator lets a failed key run again.
Approve(k) ==
    /\ approvals > 0 /\ ~Ticking
    /\ approvals' = approvals - 1
    /\ snapshot.history[k].outcome = "failed" /\ k \notin snapshot.approvals
    /\ snapshot' = [snapshot EXCEPT !.approvals = @ \cup {k}]
    /\ UNCHANGED <<wants, tick, landed, session, rest, memory, observed, metered, changes, restarts>>

Later(age, most) == IF age = None THEN None ELSE Min({age + 1, most})

Age ==
    /\ rest' = [k \in Keys |-> Later(rest[k], MaxDelay)]
    /\ pause' = IF pause = 0 THEN 0 ELSE pause - 1
    /\ mark' = [r \in Roles |-> Later(mark[r], Grace)]
    /\ off' = [r \in Roles |-> Later(off[r], Grace)]
    /\ limit' = Later(limit, Cooldown)
    /\ UNCHANGED <<wants, tick, landed, session, snapshot, circuit, streak, spared, bounds>>

\* A tick takes no time: the shortest delay is many times as long.
TimePasses == ~Ticking /\ Age

\* The controller stops when no session runs, and starts again without memory.
Restart ==
    /\ Running = {} /\ read = None /\ ~Ticking /\ restarts > 0
    /\ restarts' = restarts - 1
    /\ circuit' = [k \in Keys |-> NewCircuit]
    /\ pause' = 0
    /\ mark' = [r \in Roles |-> None]
    /\ streak' = [k \in Keys |-> 0]
    /\ limit' = Cooldown
    /\ UNCHANGED <<wants, tick, spared, landed, session, snapshot, rest, off, metered, changes, approvals>>

Init ==
    /\ \E s \in Starts : /\ wants = s.wants /\ metered = s.metered /\ changes = s.changes
                         /\ restarts = s.restarts /\ approvals = s.approvals
    /\ read = None /\ desired = [r \in Roles |-> None] /\ cleared = None
    /\ landed = {}
    /\ session = [r \in Roles |-> NoSession]
    /\ snapshot = Durable!EmptyState
    /\ rest = [k \in Keys |-> MaxDelay]
    /\ circuit = [k \in Keys |-> NewCircuit]
    /\ pause = 0
    /\ mark = [r \in Roles |-> None] /\ off = [r \in Roles |-> None]
    /\ streak = [k \in Keys |-> 0] /\ limit = Cooldown /\ spared = None

Tick == ReadBoard \/ Reconcile \/ \E r \in Roles : Check(r) \/ Launch(r)

Next ==
    \/ Tick
    \/ \E r \in Roles : Records(r) \/ LimitHit(r) \/ \E outcome \in Durable!Outcomes : Ends(r, outcome)
    \/ \E d \in Devs : Lands(d)
    \/ BoardChanges
    \/ \E k \in Keys : Approve(k)
    \/ TimePasses
    \/ Restart

Spec == Init /\ [][Next]_vars

ages == <<rest, pause, mark, off, limit>>

\* The poll loop runs for ever, time passes, and a session that was cancelled
\* or refused by its provider is over soon: its result waits for controllerMu,
\* which is free between any two ticks.
FairSpec ==
    /\ Spec
    /\ WF_tick(Tick)
    /\ WF_ages(Age)
    /\ \A r \in Roles : WF_session(/\ session[r].cancelled \/ session[r].limited
                                   /\ session' = [session EXCEPT ![r] = NoSession])

-----------------------------------------------------------------------------
(* Properties.                                                             *)

Circuit == [state : {"closed", "open", "half-open"}, failures : Nat, cooldown : 0 .. MaxDelay]

\* A circuit is closed below the threshold and not at it, its cooldown is that
\* of the failures it has counted, and only a running session has a mark to be
\* cancelled by (scheduler.go:791-847, session.go:84-90).
TypeOK ==
    /\ snapshot \in Durable!State
    /\ \A k \in Keys : circuit[k] \in Circuit /\ streak[k] = circuit[k].failures
    /\ \A k \in Keys : circuit[k].state = "closed" <=> circuit[k].failures < Threshold
    /\ \A r \in Roles : session[r].id = None => mark[r] = None
    /\ pause \in 0 .. Cooldown

Begins(r) == Idle(r) /\ session'[r] # NoSession

\* A session is cancelled only after every poll of a whole grace period has
\* found that the board does not want it and its task is not done: what an
\* earlier session or an earlier mismatch left behind does not count.
CancelledAfterGrace ==
    [][\A r \in Roles : session'[r].cancelled /\ ~session[r].cancelled =>
          off[r] # None /\ off[r] >= Grace]_vars

\* A failed assignment is not started again within the retry delay, whatever
\* the role has done in between, and also by a controller that is started anew.
RetriesSpaced ==
    [][\A r \in Roles : Begins(r) /\ snapshot.history[session'[r].id].outcome = "failed" =>
          rest[session'[r].id] >= RetryDelay]_vars

\* After so many failures in a row: the base delay, doubled for each that
\* follows, up to the longest delay.
Backoff(n) == IF n < Threshold THEN 0 ELSE Min({BaseDelay * 2 ^ (n - Threshold), MaxDelay})

\* A key that failed time and again is not started within its backoff, unless
\* a probe was let through since and ended without a result.
FailuresBackOff ==
    [][\A r \in Roles : Begins(r) =>
          LET k == session'[r].id
          IN  \/ rest[k] >= Backoff(streak[k])
              \/ snapshot.history[k].outcome \in Durable!Uncounted]_vars

\* While the controller lives, nothing starts for the whole cooldown after any
\* role's session met the usage limit, but for a role that had passed its check
\* of the pause by then: that one alone, and once.
LimitRespected == [][\A r \in Roles : Begins(r) => limit = Cooldown \/ r = spared]_vars

\* What the board keeps asking for is started, unless its lease forbids it:
\* delays, circuits and pauses end, and an unwanted session makes way.
WantedRuns ==
    \A r \in Roles :
        []<>(wants[r] # None /\ Durable!MayLaunch(snapshot, r, wants[r]) => ~Idle(r))

\* A session that the board has stopped asking for is cancelled or ends.
UnwantedStopped ==
    \A d \in Devs :
        []<>(~Idle(d) /\ session[d].id \notin landed \cup {wants[d]} => session[d].cancelled)

-----------------------------------------------------------------------------
(* What a document says, and the code does not do.                         *)

\* The scheduler "independently checks the global pause immediately before
\* launching" (docs/investigations/DOG-06.md:40-42): nothing starts within the
\* cooldown, whenever the limit was met.
PauseHolds == [][\A r \in Roles : Begins(r) => limit = Cooldown]_vars
=============================================================================
