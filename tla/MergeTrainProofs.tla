-------------------------- MODULE MergeTrainProofs --------------------------
(***************************************************************************)
(* Proofs about MergeTrain, for any roles, tasks and edits and any number  *)
(* of failures and crashes: types, and, as long as an agent that lands by  *)
(* itself goes back to its task branch, that nothing it has written is     *)
(* lost, that what the train promises has landed, that what it lands was   *)
(* verified, and that a commit holds the work of one task.                 *)
(***************************************************************************)
EXTENDS MergeTrain, TLAPS

-----------------------------------------------------------------------------
(* The inductive invariant.                                                *)

\* A branch starts on commits the base has, and the branch that is checked out exists.
GoodTip(tip, n) == tip \in Tip \cup {None} /\ (tip # None => tip.on <= n)
GoodWs(w, n) ==
    /\ w \in Workspace
    /\ \A t \in Tasks : GoodTip(w.local[t], n)
    /\ w.head \in Tasks => w.local[w.head] # None

BeforeSync == {"work", "queue", "gate", "zero", "rebase", "publish"}
AfterGate == {"zero", "rebase", "publish", "sync", "push", "archive"}

\* A session works in the branch of its task, or where its agent left HEAD.
InBranch(s, w) ==
    /\ s.pc # "idle" => s.task \in Tasks /\ w.local[s.task] # None
    /\ s.pc \in BeforeSync =>
          w.head = s.task \/ (w.head = "base" /\ "base" \in LeavesHead)

Good(s, w, n) == s \in Session /\ GoodWs(w, n) /\ InBranch(s, w)

Shared ==
    /\ base \in Seq(Commit)
    /\ remote \in [Tasks -> Tip \cup {None}]
    /\ \A t \in Tasks : GoodTip(remote[t], Len(base))
    /\ wip \subseteq Edits /\ archived \subseteq Tasks /\ made \subseteq Edits
    /\ train \in Roles \cup {None}
    /\ faults \in 0 .. MaxFaults /\ crashes \in 0 .. MaxCrashes

TypeInv ==
    /\ Shared
    /\ ws \in [Roles -> Workspace] /\ session \in [Roles -> Session]
    /\ \A r \in Roles : Good(session[r], ws[r], Len(base))

\* What a role has in its files and on its branches, but for a squash commit.
Held(w) == w.dirty \cup UNION {w.local[t].own : t \in {u \in Tasks : w.local[u] # None}}

Kept == made \subseteq Landed \cup wip \cup UNION {Held(ws[r]) : r \in Roles}

Clean(s, w) == s.pc \in AfterGate => w.dirty = {}

\* Where the work that an agent has promised is, while it lands.
Promise(s, w, landed) ==
    /\ s.pc \in {"queue", "gate"} => s.promised \subseteq w.dirty \cup w.local[s.task].own
    /\ s.pc \in {"rebase", "publish", "sync", "push"} =>
          s.promised \subseteq w.local[s.task].own \cup landed
    /\ s.pc = "push" => s.promised \subseteq w.unpushed \cup landed
    /\ s.pc \in {"zero", "archive"} => s.promised \subseteq landed

Verified(s, w) ==
    /\ s.pc \in {"publish", "sync", "push"} => w.local[s.task].own \subseteq s.checked
    /\ s.pc = "push" => w.unpushed \subseteq s.checked

Sound(s, w, landed) == Clean(s, w) /\ Promise(s, w, landed) /\ Verified(s, w)

\* Until the controller dies, what is not on the base branch yet is separated by task.
For(t) == {e \in Edits : AuthorOf[e] = t}

Separate(s, w, landed) ==
    /\ \A t \in Tasks : w.local[t] # None => w.local[t].own \subseteq For(t) \cup landed
    /\ w.head \in Tasks => w.dirty \subseteq For(w.head)
    /\ w.unpushed \subseteq IF s.pc = "push" THEN For(s.task) ELSE {}

Apart ==
    /\ \A i \in 1 .. Len(base) : \E t \in Tasks : base[i].work \subseteq For(t)
    /\ \A t \in Tasks : remote[t] # None => remote[t].own \subseteq For(t) \cup Landed
    /\ \A r \in Roles : Separate(session[r], ws[r], Landed)

ApartInv == crashes = 0 => Apart

-----------------------------------------------------------------------------
(* What the base branch contains.                                          *)

LEMMA ContentType ==
    ASSUME NEW b \in Seq(Commit), NEW n \in Nat, n <= Len(b)
    PROVE  Content(b, n) \subseteq Edits /\ Content(b, n) \subseteq Content(b, Len(b))
<1>1. 1 .. n \subseteq 1 .. Len(b)
  OBVIOUS
<1>2. \A i \in 1 .. n : b[i].work \subseteq Edits
  <2>1. \A i \in 1 .. n : b[i] \in Commit
    BY <1>1
  <2> QED
    BY <2>1 DEF Commit
<1>3. ASSUME NEW e \in Content(b, n) PROVE e \in Edits /\ e \in Content(b, Len(b))
  <2>1. PICK i \in 1 .. n : e \in b[i].work
    BY <1>3 DEF Content
  <2>2. e \in Edits
    BY <1>2, <2>1
  <2>3. e \in Content(b, Len(b))
    BY <1>1, <2>1 DEF Content
  <2> QED
    BY <2>2, <2>3
<1> QED
  BY <1>3

LEMMA ContentGrows ==
    ASSUME NEW b \in Seq(Commit), NEW c \in Commit
    PROVE  /\ Append(b, c) \in Seq(Commit) /\ Len(Append(b, c)) = Len(b) + 1
           /\ \A n \in 0 .. Len(b) : Content(Append(b, c), n) = Content(b, n)
           /\ Content(Append(b, c), Len(Append(b, c))) = Content(b, Len(b)) \cup c.work
<1> DEFINE a == Append(b, c)
<1>1. /\ a \in Seq(Commit) /\ Len(a) = Len(b) + 1 /\ Len(b) \in Nat
      /\ \A i \in 1 .. Len(b) : a[i] = b[i]
      /\ a[Len(b) + 1] = c
  OBVIOUS
<1> HIDE DEF a
<1>2. \A n \in 0 .. Len(b) : Content(a, n) = Content(b, n)
  <2> SUFFICES ASSUME NEW n \in 0 .. Len(b) PROVE Content(a, n) = Content(b, n)
    OBVIOUS
  <2>1. \A i \in 1 .. n : a[i].work = b[i].work
    BY <1>1
  <2> QED
    BY <2>1 DEF Content
<1>3. Content(a, Len(a)) = Content(b, Len(b)) \cup c.work
  <2>1. 1 .. Len(a) = (1 .. Len(b)) \cup {Len(b) + 1}
    BY <1>1
  <2>2. \A i \in 1 .. Len(b) : a[i].work = b[i].work
    BY <1>1
  <2>3. a[Len(b) + 1].work = c.work
    BY <1>1
  <2> QED
    BY <2>1, <2>2, <2>3 DEF Content
<1> QED
  BY <1>1, <1>2, <1>3 DEF a

-----------------------------------------------------------------------------
(* What git does to a workspace.                                           *)

LEMMA GoodTipGrows ==
    ASSUME NEW m \in Nat, NEW n \in Nat, m <= n, NEW tip, GoodTip(tip, m)
    PROVE  GoodTip(tip, n)
BY DEF GoodTip, Tip

LEMMA GoodWsGrows ==
    ASSUME NEW m \in Nat, NEW n \in Nat, m <= n, NEW w, GoodWs(w, m)
    PROVE  GoodWs(w, n)
BY GoodTipGrows DEF GoodWs

\* The parts of a workspace.
LEMMA WsParts ==
    ASSUME NEW n \in Nat, NEW w, GoodWs(w, n)
    PROVE  /\ w = [head |-> w.head, dirty |-> w.dirty, unpushed |-> w.unpushed, local |-> w.local]
           /\ w.head \in Heads /\ w.dirty \subseteq Edits /\ w.unpushed \subseteq Edits
           /\ w.local \in [Tasks -> Tip \cup {None}]
           /\ OnHead(w) \subseteq Edits
<1>1. w \in Workspace
  BY DEF GoodWs
<1>2. w.head \in Tasks => w.local[w.head].own \subseteq Edits
  BY <1>1 DEF GoodWs, Workspace, Tip
<1> QED
  BY <1>1, <1>2 DEF Workspace, OnHead

LEMMA Checkpoints ==
    ASSUME NEW n \in Nat, NEW w, GoodWs(w, n)
    PROVE  /\ GoodWs(Checkpointed(w), n) /\ Checkpoint(w) \subseteq Edits
           /\ Checkpointed(w).dirty = {} /\ Checkpointed(w).local = w.local
           /\ Checkpointed(w).unpushed = w.unpushed
           /\ w.dirty \subseteq Checkpoint(w)
<1>1. CASE w.dirty = {}
  BY <1>1 DEF Checkpointed, Checkpoint
<1>2. CASE w.dirty # {}
  <2> DEFINE c == [head |-> "wip", dirty |-> {}, unpushed |-> w.unpushed, local |-> w.local]
  <2>1. Checkpointed(w) = c
    <3>1. w \in Workspace
      BY DEF GoodWs
    <3> QED
      BY <1>2, <3>1 DEF Checkpointed, Workspace
  <2>2. GoodWs(c, n)
    <3>1. c \in Workspace
      BY WsParts DEF Workspace, Heads
    <3>2. c.local = w.local /\ c.head \notin Tasks
      BY TasksAreNoBranches
    <3> HIDE DEF c
    <3> QED
      BY <3>1, <3>2 DEF GoodWs
  <2> QED
    BY <1>2, <2>1, <2>2, WsParts DEF Checkpoint
<1> QED
  BY <1>1, <1>2

LEMMA PulledTip ==
    ASSUME NEW b \in Seq(Commit), NEW tip \in Tip, NEW remote_ \in Tip,
           tip.on <= Len(b), remote_.on <= Len(b)
    PROVE  /\ Pulled(b, tip, remote_) \in Tip /\ Pulled(b, tip, remote_).on = remote_.on
           /\ remote_.own \subseteq Pulled(b, tip, remote_).own
           /\ tip.own \ Content(b, Len(b)) \subseteq Pulled(b, tip, remote_).own
           /\ Pulled(b, tip, remote_).own \subseteq remote_.own \cup tip.own \cup Content(b, Len(b))
<1> DEFINE p == Pulled(b, tip, remote_)
<1>1. tip.on \in Nat /\ remote_.on \in Nat /\ tip.own \subseteq Edits /\ remote_.own \subseteq Edits
  BY DEF Tip
<1>2. /\ Content(b, tip.on) \subseteq Edits /\ Content(b, tip.on) \subseteq Content(b, Len(b))
      /\ Content(b, remote_.on) \subseteq Content(b, Len(b))
  BY <1>1, ContentType
<1>3. /\ p.on = remote_.on
      /\ p.own = remote_.own \cup ((Content(b, tip.on) \cup tip.own) \ Content(b, remote_.on))
      /\ p.subject \in {"other", "lower"}
      /\ p = [on |-> p.on, own |-> p.own, subject |-> p.subject]
  BY DEF Pulled, Tip
<1>4. p.own \subseteq Edits
  BY <1>1, <1>2, <1>3
<1>5. p \in Tip
  BY <1>1, <1>3, <1>4 DEF Tip
<1> HIDE DEF p
<1>6. /\ remote_.own \subseteq p.own /\ tip.own \ Content(b, Len(b)) \subseteq p.own
      /\ p.own \subseteq remote_.own \cup tip.own \cup Content(b, Len(b))
  BY <1>2, <1>3
<1> QED
  BY <1>3, <1>5, <1>6 DEF p

LEMMA Checkouts ==
    ASSUME NEW b \in Seq(Commit), NEW w, GoodWs(w, Len(b)), NEW t \in Tasks,
           NEW remote_, GoodTip(remote_, Len(b)),
           NEW c, c = CheckedOut(b, w, t, remote_)
    PROVE  /\ GoodWs(c, Len(b)) /\ c.head = t /\ c.local[t] # None
           /\ c.dirty = w.dirty /\ c.unpushed \subseteq w.unpushed
           /\ \A u \in Tasks \ {t} : c.local[u] = w.local[u]
           /\ w.local[t] # None => w.local[t].own \ Content(b, Len(b)) \subseteq c.local[t].own
           /\ \A e \in c.local[t].own :
                 \/ e \in Content(b, Len(b)) \cup w.unpushed
                 \/ remote_ # None /\ e \in remote_.own
                 \/ w.local[t] # None /\ e \in w.local[t].own
<1> DEFINE left == w.unpushed \ Content(b, Len(b))
           new == [on |-> Len(b), own |-> left, subject |-> "other"]
           tip == w.local[t]
<1>1. /\ w = [head |-> w.head, dirty |-> w.dirty, unpushed |-> w.unpushed, local |-> w.local]
      /\ w.dirty \subseteq Edits /\ w.unpushed \subseteq Edits
      /\ w.local \in [Tasks -> Tip \cup {None}]
  <2>1. Len(b) \in Nat
    OBVIOUS
  <2> QED
    BY <2>1, WsParts
<1>2. PICK x \in Tip, left_ \in SUBSET w.unpushed :
        /\ c = [head |-> t, dirty |-> w.dirty, unpushed |-> left_,
                local |-> [w.local EXCEPT ![t] = x]]
        /\ x.on <= Len(b)
        /\ tip # None => tip.own \ Content(b, Len(b)) \subseteq x.own
        /\ \A e \in x.own : \/ e \in Content(b, Len(b)) \cup w.unpushed
                            \/ remote_ # None /\ e \in remote_.own
                            \/ tip # None /\ e \in tip.own
  <2>1. CASE tip # None /\ remote_ # None
    <3> DEFINE x == Pulled(b, tip, remote_)
    <3>1. tip \in Tip /\ remote_ \in Tip /\ tip.on <= Len(b) /\ remote_.on <= Len(b)
      BY <2>1, <1>1 DEF GoodWs, GoodTip
    <3>2. /\ x \in Tip /\ x.on <= Len(b)
          /\ tip.own \ Content(b, Len(b)) \subseteq x.own
          /\ x.own \subseteq remote_.own \cup tip.own \cup Content(b, Len(b))
      BY <3>1, PulledTip
    <3>3. c = [w EXCEPT !.head = t, !.local[t] = x]
      BY <2>1 DEF CheckedOut
    <3> HIDE DEF x
    <3>4. c = [head |-> t, dirty |-> w.dirty, unpushed |-> w.unpushed,
               local |-> [w.local EXCEPT ![t] = x]]
      BY <1>1, <3>3
    <3> QED
      BY <2>1, <3>2, <3>4
  <2>2. CASE tip # None /\ remote_ = None
    <3>1. tip \in Tip /\ tip.on <= Len(b)
      BY <2>2, <1>1 DEF GoodWs, GoodTip
    <3>2. c = [w EXCEPT !.head = t]
      BY <2>2 DEF CheckedOut
    <3>3. w.local = [w.local EXCEPT ![t] = tip]
      BY <1>1
    <3>4. c = [head |-> t, dirty |-> w.dirty, unpushed |-> w.unpushed,
               local |-> [w.local EXCEPT ![t] = tip]]
      BY <1>1, <3>2, <3>3
    <3> QED
      BY <2>2, <3>1, <3>4
  <2>3. CASE tip = None /\ remote_ # None
    <3>1. remote_ \in Tip /\ remote_.on <= Len(b)
      BY <2>3 DEF GoodTip
    <3>2. c = [w EXCEPT !.head = t, !.local[t] = remote_]
      BY <2>3 DEF CheckedOut
    <3>3. c = [head |-> t, dirty |-> w.dirty, unpushed |-> w.unpushed,
               local |-> [w.local EXCEPT ![t] = remote_]]
      BY <1>1, <3>2
    <3> QED
      BY <2>3, <3>1, <3>3
  <2>4. CASE tip = None /\ remote_ = None
    <3>1. Len(b) \in Nat /\ left \subseteq Edits /\ left \subseteq w.unpushed
      BY <1>1
    <3>2. new \in Tip
      BY <3>1 DEF Tip
    <3>3. c = [w EXCEPT !.head = t, !.unpushed = left, !.local[t] = new]
      BY <2>4 DEF CheckedOut
    <3>4. new.on <= Len(b) /\ new.own \subseteq w.unpushed
      BY <3>1
    <3> HIDE DEF new, left
    <3>5. c = [head |-> t, dirty |-> w.dirty, unpushed |-> left,
               local |-> [w.local EXCEPT ![t] = new]]
      BY <1>1, <3>3
    <3> QED
      BY <2>4, <3>1, <3>2, <3>4, <3>5
  <2> QED
    BY <2>1, <2>2, <2>3, <2>4
<1>3. x # None
  BY NoneIsNoTask
<1>4. /\ c.head = t /\ c.dirty = w.dirty /\ c.unpushed \subseteq w.unpushed
      /\ c.local[t] = x /\ \A u \in Tasks \ {t} : c.local[u] = w.local[u]
  BY <1>1, <1>2
<1>5. c \in Workspace
  BY <1>1, <1>2 DEF Workspace, Heads
<1>6. GoodWs(c, Len(b))
  BY <1>2, <1>3, <1>4, <1>5 DEF GoodWs, GoodTip
<1> QED
  BY <1>2, <1>3, <1>4, <1>6

LEMMA Commits ==
    ASSUME NEW n \in Nat, NEW w, GoodWs(w, n), NEW subject \in {"other", "lower"},
           w.head \in Tasks \cup {"base"}, NEW c, c = Committed(w, subject)
    PROVE  /\ GoodWs(c, n) /\ c.head = w.head /\ c.dirty = {}
           /\ \A t \in Tasks : w.local[t] # None => /\ c.local[t] # None
                                                   /\ w.local[t].own \subseteq c.local[t].own
                                                   /\ w.local[t].on = c.local[t].on
           /\ w.head \in Tasks => /\ c.unpushed = w.unpushed
                                  /\ c.local[w.head].own = w.local[w.head].own \cup w.dirty
           /\ \A t \in Tasks : w.head # t => c.local[t] = w.local[t]
<1>1. /\ w = [head |-> w.head, dirty |-> w.dirty, unpushed |-> w.unpushed, local |-> w.local]
      /\ w.head \in Heads /\ w.dirty \subseteq Edits /\ w.unpushed \subseteq Edits
      /\ w.local \in [Tasks -> Tip \cup {None}]
  BY WsParts
<1>2. CASE w.head = "base"
  <2>1. c = [head |-> "base", dirty |-> {}, unpushed |-> w.unpushed \cup w.dirty, local |-> w.local]
    BY <1>1, <1>2 DEF Committed
  <2>2. c \in Workspace
    BY <1>1, <2>1 DEF Workspace, Heads
  <2>3. "base" \notin Tasks
    BY TasksAreNoBranches
  <2> QED
    BY <1>2, <2>1, <2>2, <2>3 DEF GoodWs
<1>3. CASE w.head \in Tasks
  <2> DEFINE h == w.head
             x == [on |-> w.local[h].on, own |-> w.local[h].own \cup w.dirty, subject |-> subject]
  <2>1. w.local[h] \in Tip /\ w.local[h].on <= n
    BY <1>1, <1>3 DEF GoodWs, GoodTip
  <2>2. x \in Tip /\ x # None
    BY <1>1, <2>1, NoneIsNoTask DEF Tip
  <2>3. h # "base"
    BY <1>3, TasksAreNoBranches
  <2> DEFINE y == [w.local EXCEPT ![h].own = @ \cup w.dirty]
             z == [y EXCEPT ![h].subject = subject]
  <2>5. z = [w.local EXCEPT ![h] = x]
    <3>1. y[h] = [w.local[h] EXCEPT !.own = @ \cup w.dirty]
      BY <1>1, <1>3
    <3>2. z[h] = x
      BY <1>1, <1>3, <2>1, <3>1 DEF Tip
    <3>3. DOMAIN z = Tasks /\ \A t \in Tasks \ {h} : z[t] = w.local[t]
      BY <1>1, <1>3
    <3> QED
      BY <1>1, <1>3, <3>2, <3>3
  <2>6. c = [head |-> h, dirty |-> {}, unpushed |-> w.unpushed, local |-> [w.local EXCEPT ![h] = x]]
    <3>1. c = [w EXCEPT !.local[w.head].own = @ \cup w.dirty,
                        !.local[w.head].subject = subject, !.dirty = {}]
      BY <2>3 DEF Committed
    <3>2. c = [head |-> h, dirty |-> {}, unpushed |-> w.unpushed, local |-> z]
      BY <1>1, <3>1
    <3> QED
      BY <2>5, <3>2
  <2> HIDE DEF x
  <2>7. c.local[h] = x /\ \A t \in Tasks \ {h} : c.local[t] = w.local[t]
    BY <1>1, <1>3, <2>6
  <2>8. c \in Workspace
    BY <1>1, <1>3, <2>2, <2>6 DEF Workspace
  <2>9. /\ x.on <= n /\ x.on = w.local[h].on
        /\ x.own = w.local[h].own \cup w.dirty
    BY <2>1 DEF x
  <2> QED
    BY <1>3, <2>2, <2>6, <2>7, <2>8, <2>9 DEF GoodWs, GoodTip
<1> QED
  BY <1>2, <1>3

LEMMA Rebases ==
    ASSUME NEW b \in Seq(Commit), NEW w, GoodWs(w, Len(b)),
           w.head \in Tasks \cup {"base"}, NEW c, c = Rebased(b, w, Len(b))
    PROVE  /\ GoodWs(c, Len(b)) /\ c.head = w.head /\ c.dirty = w.dirty
           /\ \A t \in Tasks : w.local[t] # None => c.local[t] # None
           /\ w.head \in Tasks =>
                 /\ c.unpushed = w.unpushed
                 /\ c.local[w.head].own = w.local[w.head].own \ Content(b, Len(b))
           /\ \A t \in Tasks : w.head # t => c.local[t] = w.local[t]
<1> DEFINE n == Len(b)
           landed == Content(b, n)
<1>0. n \in Nat
  OBVIOUS
<1>1. /\ w = [head |-> w.head, dirty |-> w.dirty, unpushed |-> w.unpushed, local |-> w.local]
      /\ w.head \in Heads /\ w.dirty \subseteq Edits /\ w.unpushed \subseteq Edits
      /\ w.local \in [Tasks -> Tip \cup {None}]
  BY <1>0, WsParts
<1>2. CASE w.head = "base"
  <2>1. c = [head |-> "base", dirty |-> w.dirty, unpushed |-> w.unpushed \ landed,
             local |-> w.local]
    BY <1>1, <1>2 DEF Rebased
  <2> HIDE DEF landed
  <2>2. c \in Workspace
    BY <1>1, <2>1 DEF Workspace, Heads
  <2>3. "base" \notin Tasks
    BY TasksAreNoBranches
  <2> QED
    BY <1>2, <2>1, <2>2, <2>3 DEF GoodWs
<1>3. CASE w.head \in Tasks
  <2> DEFINE h == w.head
             x == [on |-> n, own |-> w.local[h].own \ landed, subject |-> w.local[h].subject]
             y == [w.local EXCEPT ![h].on = n]
             z == [y EXCEPT ![h].own = @ \ landed]
  <2>1. w.local[h] \in Tip
    BY <1>1, <1>3 DEF GoodWs, GoodTip
  <2>2. x \in Tip /\ x # None
    BY <1>0, <2>1, NoneIsNoTask DEF Tip
  <2>3. h # "base"
    BY <1>3, TasksAreNoBranches
  <2>4. z = [w.local EXCEPT ![h] = x]
    <3>1. y[h] = [w.local[h] EXCEPT !.on = n]
      BY <1>1, <1>3
    <3> HIDE DEF landed
    <3>2. z[h] = x
      BY <1>1, <1>3, <2>1, <3>1 DEF Tip
    <3>3. DOMAIN z = Tasks /\ \A t \in Tasks \ {h} : z[t] = w.local[t]
      BY <1>1, <1>3
    <3> QED
      BY <1>1, <1>3, <3>2, <3>3
  <2>5. c = [head |-> h, dirty |-> w.dirty, unpushed |-> w.unpushed,
             local |-> [w.local EXCEPT ![h] = x]]
    <3>1. c = [w EXCEPT !.local[w.head].on = n, !.local[w.head].own = @ \ landed]
      BY <2>3 DEF Rebased
    <3> DEFINE a == [w EXCEPT !.local[w.head].on = n]
               d == [a EXCEPT !.local[w.head].own = @ \ landed]
    <3>2. a = [head |-> h, dirty |-> w.dirty, unpushed |-> w.unpushed, local |-> y]
      BY <1>1
    <3>3. d = [head |-> h, dirty |-> w.dirty, unpushed |-> w.unpushed, local |-> z]
      <4> HIDE DEF a, y, landed
      <4> QED
        BY <3>2
    <3>4. c = d
      <4>1. a.local[h].own = w.local[h].own
        BY <1>1, <1>3, <2>1, <3>2 DEF Tip
      <4> HIDE DEF landed
      <4> QED
        BY <3>1, <4>1
    <3> QED
      BY <2>4, <3>3, <3>4
  <2>6. x.on = n /\ x.own = w.local[h].own \ landed /\ n <= n
    BY <1>0
  <2> HIDE DEF x, landed
  <2>7. c.local[h] = x /\ \A t \in Tasks \ {h} : c.local[t] = w.local[t]
    BY <1>1, <1>3, <2>5
  <2>8. c \in Workspace
    BY <1>1, <1>3, <2>2, <2>5 DEF Workspace
  <2> QED
    BY <1>3, <2>2, <2>5, <2>6, <2>7, <2>8 DEF GoodWs, GoodTip, landed
<1> QED
  BY <1>2, <1>3

LEMMA ResetParts ==
    ASSUME NEW w, w \in Workspace
    PROVE  ResetToOrigin(w) = [head |-> "base", dirty |-> {}, unpushed |-> {}, local |-> w.local]
<1> DEFINE a == [w EXCEPT !.head = "base"]
           b == [a EXCEPT !.dirty = {}]
           c == [b EXCEPT !.unpushed = {}]
<1>1. a = [head |-> "base", dirty |-> w.dirty, unpushed |-> w.unpushed, local |-> w.local]
  BY DEF Workspace
<1> HIDE DEF a
<1>2. b = [head |-> "base", dirty |-> {}, unpushed |-> w.unpushed, local |-> w.local]
  BY <1>1
<1> HIDE DEF b
<1>3. c = [head |-> "base", dirty |-> {}, unpushed |-> {}, local |-> w.local]
  BY <1>2
<1>4. ResetToOrigin(w) = c
  BY DEF ResetToOrigin, a, b
<1> QED
  BY <1>3, <1>4

\* A workspace after the squash, before the push.
Staged(w, left) == [ResetToOrigin(w) EXCEPT !.unpushed = @ \cup left]

LEMMA Resets ==
    ASSUME NEW n \in Nat, NEW w, GoodWs(w, n), NEW left \in SUBSET Edits
    PROVE  LET c == Staged(w, left) IN
           /\ GoodWs(c, n) /\ c.head = "base" /\ c.dirty = {} /\ c.local = w.local
           /\ c.unpushed = left
           /\ GoodWs(ResetToOrigin(w), n) /\ ResetToOrigin(w).local = w.local
           /\ ResetToOrigin(w).head = "base"
           /\ ResetToOrigin(w).dirty = {} /\ ResetToOrigin(w).unpushed = {}
<1> DEFINE c == Staged(w, left)
           reset == [head |-> "base", dirty |-> {}, unpushed |-> {}, local |-> w.local]
<1>1. /\ w = [head |-> w.head, dirty |-> w.dirty, unpushed |-> w.unpushed, local |-> w.local]
      /\ w.local \in [Tasks -> Tip \cup {None}]
  BY WsParts
<1>2. ResetToOrigin(w) = reset
  BY ResetParts DEF GoodWs
<1>3. c = [head |-> "base", dirty |-> {}, unpushed |-> left, local |-> w.local]
  <2>1. c = [reset EXCEPT !.unpushed = @ \cup left]
    BY <1>2 DEF Staged
  <2>2. {} \cup left = left
    OBVIOUS
  <2> QED
    BY <2>1, <2>2
<1>4. c \in Workspace /\ reset \in Workspace
  <2>1. ASSUME NEW u \in SUBSET Edits
        PROVE  [head |-> "base", dirty |-> {}, unpushed |-> u, local |-> w.local] \in Workspace
    BY <1>1 DEF Workspace, Heads
  <2>2. {} \in SUBSET Edits
    OBVIOUS
  <2> QED
    BY <1>3, <2>1, <2>2
<1>5. "base" \notin Tasks
  BY TasksAreNoBranches
<1> QED
  BY <1>2, <1>3, <1>4, <1>5 DEF GoodWs

\* Nothing but HEAD changes when another branch is checked out.
LEMMA Switches ==
    ASSUME NEW n \in Nat, NEW w, GoodWs(w, n), NEW h \in Heads,
           h \in Tasks => w.local[h] # None
    PROVE  LET c == [w EXCEPT !.head = h]
           IN  /\ GoodWs(c, n) /\ c.head = h /\ c.dirty = w.dirty /\ c.unpushed = w.unpushed
               /\ c.local = w.local
<1> DEFINE c == [w EXCEPT !.head = h]
<1>1. w \in Workspace
  BY DEF GoodWs
<1>2. c \in Workspace /\ c.head = h /\ c.dirty = w.dirty /\ c.unpushed = w.unpushed
      /\ c.local = w.local
  BY <1>1 DEF Workspace
<1> HIDE DEF c
<1>3. GoodWs(c, n)
  BY <1>2 DEF GoodWs
<1> QED
  BY <1>2, <1>3 DEF c

-----------------------------------------------------------------------------
(* Types.                                                                  *)

LEMMA TypesHold == TypeInv => TypeOK
BY DEF TypeInv, Shared, TypeOK

\* A step of one session: its workspace and its place are good afterwards.
LEMMA RoleStep ==
    ASSUME TypeInv, NEW r \in Roles, NEW w, NEW s,
           Shared', Len(base) <= Len(base'), Good(s, w, Len(base')),
           ws' = [ws EXCEPT ![r] = w], session' = [session EXCEPT ![r] = s]
    PROVE  TypeInv'
<1>1. Len(base) \in Nat /\ Len(base') \in Nat
  BY DEF TypeInv, Shared
<1>2. \A q \in Roles : Good(session[q], ws[q], Len(base'))
  BY <1>1, GoodWsGrows DEF TypeInv, Good
<1>3. w \in Workspace /\ s \in Session
  BY DEF Good, GoodWs
<1>4. ws' \in [Roles -> Workspace] /\ session' \in [Roles -> Session]
  BY <1>3 DEF TypeInv
<1>5. ASSUME NEW q \in Roles PROVE Good(session'[q], ws'[q], Len(base'))
  <2>1. CASE q = r
    BY <2>1 DEF TypeInv
  <2>2. CASE q # r
    BY <1>2, <2>2 DEF TypeInv
  <2> QED
    BY <2>1, <2>2
<1> QED
  BY <1>4, <1>5 DEF TypeInv

LEMMA Parts ==
    ASSUME TypeInv, NEW r \in Roles
    PROVE  /\ Len(base) \in Nat /\ base \in Seq(Commit)
           /\ session[r] \in Session /\ GoodWs(ws[r], Len(base)) /\ InBranch(session[r], ws[r])
           /\ ws[r] \in Workspace
           /\ ws = [ws EXCEPT ![r] = ws[r]] /\ session = [session EXCEPT ![r] = session[r]]
           /\ \A s : [session EXCEPT ![r] = s][r] = s
           /\ \A w : [ws EXCEPT ![r] = w][r] = w
BY DEF TypeInv, Shared, Good

LEMMA IdleSession ==
    ASSUME NEW w, NEW n \in Nat, GoodWs(w, n)
    PROVE  Good(Idle, w, n)
BY DEF Good, InBranch, Idle, Session, States, BeforeSync

\* The session goes on, elsewhere.
LEMMA Goes ==
    ASSUME NEW s \in Session, NEW pc \in States
    PROVE  [s EXCEPT !.pc = pc] \in Session
BY DEF Session

LEMMA FaultTypes == TypeInv /\ Fault => faults' \in 0 .. MaxFaults
BY BoundsAssumption DEF TypeInv, Shared, Fault

LEMMA InitTypes == Init => TypeInv
<1> SUFFICES ASSUME Init PROVE TypeInv
  OBVIOUS
<1>1. Shared
  BY BoundsAssumption DEF Init, Shared, GoodTip
<1> DEFINE w == [head |-> "base", dirty |-> {}, unpushed |-> {}, local |-> [t \in Tasks |-> None]]
<1>2. GoodWs(w, 0)
  BY TasksAreNoBranches DEF GoodWs, Workspace, Heads, GoodTip
<1>3. Good(Idle, w, 0) /\ Idle \in Session /\ w \in Workspace
  BY <1>2, IdleSession DEF Good, GoodWs
<1> HIDE DEF w
<1>4. Len(base) = 0 /\ ws = [r \in Roles |-> w] /\ session = [r \in Roles |-> Idle]
  BY DEF Init, w
<1> QED
  BY <1>1, <1>3, <1>4 DEF TypeInv

LEMMA StartTypes ==
    ASSUME TypeInv, NEW r \in Roles, NEW t \in Tasks, Start(r, t)
    PROVE  TypeInv'
<1> DEFINE w == ws[r]
           saved == Checkpointed(w)
           ready == IF w.head = t THEN w ELSE CheckedOut(base, saved, t, remote[t])
           s == [Idle EXCEPT !.pc = "work", !.task = t,
                             !.origin = Len(base), !.tracked = remote'[t]]
<1>1. Len(base) \in Nat /\ base \in Seq(Commit) /\ GoodWs(w, Len(base)) /\ GoodTip(remote[t], Len(base))
  BY Parts DEF TypeInv, Shared
<1>2. GoodWs(saved, Len(base)) /\ Checkpoint(w) \subseteq Edits
  BY <1>1, Checkpoints
<1>3. GoodWs(ready, Len(base)) /\ ready.head = t /\ ready.local[t] # None
  <2>1. CASE w.head = t
    BY <1>1, <2>1 DEF GoodWs
  <2>2. CASE w.head # t
    BY <1>1, <1>2, <2>2, Checkouts
  <2> QED
    BY <2>1, <2>2
<1>4. GoodTip(ready.local[t], Len(base))
  BY <1>3 DEF GoodWs
<1> HIDE DEF ready
<1>5. /\ remote' = IF w.head # t /\ remote[t] = None
                   THEN [remote EXCEPT ![t] = ready.local[t]] ELSE remote
      /\ wip' \subseteq Edits
      /\ ws' = [ws EXCEPT ![r] = ready] /\ session' = [session EXCEPT ![r] = s]
      /\ UNCHANGED <<base, train, archived, made, faults, crashes>>
  BY <1>2 DEF Start, SetWs, ready, bounds, TypeInv, Shared
<1>6. Shared'
  BY <1>4, <1>5 DEF TypeInv, Shared, GoodTip
<1>7. s \in Session /\ s.pc = "work" /\ s.task = t
  BY <1>1, <1>6 DEF Session, Idle, States, Shared
<1> HIDE DEF s
<1>8. Good(s, ready, Len(base'))
  BY <1>3, <1>5, <1>7 DEF Good, InBranch, AfterGate
<1>9. Len(base) <= Len(base')
  BY <1>1, <1>5
<1> QED
  BY <1>5, <1>6, <1>8, <1>9, RoleStep

LEMMA StartFailsTypes ==
    ASSUME TypeInv, NEW r \in Roles, NEW t \in Tasks, StartFails(r, t)
    PROVE  TypeInv'
<1> DEFINE w == ws[r]
           saved == Checkpointed(w)
           n == Len(base)
<1>1. n \in Nat /\ base \in Seq(Commit) /\ GoodWs(w, n) /\ session[r] \in Session
  BY Parts
<1>2. GoodWs(saved, n) /\ Checkpoint(w) \subseteq Edits
  BY <1>1, Checkpoints
<1>3. Heads = Tasks \cup {"base", "wip"} /\ "base" \notin Tasks /\ "wip" \notin Tasks
  BY TasksAreNoBranches DEF Heads
<1>4. PICK x : ws' = [ws EXCEPT ![r] = x] /\ GoodWs(x, n)
  <2>1. CASE SetWs(r, [w EXCEPT !.head = "wip"])
    <3>1. GoodWs([w EXCEPT !.head = "wip"], n)
      BY <1>1, <1>3, Switches
    <3> QED
      BY <2>1, <3>1 DEF SetWs
  <2>2. CASE SetWs(r, saved)
    BY <1>2, <2>2 DEF SetWs
  <2>3. CASE saved.local[t] # None /\ SetWs(r, [saved EXCEPT !.head = t])
    <3>1. GoodWs([saved EXCEPT !.head = t], n)
      BY <1>1, <1>2, <1>3, <2>3, Switches
    <3> QED
      BY <2>3, <3>1 DEF SetWs
  <2>4. CASE SetWs(r, CheckedOut(base, saved, t, None))
    <3>1. GoodTip(None, n)
      BY DEF GoodTip
    <3> QED
      <4>1. GoodWs(CheckedOut(base, saved, t, None), n)
        BY <1>1, <1>2, <3>1, Checkouts
      <4> QED
        BY <2>4, <4>1 DEF SetWs
  <2>5. CASE SetWs(r, [saved EXCEPT !.head = "base"])
    <3>1. GoodWs([saved EXCEPT !.head = "base"], n)
      BY <1>1, <1>2, <1>3, Switches
    <3> QED
      BY <2>5, <3>1 DEF SetWs
  <2> QED
    BY <2>1, <2>2, <2>3, <2>4, <2>5 DEF StartFails
<1>5. Shared' /\ base' = base /\ UNCHANGED session
  <2>1. wip' \subseteq Edits
    BY <1>2 DEF StartFails, TypeInv, Shared
  <2>2. UNCHANGED <<base, remote, session, train, archived, made, crashes>> /\ Fault
    BY DEF StartFails
  <2> QED
    BY <2>1, <2>2, FaultTypes DEF TypeInv, Shared
<1>6. session' = [session EXCEPT ![r] = session[r]]
  BY <1>5, Parts
<1>7. Good(session[r], x, Len(base'))
  BY <1>1, <1>4, <1>5 DEF StartFails, At, Good, InBranch, BeforeSync
<1>8. Len(base) <= Len(base')
  BY <1>1, <1>5
<1> QED
  BY <1>4, <1>5, <1>6, <1>7, <1>8, RoleStep

\* A step that leaves the base branch and every workspace alone.
LEMMA SessionStep ==
    ASSUME TypeInv, NEW r \in Roles, NEW s \in Session, Shared', UNCHANGED <<base, ws>>,
           session' = [session EXCEPT ![r] = s], InBranch(s, ws[r])
    PROVE  TypeInv'
<1>1. Good(s, ws[r], Len(base')) /\ Len(base) <= Len(base')
  BY Parts DEF Good
<1>2. ws' = [ws EXCEPT ![r] = ws[r]]
  BY Parts
<1> QED
  BY <1>1, <1>2, RoleStep

\* A step that leaves the base branch alone, and the session in its branch.
LEMMA FilesStep ==
    ASSUME TypeInv, NEW r \in Roles, NEW s \in Session, NEW w, Shared', UNCHANGED base,
           ws' = [ws EXCEPT ![r] = w], GoodWs(w, Len(base)),
           session' = [session EXCEPT ![r] = s], InBranch(s, w)
    PROVE  TypeInv'
<1>1. Good(s, w, Len(base')) /\ Len(base) <= Len(base')
  BY Parts DEF Good
<1> QED
  BY <1>1, RoleStep

LEMMA AgentTypes ==
    ASSUME TypeInv, NEW r \in Roles,
           \/ \E e \in Edits : Edit(r, e)
           \/ \E subject \in Subjects : AgentCommits(r, subject)
    PROVE  TypeInv'
<1> DEFINE w == ws[r]
           n == Len(base)
<1>1. n \in Nat /\ GoodWs(w, n) /\ w \in Workspace /\ InBranch(session[r], w)
      /\ session[r] \in Session
  BY Parts
<1>2. PICK x : /\ ws' = [ws EXCEPT ![r] = x] /\ GoodWs(x, n)
               /\ x.head = w.head /\ \A t \in Tasks : w.local[t] # None => x.local[t] # None
  <2>1. ASSUME NEW e \in Edits, Edit(r, e)
        PROVE  \E x : /\ ws' = [ws EXCEPT ![r] = x] /\ GoodWs(x, n)
                      /\ x.head = w.head /\ \A t \in Tasks : w.local[t] # None => x.local[t] # None
    <3> DEFINE x == [w EXCEPT !.dirty = @ \cup {e}]
    <3>1. x \in Workspace /\ x.head = w.head /\ x.local = w.local
      BY <1>1 DEF Workspace
    <3>2. ws' = [ws EXCEPT ![r] = x]
      BY <2>1 DEF Edit, SetWs
    <3> HIDE DEF x
    <3>3. GoodWs(x, n)
      BY <1>1, <3>1 DEF GoodWs
    <3> QED
      BY <3>1, <3>2, <3>3
  <2>2. ASSUME NEW subject \in Subjects, AgentCommits(r, subject)
        PROVE  \E x : /\ ws' = [ws EXCEPT ![r] = x] /\ GoodWs(x, n)
                      /\ x.head = w.head /\ \A t \in Tasks : w.local[t] # None => x.local[t] # None
    <3> DEFINE x == Committed(w, subject)
    <3>1. w.head \in Tasks \cup {"base"} /\ subject \in {"other", "lower"}
      BY <1>1, <2>2, SubjectsAssumption DEF AgentCommits, At, InBranch, TaskOf
    <3>2. ws' = [ws EXCEPT ![r] = x]
      BY <2>2 DEF AgentCommits, SetWs
    <3> HIDE DEF x
    <3>3. GoodWs(x, n) /\ x.head = w.head /\ \A t \in Tasks : w.local[t] # None => x.local[t] # None
      BY <1>1, <3>1, Commits DEF x
    <3> QED
      BY <3>2, <3>3
  <2> QED
    BY <2>1, <2>2
<1>3. Shared' /\ UNCHANGED <<base, session>>
  BY DEF Edit, AgentCommits, TypeInv, Shared, bounds
<1>4. InBranch(session[r], x)
  BY <1>1, <1>2 DEF InBranch, Session
<1>5. session' = [session EXCEPT ![r] = session[r]]
  BY <1>3, Parts
<1> QED
  BY <1>1, <1>2, <1>3, <1>4, <1>5, FilesStep

LEMMA AgentLandsTypes ==
    ASSUME TypeInv, NEW r \in Roles, AgentLands(r)
    PROVE  TypeInv'
<1> DEFINE w == ws[r]
           work == Branch(r).own \ Landed
           c == [names |-> TaskOf(r), work |-> work]
           n == Len(base')
           s == [session[r] EXCEPT !.origin = Len(base')]
<1>1. base \in Seq(Commit) /\ Len(base) \in Nat /\ GoodWs(w, Len(base)) /\ w \in Workspace
      /\ session[r] \in Session /\ InBranch(session[r], w)
  BY Parts
<1>2. TaskOf(r) \in Tasks /\ Branch(r) \in Tip /\ w.head = TaskOf(r)
  BY <1>1 DEF AgentLands, At, InBranch, TaskOf, Branch, GoodWs, GoodTip
<1>3. c \in Commit
  BY <1>2 DEF Commit, Tip
<1>4. base' = Append(base, c)
  BY DEF AgentLands
<1>5. base' \in Seq(Commit) /\ n = Len(base) + 1 /\ n \in Nat
  BY <1>1, <1>3, <1>4, ContentGrows
<1>6. PICK h \in LeavesHead :
         ws' = [ws EXCEPT ![r] = [w EXCEPT !.unpushed = {}, !.head = IF h = "base" THEN "base" ELSE TaskOf(r)]]
  BY DEF AgentLands, SetWs
<1> DEFINE x == [w EXCEPT !.unpushed = {}, !.head = IF h = "base" THEN "base" ELSE TaskOf(r)]
<1>7. /\ x \in Workspace /\ x.local = w.local
      /\ x.head = TaskOf(r) \/ (x.head = "base" /\ "base" \in LeavesHead)
  BY <1>1, <1>2, <1>6 DEF Workspace, Heads
<1> HIDE DEF x, s, work
<1>8. GoodWs(x, Len(base))
  BY <1>1, <1>2, <1>7, TasksAreNoBranches DEF GoodWs, AgentLands, Branch, Tip, TaskOf
<1>9. GoodWs(x, n)
  BY <1>1, <1>5, <1>8, GoodWsGrows
<1>10. s \in Session /\ s.pc = session[r].pc /\ s.task = session[r].task
  BY <1>1, <1>5 DEF Session, s
<1>11. Good(s, x, n)
  BY <1>1, <1>7, <1>9, <1>10 DEF Good, InBranch, TaskOf
<1>12. session' = [session EXCEPT ![r] = s]
  BY DEF AgentLands, s
<1>13. Shared'
  <2>1. \A t \in Tasks : GoodTip(remote[t], n)
    BY <1>1, <1>5, GoodTipGrows DEF TypeInv, Shared
  <2> QED
    BY <1>5, <2>1 DEF AgentLands, TypeInv, Shared, bounds
<1>14. Len(base) <= Len(base')
  BY <1>1, <1>5
<1> QED
  BY <1>6, <1>11, <1>12, <1>13, <1>14, RoleStep DEF x

LEMMA PlaceTypes ==
    ASSUME TypeInv, NEW r \in Roles,
           AgentCompletes(r) \/ Enter(r)
    PROVE  TypeInv'
<1> DEFINE w == ws[r]
<1>1. w \in Workspace /\ session[r] \in Session /\ InBranch(session[r], w) /\ GoodWs(w, Len(base))
      /\ Len(base) \in Nat
  BY Parts
<1>2. CASE AgentCompletes(r)
  <2> DEFINE s == [session[r] EXCEPT !.pc = "queue", !.promised = w.dirty \cup Branch(r).own]
  <2>1. Branch(r).own \subseteq Edits /\ w.dirty \subseteq Edits
    BY <1>1, <1>2 DEF AgentCompletes, At, InBranch, TaskOf, Branch, GoodWs, GoodTip, Tip, Workspace
  <2>2. s \in Session /\ s.pc = "queue" /\ s.task = session[r].task
    BY <1>1, <2>1 DEF Session, States
  <2>3. session' = [session EXCEPT ![r] = s] /\ UNCHANGED <<base, ws>>
    BY <1>1, <1>2, Parts DEF AgentCompletes, git, TypeInv
  <2> HIDE DEF s
  <2>4. InBranch(s, w)
    BY <1>1, <1>2, <2>2 DEF InBranch, AgentCompletes, At, BeforeSync
  <2>5. Shared'
    BY <1>2 DEF AgentCompletes, git, bounds, TypeInv, Shared
  <2> QED
    BY <2>2, <2>3, <2>4, <2>5, SessionStep
<1>3. CASE Enter(r)
  <2> DEFINE s == [session[r] EXCEPT !.pc = "gate"]
  <2>1. s \in Session /\ s.pc = "gate" /\ s.task = session[r].task
    BY <1>1 DEF Session, States, Landing
  <2>2. session' = [session EXCEPT ![r] = s] /\ UNCHANGED <<base, ws>>
    BY <1>3 DEF Enter, Goto, git
  <2> HIDE DEF s
  <2>3. InBranch(s, w)
    BY <1>1, <1>3, <2>1 DEF InBranch, Enter, At, BeforeSync
  <2>4. Shared'
    BY <1>3 DEF Enter, git, bounds, TypeInv, Shared
  <2> QED
    BY <2>1, <2>2, <2>3, <2>4, SessionStep
<1> QED
  BY <1>2, <1>3

\* The session ends: it fails, is refused, or has done its work.
LEMMA EndTypes ==
    ASSUME TypeInv, NEW r \in Roles, End(r), UNCHANGED <<base, remote>>,
           NEW w, GoodWs(w, Len(base)), ws' = [ws EXCEPT ![r] = w],
           wip' = wip, made' = made, archived' \subseteq Tasks,
           UNCHANGED faults \/ Fault, UNCHANGED crashes
    PROVE  TypeInv'
<1>1. Idle \in Session /\ InBranch(Idle, w)
  BY Parts, IdleSession DEF Good
<1>2. session' = [session EXCEPT ![r] = Idle] /\ train' \in Roles \cup {None}
  BY DEF End, TypeInv, Shared
<1>3. Shared'
  BY <1>2, FaultTypes DEF TypeInv, Shared
<1> QED
  BY <1>1, <1>2, <1>3, FilesStep

LEMMA EndingTypes ==
    ASSUME TypeInv, NEW r \in Roles,
           AgentStops(r) \/ Zero(r) \/ Refuse(r) \/ Breaks(r) \/ Archive(r)
    PROVE  TypeInv'
<1> DEFINE w == ws[r]
           n == Len(base)
<1>1. n \in Nat /\ base \in Seq(Commit) /\ GoodWs(w, n) /\ w \in Workspace
      /\ session[r] \in Session /\ InBranch(session[r], w) /\ ws = [ws EXCEPT ![r] = w]
  BY Parts
<1>2. session[r].pc # "idle" => TaskOf(r) \in Tasks
  BY <1>1 DEF InBranch, TaskOf
<1>3. PICK x : GoodWs(x, n) /\ ws' = [ws EXCEPT ![r] = x]
  <2>1. CASE UNCHANGED ws
    BY <1>1, <2>1
  <2>2. CASE At(r, "rebase") /\ SetWs(r, Rebased(base, w, n))
    <3>1. w.head \in Tasks \cup {"base"}
      BY <1>1, <1>2, <2>2 DEF InBranch, At, BeforeSync, TaskOf
    <3>2. GoodWs(Rebased(base, w, n), n)
      BY <1>1, <3>1, Rebases
    <3> QED
      BY <2>2, <3>2 DEF SetWs
  <2> QED
    BY <2>1, <2>2 DEF AgentStops, Zero, Refuse, Breaks, Archive, git
<1>4. End(r) /\ UNCHANGED <<base, remote, wip, made, crashes>>
  BY DEF AgentStops, Zero, Refuse, Breaks, Archive, git, bounds
<1>5. archived' \subseteq Tasks
  <2>1. TypeInv => archived \subseteq Tasks
    BY DEF TypeInv, Shared
  <2>2. UNCHANGED archived \/ (archived' = archived \cup {TaskOf(r)} /\ session[r].pc # "idle")
    BY DEF AgentStops, Zero, Refuse, Breaks, Archive, git, bounds, At
  <2> QED
    BY <1>2, <2>1, <2>2
<1>6. UNCHANGED faults \/ Fault
  BY DEF AgentStops, Zero, Refuse, Breaks, Archive, git, bounds
<1> QED
  BY <1>3, <1>4, <1>5, <1>6, EndTypes

LEMMA GateTypes ==
    ASSUME TypeInv, NEW r \in Roles, Gate(r)
    PROVE  TypeInv'
<1> DEFINE w == ws[r]
           n == Len(base)
           x == IF w.dirty = {} THEN w ELSE Committed(w, "other")
<1>1. n \in Nat /\ GoodWs(w, n) /\ session[r] \in Session /\ InBranch(session[r], w)
  BY Parts
<1>2. session[r].task \in Tasks /\ w.local[session[r].task] # None
      /\ (w.head = session[r].task \/ (w.head = "base" /\ "base" \in LeavesHead))
  BY <1>1 DEF Gate, At, InBranch, BeforeSync
<1>3. GoodWs(x, n) /\ x.head = w.head /\ \A t \in Tasks : w.local[t] # None => x.local[t] # None
  BY <1>1, <1>2, Commits
<1> HIDE DEF x
<1>4. PICK pc \in {"rebase", "zero"} : session' = [session EXCEPT ![r] = [session[r] EXCEPT !.pc = pc]]
  BY DEF Gate, Goto
<1> DEFINE s == [session[r] EXCEPT !.pc = pc]
<1>5. s \in Session /\ s.pc = pc /\ s.task = session[r].task
  BY <1>1 DEF Session, States, Landing
<1>6. session' = [session EXCEPT ![r] = s]
  BY <1>4
<1> HIDE DEF s
<1>7. InBranch(s, x)
  BY <1>2, <1>3, <1>5 DEF InBranch
<1>8. ws' = [ws EXCEPT ![r] = x] /\ UNCHANGED base /\ Shared'
  BY DEF Gate, SetWs, x, bounds, TypeInv, Shared
<1> QED
  BY <1>3, <1>5, <1>6, <1>7, <1>8, FilesStep

LEMMA RebaseTypes ==
    ASSUME TypeInv, NEW r \in Roles, Rebase(r)
    PROVE  TypeInv'
<1> DEFINE w == ws[r]
           n == Len(base)
           x == Rebased(base, w, n)
           s == [session[r] EXCEPT !.pc = "publish", !.origin = n, !.checked = OnHead(x)]
<1>1. n \in Nat /\ base \in Seq(Commit) /\ GoodWs(w, n) /\ session[r] \in Session
      /\ InBranch(session[r], w)
  BY Parts
<1>2. session[r].task \in Tasks /\ w.local[session[r].task] # None
      /\ (w.head = session[r].task \/ (w.head = "base" /\ "base" \in LeavesHead))
  BY <1>1 DEF Rebase, At, InBranch, BeforeSync
<1>3. GoodWs(x, n) /\ x.head = w.head /\ \A t \in Tasks : w.local[t] # None => x.local[t] # None
  BY <1>1, <1>2, Rebases
<1>4. OnHead(x) \subseteq Edits
  BY <1>1, <1>3, WsParts
<1>5. ws' = [ws EXCEPT ![r] = x] /\ session' = [session EXCEPT ![r] = s]
      /\ UNCHANGED base /\ Shared'
  BY DEF Rebase, SetWs, bounds, TypeInv, Shared
<1> HIDE DEF x
<1>6. s \in Session /\ s.pc = "publish" /\ s.task = session[r].task
  BY <1>1, <1>4 DEF Session, States, Landing
<1> HIDE DEF s
<1>7. InBranch(s, x)
  BY <1>2, <1>3, <1>6 DEF InBranch
<1> QED
  BY <1>3, <1>5, <1>6, <1>7, FilesStep

LEMMA PublishTypes ==
    ASSUME TypeInv, NEW r \in Roles, Publish(r)
    PROVE  TypeInv'
<1> DEFINE w == ws[r]
           n == Len(base)
           s == [session[r] EXCEPT !.pc = "sync", !.tries = 1]
<1>1. GoodWs(w, n) /\ session[r] \in Session /\ InBranch(session[r], w)
  BY Parts
<1>2. TaskOf(r) \in Tasks /\ Branch(r) # None /\ GoodTip(Branch(r), n)
  BY <1>1 DEF Publish, At, InBranch, BeforeSync, TaskOf, Branch, GoodWs
<1>3. UNCHANGED remote \/ remote' = [remote EXCEPT ![TaskOf(r)] = Branch(r)]
  BY DEF Publish
<1>4. /\ remote' \in [Tasks -> Tip \cup {None}]
      /\ \A t \in Tasks : GoodTip(remote'[t], n)
  <2>1. Branch(r) \in Tip \cup {None}
    BY <1>2 DEF GoodTip
  <2> QED
    BY <1>2, <1>3, <2>1 DEF TypeInv, Shared
<1>5. UNCHANGED <<base, wip, ws, train, archived, made, crashes>> /\ (UNCHANGED faults \/ Fault)
  BY DEF Publish
<1>6. Shared'
  BY <1>4, <1>5, FaultTypes DEF TypeInv, Shared
<1>7. s \in Session /\ s.pc = "sync" /\ s.task = session[r].task
  BY <1>1 DEF Session, States, Landing
<1>8. session' = [session EXCEPT ![r] = s]
  BY DEF Publish
<1> HIDE DEF s
<1>9. InBranch(s, w)
  BY <1>1, <1>7 DEF InBranch, Publish, At, BeforeSync
<1> QED
  BY <1>5, <1>6, <1>7, <1>8, <1>9, SessionStep

\* What a session pushes is a commit.
LEMMA PushedCommit ==
    ASSUME TypeInv, NEW r \in Roles, session[r].pc # "idle"
    PROVE  \E c \in Commit : c.work = ws[r].unpushed /\ Pushed(r) = Append(base, c)
<1> DEFINE c == [names |-> NamedBy(TaskOf(r), Branch(r).subject), work |-> ws[r].unpushed]
<1>1. ws[r].unpushed \subseteq Edits /\ TaskOf(r) \in Tasks
  BY Parts DEF Workspace, InBranch, TaskOf
<1>2. c \in Commit
  BY <1>1 DEF Commit, NamedBy
<1> QED
  BY <1>2 DEF Pushed

\* The base branch grows by a commit, or does not.
Grows == base' = base \/ \E c \in Commit : base' = Append(base, c)

LEMMA GrownBase ==
    ASSUME TypeInv, Grows
    PROVE  /\ base' \in Seq(Commit) /\ Len(base') \in Nat /\ Len(base) <= Len(base')
           /\ \A tip : GoodTip(tip, Len(base)) => GoodTip(tip, Len(base'))
           /\ Landed \subseteq Landed'
<1>1. base \in Seq(Commit) /\ Len(base) \in Nat
  BY DEF TypeInv, Shared
<1>2. /\ base' \in Seq(Commit) /\ Len(base') \in Nat /\ Len(base) <= Len(base')
      /\ Landed \subseteq Landed'
  <2>1. CASE base' = base
    BY <1>1, <2>1 DEF Landed
  <2>2. ASSUME NEW c \in Commit, base' = Append(base, c)
        PROVE  /\ base' \in Seq(Commit) /\ Len(base') \in Nat /\ Len(base) <= Len(base')
               /\ Landed \subseteq Landed'
    <3>1. /\ base' \in Seq(Commit) /\ Len(base') = Len(base) + 1
          /\ Content(base', Len(base')) = Content(base, Len(base)) \cup c.work
      BY <1>1, <2>2, ContentGrows
    <3> QED
      BY <1>1, <3>1 DEF Landed
  <2> QED
    BY <2>1, <2>2 DEF Grows
<1> QED
  BY <1>1, <1>2, GoodTipGrows

LEMMA RetryTypes ==
    ASSUME TypeInv, NEW r \in Roles, At(r, "sync") \/ At(r, "push"), Retry(r), Grows,
           NEW w, GoodWs(w, Len(base)), w.local = ws[r].local, ws' = [ws EXCEPT ![r] = w],
           UNCHANGED <<remote, wip, archived, made, crashes>>, UNCHANGED faults \/ Fault
    PROVE  TypeInv'
<1>1. session[r] \in Session /\ InBranch(session[r], ws[r]) /\ Len(base) \in Nat
  BY Parts
<1>2. GoodWs(w, Len(base')) /\ Len(base) <= Len(base')
  BY <1>1, GrownBase, GoodWsGrows
<1>3. PICK s \in Session : /\ session' = [session EXCEPT ![r] = s]
                           /\ s = Idle \/ (s.pc = "sync" /\ s.task = session[r].task)
  <2>1. CASE session[r].tries < Attempts
    <3> DEFINE s == [session[r] EXCEPT !.pc = "sync", !.tries = @ + 1]
    <3>1. s \in Session /\ s.pc = "sync" /\ s.task = session[r].task
      <4>1. session[r].tries + 1 \in Nat
        BY <1>1 DEF Session
      <4> QED
        BY <1>1, <4>1 DEF Session, States, Landing
    <3>2. session' = [session EXCEPT ![r] = s]
      BY <2>1 DEF Retry
    <3> QED
      BY <3>1, <3>2
  <2>2. CASE ~(session[r].tries < Attempts)
    <3>1. Idle \in Session
      BY <1>1, IdleSession, Parts DEF Good
    <3> QED
      BY <2>2, <3>1 DEF Retry, End
  <2> QED
    BY <2>1, <2>2
<1>4. InBranch(s, w)
  BY <1>1, <1>3 DEF InBranch, At, BeforeSync, Idle
<1>5. train' \in Roles \cup {None}
  BY DEF Retry, End, TypeInv, Shared
<1>6. Shared'
  <2>1. \A t \in Tasks : GoodTip(remote[t], Len(base'))
    BY GrownBase DEF TypeInv, Shared
  <2>2. faults' \in 0 .. MaxFaults
    BY FaultTypes DEF TypeInv, Shared
  <2> QED
    BY <1>5, <2>1, <2>2, GrownBase DEF TypeInv, Shared
<1>7. Good(s, w, Len(base'))
  BY <1>2, <1>4 DEF Good
<1> QED
  BY <1>2, <1>3, <1>6, <1>7, RoleStep

LEMMA SyncTypes ==
    ASSUME TypeInv, NEW r \in Roles, Sync(r)
    PROVE  TypeInv'
<1> DEFINE left == Squashed(r)
           x == Staged(ws[r], left)
           s == [session[r] EXCEPT !.pc = IF left = {} THEN "archive" ELSE "push",
                                   !.origin = Len(base)]
<1>1. Len(base) \in Nat /\ GoodWs(ws[r], Len(base)) /\ session[r] \in Session
      /\ InBranch(session[r], ws[r])
  BY Parts
<1>2. session[r].task \in Tasks /\ Branch(r) \in Tip
  BY <1>1 DEF Sync, At, InBranch, Branch, TaskOf, GoodWs, GoodTip
<1>3. left \in SUBSET Edits
  BY <1>2 DEF Squashed, Tip
<1>4. /\ ws' = [ws EXCEPT ![r] = x] /\ session' = [session EXCEPT ![r] = s]
      /\ UNCHANGED base /\ Shared'
  BY DEF Sync, SetWs, Staged, bounds, TypeInv, Shared
<1> HIDE DEF left
<1>5. GoodWs(x, Len(base)) /\ x.local = ws[r].local
  BY <1>1, <1>3, Resets
<1>6. s \in Session /\ s.pc \in {"archive", "push"} /\ s.task = session[r].task
  BY <1>1 DEF Session, States, Landing
<1> HIDE DEF s, x
<1>7. InBranch(s, x)
  BY <1>1, <1>5, <1>6 DEF InBranch, Sync, At, BeforeSync
<1> QED
  BY <1>4, <1>5, <1>6, <1>7, FilesStep

LEMMA AgainTypes ==
    ASSUME TypeInv, NEW r \in Roles, SyncFails(r) \/ PushFails(r)
    PROVE  TypeInv'
<1> DEFINE w == ws[r]
           reset == ResetToOrigin(w)
<1>1. Len(base) \in Nat /\ GoodWs(w, Len(base)) /\ ws = [ws EXCEPT ![r] = w]
  BY Parts
<1>2. GoodWs(reset, Len(base)) /\ reset.local = w.local
  <2>1. {} \in SUBSET Edits
    OBVIOUS
  <2> QED
    BY <1>1, <2>1, Resets
<1>3. PICK x : GoodWs(x, Len(base)) /\ x.local = w.local /\ ws' = [ws EXCEPT ![r] = x]
  <2>1. CASE UNCHANGED ws
    BY <1>1, <2>1
  <2>2. CASE SetWs(r, [w EXCEPT !.head = "base"])
    <3>1. LET c == [w EXCEPT !.head = "base"] IN GoodWs(c, Len(base)) /\ c.local = w.local
      BY <1>1, Switches, TasksAreNoBranches DEF Heads
    <3> QED
      BY <2>2, <3>1 DEF SetWs
  <2>3. CASE SetWs(r, reset)
    BY <1>2, <2>3 DEF SetWs
  <2> QED
    BY <2>1, <2>2, <2>3 DEF SyncFails, PushFails
<1>4. /\ At(r, "sync") \/ At(r, "push")
      /\ Retry(r)
      /\ UNCHANGED <<remote, wip, archived, made, crashes>>
      /\ UNCHANGED faults \/ Fault
  BY DEF SyncFails, PushFails
<1>5. Grows
  <2>1. base' = base \/ (base' = Pushed(r) /\ session[r].pc # "idle")
    BY DEF SyncFails, PushFails, At
  <2> QED
    BY <2>1, PushedCommit DEF Grows
<1> QED
  BY <1>3, <1>4, <1>5, RetryTypes

LEMMA PushTypes ==
    ASSUME TypeInv, NEW r \in Roles, Push(r)
    PROVE  TypeInv'
<1> DEFINE w == ws[r]
           x == [w EXCEPT !.unpushed = {}]
           s == [session[r] EXCEPT !.pc = "archive", !.origin = Len(base')]
<1>1. Len(base) \in Nat /\ GoodWs(w, Len(base)) /\ w \in Workspace /\ session[r] \in Session
      /\ InBranch(session[r], w)
  BY Parts
<1>2. Grows
  BY PushedCommit DEF Push, At, Grows
<1>3. x \in Workspace /\ x.local = w.local /\ x.head = w.head
  BY <1>1 DEF Workspace
<1>4. /\ ws' = [ws EXCEPT ![r] = x] /\ session' = [session EXCEPT ![r] = s]
      /\ UNCHANGED <<remote, wip, train, archived, made, faults, crashes>>
  BY DEF Push, SetWs, bounds
<1> HIDE DEF x
<1>5. GoodWs(x, Len(base))
  BY <1>1, <1>3 DEF GoodWs
<1>6. GoodWs(x, Len(base')) /\ Len(base) <= Len(base') /\ Len(base') \in Nat
  BY <1>1, <1>2, <1>5, GrownBase, GoodWsGrows
<1>7. s \in Session /\ s.pc = "archive" /\ s.task = session[r].task
  BY <1>1, <1>6 DEF Session, States, Landing
<1> HIDE DEF s
<1>8. Good(s, x, Len(base'))
  BY <1>1, <1>3, <1>6, <1>7 DEF Good, InBranch, Push, At, BeforeSync
<1>9. Shared'
  BY <1>2, <1>4, GrownBase DEF TypeInv, Shared
<1> QED
  BY <1>4, <1>6, <1>8, <1>9, RoleStep

LEMMA CrashTypes == TypeInv /\ Crash => TypeInv'
<1> SUFFICES ASSUME TypeInv, Crash PROVE TypeInv'
  OBVIOUS
<1>1. Grows
  <2>1. base' = base \/ \E r \in Roles : session[r].pc # "idle" /\ base' = Pushed(r)
    BY DEF Crash, At
  <2> QED
    BY <2>1, PushedCommit DEF Grows
<1>2. UNCHANGED <<remote, wip, ws, archived, made, faults>> /\ train' = None
      /\ session' = [r \in Roles |-> Idle]
  BY DEF Crash
<1>3. crashes' \in 0 .. MaxCrashes
  BY BoundsAssumption DEF Crash, TypeInv, Shared
<1>4. Shared'
  BY <1>1, <1>2, <1>3, GrownBase DEF TypeInv, Shared
<1>5. ASSUME NEW r \in Roles PROVE Good(Idle, ws[r], Len(base'))
  <2>1. GoodWs(ws[r], Len(base)) /\ Len(base) \in Nat
    BY Parts
  <2>2. GoodWs(ws[r], Len(base')) /\ Len(base') \in Nat
    BY <1>1, <2>1, GrownBase, GoodWsGrows
  <2> QED
    BY <2>2, IdleSession
<1>6. session' \in [Roles -> Session] /\ \A r \in Roles : session'[r] = Idle
  BY <1>2, <1>5 DEF Good
<1> QED
  BY <1>2, <1>4, <1>5, <1>6 DEF TypeInv

LEMMA TypeStep == TypeInv /\ [Next]_vars => TypeInv'
<1> SUFFICES ASSUME TypeInv, [Next]_vars PROVE TypeInv'
  OBVIOUS
<1>1. CASE UNCHANGED vars
  BY <1>1 DEF vars, TypeInv, Shared
<1>2. CASE Next
  BY <1>1, <1>2, StartTypes, StartFailsTypes, AgentTypes, AgentLandsTypes, PlaceTypes,
     EndingTypes, GateTypes, RebaseTypes, PublishTypes, SyncTypes, AgainTypes, PushTypes,
     CrashTypes DEF Next, Work, Ends, Land, Rest
<1> QED
  BY <1>1, <1>2

\* The merge train's variables keep their types.
THEOREM TypeCorrect == Spec => []TypeOK
<1>1. Spec => []TypeInv
  BY InitTypes, TypeStep, PTL DEF Spec
<1> QED
  BY <1>1, TypesHold, PTL

-----------------------------------------------------------------------------
(* What is kept, promised and verified, when an agent that lands by itself  *)
(* goes back to its branch.                                                *)

OnBranch == LeavesHead = {"branch"}

LEMMA InOwnBranch ==
    ASSUME OnBranch, TypeInv, NEW r \in Roles
    PROVE  /\ session[r].pc # "idle" => session[r].task \in Tasks /\ Branch(r) # None
                                        /\ Branch(r) \in Tip
           /\ session[r].pc \in BeforeSync => ws[r].head = session[r].task
BY Parts DEF OnBranch, InBranch, Branch, TaskOf, Workspace

LEMMA BeforeSyncBusy == \A pc \in BeforeSync : pc # "idle"
BY DEF BeforeSync

\* Nothing is said of a session that has not asked to land.
LEMMA Unasked ==
    ASSUME NEW s, NEW w, NEW landed, s.pc \in {"idle", "work"}
    PROVE  Sound(s, w, landed)
BY DEF Sound, Clean, Promise, Verified, AfterGate

\* x holds what w held, or it is in K.
Holds(w, x, K) ==
    /\ w.dirty \subseteq K \cup Held(x)
    /\ \A t \in Tasks : w.local[t] # None =>
          x.local[t] # None /\ w.local[t].own \subseteq K \cup x.local[t].own

LEMMA OwnIsHeld ==
    ASSUME NEW x, NEW t \in Tasks, x.local[t] # None
    PROVE  x.local[t].own \subseteq Held(x)
BY DEF Held

LEMMA HoldsSame ==
    ASSUME NEW w, NEW x, NEW K, x.local = w.local,
           w.dirty \subseteq K \cup x.dirty
    PROVE  Holds(w, x, K)
BY DEF Holds, Held

LEMMA HeldMoves ==
    ASSUME NEW w, NEW x, NEW K, Holds(w, x, K)
    PROVE  Held(w) \subseteq K \cup Held(x)
<1> SUFFICES ASSUME NEW e \in Held(w) PROVE e \in K \cup Held(x)
  OBVIOUS
<1>1. CASE e \in w.dirty
  BY <1>1 DEF Holds
<1>2. CASE e \notin w.dirty
  <2>1. PICK t \in Tasks : w.local[t] # None /\ e \in w.local[t].own
    BY <1>2 DEF Held
  <2> QED
    BY <2>1, OwnIsHeld DEF Holds
<1> QED
  BY <1>1, <1>2

Landings == Kept /\ \A r \in Roles : Sound(session[r], ws[r], Landed)

\* A step of one session: what others hold and were promised stays.
LEMMA LandingStep ==
    ASSUME TypeInv, Landings, NEW r \in Roles, NEW w, NEW s,
           ws' = [ws EXCEPT ![r] = w], session' = [session EXCEPT ![r] = s],
           Grows, wip \subseteq wip', made' \subseteq made \cup w.dirty,
           Holds(ws[r], w, Landed' \cup wip'), Sound(s, w, Landed')
    PROVE  Landings'
<1>1. Landed \subseteq Landed'
  BY GrownBase
<1>2. DOMAIN ws = Roles /\ DOMAIN session = Roles
  BY DEF TypeInv
<1>3. ASSUME NEW q \in Roles PROVE Sound(session'[q], ws'[q], Landed')
  <2>1. CASE q = r
    BY <1>2, <2>1
  <2>2. CASE q # r
    <3>1. Sound(session[q], ws[q], Landed')
      BY <1>1 DEF Landings, Sound, Promise
    <3> QED
      BY <1>2, <2>2, <3>1
  <2> QED
    BY <2>1, <2>2
<1>4. Kept'
  <2> SUFFICES ASSUME NEW e \in made'
               PROVE  e \in Landed' \cup wip' \/ \E q \in Roles : e \in Held(ws'[q])
    BY DEF Kept
  <2>1. CASE e \in w.dirty
    BY <1>2, <2>1 DEF Held
  <2>2. CASE e \in made
    <3>1. e \in Landed \cup wip \/ \E q \in Roles : e \in Held(ws[q])
      BY <2>2 DEF Landings, Kept
    <3>2. CASE e \in Landed \cup wip
      BY <1>1, <3>2
    <3>3. ASSUME NEW q \in Roles, e \in Held(ws[q])
          PROVE  e \in Landed' \cup wip' \/ \E p \in Roles : e \in Held(ws'[p])
      <4>1. CASE q # r
        BY <1>2, <3>3, <4>1
      <4>2. CASE q = r
        BY <1>2, <3>3, <4>2, HeldMoves
      <4> QED
        BY <4>1, <4>2
    <3> QED
      BY <3>1, <3>2, <3>3
  <2> QED
    BY <2>1, <2>2
<1> QED
  BY <1>3, <1>4 DEF Landings

LEMMA StartLands ==
    ASSUME TypeInv, Landings, NEW r \in Roles, NEW t \in Tasks, Start(r, t)
    PROVE  Landings'
<1> DEFINE w == ws[r]
           saved == Checkpointed(w)
           x == IF w.head = t THEN w ELSE CheckedOut(base, saved, t, remote[t])
           s == [Idle EXCEPT !.pc = "work", !.task = t,
                             !.origin = Len(base), !.tracked = remote'[t]]
<1>1. Len(base) \in Nat /\ base \in Seq(Commit) /\ GoodWs(w, Len(base)) /\ GoodTip(remote[t], Len(base))
  BY Parts DEF TypeInv, Shared
<1>2. ws' = [ws EXCEPT ![r] = x] /\ session' = [session EXCEPT ![r] = s]
      /\ UNCHANGED <<base, made>> /\ wip \subseteq wip'
      /\ (w.head # t => Checkpoint(w) \subseteq wip')
  BY DEF Start, SetWs
<1>3. Landed' = Landed /\ Landed = Content(base, Len(base))
  BY <1>2 DEF Landed
<1>4. Holds(w, x, Landed' \cup wip')
  <2>1. CASE w.head = t
    BY <2>1, HoldsSame
  <2>2. CASE w.head # t
    <3>1. GoodWs(saved, Len(base)) /\ saved.local = w.local /\ w.dirty \subseteq Checkpoint(w)
      BY <1>1, Checkpoints
    <3>2. x = CheckedOut(base, saved, t, remote[t])
      BY <2>2
    <3> HIDE DEF x, saved
    <3>3. /\ x.local[t] # None
          /\ \A u \in Tasks \ {t} : x.local[u] = saved.local[u]
          /\ saved.local[t] # None => saved.local[t].own \ Landed \subseteq x.local[t].own
      BY <1>1, <1>3, <3>1, <3>2, Checkouts
    <3> QED
      BY <1>2, <1>3, <2>2, <3>1, <3>3 DEF Holds
  <2> QED
    BY <2>1, <2>2
<1>5. Sound(s, x, Landed')
  <2>1. s.pc = "work"
    BY DEF Idle
  <2> HIDE DEF s, x
  <2> QED
    BY <2>1, Unasked
<1> HIDE DEF x, s
<1> QED
  BY <1>2, <1>4, <1>5, LandingStep DEF Grows

LEMMA StartFailsLands ==
    ASSUME TypeInv, Landings, NEW r \in Roles, NEW t \in Tasks, StartFails(r, t)
    PROVE  Landings'
<1> DEFINE w == ws[r]
           saved == Checkpointed(w)
           n == Len(base)
           K == Landed' \cup wip'
<1>1. n \in Nat /\ base \in Seq(Commit) /\ GoodWs(w, n)
  BY Parts
<1>2. GoodWs(saved, n) /\ saved.local = w.local /\ w.dirty \subseteq Checkpoint(w)
  BY <1>1, Checkpoints
<1>3. UNCHANGED <<base, session, made>> /\ wip \subseteq wip' /\ Landed' = Landed
  BY DEF StartFails, Landed
<1>4. Heads = Tasks \cup {"base", "wip"} /\ "base" \notin Tasks /\ "wip" \notin Tasks
  BY TasksAreNoBranches DEF Heads
<1>5. PICK x : ws' = [ws EXCEPT ![r] = x] /\ Holds(w, x, K)
  <2>1. CASE SetWs(r, [w EXCEPT !.head = "wip"])
    <3>1. LET c == [w EXCEPT !.head = "wip"] IN c.dirty = w.dirty /\ c.local = w.local
      BY <1>1, <1>4, Switches
    <3>2. Holds(w, [w EXCEPT !.head = "wip"], K)
      BY <3>1, HoldsSame
    <3> QED
      BY <2>1, <3>2 DEF SetWs
  <2>2. CASE wip' = wip \cup Checkpoint(w) /\ ~SetWs(r, [w EXCEPT !.head = "wip"])
    <3>1. w.dirty \subseteq K
      BY <1>2, <2>2
    <3>2. ASSUME NEW x, x.local = w.local PROVE Holds(w, x, K)
      BY <3>1, <3>2, HoldsSame
    <3>3. CASE SetWs(r, saved)
      BY <1>2, <3>2, <3>3 DEF SetWs
    <3>4. CASE saved.local[t] # None /\ SetWs(r, [saved EXCEPT !.head = t])
      <4>1. LET c == [saved EXCEPT !.head = t] IN c.local = saved.local
        BY <1>1, <1>2, <1>4, <3>4, Switches
      <4> QED
        BY <1>2, <3>2, <3>4, <4>1 DEF SetWs
    <3>5. CASE SetWs(r, CheckedOut(base, saved, t, None))
      <4> DEFINE x == CheckedOut(base, saved, t, None)
      <4>1. GoodTip(None, n)
        BY DEF GoodTip
      <4>2. /\ x.local[t] # None
            /\ \A u \in Tasks \ {t} : x.local[u] = saved.local[u]
            /\ saved.local[t] # None => saved.local[t].own \ Content(base, n) \subseteq x.local[t].own
        BY <1>1, <1>2, <4>1, Checkouts
      <4> HIDE DEF x
      <4>3. Holds(w, x, K)
        BY <1>2, <1>3, <3>1, <4>2 DEF Holds, Landed
      <4> QED
        BY <3>5, <4>3 DEF SetWs, x
    <3>6. CASE SetWs(r, [saved EXCEPT !.head = "base"])
      <4>1. LET c == [saved EXCEPT !.head = "base"] IN c.local = saved.local
        BY <1>1, <1>2, <1>4, Switches
      <4> QED
        BY <1>2, <3>2, <3>6, <4>1 DEF SetWs
    <3> QED
      BY <2>2, <3>3, <3>4, <3>5, <3>6 DEF StartFails
  <2> QED
    BY <2>1, <2>2 DEF StartFails
<1>6. session' = [session EXCEPT ![r] = session[r]]
  BY <1>3, Parts
<1>7. Sound(session[r], x, Landed')
  BY Unasked DEF StartFails, At
<1> QED
  BY <1>3, <1>5, <1>6, <1>7, LandingStep DEF Grows

LEMMA AgentKeeps ==
    ASSUME OnBranch, TypeInv, Landings, NEW r \in Roles,
           \/ \E e \in Edits : Edit(r, e)
           \/ \E subject \in Subjects : AgentCommits(r, subject)
           \/ AgentLands(r)
    PROVE  Landings'
<1> DEFINE w == ws[r]
           K == Landed' \cup wip'
<1>1. Len(base) \in Nat /\ GoodWs(w, Len(base)) /\ w \in Workspace
  BY Parts
<1>2. session[r].pc = "work" /\ session[r].task \in Tasks /\ w.head = session[r].task
  BY InOwnBranch DEF Edit, AgentCommits, AgentLands, At, BeforeSync
<1>3. PICK s : session' = [session EXCEPT ![r] = s] /\ s.pc = "work"
  <2>1. CASE UNCHANGED session
    BY <1>2, <2>1, Parts
  <2>2. CASE AgentLands(r)
    <3>1. [session[r] EXCEPT !.origin = Len(base')].pc = session[r].pc
      BY Parts DEF Session
    <3> QED
      BY <1>2, <2>2, <3>1 DEF AgentLands
  <2> QED
    BY <2>1, <2>2 DEF Edit, AgentCommits
<1>4. PICK x : ws' = [ws EXCEPT ![r] = x] /\ Holds(w, x, K) /\ made' \subseteq made \cup x.dirty
  <2>1. ASSUME NEW e \in Edits, Edit(r, e)
        PROVE  \E x : /\ ws' = [ws EXCEPT ![r] = x] /\ Holds(w, x, K)
                      /\ made' \subseteq made \cup x.dirty
    <3> DEFINE x == [w EXCEPT !.dirty = @ \cup {e}]
    <3>1. x.dirty = w.dirty \cup {e} /\ x.local = w.local
      BY <1>1 DEF Workspace
    <3>2. ws' = [ws EXCEPT ![r] = x] /\ made' = made \cup {e}
      BY <2>1 DEF Edit, SetWs
    <3> HIDE DEF x
    <3> QED
      BY <3>1, <3>2, HoldsSame
  <2>2. ASSUME NEW subject \in Subjects, AgentCommits(r, subject)
        PROVE  \E x : /\ ws' = [ws EXCEPT ![r] = x] /\ Holds(w, x, K)
                      /\ made' \subseteq made \cup x.dirty
    <3> DEFINE x == Committed(w, subject)
    <3>1. ws' = [ws EXCEPT ![r] = x] /\ made' = made
      BY <2>2 DEF AgentCommits, SetWs
    <3>2. subject \in {"other", "lower"} /\ w.head \in Tasks /\ w.head \in Tasks \cup {"base"}
      BY <1>2, SubjectsAssumption
    <3> HIDE DEF x
    <3>3. /\ \A t \in Tasks : w.local[t] # None => x.local[t] # None
                                                   /\ w.local[t].own \subseteq x.local[t].own
          /\ x.local[w.head].own = w.local[w.head].own \cup w.dirty
      BY <1>1, <3>2, Commits DEF x
    <3>4. w.local[w.head] # None
      BY <1>1, <3>2 DEF GoodWs
    <3> QED
      BY <3>1, <3>2, <3>3, <3>4, OwnIsHeld DEF Holds
  <2>3. CASE AgentLands(r)
    <3>1. PICK h : ws' = [ws EXCEPT ![r] = [w EXCEPT !.unpushed = {}, !.head = h]]
      BY <2>3 DEF AgentLands, SetWs
    <3> DEFINE x == [w EXCEPT !.unpushed = {}, !.head = h]
    <3>2. x.dirty = w.dirty /\ x.local = w.local
      BY <1>1 DEF Workspace
    <3>3. UNCHANGED made
      BY <2>3 DEF AgentLands
    <3> HIDE DEF x
    <3>4. Holds(w, x, K)
      BY <3>2, HoldsSame
    <3> QED
      BY <3>1, <3>3, <3>4 DEF x
  <2> QED
    BY <2>1, <2>2, <2>3
<1>5. Grows
  <2>1. CASE AgentLands(r)
    <3> DEFINE c == [names |-> TaskOf(r), work |-> Branch(r).own \ Landed]
    <3>1. c \in Commit
      BY <1>2, InOwnBranch DEF Commit, Tip, TaskOf, BeforeSync
    <3> QED
      BY <2>1, <3>1 DEF AgentLands, Grows
  <2> QED
    BY <2>1 DEF Edit, AgentCommits, Grows
<1>6. wip \subseteq wip'
  BY DEF Edit, AgentCommits, AgentLands
<1>7. Sound(s, x, Landed')
  BY <1>3, Unasked
<1> QED
  BY <1>3, <1>4, <1>5, <1>6, <1>7, LandingStep

\* A step that leaves the base, the checkpoints and what was made alone.
LEMMA StillStep ==
    ASSUME TypeInv, Landings, NEW r \in Roles, NEW w, NEW s,
           ws' = [ws EXCEPT ![r] = w], session' = [session EXCEPT ![r] = s],
           UNCHANGED <<base, wip, made>>,
           Holds(ws[r], w, Landed \cup wip), Sound(s, w, Landed)
    PROVE  Landings'
<1>1. Landed' = Landed /\ Grows
  BY DEF Landed, Grows
<1>2. wip \subseteq wip' /\ made' \subseteq made \cup w.dirty
  OBVIOUS
<1>3. Landed' \cup wip' = Landed \cup wip
  BY <1>1
<1> QED
  BY <1>1, <1>2, <1>3, LandingStep

LEMMA IdleSound == ASSUME NEW w, NEW landed PROVE Sound(Idle, w, landed)
BY Unasked DEF Idle

LEMMA PlaceLands ==
    ASSUME OnBranch, TypeInv, Landings, NEW r \in Roles, AgentCompletes(r) \/ Enter(r)
    PROVE  Landings'
<1> DEFINE w == ws[r]
<1>1. session[r] \in Session /\ ws = [ws EXCEPT ![r] = w] /\ Sound(session[r], w, Landed)
  BY Parts DEF Landings
<1>2. UNCHANGED <<base, wip, made, ws>>
  BY DEF AgentCompletes, Enter, git, bounds
<1>3. PICK s : session' = [session EXCEPT ![r] = s] /\ Sound(s, w, Landed)
  <2>1. CASE AgentCompletes(r)
    <3> DEFINE s == [session[r] EXCEPT !.pc = "queue", !.promised = w.dirty \cup Branch(r).own]
    <3>1. s.pc = "queue" /\ s.task = session[r].task /\ s.promised = w.dirty \cup Branch(r).own
      BY <1>1 DEF Session
    <3>2. session' = [session EXCEPT ![r] = s]
      BY <2>1 DEF AgentCompletes
    <3> HIDE DEF s
    <3>3. Sound(s, w, Landed)
      BY <3>1 DEF Sound, Clean, Promise, Verified, AfterGate, Branch, TaskOf
    <3> QED
      BY <3>2, <3>3
  <2>2. CASE Enter(r)
    <3> DEFINE s == [session[r] EXCEPT !.pc = "gate"]
    <3>1. s.pc = "gate" /\ s.task = session[r].task /\ s.promised = session[r].promised
      BY <1>1 DEF Session
    <3>2. session' = [session EXCEPT ![r] = s] /\ session[r].pc = "queue"
      BY <2>2 DEF Enter, Goto, At
    <3> HIDE DEF s
    <3>3. Sound(s, w, Landed)
      BY <1>1, <3>1, <3>2 DEF Sound, Clean, Promise, Verified, AfterGate
    <3> QED
      BY <3>2, <3>3
  <2> QED
    BY <2>1, <2>2
<1>4. ws' = [ws EXCEPT ![r] = w] /\ Holds(w, w, Landed \cup wip)
  BY <1>1, <1>2, HoldsSame
<1> QED
  BY <1>2, <1>3, <1>4, StillStep

\* A rebase keeps what is not on the base branch yet.
LEMMA RebaseHolds ==
    ASSUME TypeInv, NEW r \in Roles, ws[r].head \in Tasks
    PROVE  LET x == Rebased(base, ws[r], Len(base))
           IN  /\ Holds(ws[r], x, Landed \cup wip) /\ x.head = ws[r].head /\ x.dirty = ws[r].dirty
               /\ x.local[x.head].own = ws[r].local[x.head].own \ Landed
<1> DEFINE w == ws[r]
           x == Rebased(base, w, Len(base))
<1>1. base \in Seq(Commit) /\ GoodWs(w, Len(base)) /\ w.head \in Tasks \cup {"base"}
  BY Parts
<1>2. /\ x.head = w.head /\ x.dirty = w.dirty
      /\ \A t \in Tasks : w.local[t] # None => x.local[t] # None
      /\ x.local[w.head].own = w.local[w.head].own \ Landed
      /\ \A t \in Tasks : w.head # t => x.local[t] = w.local[t]
  <2>1. x = Rebased(base, w, Len(base))
    OBVIOUS
  <2>2. Landed = Content(base, Len(base))
    BY DEF Landed
  <2>3. w.head \in Tasks
    OBVIOUS
  <2> HIDE DEF x, w
  <2>4. /\ x.head = w.head /\ x.dirty = w.dirty
        /\ \A t \in Tasks : w.local[t] # None => x.local[t] # None
    BY <1>1, <2>1, Rebases
  <2>5. x.local[w.head].own = w.local[w.head].own \ Content(base, Len(base))
    BY <1>1, <2>1, <2>3, Rebases
  <2>6. \A t \in Tasks : w.head # t => x.local[t] = w.local[t]
    BY <1>1, <2>1, Rebases
  <2> QED
    BY <2>2, <2>4, <2>5, <2>6
<1> HIDE DEF x
<1>3. Holds(w, x, Landed \cup wip)
  BY <1>2 DEF Holds, Held
<1> QED
  BY <1>2, <1>3 DEF x

LEMMA EndingLands ==
    ASSUME OnBranch, TypeInv, Landings, NEW r \in Roles,
           AgentStops(r) \/ Zero(r) \/ Refuse(r) \/ Breaks(r) \/ Archive(r)
    PROVE  Landings'
<1> DEFINE w == ws[r]
<1>1. UNCHANGED <<base, wip, made>> /\ session' = [session EXCEPT ![r] = Idle]
  BY DEF AgentStops, Zero, Refuse, Breaks, Archive, End, git, bounds
<1>2. PICK x : ws' = [ws EXCEPT ![r] = x] /\ Holds(w, x, Landed \cup wip)
  <2>1. CASE UNCHANGED ws
    BY <2>1, Parts, HoldsSame
  <2>2. CASE At(r, "rebase") /\ SetWs(r, Rebased(base, w, Len(base)))
    <3>1. w.head \in Tasks
      BY <2>2, InOwnBranch DEF At, BeforeSync
    <3> QED
      BY <2>2, <3>1, RebaseHolds DEF SetWs
  <2> QED
    BY <2>1, <2>2 DEF AgentStops, Zero, Refuse, Breaks, Archive, git
<1> QED
  BY <1>1, <1>2, IdleSound, StillStep

LEMMA GateLands ==
    ASSUME OnBranch, TypeInv, Landings, NEW r \in Roles, Gate(r)
    PROVE  Landings'
<1> DEFINE w == ws[r]
           x == IF w.dirty = {} THEN w ELSE Committed(w, "other")
           t == session[r].task
<1>1. Len(base) \in Nat /\ GoodWs(w, Len(base)) /\ session[r] \in Session
      /\ Sound(session[r], w, Landed)
  BY Parts DEF Landings
<1>2. session[r].pc = "gate" /\ t \in Tasks /\ w.head = t /\ w.local[t] # None
  BY InOwnBranch DEF Gate, At, BeforeSync, Branch, TaskOf
<1>3. /\ x.dirty = {} /\ x.local[t].own = w.local[t].own \cup w.dirty
      /\ \A u \in Tasks : w.local[u] # None => x.local[u] # None
                                              /\ w.local[u].own \subseteq x.local[u].own
  <2>1. w.head \in Tasks \cup {"base"}
    BY <1>2
  <2> QED
    BY <1>1, <1>2, <2>1, Commits
<1>4. x.local[t].own # {} => session'[r].pc = "rebase"
  BY <1>2, Parts DEF Gate, Goto, TaskOf, TypeInv
<1>5. ws' = [ws EXCEPT ![r] = x] /\ UNCHANGED <<base, wip, made>>
  BY DEF Gate, SetWs, bounds
<1> HIDE DEF x
<1>6. Holds(w, x, Landed \cup wip)
  BY <1>2, <1>3, OwnIsHeld DEF Holds
<1>7. PICK pc \in {"rebase", "zero"} : session' = [session EXCEPT ![r] = [session[r] EXCEPT !.pc = pc]]
  BY DEF Gate, Goto
<1> DEFINE s == [session[r] EXCEPT !.pc = pc]
<1>8. s.pc = pc /\ s.task = t /\ s.promised = session[r].promised /\ session' = [session EXCEPT ![r] = s]
  BY <1>1, <1>7 DEF Session
<1> HIDE DEF s
<1>9. s.pc = "zero" => x.local[t].own = {}
  BY <1>4, <1>8, Parts
<1>10. session[r].promised \subseteq x.local[t].own
  BY <1>1, <1>2, <1>3 DEF Sound, Promise
<1>11. Sound(s, x, Landed)
  BY <1>3, <1>8, <1>9, <1>10 DEF Sound, Clean, Promise, Verified
<1> QED
  BY <1>5, <1>6, <1>8, <1>11, StillStep

LEMMA RebaseLands ==
    ASSUME OnBranch, TypeInv, Landings, NEW r \in Roles, Rebase(r)
    PROVE  Landings'
<1> DEFINE w == ws[r]
           x == Rebased(base, w, Len(base))
           t == session[r].task
           s == [session[r] EXCEPT !.pc = "publish", !.origin = Len(base), !.checked = OnHead(x)]
<1>1. session[r] \in Session /\ Sound(session[r], w, Landed)
  BY Parts DEF Landings
<1>2. session[r].pc = "rebase" /\ t \in Tasks /\ w.head = t
  BY InOwnBranch DEF Rebase, At, BeforeSync
<1>3. /\ Holds(w, x, Landed \cup wip) /\ x.dirty = w.dirty /\ x.head = t
      /\ x.local[t].own = w.local[t].own \ Landed
  BY <1>2, RebaseHolds
<1>4. ws' = [ws EXCEPT ![r] = x] /\ session' = [session EXCEPT ![r] = s]
      /\ UNCHANGED <<base, wip, made>>
  BY DEF Rebase, SetWs, bounds
<1> HIDE DEF x
<1>5. OnHead(x) = x.local[t].own
  BY <1>2, <1>3 DEF OnHead
<1>6. /\ s.pc = "publish" /\ s.task = t /\ s.promised = session[r].promised
      /\ s.checked = x.local[t].own
  BY <1>1, <1>5 DEF Session
<1> HIDE DEF s
<1>7. Sound(s, x, Landed)
  BY <1>1, <1>2, <1>3, <1>6 DEF Sound, Clean, Promise, Verified, AfterGate
<1> QED
  BY <1>3, <1>4, <1>7, StillStep

LEMMA PublishLands ==
    ASSUME TypeInv, Landings, NEW r \in Roles, Publish(r)
    PROVE  Landings'
<1> DEFINE w == ws[r]
           s == [session[r] EXCEPT !.pc = "sync", !.tries = 1]
<1>1. session[r] \in Session /\ Sound(session[r], w, Landed) /\ ws = [ws EXCEPT ![r] = w]
  BY Parts DEF Landings
<1>2. session' = [session EXCEPT ![r] = s] /\ UNCHANGED <<base, wip, made, ws>>
      /\ session[r].pc = "publish"
  BY DEF Publish, At
<1>3. /\ s.pc = "sync" /\ s.task = session[r].task /\ s.promised = session[r].promised
      /\ s.checked = session[r].checked
  BY <1>1 DEF Session
<1> HIDE DEF s
<1>4. Sound(s, w, Landed)
  BY <1>1, <1>2, <1>3 DEF Sound, Clean, Promise, Verified, AfterGate
<1>5. ws' = [ws EXCEPT ![r] = w] /\ Holds(w, w, Landed \cup wip)
  BY <1>1, <1>2, HoldsSame
<1> QED
  BY <1>2, <1>4, <1>5, StillStep

\* The squash changes no branch, and leaves exactly the missing edits to push.
LEMMA StagedParts ==
    ASSUME NEW n \in Nat, NEW w, GoodWs(w, n), NEW edits \in SUBSET Edits
    PROVE  /\ Staged(w, edits).unpushed = edits
           /\ Staged(w, edits).dirty = {} /\ Staged(w, edits).local = w.local
<1> DEFINE a == ResetToOrigin(w)
<1>1. GoodWs(a, n) /\ a.unpushed = {} /\ a.dirty = {} /\ a.local = w.local
  BY Resets, ResetParts DEF GoodWs
<1>2. a = [head |-> a.head, dirty |-> a.dirty, unpushed |-> a.unpushed, local |-> a.local]
  BY <1>1, WsParts
<1>3. Staged(w, edits) = [a EXCEPT !.unpushed = @ \cup edits]
  BY DEF Staged
<1> HIDE DEF a
<1>4. /\ Staged(w, edits).unpushed = a.unpushed \cup edits
      /\ Staged(w, edits).dirty = a.dirty /\ Staged(w, edits).local = a.local
  BY <1>2, <1>3
<1> QED
  BY <1>1, <1>4

LEMMA SyncLands ==
    ASSUME TypeInv, Landings, NEW r \in Roles, Sync(r)
    PROVE  Landings'
<1> DEFINE w == ws[r]
           left == Squashed(r)
           x == Staged(w, left)
           t == session[r].task
           s == [session[r] EXCEPT !.pc = IF left = {} THEN "archive" ELSE "push",
                                   !.origin = Len(base)]
<1>1. Len(base) \in Nat /\ GoodWs(w, Len(base)) /\ session[r] \in Session
      /\ Sound(session[r], w, Landed) /\ InBranch(session[r], w)
  BY Parts DEF Landings
<1>2. session[r].pc = "sync" /\ t \in Tasks /\ w.local[t] \in Tip
  BY <1>1 DEF Sync, At, InBranch, GoodWs, GoodTip
<1>3. left = w.local[t].own \ Landed /\ left \in SUBSET Edits
  BY <1>2 DEF Squashed, Branch, TaskOf, Tip
<1>4. ws' = [ws EXCEPT ![r] = x] /\ session' = [session EXCEPT ![r] = s]
      /\ UNCHANGED <<base, wip, made>>
  BY DEF Sync, SetWs, Staged, bounds
<1> HIDE DEF left
<1>5. x.dirty = {} /\ x.local = w.local /\ x.unpushed = left
  <2>1. GoodWs(w, Len(base)) /\ Len(base) \in Nat /\ left \in SUBSET Edits
    BY <1>1, <1>3
  <2> HIDE DEF w
  <2> QED
    BY <2>1, StagedParts
<1>6. /\ s.pc = IF left = {} THEN "archive" ELSE "push"
      /\ s.task = t /\ s.promised = session[r].promised /\ s.checked = session[r].checked
  BY <1>1 DEF Session
<1> HIDE DEF s, x
<1>7. w.dirty = {} /\ session[r].promised \subseteq w.local[t].own \cup Landed
      /\ w.local[t].own \subseteq session[r].checked
  BY <1>1, <1>2 DEF Sound, Clean, Promise, Verified, AfterGate
<1>8. Holds(w, x, Landed \cup wip)
  BY <1>5, <1>7, HoldsSame
<1>9. Sound(s, x, Landed)
  <2>1. session[r].promised \subseteq left \cup Landed /\ left \subseteq session[r].checked
    BY <1>3, <1>7
  <2>2. CASE left = {}
    BY <1>5, <1>6, <2>1, <2>2 DEF Sound, Clean, Promise, Verified
  <2>3. CASE left # {}
    BY <1>5, <1>6, <1>7, <2>1, <2>3 DEF Sound, Clean, Promise, Verified
  <2> QED
    BY <2>2, <2>3
<1> QED
  BY <1>4, <1>8, <1>9, StillStep

LEMMA AgainLands ==
    ASSUME TypeInv, Landings, NEW r \in Roles, SyncFails(r) \/ PushFails(r)
    PROVE  Landings'
<1> DEFINE w == ws[r]
           t == session[r].task
<1>1. Len(base) \in Nat /\ GoodWs(w, Len(base)) /\ session[r] \in Session
      /\ Sound(session[r], w, Landed) /\ ws = [ws EXCEPT ![r] = w]
  BY Parts DEF Landings
<1>2. session[r].pc \in {"sync", "push"}
  BY DEF SyncFails, PushFails, At
<1>3. w.dirty = {} /\ session[r].promised \subseteq w.local[t].own \cup Landed
      /\ w.local[t].own \subseteq session[r].checked
  BY <1>1, <1>2 DEF Sound, Clean, Promise, Verified, AfterGate
<1>4. PICK x : ws' = [ws EXCEPT ![r] = x] /\ x.local = w.local /\ x.dirty = {}
  <2>1. CASE UNCHANGED ws
    BY <1>1, <1>3, <2>1
  <2>2. CASE SetWs(r, [w EXCEPT !.head = "base"])
    <3>1. LET c == [w EXCEPT !.head = "base"] IN c.dirty = w.dirty /\ c.local = w.local
      BY <1>1, Switches, TasksAreNoBranches DEF Heads
    <3> QED
      BY <1>3, <2>2, <3>1 DEF SetWs
  <2>3. CASE SetWs(r, ResetToOrigin(w))
    <3>1. {} \in SUBSET Edits
      OBVIOUS
    <3>2. ResetToOrigin(w).dirty = {} /\ ResetToOrigin(w).local = w.local
      BY <1>1, <3>1, Resets
    <3> QED
      BY <2>3, <3>2 DEF SetWs
  <2> QED
    BY <2>1, <2>2, <2>3 DEF SyncFails, PushFails
<1>5. Grows /\ UNCHANGED <<wip, made>>
  <2>1. base' = base \/ (base' = Pushed(r) /\ session[r].pc # "idle")
    BY DEF SyncFails, PushFails, At
  <2> QED
    BY <2>1, PushedCommit DEF Grows, SyncFails, PushFails
<1>6. Landed \subseteq Landed'
  BY <1>5, GrownBase
<1>7. PICK s : session' = [session EXCEPT ![r] = s] /\ Sound(s, x, Landed')
  <2>1. Retry(r)
    BY DEF SyncFails, PushFails
  <2>2. CASE session[r].tries < Attempts
    <3> DEFINE s == [session[r] EXCEPT !.pc = "sync", !.tries = @ + 1]
    <3>1. /\ s.pc = "sync" /\ s.task = t /\ s.promised = session[r].promised
          /\ s.checked = session[r].checked
      BY <1>1 DEF Session
    <3>2. session' = [session EXCEPT ![r] = s]
      BY <2>1, <2>2 DEF Retry
    <3> HIDE DEF s
    <3>3. Sound(s, x, Landed')
      BY <1>3, <1>4, <1>6, <3>1 DEF Sound, Clean, Promise, Verified
    <3> QED
      BY <3>2, <3>3
  <2>3. CASE ~(session[r].tries < Attempts)
    BY <2>1, <2>3, IdleSound DEF Retry, End
  <2> QED
    BY <2>2, <2>3
<1>8. Holds(w, x, Landed' \cup wip')
  BY <1>3, <1>4, HoldsSame
<1>9. wip \subseteq wip' /\ made' \subseteq made \cup x.dirty
  BY <1>5
<1> QED
  BY <1>4, <1>5, <1>7, <1>8, <1>9, LandingStep

LEMMA PushLands ==
    ASSUME TypeInv, Landings, NEW r \in Roles, Push(r)
    PROVE  Landings'
<1> DEFINE w == ws[r]
           x == [w EXCEPT !.unpushed = {}]
           s == [session[r] EXCEPT !.pc = "archive", !.origin = Len(base')]
<1>1. w \in Workspace /\ session[r] \in Session /\ Sound(session[r], w, Landed)
      /\ base \in Seq(Commit)
  BY Parts DEF Landings
<1>2. session[r].pc = "push" /\ base' = Pushed(r) /\ UNCHANGED <<wip, made>>
      /\ ws' = [ws EXCEPT ![r] = x] /\ session' = [session EXCEPT ![r] = s]
  BY DEF Push, At, SetWs, bounds
<1>3. PICK c \in Commit : c.work = w.unpushed /\ base' = Append(base, c)
  BY <1>2, PushedCommit
<1>4. Landed' = Landed \cup w.unpushed
  BY <1>1, <1>3, ContentGrows DEF Landed
<1>5. x.dirty = w.dirty /\ x.local = w.local
  BY <1>1 DEF Workspace
<1>6. s.pc = "archive" /\ s.promised = session[r].promised
  BY <1>1 DEF Session
<1> HIDE DEF x, s
<1>7. Sound(s, x, Landed')
  BY <1>1, <1>2, <1>4, <1>5, <1>6 DEF Sound, Clean, Promise, Verified, AfterGate
<1>8. Holds(w, x, Landed' \cup wip') /\ Grows
  BY <1>3, <1>5, HoldsSame DEF Grows
<1>9. wip \subseteq wip' /\ made' \subseteq made \cup x.dirty
  BY <1>2
<1> QED
  BY <1>2, <1>7, <1>8, <1>9, LandingStep

LEMMA CrashLands == TypeInv /\ Landings /\ Crash => Landings'
<1> SUFFICES ASSUME TypeInv, Landings, Crash PROVE Landings'
  OBVIOUS
<1>1. Grows
  <2>1. base' = base \/ \E r \in Roles : session[r].pc # "idle" /\ base' = Pushed(r)
    BY DEF Crash, At
  <2> QED
    BY <2>1, PushedCommit DEF Grows
<1>2. Landed \subseteq Landed'
  BY <1>1, GrownBase
<1>3. UNCHANGED <<wip, ws, made>> /\ \A r \in Roles : session'[r] = Idle
  BY DEF Crash
<1>4. Kept'
  BY <1>2, <1>3 DEF Landings, Kept
<1>5. \A r \in Roles : Sound(session'[r], ws'[r], Landed')
  BY <1>3, IdleSound
<1> QED
  BY <1>4, <1>5 DEF Landings

LEMMA InitLandings == Init => Landings
<1> SUFFICES ASSUME Init PROVE Landings
  OBVIOUS
<1>1. Kept
  BY DEF Init, Kept
<1>2. \A r \in Roles : session[r] = Idle
  BY DEF Init
<1> QED
  BY <1>1, <1>2, IdleSound DEF Landings

LEMMA LandingsStep ==
    ASSUME OnBranch
    PROVE  TypeInv /\ Landings /\ [Next]_vars => Landings'
<1> SUFFICES ASSUME TypeInv, Landings, [Next]_vars PROVE Landings'
  OBVIOUS
<1>1. CASE UNCHANGED vars
  <2>1. UNCHANGED <<base, wip, made, ws, session>>
    BY <1>1 DEF vars
  <2> QED
    BY <2>1 DEF Landings, Kept, Landed
<1>2. CASE Next
  BY <1>1, <1>2, StartLands, StartFailsLands, AgentKeeps, PlaceLands, EndingLands, GateLands,
     RebaseLands, PublishLands, SyncLands, AgainLands, PushLands, CrashLands
     DEF Next, Work, Ends, Land, Rest
<1> QED
  BY <1>1, <1>2

LEMMA LandingsHold ==
    ASSUME OnBranch
    PROVE  Spec => [](TypeInv /\ Landings)
<1>1. TypeInv /\ Landings /\ [Next]_vars => (TypeInv /\ Landings)'
  BY TypeStep, LandingsStep
<1>2. Init => TypeInv /\ Landings
  BY InitTypes, InitLandings
<1> QED
  BY <1>1, <1>2, PTL DEF Spec

\* Nothing an agent has written is lost: switching tasks, rebasing, squashing,
\* resetting and failing anywhere between keep it (git.go, mergetrain.go).
THEOREM NothingIsLost ==
    ASSUME OnBranch
    PROVE  Spec => []NothingLost
<1>1. TypeInv /\ Landings => NothingLost
  <2> SUFFICES ASSUME Landings PROVE NothingLost
    OBVIOUS
  <2>1. \A r \in Roles : Held(ws[r]) \subseteq Mine(r)
    BY DEF Held, Mine
  <2>2. wip \subseteq Saved
    BY DEF Saved
  <2> QED
    BY <2>1, <2>2 DEF Landings, Kept, NothingLost
<1> QED
  BY <1>1, LandingsHold, PTL

\* When the train tells the board that a task is done, what its agent had
\* written when it finished is on the base branch (LandCompletedTask).
THEOREM PromisesLand ==
    ASSUME OnBranch
    PROVE  Spec => []LandedBeforeDone
<1>1. TypeInv /\ Landings => LandedBeforeDone
  BY DEF Landings, Sound, Promise, LandedBeforeDone
<1> QED
  BY <1>1, LandingsHold, PTL

\* What is about to be pushed was there when the verification last passed in
\* this landing (rebaseAndVerify, SquashMergeAndPush).
THEOREM VerificationPrecedes ==
    ASSUME OnBranch
    PROVE  Spec => []VerifiedBeforeLanding
<1>1. TypeInv /\ Landings => VerifiedBeforeLanding
  BY DEF Landings, Sound, Verified, VerifiedBeforeLanding, At
<1> QED
  BY <1>1, LandingsHold, PTL

-----------------------------------------------------------------------------
(* One task per commit.                                                    *)

\* The base branch takes the work of one task, or nothing.
GrowsApart ==
    \/ base' = base
    \/ \E c \in Commit, t \in Tasks : c.work \subseteq For(t) /\ base' = Append(base, c)

LEMMA ApartStep ==
    ASSUME TypeInv, Apart, NEW r \in Roles, NEW w, NEW s, GrowsApart,
           ws' = [ws EXCEPT ![r] = w], session' = [session EXCEPT ![r] = s],
           \A t \in Tasks : \/ remote'[t] \in {remote[t], None}
                            \/ remote'[t].own \subseteq For(t) \cup Landed',
           Separate(s, w, Landed')
    PROVE  Apart'
<1>1. base \in Seq(Commit) /\ Len(base) \in Nat /\ DOMAIN ws = Roles /\ DOMAIN session = Roles
  BY DEF TypeInv, Shared
<1>2. Landed \subseteq Landed'
  BY GrownBase DEF Grows, GrowsApart
<1>3. ASSUME NEW i \in 1 .. Len(base') PROVE \E t \in Tasks : base'[i].work \subseteq For(t)
  <2>1. CASE base' = base
    BY <2>1 DEF Apart
  <2>2. ASSUME NEW c \in Commit, NEW t \in Tasks, c.work \subseteq For(t), base' = Append(base, c)
        PROVE  \E u \in Tasks : base'[i].work \subseteq For(u)
    <3>1. i = Len(base) + 1 => base'[i] = c
      BY <1>1, <2>2
    <3>2. i # Len(base) + 1 => i \in 1 .. Len(base) /\ base'[i] = base[i]
      BY <1>1, <2>2
    <3> QED
      BY <2>2, <3>1, <3>2 DEF Apart
  <2> QED
    BY <2>1, <2>2 DEF GrowsApart
<1>4. \A t \in Tasks : remote'[t] # None => remote'[t].own \subseteq For(t) \cup Landed'
  BY <1>2 DEF Apart
<1>5. ASSUME NEW q \in Roles PROVE Separate(session'[q], ws'[q], Landed')
  <2>1. CASE q = r
    BY <1>1, <2>1
  <2>2. CASE q # r
    <3>1. Separate(session[q], ws[q], Landed')
      BY <1>2 DEF Apart, Separate
    <3> QED
      BY <1>1, <2>2, <3>1
  <2> QED
    BY <2>1, <2>2
<1> QED
  BY <1>3, <1>4, <1>5 DEF Apart

\* A step that leaves the base branch and the task branches at the remote alone.
LEMMA ApartStill ==
    ASSUME TypeInv, Apart, NEW r \in Roles, NEW w, NEW s, UNCHANGED <<base, remote>>,
           ws' = [ws EXCEPT ![r] = w], session' = [session EXCEPT ![r] = s],
           Separate(s, w, Landed)
    PROVE  Apart'
<1>1. Landed' = Landed /\ GrowsApart
  BY DEF Landed, GrowsApart
<1> QED
  BY <1>1, ApartStep

\* What is known of one role's workspace.
LEMMA ApartParts ==
    ASSUME TypeInv, Apart, NEW r \in Roles
    PROVE  /\ Separate(session[r], ws[r], Landed)
           /\ session[r].pc # "push" => ws[r].unpushed = {}
BY DEF Apart, Separate

\* Where a session is does not matter, but for the push.
LEMMA SeparateSame ==
    ASSUME NEW s, NEW q, NEW w, NEW landed, Separate(s, w, landed), s.pc # "push", q.pc # "push"
    PROVE  Separate(q, w, landed)
BY DEF Separate

LEMMA StartApart ==
    ASSUME TypeInv, Apart, NEW r \in Roles, NEW t \in Tasks, Start(r, t)
    PROVE  Apart'
<1> DEFINE w == ws[r]
           saved == Checkpointed(w)
           x == IF w.head = t THEN w ELSE CheckedOut(base, saved, t, remote[t])
           s == [Idle EXCEPT !.pc = "work", !.task = t,
                             !.origin = Len(base), !.tracked = remote'[t]]
<1>1. Len(base) \in Nat /\ base \in Seq(Commit) /\ GoodWs(w, Len(base))
      /\ GoodTip(remote[t], Len(base)) /\ DOMAIN remote = Tasks
  BY Parts DEF TypeInv, Shared
<1>2. /\ ws' = [ws EXCEPT ![r] = x] /\ session' = [session EXCEPT ![r] = s]
      /\ UNCHANGED base
      /\ remote' = IF w.head # t /\ remote[t] = None
                   THEN [remote EXCEPT ![t] = x.local[t]] ELSE remote
  BY DEF Start, SetWs
<1>3. Landed' = Landed /\ Landed = Content(base, Len(base)) /\ GrowsApart
  BY <1>2 DEF Landed, GrowsApart
<1>4. session[r].pc = "idle" /\ Separate(session[r], w, Landed) /\ w.unpushed = {}
  BY ApartParts DEF Start, At
<1>5. s.pc = "work"
  BY DEF Idle
<1>6. /\ \A u \in Tasks : x.local[u] # None => x.local[u].own \subseteq For(u) \cup Landed
      /\ x.head \in Tasks => x.dirty \subseteq For(x.head)
      /\ x.unpushed = {}
  <2>1. CASE w.head = t
    BY <1>4, <2>1 DEF Separate
  <2>2. CASE w.head # t
    <3>1. /\ GoodWs(saved, Len(base)) /\ saved.local = w.local /\ saved.dirty = {}
          /\ saved.unpushed = {}
      BY <1>1, <1>4, Checkpoints
    <3>2. x = CheckedOut(base, saved, t, remote[t])
      BY <2>2
    <3> HIDE DEF x, saved
    <3>3. /\ x.head = t /\ x.dirty = {} /\ x.unpushed = {}
          /\ \A u \in Tasks \ {t} : x.local[u] = saved.local[u]
      BY <1>1, <3>1, <3>2, Checkouts
    <3>4. \A e \in x.local[t].own :
             \/ e \in Landed
             \/ remote[t] # None /\ e \in remote[t].own
             \/ w.local[t] # None /\ e \in w.local[t].own
      BY <1>1, <1>3, <3>1, <3>2, Checkouts
    <3>5. x.local[t].own \subseteq For(t) \cup Landed
      BY <1>4, <3>4 DEF Separate, Apart
    <3> QED
      BY <1>4, <3>1, <3>3, <3>5 DEF Separate
  <2> QED
    BY <2>1, <2>2
<1> HIDE DEF x, s
<1>7. Separate(s, x, Landed')
  BY <1>3, <1>5, <1>6 DEF Separate
<1>8. \A u \in Tasks : \/ remote'[u] \in {remote[u], None}
                       \/ remote'[u].own \subseteq For(u) \cup Landed'
  BY <1>1, <1>2, <1>3, <1>6
<1> QED
  BY <1>2, <1>3, <1>7, <1>8, ApartStep

LEMMA StartFailsApart ==
    ASSUME TypeInv, Apart, NEW r \in Roles, NEW t \in Tasks, StartFails(r, t)
    PROVE  Apart'
<1> DEFINE w == ws[r]
           saved == Checkpointed(w)
           n == Len(base)
<1>1. n \in Nat /\ base \in Seq(Commit) /\ GoodWs(w, n)
  BY Parts
<1>2. session[r].pc = "idle" /\ Separate(session[r], w, Landed) /\ w.unpushed = {}
  BY ApartParts DEF StartFails, At
<1>3. /\ GoodWs(saved, n) /\ saved.local = w.local /\ saved.dirty = {} /\ saved.unpushed = {}
  BY <1>1, <1>2, Checkpoints
<1>4. Heads = Tasks \cup {"base", "wip"} /\ "base" \notin Tasks /\ "wip" \notin Tasks
  BY TasksAreNoBranches DEF Heads
<1>5. ASSUME NEW x, x.local = w.local, x.unpushed = {}, x.dirty = {} \/ x.head \notin Tasks
      PROVE  Separate(session[r], x, Landed)
  BY <1>2, <1>5 DEF Separate
<1>6. PICK x : ws' = [ws EXCEPT ![r] = x] /\ Separate(session[r], x, Landed)
  <2>1. CASE SetWs(r, [w EXCEPT !.head = "wip"])
    <3>1. LET c == [w EXCEPT !.head = "wip"]
          IN  c.unpushed = w.unpushed /\ c.local = w.local /\ c.head = "wip"
      BY <1>1, <1>4, Switches
    <3> QED
      BY <1>2, <1>4, <1>5, <2>1, <3>1 DEF SetWs
  <2>2. CASE SetWs(r, saved)
    BY <1>3, <1>5, <2>2 DEF SetWs
  <2>3. CASE saved.local[t] # None /\ SetWs(r, [saved EXCEPT !.head = t])
    <3>1. LET c == [saved EXCEPT !.head = t]
          IN  c.dirty = saved.dirty /\ c.unpushed = saved.unpushed /\ c.local = saved.local
      BY <1>1, <1>3, <1>4, <2>3, Switches
    <3> QED
      BY <1>3, <1>5, <2>3, <3>1 DEF SetWs
  <2>4. CASE SetWs(r, CheckedOut(base, saved, t, None))
    <3> DEFINE x == CheckedOut(base, saved, t, None)
    <3>1. GoodTip(None, n) /\ Landed = Content(base, n)
      BY DEF GoodTip, Landed
    <3>2. /\ x.dirty = {} /\ x.unpushed = {} /\ x.head = t
          /\ \A u \in Tasks \ {t} : x.local[u] = w.local[u]
          /\ \A e \in x.local[t].own :
                \/ e \in Landed
                \/ w.local[t] # None /\ e \in w.local[t].own
      <4> HIDE DEF saved
      <4>1. /\ x.dirty = saved.dirty /\ x.unpushed \subseteq saved.unpushed /\ x.head = t
            /\ \A u \in Tasks \ {t} : x.local[u] = saved.local[u]
            /\ \A e \in x.local[t].own :
                  \/ e \in Content(base, n) \cup saved.unpushed
                  \/ saved.local[t] # None /\ e \in saved.local[t].own
        BY <1>1, <1>3, <3>1, Checkouts
      <4> HIDE DEF x
      <4> QED
        BY <1>3, <3>1, <4>1
    <3> HIDE DEF x
    <3>3. Separate(session[r], x, Landed)
      BY <1>2, <3>2 DEF Separate
    <3> QED
      BY <2>4, <3>3 DEF SetWs, x
  <2>5. CASE SetWs(r, [saved EXCEPT !.head = "base"])
    <3>1. LET c == [saved EXCEPT !.head = "base"]
          IN  c.dirty = saved.dirty /\ c.unpushed = saved.unpushed /\ c.local = saved.local
      BY <1>1, <1>3, <1>4, Switches
    <3> QED
      BY <1>3, <1>5, <2>5, <3>1 DEF SetWs
  <2> QED
    BY <2>1, <2>2, <2>3, <2>4, <2>5 DEF StartFails
<1>7. session' = [session EXCEPT ![r] = session[r]] /\ UNCHANGED <<base, remote>>
  BY Parts DEF StartFails
<1> QED
  BY <1>6, <1>7, ApartStill

LEMMA EditApart ==
    ASSUME OnBranch, TypeInv, Apart, NEW r \in Roles, NEW e \in Edits, Edit(r, e)
    PROVE  Apart'
<1> DEFINE w == ws[r]
           x == [w EXCEPT !.dirty = @ \cup {e}]
<1>1. w \in Workspace /\ w.head = session[r].task /\ Separate(session[r], w, Landed)
  BY Parts, InOwnBranch, ApartParts DEF Edit, At, BeforeSync
<1>2. /\ x.dirty = w.dirty \cup {e} /\ x.local = w.local /\ x.head = w.head
      /\ x.unpushed = w.unpushed
  BY <1>1 DEF Workspace
<1>3. ws' = [ws EXCEPT ![r] = x] /\ UNCHANGED <<base, remote>>
      /\ session' = [session EXCEPT ![r] = session[r]]
  BY Parts DEF Edit, SetWs
<1>4. e \in For(w.head)
  BY <1>1 DEF Edit, TaskOf, For
<1> HIDE DEF x
<1>5. Separate(session[r], x, Landed)
  BY <1>1, <1>2, <1>4 DEF Separate
<1> QED
  BY <1>3, <1>5, ApartStill

\* A commit to the branch of the task.
LEMMA CommitApart ==
    ASSUME TypeInv, Apart, NEW r \in Roles, ws[r].head \in Tasks,
           NEW subject \in {"other", "lower"}
    PROVE  Separate(session[r], Committed(ws[r], subject), Landed)
<1> DEFINE w == ws[r]
           x == Committed(w, subject)
<1>1. Len(base) \in Nat /\ GoodWs(w, Len(base)) /\ Separate(session[r], w, Landed)
  BY Parts, ApartParts
<1>2. w.head \in Tasks \cup {"base"}
  OBVIOUS
<1>3. /\ x.dirty = {} /\ x.unpushed = w.unpushed
      /\ x.local[w.head].own = w.local[w.head].own \cup w.dirty
      /\ \A t \in Tasks : w.head # t => x.local[t] = w.local[t]
  BY <1>1, <1>2, Commits
<1>4. w.local[w.head] # None
  BY <1>1 DEF GoodWs
<1> HIDE DEF x
<1>5. Separate(session[r], x, Landed)
  BY <1>1, <1>3, <1>4 DEF Separate
<1> QED
  BY <1>5 DEF x

LEMMA AgentCommitsApart ==
    ASSUME OnBranch, TypeInv, Apart, NEW r \in Roles, NEW subject \in Subjects,
           AgentCommits(r, subject)
    PROVE  Apart'
<1>1. ws[r].head \in Tasks /\ subject \in {"other", "lower"}
  BY InOwnBranch, SubjectsAssumption DEF AgentCommits, At, BeforeSync
<1>2. ws' = [ws EXCEPT ![r] = Committed(ws[r], subject)] /\ UNCHANGED <<base, remote>>
      /\ session' = [session EXCEPT ![r] = session[r]]
  BY Parts DEF AgentCommits, SetWs
<1>3. Separate(session[r], Committed(ws[r], subject), Landed)
  BY <1>1, CommitApart
<1> QED
  BY <1>2, <1>3, ApartStill

LEMMA AgentLandsApart ==
    ASSUME OnBranch, TypeInv, Apart, NEW r \in Roles, AgentLands(r)
    PROVE  Apart'
<1> DEFINE w == ws[r]
           t == session[r].task
           c == [names |-> t, work |-> Branch(r).own \ Landed]
           s == [session[r] EXCEPT !.origin = Len(base')]
           x == [w EXCEPT !.unpushed = {}, !.head = t]
<1>1. /\ w \in Workspace /\ t \in Tasks /\ Branch(r) \in Tip /\ Branch(r) # None
      /\ session[r] \in Session /\ session[r].pc = "work" /\ w.head = t
      /\ Separate(session[r], w, Landed)
  BY Parts, InOwnBranch, ApartParts DEF AgentLands, At, BeforeSync
<1>2. /\ base' = Append(base, c) /\ session' = [session EXCEPT ![r] = s]
      /\ ws' = [ws EXCEPT ![r] = x] /\ UNCHANGED remote /\ w.dirty = {}
  BY DEF AgentLands, TaskOf, SetWs, OnBranch
<1>3. c \in Commit /\ c.work \subseteq For(t)
  BY <1>1 DEF Commit, Tip, Separate, Branch, TaskOf
<1>4. GrowsApart /\ Landed \subseteq Landed'
  <2>1. GrowsApart /\ Grows
    BY <1>1, <1>2, <1>3 DEF GrowsApart, Grows
  <2> QED
    BY <2>1, GrownBase
<1>5. x.unpushed = {} /\ x.local = w.local /\ x.dirty = w.dirty /\ x.head = t
  BY <1>1 DEF Workspace
<1>6. s.pc = "work"
  BY <1>1 DEF Session
<1> HIDE DEF x, s
<1>7. Separate(s, x, Landed')
  BY <1>1, <1>2, <1>4, <1>5, <1>6 DEF Separate
<1> QED
  BY <1>2, <1>4, <1>7, ApartStep

\* A rebase adds nothing.
LEMMA RebaseApart ==
    ASSUME TypeInv, Apart, NEW r \in Roles, ws[r].head \in Tasks
    PROVE  Separate(session[r], Rebased(base, ws[r], Len(base)), Landed)
<1> DEFINE w == ws[r]
           x == Rebased(base, w, Len(base))
<1>1. base \in Seq(Commit) /\ GoodWs(w, Len(base)) /\ Separate(session[r], w, Landed)
  BY Parts, ApartParts
<1>2. w.head \in Tasks \cup {"base"} /\ w.head \in Tasks /\ x = Rebased(base, w, Len(base))
  OBVIOUS
<1> HIDE DEF x, w
<1>3. /\ x.head = w.head /\ x.dirty = w.dirty /\ x.unpushed = w.unpushed
      /\ x.local[w.head].own \subseteq w.local[w.head].own
      /\ \A t \in Tasks : w.head # t => x.local[t] = w.local[t]
  BY <1>1, <1>2, Rebases
<1>4. w.local[w.head] # None
  BY <1>1, <1>2 DEF GoodWs
<1>5. Separate(session[r], x, Landed)
  BY <1>1, <1>2, <1>3, <1>4 DEF Separate
<1> QED
  BY <1>5 DEF x, w

\* A session goes on or ends, and its workspace stays or is rebased.
LEMMA PlaceApart ==
    ASSUME OnBranch, TypeInv, Apart, NEW r \in Roles,
           \/ AgentCompletes(r) \/ Enter(r) \/ Gate(r) \/ Rebase(r)
           \/ AgentStops(r) \/ Zero(r) \/ Refuse(r) \/ Breaks(r) \/ Archive(r)
    PROVE  Apart'
<1> DEFINE w == ws[r]
<1>1. session[r].pc # "push" /\ session[r] \in Session
  BY Parts DEF AgentCompletes, Enter, Gate, Rebase, AgentStops, Zero, Refuse, Breaks, Archive, At
<1>2. UNCHANGED <<base, remote>>
  BY DEF AgentCompletes, Enter, Gate, Rebase, AgentStops, Zero, Refuse, Breaks, Archive, git
<1>3. PICK x : ws' = [ws EXCEPT ![r] = x] /\ Separate(session[r], x, Landed)
  <2>1. CASE UNCHANGED ws
    BY <2>1, Parts, ApartParts
  <2>2. CASE At(r, "rebase") /\ SetWs(r, Rebased(base, w, Len(base)))
    BY <2>2, InOwnBranch, RebaseApart DEF At, SetWs, BeforeSync
  <2>3. CASE Gate(r)
    <3>1. w.head \in Tasks /\ w.head \in Tasks
      BY <2>3, InOwnBranch DEF Gate, At, BeforeSync
    <3>2. Separate(session[r], w, Landed) /\ Separate(session[r], Committed(w, "other"), Landed)
      BY <3>1, ApartParts, CommitApart
    <3> QED
      BY <2>3, <3>2 DEF Gate, SetWs
  <2> QED
    BY <2>1, <2>2, <2>3
       DEF AgentCompletes, Enter, Rebase, AgentStops, Zero, Refuse, Breaks, Archive, git
<1>4. PICK s : session' = [session EXCEPT ![r] = s] /\ s.pc # "push"
  <2>1. CASE session' = [session EXCEPT ![r] = Idle]
    <3>1. Idle.pc # "push"
      BY DEF Idle
    <3> QED
      BY <2>1, <3>1
  <2>2. CASE Rebase(r)
    <3> DEFINE s == [session[r] EXCEPT !.pc = "publish", !.origin = Len(base),
                        !.checked = OnHead(Rebased(base, w, Len(base)))]
    <3>1. s.pc = "publish"
      BY <1>1 DEF Session
    <3>2. session' = [session EXCEPT ![r] = s]
      BY <2>2 DEF Rebase
    <3> HIDE DEF s
    <3> QED
      BY <3>1, <3>2
  <2>3. CASE AgentCompletes(r)
    <3> DEFINE s == [session[r] EXCEPT !.pc = "queue", !.promised = w.dirty \cup Branch(r).own]
    <3>1. s.pc = "queue"
      BY <1>1 DEF Session
    <3>2. session' = [session EXCEPT ![r] = s]
      BY <2>3 DEF AgentCompletes
    <3> HIDE DEF s
    <3> QED
      BY <3>1, <3>2
  <2>4. CASE \E pc \in {"gate", "rebase", "zero"} : Goto(r, pc)
    <3>1. PICK pc \in {"gate", "rebase", "zero"} :
             session' = [session EXCEPT ![r] = [session[r] EXCEPT !.pc = pc]]
      BY <2>4 DEF Goto
    <3>2. [session[r] EXCEPT !.pc = pc].pc = pc
      BY <1>1 DEF Session
    <3> QED
      BY <3>1, <3>2
  <2> QED
    BY <2>1, <2>2, <2>3, <2>4 DEF Enter, Gate, AgentStops, Zero, Refuse, Breaks, Archive, End
<1>5. Separate(s, x, Landed)
  BY <1>1, <1>3, <1>4, SeparateSame
<1> QED
  BY <1>2, <1>3, <1>4, <1>5, ApartStill

LEMMA PublishApart ==
    ASSUME TypeInv, Apart, NEW r \in Roles, Publish(r)
    PROVE  Apart'
<1> DEFINE t == session[r].task
           s == [session[r] EXCEPT !.pc = "sync", !.tries = 1]
<1>1. /\ session[r] \in Session /\ InBranch(session[r], ws[r]) /\ session[r].pc = "publish"
      /\ Separate(session[r], ws[r], Landed) /\ DOMAIN remote = Tasks
  BY Parts, ApartParts DEF Publish, At, TypeInv, Shared
<1>2. t \in Tasks /\ Branch(r).own \subseteq For(t) \cup Landed
  <2>1. t \in Tasks /\ ws[r].local[t] # None
    BY <1>1 DEF InBranch
  <2>2. ws[r].local[t].own \subseteq For(t) \cup Landed
    BY <1>1, <2>1 DEF Separate
  <2> QED
    BY <2>1, <2>2 DEF Branch, TaskOf
<1>3. UNCHANGED base /\ session' = [session EXCEPT ![r] = s] /\ ws' = [ws EXCEPT ![r] = ws[r]]
  <2>1. ws' = ws /\ UNCHANGED base /\ session' = [session EXCEPT ![r] = s]
    BY DEF Publish
  <2>2. ws = [ws EXCEPT ![r] = ws[r]]
    BY Parts
  <2> QED
    BY <2>1, <2>2
<1>4. Landed' = Landed /\ GrowsApart
  BY <1>3 DEF Landed, GrowsApart
<1>5. s.pc = "sync"
  BY <1>1 DEF Session
<1> HIDE DEF s
<1>6. Separate(s, ws[r], Landed')
  BY <1>1, <1>4, <1>5, SeparateSame
<1>7. \A u \in Tasks : \/ remote'[u] \in {remote[u], None}
                       \/ remote'[u].own \subseteq For(u) \cup Landed'
  BY <1>1, <1>2, <1>4 DEF Publish, TaskOf
<1> QED
  BY <1>3, <1>4, <1>6, <1>7, ApartStep

LEMMA SyncApart ==
    ASSUME TypeInv, Apart, NEW r \in Roles, Sync(r)
    PROVE  Apart'
<1> DEFINE w == ws[r]
           edits == Squashed(r)
           x == Staged(w, edits)
           t == session[r].task
           s == [session[r] EXCEPT !.pc = IF edits = {} THEN "archive" ELSE "push",
                                   !.origin = Len(base)]
<1>1. Len(base) \in Nat /\ GoodWs(w, Len(base)) /\ session[r] \in Session
      /\ InBranch(session[r], w) /\ Separate(session[r], w, Landed)
  BY Parts, ApartParts
<1>2. session[r].pc = "sync" /\ t \in Tasks /\ w.local[t] \in Tip /\ w.local[t] # None
  BY <1>1 DEF Sync, At, InBranch, GoodWs, GoodTip
<1>3. edits \in SUBSET Edits /\ edits \subseteq For(t)
  BY <1>1, <1>2 DEF Squashed, Branch, TaskOf, Tip, Separate
<1>4. ws' = [ws EXCEPT ![r] = x] /\ session' = [session EXCEPT ![r] = s]
      /\ UNCHANGED <<base, remote>>
  BY DEF Sync, SetWs, Staged
<1> HIDE DEF edits
<1>5. x.dirty = {} /\ x.local = w.local /\ x.unpushed = edits
  <2>1. GoodWs(w, Len(base)) /\ Len(base) \in Nat /\ edits \in SUBSET Edits
    BY <1>1, <1>3
  <2> HIDE DEF w
  <2> QED
    BY <2>1, StagedParts
<1>6. s.pc = (IF edits = {} THEN "archive" ELSE "push") /\ s.task = t
  BY <1>1 DEF Session
<1> HIDE DEF s, x
<1>7. Separate(s, x, Landed)
  BY <1>1, <1>3, <1>5, <1>6 DEF Separate
<1> QED
  BY <1>4, <1>7, ApartStill

\* What a session pushes is the work of its task.
LEMMA PushedApart ==
    ASSUME TypeInv, Apart, NEW r \in Roles, session[r].pc = "push", base' = Pushed(r)
    PROVE  GrowsApart
<1>1. PICK c \in Commit : c.work = ws[r].unpushed /\ Pushed(r) = Append(base, c)
  BY PushedCommit
<1>2. session[r].task \in Tasks /\ ws[r].unpushed \subseteq For(session[r].task)
  BY Parts, ApartParts DEF InBranch, Separate
<1> QED
  BY <1>1, <1>2 DEF GrowsApart

LEMMA AgainApart ==
    ASSUME TypeInv, Apart, NEW r \in Roles, SyncFails(r) \/ PushFails(r)
    PROVE  Apart'
<1> DEFINE w == ws[r]
<1>1. Len(base) \in Nat /\ GoodWs(w, Len(base)) /\ session[r] \in Session
      /\ Separate(session[r], w, Landed)
  BY Parts, ApartParts
<1>2. GrowsApart /\ UNCHANGED remote
  <2>1. CASE SyncFails(r)
    BY <2>1 DEF SyncFails, GrowsApart
  <2>2. CASE PushFails(r)
    <3>1. session[r].pc = "push" /\ (base' = base \/ base' = Pushed(r)) /\ UNCHANGED remote
      BY <2>2 DEF PushFails, At
    <3> QED
      BY <3>1, PushedApart DEF GrowsApart
  <2> QED
    BY <2>1, <2>2
<1>3. Landed \subseteq Landed'
  BY <1>2, GrownBase DEF Grows, GrowsApart
<1>4. PICK x : /\ ws' = [ws EXCEPT ![r] = x] /\ x.local = w.local /\ x.unpushed = {}
               /\ x.dirty = {} \/ x.head \notin Tasks \/ x = w
  <2>1. CASE SyncFails(r) /\ UNCHANGED ws
    <3>1. w.unpushed = {}
      BY <2>1, ApartParts DEF SyncFails, At
    <3> QED
      BY <2>1, <3>1, Parts
  <2>2. CASE SyncFails(r) /\ SetWs(r, [w EXCEPT !.head = "base"])
    <3>1. LET c == [w EXCEPT !.head = "base"]
          IN  c.unpushed = w.unpushed /\ c.local = w.local /\ c.head = "base"
      BY <1>1, Switches, TasksAreNoBranches DEF Heads
    <3>2. w.unpushed = {} /\ "base" \notin Tasks
      BY <2>2, ApartParts, TasksAreNoBranches DEF SyncFails, At
    <3> QED
      BY <2>2, <3>1, <3>2 DEF SetWs
  <2>3. CASE SetWs(r, ResetToOrigin(w))
    <3>1. {} \in SUBSET Edits
      OBVIOUS
    <3>2. /\ ResetToOrigin(w).dirty = {} /\ ResetToOrigin(w).local = w.local
          /\ ResetToOrigin(w).unpushed = {}
      BY <1>1, <3>1, Resets
    <3> QED
      BY <2>3, <3>2 DEF SetWs
  <2> QED
    BY <2>1, <2>2, <2>3 DEF SyncFails, PushFails
<1>5. PICK s : session' = [session EXCEPT ![r] = s]
  <2>1. Retry(r)
    BY DEF SyncFails, PushFails
  <2> QED
    BY <2>1 DEF Retry, End
<1>6. Separate(s, x, Landed')
  BY <1>1, <1>3, <1>4 DEF Separate
<1> QED
  BY <1>2, <1>4, <1>5, <1>6, ApartStep

LEMMA PushApart ==
    ASSUME TypeInv, Apart, NEW r \in Roles, Push(r)
    PROVE  Apart'
<1> DEFINE w == ws[r]
           x == [w EXCEPT !.unpushed = {}]
           s == [session[r] EXCEPT !.pc = "archive", !.origin = Len(base')]
<1>1. w \in Workspace /\ Separate(session[r], w, Landed)
  BY Parts, ApartParts
<1>2. GrowsApart /\ UNCHANGED remote /\ ws' = [ws EXCEPT ![r] = x]
      /\ session' = [session EXCEPT ![r] = s]
  BY PushedApart DEF Push, At, SetWs
<1>3. Landed \subseteq Landed'
  BY <1>2, GrownBase DEF Grows, GrowsApart
<1>4. x.unpushed = {} /\ x.dirty = w.dirty /\ x.local = w.local /\ x.head = w.head
  BY <1>1 DEF Workspace
<1> HIDE DEF x
<1>5. Separate(s, x, Landed')
  BY <1>1, <1>3, <1>4 DEF Separate
<1> QED
  BY <1>2, <1>5, ApartStep

LEMMA InitApart == Init => Apart
<1> SUFFICES ASSUME Init PROVE Apart
  OBVIOUS
<1> DEFINE w == [head |-> "base", dirty |-> {}, unpushed |-> {}, local |-> [t \in Tasks |-> None]]
<1>1. ASSUME NEW s PROVE Separate(s, w, Landed)
  BY TasksAreNoBranches DEF Separate
<1>2. /\ Len(base) = 0 /\ \A t \in Tasks : remote[t] = None
      /\ \A r \in Roles : ws[r] = w
  BY DEF Init
<1> HIDE DEF w
<1>3. 1 .. Len(base) = {}
  BY <1>2
<1> QED
  BY <1>1, <1>2, <1>3 DEF Apart

LEMMA ApartKept ==
    ASSUME OnBranch
    PROVE  TypeInv /\ ApartInv /\ [Next]_vars => ApartInv'
<1> SUFFICES ASSUME TypeInv, ApartInv, [Next]_vars, crashes' = 0 PROVE Apart'
  BY DEF ApartInv
<1>1. CASE UNCHANGED vars
  <2>1. UNCHANGED <<base, remote, ws, session, crashes>>
    BY <1>1 DEF vars
  <2> QED
    BY <2>1 DEF ApartInv, Apart, Landed
<1>2. CASE Crash
  <2>1. crashes' = crashes + 1 /\ crashes \in Nat
    BY <1>2 DEF Crash, TypeInv, Shared
  <2> QED
    BY <2>1
<1>3. CASE \E r \in Roles : \/ \E t \in Tasks : Start(r, t) \/ StartFails(r, t)
                            \/ Work(r) \/ Ends(r) \/ Enter(r) \/ Land(r)
  <2>1. PICK r \in Roles : \/ \E t \in Tasks : Start(r, t) \/ StartFails(r, t)
                           \/ Work(r) \/ Ends(r) \/ Enter(r) \/ Land(r)
    BY <1>3
  <2>2. crashes' = crashes
    BY <2>1 DEF Start, StartFails, Work, Edit, AgentCommits, AgentLands, Ends, AgentCompletes,
       AgentStops, Enter, Land, Gate, Zero, Rebase, Refuse, Breaks, Publish, Sync, SyncFails,
       Push, PushFails, Archive, bounds
  <2>3. Apart
    BY <2>2 DEF ApartInv
  <2> QED
    BY <2>1, <2>3, StartApart, StartFailsApart, EditApart, AgentCommitsApart, AgentLandsApart,
       PlaceApart, PublishApart, SyncApart, AgainApart, PushApart DEF Work, Ends, Land
<1> QED
  BY <1>1, <1>2, <1>3 DEF Next, Rest

\* A commit of the base branch holds the work of one task, as long as the
\* controller has not died in a landing (SquashMergeAndPush, merge.go:19-20).
THEOREM CommitsAreApart ==
    ASSUME OnBranch
    PROVE  Spec => []OneTaskPerCommit
<1>1. Init => TypeInv /\ ApartInv
  BY InitTypes, InitApart DEF ApartInv
<1>2. TypeInv /\ ApartInv /\ [Next]_vars => (TypeInv /\ ApartInv)'
  BY TypeStep, ApartKept
<1>3. TypeInv /\ ApartInv => OneTaskPerCommit
  BY DEF ApartInv, Apart, For, OneTaskPerCommit, OneTask
<1> QED
  BY <1>1, <1>2, <1>3, PTL DEF Spec
=============================================================================
