------------------------- MODULE BoardRecordsProofs -------------------------
(***************************************************************************)
(* No command, failure or recovery loses a record or a question to a       *)
(* human, or adds a second record, for any boards, commands and edits.     *)
(***************************************************************************)
EXTENDS BoardLanesProofs

-----------------------------------------------------------------------------
(* The records and the questions of a document that is edited.             *)

LEMMA AsksByRange ==
    ASSUME NEW doc \in Document
    PROVE  AsksIn(doc) = {x \in Range(doc) : x.kind = "ask"}
BY DEF AsksIn, OfKind, Range

LEMMA TaskIsNoAsk == ASSUME NEW t \in Task PROVE t.kind = "task"
BY DEF Task

LEMMA InsertedRecord ==
    ASSUME NEW doc \in Document, NEW t \in Task, NEW section \in Sections
    PROVE  /\ InsertTask(doc, t, section) \in Document
           /\ IdsIn(InsertTask(doc, t, section)) = IdsIn(doc) \cup {t.id}
           /\ AsksIn(InsertTask(doc, t, section)) = AsksIn(doc)
<1> DEFINE new == InsertTask(doc, t, section)
<1>1. new \in Document /\ Range(new) \in {Range(doc) \cup {t}, Range(doc) \cup {Heading(section), t}}
  BY InsertedTask
<1> HIDE DEF new
<1>2. t.kind = "task" /\ Heading(section).kind = "section" /\ Heading(section) \notin Task
  BY TaskIsNoAsk DEF Heading
<1>3. Range(new) \cap Task = (Range(doc) \cap Task) \cup {t}
  BY <1>1, <1>2
<1>4. TasksIn(new) = TasksIn(doc) \cup {t}
  BY <1>1, <1>3, ByRange
<1>5. IdsIn(new) = IdsIn(doc) \cup {t.id}
  <2>1. IdsIn(new) = {x.id : x \in TasksIn(new)} /\ IdsIn(doc) = {x.id : x \in TasksIn(doc)}
    BY <1>1, ByRange
  <2> QED
    BY <1>4, <2>1
<1>6. AsksIn(new) = AsksIn(doc)
  BY <1>1, <1>2, AsksByRange
<1> QED
  BY <1>1, <1>5, <1>6 DEF new

LEMMA RemovedRecord ==
    ASSUME NEW doc \in Document, NEW i \in Blocks(doc)
    PROVE  /\ RemoveAt(doc, i) \in Document
           /\ IdsIn(doc) \subseteq IdsIn(RemoveAt(doc, i)) \cup {doc[i].id}
           /\ AsksIn(RemoveAt(doc, i)) = AsksIn(doc)
<1> DEFINE rest == RemoveAt(doc, i)
<1>1. i \in DOMAIN doc /\ doc[i].kind = "task"
  BY DEF Blocks, OfKind
<1>2. doc \in Seq(Line)
  BY DEF Document
<1>3. /\ rest \in Document /\ Range(rest) \subseteq Range(doc)
      /\ \A k \in DOMAIN doc \ {i} : doc[k] \in Range(rest)
  BY <1>1, <1>2, RemovedAt DEF Document
<1>4. IdsIn(doc) \subseteq IdsIn(rest) \cup {doc[i].id}
  BY IdsWithout
<1> HIDE DEF rest
<1>5. ASSUME NEW a \in AsksIn(doc) PROVE a \in Range(rest)
  BY <1>1, <1>3 DEF AsksIn, OfKind
<1>6. AsksIn(rest) = AsksIn(doc)
  BY <1>3, <1>5, AsksByRange
<1> QED
  BY <1>3, <1>4, <1>6 DEF rest

LEMMA AmendedRecord ==
    ASSUME NEW doc \in Document, NEW i \in Blocks(doc), NEW t \in Task, t.id = doc[i].id
    PROVE  /\ Amend(doc, i, t) \in Document
           /\ Blocks(Amend(doc, i, t)) = Blocks(doc)
           /\ \A k \in Blocks(doc) : Amend(doc, i, t)[k].id = doc[k].id
           /\ IdsIn(Amend(doc, i, t)) = IdsIn(doc)
           /\ AsksIn(Amend(doc, i, t)) = AsksIn(doc)
<1> DEFINE new == Amend(doc, i, t)
<1>1. i \in DOMAIN doc /\ doc[i].kind = "task" /\ t.kind = "task" /\ t \in Line
  BY DEF Blocks, OfKind, Task, Line
<1>2. /\ new \in Document /\ DOMAIN new = DOMAIN doc
      /\ \A k \in DOMAIN doc : new[k] = IF k = i THEN t ELSE doc[k]
  BY <1>1, Amended
<1> HIDE DEF new
<1>3. \A k \in DOMAIN doc : new[k].kind = doc[k].kind
  BY <1>1, <1>2
<1>4. Blocks(new) = Blocks(doc) /\ OfKind(new, "ask") = OfKind(doc, "ask")
  BY <1>2, <1>3 DEF Blocks, OfKind
<1>5. \A k \in Blocks(doc) : new[k].id = doc[k].id
  BY <1>2 DEF Blocks, OfKind
<1>6. IdsIn(new) = IdsIn(doc)
  BY <1>4, <1>5 DEF IdsIn
<1>7. \A k \in OfKind(doc, "ask") : new[k] = doc[k]
  BY <1>1, <1>2 DEF OfKind
<1>8. AsksIn(new) = AsksIn(doc)
  BY <1>4, <1>7 DEF AsksIn
<1> QED
  BY <1>2, <1>4, <1>5, <1>6, <1>8 DEF new

LEMMA DroppedLines ==
    ASSUME NEW doc \in Document, NEW P
    PROVE  /\ Drop(doc, P) \in Document
           /\ Range(Drop(doc, P)) = {doc[i] : i \in DOMAIN doc \ P}
           /\ Range(Drop(doc, P)) \subseteq Range(doc)
<1> DEFINE kept == DOMAIN doc \ P
<1>1. kept \subseteq DOMAIN doc /\ doc \in Seq(Line)
  BY DEF Document
<1>2. Drop(doc, P) = Keep(doc, kept)
  BY DEF Drop
<1> HIDE DEF kept
<1>3. Keep(doc, kept) \in Seq(Line) /\ Range(Keep(doc, kept)) = {doc[i] : i \in kept}
  BY <1>1, Kept
<1> QED
  BY <1>1, <1>2, <1>3 DEF kept, Document, Range

-----------------------------------------------------------------------------
(* What a command does to the records of any board.                        *)

Keeping(v, docs) ==
    /\ v.after \in [Files -> Document]
    /\ AllIds(docs) \subseteq AllIds(v.after)
    /\ \A a \in AsksIn(docs["backlog"]) :
          a \in AsksIn(v.after["backlog"]) \/ a.id \in IdsIn(docs["archive"])
    /\ v.journaled =>
          KeepsRecords([files |-> v.files, before |-> docs, after |-> v.after, order |-> v.order])

LEMMA UnchangedKeeps ==
    ASSUME NEW docs \in [Files -> Document]
    PROVE  Keeping(Refuse(docs), docs) /\ Keeping(Answer(docs), docs)
<1>1. [f \in Files |-> docs[f]] = docs
  OBVIOUS
<1> QED
  BY <1>1 DEF Keeping, Refuse, Answer, Verdict

LEMMA RewriteKeeps ==
    ASSUME NEW docs \in [Files -> Document], NEW f \in Files, NEW doc \in Document,
           IdsIn(docs[f]) \subseteq IdsIn(doc),
           f = "backlog" => \A a \in AsksIn(docs[f]) :
                               a \in AsksIn(doc) \/ a.id \in IdsIn(docs["archive"])
    PROVE  Keeping(Rewrite(docs, f, doc), docs)
<1>1. CASE ~ValidDocument(doc, f)
  BY <1>1, UnchangedKeeps DEF Rewrite
<1>2. CASE ValidDocument(doc, f)
  <2> DEFINE after == [g \in Files |-> IF g = f THEN doc ELSE docs[g]]
             v == Rewrite(docs, f, doc)
  <2>1. v.after = after /\ v.journaled = FALSE
    BY <1>2 DEF Rewrite, Verdict
  <2> HIDE DEF v
  <2>2. after \in [Files -> Document] /\ \A g \in Files : after[g] = IF g = f THEN doc ELSE docs[g]
    OBVIOUS
  <2> HIDE DEF after
  <2>3. AllIds(docs) \subseteq AllIds(after)
    BY <2>2 DEF AllIds
  <2>4. ASSUME NEW a \in AsksIn(docs["backlog"])
        PROVE  a \in AsksIn(after["backlog"]) \/ a.id \in IdsIn(docs["archive"])
    BY <2>2 DEF Files
  <2> QED
    BY <2>1, <2>2, <2>3, <2>4 DEF Keeping, v
<1> QED
  BY <1>1, <1>2

LEMMA RewritesKeep ==
    ASSUME NEW docs \in [Files -> Document], NEW names \in SUBSET Files, NEW new,
           NEW order \in [Files -> Nat],
           \A f \in names : new[f] \in Document,
           \A f \in names : \A id \in IdsIn(docs[f]) \ IdsIn(new[f]) : \E g \in Files :
              \/ g \notin names /\ id \in IdsIn(docs[g])
              \/ /\ g \in names /\ id \in IdsIn(new[g])
                 /\ id \in IdsIn(docs[g]) \/ order[g] < order[f],
           "backlog" \in names => AsksIn(docs["backlog"]) \subseteq AsksIn(new["backlog"])
    PROVE  Keeping(Rewrites(docs, names, new, order), docs)
<1>1. CASE ~\A f \in names : ValidDocument(new[f], f)
  BY <1>1, UnchangedKeeps DEF Rewrites
<1>2. CASE \A f \in names : ValidDocument(new[f], f)
  <2> DEFINE after == [f \in Files |-> IF f \in names THEN new[f] ELSE docs[f]]
             v == Rewrites(docs, names, new, order)
             t == [files |-> v.files, before |-> docs, after |-> v.after, order |-> v.order]
  <2>1. v.after = after /\ v.files = names /\ v.order = order
    BY <1>2 DEF Rewrites, Verdict
  <2> HIDE DEF v
  <2>2. t.files = names /\ t.before = docs /\ t.after = after /\ t.order = order
    BY <2>1
  <2> HIDE DEF t
  <2>3. /\ after \in [Files -> Document]
        /\ \A g \in Files : after[g] = IF g \in names THEN new[g] ELSE docs[g]
    OBVIOUS
  <2> HIDE DEF after
  <2>4. ASSUME NEW f \in names, NEW id \in IdsIn(docs[f]) \ IdsIn(after[f])
        PROVE  \E g \in Files :
                  /\ id \in IdsIn(after[g])
                  /\ id \in IdsIn(docs[g]) \/ (g \in names /\ order[g] < order[f])
    BY <2>3, <2>4
  <2>5. AsksIn(docs["backlog"]) \subseteq AsksIn(after["backlog"])
    BY <2>3 DEF Files
  <2>6. KeepsRecords(t)
    BY <2>2, <2>3, <2>4, <2>5 DEF KeepsRecords
  <2>7. AllIds(docs) \subseteq AllIds(after)
    <3> SUFFICES ASSUME NEW f \in Files, NEW id \in IdsIn(docs[f])
                 PROVE  \E g \in Files : id \in IdsIn(after[g])
      BY DEF AllIds
    <3>1. CASE id \in IdsIn(after[f])
      BY <3>1
    <3>2. CASE id \notin IdsIn(after[f])
      BY <2>3, <2>4, <3>2
    <3> QED
      BY <3>1, <3>2
  <2>8. Keeping(v, docs)
    BY <2>1, <2>3, <2>5, <2>6, <2>7 DEF Keeping, t
  <2> QED
    BY <2>8 DEF v
<1> QED
  BY <1>1, <1>2

\* A search finds a task in a document.
LEMMA FoundTask ==
    ASSUME NEW docs \in [Files -> Document], NEW id, NEW section,
           NEW m \in Matches(docs, id, section)
    PROVE  /\ m.file \in Files /\ m.at \in Blocks(docs[m.file])
           /\ docs[m.file] \in Document /\ docs[m.file][m.at] \in Task
           /\ docs[m.file][m.at].id = id
<1>1. m.file \in Files /\ m.at \in Blocks(docs[m.file]) /\ docs[m.file][m.at].id = id
  BY FoundPlace
<1>2. docs[m.file] \in Document
  BY <1>1
<1>3. m.at \in DOMAIN docs[m.file] /\ docs[m.file][m.at].kind = "task"
  BY <1>1 DEF Blocks, OfKind
<1>4. docs[m.file][m.at] \in Task
  BY <1>2, <1>3, DocumentLines, LineKinds
<1> QED
  BY <1>1, <1>2, <1>4

LEMMA StayKeeps ==
    ASSUME NEW docs \in [Files -> Document], NEW id, NEW section,
           NEW m \in Matches(docs, id, section),
           NEW t \in Task, t.id = docs[m.file][m.at].id
    PROVE  Keeping(Rewrite(docs, m.file, Amend(docs[m.file], m.at, t)), docs)
<1> DEFINE f == m.file
           new == Amend(docs[f], m.at, t)
<1>1. f \in Files /\ docs[f] \in Document /\ m.at \in Blocks(docs[f])
  BY FoundTask
<1>2. new \in Document /\ IdsIn(new) = IdsIn(docs[f]) /\ AsksIn(new) = AsksIn(docs[f])
  BY <1>1, AmendedRecord
<1> HIDE DEF new
<1>3. Keeping(Rewrite(docs, f, new), docs)
  BY <1>1, <1>2, RewriteKeeps
<1> QED
  BY <1>3 DEF new

\* A task that moves is in its destination before it leaves where it was.
LEMMA SetKeeps ==
    ASSUME NEW docs \in [Files -> Document], NEW id, NEW u \in Updates
    PROVE  Keeping(Set(docs, id, u), docs)
<1> DEFINE source == Source(docs, id, u.source)
           from == source.file
           to == IF u.file = None THEN from ELSE u.file
           old == docs[from][source.at]
           t == ApplyMetadata(old, u)
           rest == RemoveAt(docs[from], source.at)
           base == IF from = to THEN rest ELSE docs[to]
           new == InsertTask(base, t, u.section)
<1>1. CASE (u.file = None) # (u.section = None) \/ ~Located(docs, id, u.source)
  BY <1>1, UnchangedKeeps DEF Set
<1>2. CASE (u.file = None) = (u.section = None) /\ Located(docs, id, u.source)
  <2>1. source \in Matches(docs, id, u.source)
    BY <1>2, LocatedSource
  <2>2. /\ from \in Files /\ source.at \in Blocks(docs[from])
        /\ docs[from] \in Document /\ old \in Task /\ old.id = id
    <3> HIDE DEF source
    <3> QED
      BY <2>1, FoundTask
  <2>3. t \in Task /\ t.id = old.id
    BY <2>2, UpdatedTask
  <2>4. CASE u.section = None
    <3>1. Set(docs, id, u) = Rewrite(docs, from, Amend(docs[from], source.at, t))
      BY <1>2, <2>4 DEF Set
    <3> HIDE DEF source, t
    <3>2. Keeping(Rewrite(docs, from, Amend(docs[from], source.at, t)), docs)
      BY <2>1, <2>3, StayKeeps
    <3> QED
      BY <3>1, <3>2
  <2>5. CASE u.section # None /\ ~ValidLifecycle(t, u.section, to)
    <3>1. Set(docs, id, u) = Refuse(docs)
      BY <1>2, <2>5 DEF Set
    <3> QED
      BY <3>1, UnchangedKeeps
  <2>6. CASE u.section # None /\ ValidLifecycle(t, u.section, to)
    <3>1. to \in Files /\ u.section \in Sections
      BY <1>2, <2>6 DEF Updates
    <3>2. /\ rest \in Document /\ IdsIn(docs[from]) \subseteq IdsIn(rest) \cup {id}
          /\ AsksIn(rest) = AsksIn(docs[from])
      BY <2>2, RemovedRecord
    <3>3. /\ from = to => Set(docs, id, u) = Rewrite(docs, from, new)
          /\ from # to => Set(docs, id, u) =
                Rewrites(docs, {from, to}, [f \in Files |-> IF f = to THEN new ELSE rest], First(to))
      BY <1>2, <2>6 DEF Set
    <3> HIDE DEF t, rest, from, old, to, source
    <3>4. base \in Document /\ AsksIn(base) = AsksIn(docs[to])
          /\ IdsIn(docs[to]) \subseteq IdsIn(base) \cup {id}
      BY <3>1, <3>2
    <3> HIDE DEF base
    <3>5. new \in Document /\ IdsIn(new) = IdsIn(base) \cup {id} /\ AsksIn(new) = AsksIn(base)
      BY <2>2, <2>3, <3>1, <3>4, InsertedRecord
    <3> HIDE DEF new
    <3>6. CASE from = to
      BY <3>1, <3>3, <3>4, <3>5, <3>6, RewriteKeeps
    <3>7. CASE from # to
      <4> DEFINE after == [f \in Files |-> IF f = to THEN new ELSE rest]
                 names == {from, to}
                 order == First(to)
      <4>1. /\ names \in SUBSET Files /\ from \in names /\ to \in names
            /\ Set(docs, id, u) = Rewrites(docs, names, after, order)
        BY <2>2, <3>1, <3>3, <3>7
      <4>2. after[to] = new /\ after[from] = rest
        BY <2>2, <3>1, <3>7
      <4>3. order \in [Files -> Nat] /\ order[to] < order[from]
        BY <2>2, <3>1, <3>7 DEF First
      <4>4. \A f \in names : f = from \/ f = to
        OBVIOUS
      <4> HIDE DEF after, names, order
      <4>5. \A f \in names : after[f] \in Document
        BY <3>2, <3>5, <4>2, <4>4
      <4>6. ASSUME NEW f \in names, NEW x \in IdsIn(docs[f]) \ IdsIn(after[f])
            PROVE  f = from /\ x = id
        BY <3>2, <3>4, <3>5, <4>2, <4>4, <4>6
      <4>7. id \in IdsIn(after[to])
        BY <3>5, <4>2
      <4>8. \A f \in names : \A x \in IdsIn(docs[f]) \ IdsIn(after[f]) : \E g \in Files :
               \/ g \notin names /\ x \in IdsIn(docs[g])
               \/ /\ g \in names /\ x \in IdsIn(after[g])
                  /\ x \in IdsIn(docs[g]) \/ order[g] < order[f]
        BY <3>1, <4>1, <4>3, <4>6, <4>7
      <4>9. "backlog" \in names => AsksIn(docs["backlog"]) \subseteq AsksIn(after["backlog"])
        BY <3>2, <3>4, <3>5, <4>2, <4>4
      <4> QED
        BY <4>1, <4>3, <4>5, <4>8, <4>9, RewritesKeep
    <3> QED
      BY <3>6, <3>7
  <2> QED
    BY <2>4, <2>5, <2>6
<1> QED
  BY <1>1, <1>2

LEMMA LaneUpdate ==
    ASSUME NEW role \in Roles
    PROVE  [NoUpdate EXCEPT !.file = "tasks", !.section = role, !.owner = role,
                            !.status = "In Progress"] \in Updates
<1>1. role \in Sections /\ role \in Owners /\ "tasks" \in Files /\ "In Progress" \in Statuses
  BY DEF Sections, Owners, Files, Statuses
<1>2. NoUpdate \in Updates
  BY DEF NoUpdate, Updates
<1> QED
  BY <1>1, <1>2 DEF Updates

LEMMA AssignKeeps ==
    ASSUME NEW docs \in [Files -> Document], NEW id, NEW role
    PROVE  Keeping(Assign(docs, id, role), docs)
<1> DEFINE u == [NoUpdate EXCEPT !.file = "tasks", !.section = role, !.owner = role,
                                 !.status = "In Progress"]
<1>1. \/ Assign(docs, id, role) \in {Refuse(docs), Answer(docs)}
      \/ role \in Roles /\ Assign(docs, id, role) = Set(docs, id, u)
  BY DEF Assign
<1>2. role \in Roles => u \in Updates
  BY LaneUpdate
<1> HIDE DEF u
<1> QED
  BY <1>1, <1>2, SetKeeps, UnchangedKeeps

LEMMA CreateKeeps ==
    ASSUME NEW docs \in [Files -> Document], NEW id \in TaskIds, NEW category \in {"AFK", "HITL"},
           NEW branch \in Branches, NEW deps \in SUBSET TaskIds, NEW body \in Bodies
    PROVE  Keeping(CreateBacklogTask(docs, id, category, branch, deps, body), docs)
<1> DEFINE t == [kind |-> "task", id |-> id, owner |-> "Unassigned", branch |-> branch,
                 status |-> "Backlog", category |-> category, deps |-> deps,
                 after |-> None, body |-> body]
           doc == docs["backlog"]
           new == Append(doc, t)
<1>1. CreateBacklogTask(docs, id, category, branch, deps, body) \in
         {Refuse(docs), Rewrite(docs, "backlog", new)}
  BY DEF CreateBacklogTask
<1>2. t \in Task
  BY DEF Task, Owners, Statuses
<1> HIDE DEF t
<1>3. "backlog" \in Files /\ doc \in Document
  BY DEF Files
<1>4. new \in Document /\ Range(new) = Range(doc) \cup {t}
  BY <1>2, <1>3, Appended DEF Document, Line
<1> HIDE DEF new, doc
<1>5. IdsIn(doc) \subseteq IdsIn(new)
  <2>1. TasksIn(doc) \subseteq TasksIn(new)
    BY <1>3, <1>4, ByRange
  <2>2. IdsIn(new) = {x.id : x \in TasksIn(new)} /\ IdsIn(doc) = {x.id : x \in TasksIn(doc)}
    BY <1>3, <1>4, ByRange
  <2> QED
    BY <2>1, <2>2
<1>6. AsksIn(doc) \subseteq AsksIn(new)
  BY <1>3, <1>4, AsksByRange
<1> QED
  BY <1>1, <1>3, <1>4, <1>5, <1>6, RewriteKeeps, UnchangedKeeps DEF doc

LEMMA ContinueKeeps ==
    ASSUME NEW docs \in [Files -> Document], NEW id, NEW role, NEW branch, NEW lease \in Leases
    PROVE  Keeping(RequestContinuation(docs, id, role, branch, lease), docs)
<1> DEFINE source == Source(docs, id, None)
           t == docs[source.file][source.at]
           n == [t EXCEPT !.after = lease]
<1>1. \/ RequestContinuation(docs, id, role, branch, lease) = Refuse(docs)
      \/ /\ Located(docs, id, None) /\ source.file = "tasks"
         /\ RequestContinuation(docs, id, role, branch, lease) =
               Rewrite(docs, "tasks", Amend(docs["tasks"], source.at, n))
  BY DEF RequestContinuation
<1>2. CASE Located(docs, id, None) /\ source.file = "tasks"
  <2>1. source \in Matches(docs, id, None)
    BY <1>2, LocatedSource
  <2>2. t \in Task
    <3> HIDE DEF source
    <3> QED
      BY <2>1, FoundTask
  <2>3. n \in Task /\ n.id = t.id
    BY <2>2 DEF Task
  <2> HIDE DEF source, n
  <2>4. Keeping(Rewrite(docs, source.file, Amend(docs[source.file], source.at, n)), docs)
    BY <2>1, <2>3, StayKeeps
  <2> QED
    BY <1>1, <1>2, <2>4, UnchangedKeeps
<1> QED
  BY <1>1, <1>2, UnchangedKeeps

LEMMA DroppedRecords ==
    ASSUME NEW doc \in Document, NEW P
    PROVE  /\ \A i \in Blocks(doc) \ P : doc[i].id \in IdsIn(Drop(doc, P))
           /\ \A i \in OfKind(doc, "ask") \ P : doc[i] \in AsksIn(Drop(doc, P))
<1> DEFINE new == Drop(doc, P)
<1>1. new \in Document /\ Range(new) = {doc[i] : i \in DOMAIN doc \ P}
  BY DroppedLines
<1> HIDE DEF new
<1>2. ASSUME NEW i \in Blocks(doc) \ P PROVE doc[i].id \in IdsIn(new)
  <2>1. i \in DOMAIN doc /\ doc[i].kind = "task"
    BY DEF Blocks, OfKind
  <2>2. doc[i] \in Range(new)
    BY <1>1, <2>1
  <2>3. doc[i] \in Task
    BY <2>1, DocumentLines, LineKinds
  <2>4. doc[i] \in TasksIn(new)
    BY <1>1, <2>2, <2>3, ByRange
  <2>5. IdsIn(new) = {x.id : x \in TasksIn(new)}
    BY <1>1, ByRange
  <2> QED
    BY <2>4, <2>5
<1>3. ASSUME NEW i \in OfKind(doc, "ask") \ P PROVE doc[i] \in AsksIn(new)
  BY <1>1, AsksByRange DEF OfKind
<1> QED
  BY <1>2, <1>3 DEF new

\* A repair of copies leaves the one it was asked to keep.
LEMMA ReconcileKeeps ==
    ASSUME NEW docs \in [Files -> Document], NEW id, NEW section
    PROVE  Keeping(ReconcileDuplicate(docs, id, section), docs)
<1> DEFINE matches == Matches(docs, id, None)
           keepers == Matches(docs, id, section)
           redundant == matches \ keepers
           names == {m.file : m \in redundant}
           dropped(f) == {m.at : m \in {n \in redundant : n.file = f}}
           new == [f \in Files |-> Drop(docs[f], dropped(f))]
<1>1. \/ ReconcileDuplicate(docs, id, section) = Refuse(docs)
      \/ /\ Cardinality(keepers) = 1
         /\ ReconcileDuplicate(docs, id, section) = Rewrites(docs, names, new, PathOrder)
  BY DEF ReconcileDuplicate
<1>2. CASE Cardinality(keepers) = 1
  <2>1. keepers # {}
    BY <1>2, FS_EmptySet
  <2>2. PICK k \in keepers : TRUE
    BY <2>1
  <2>3. /\ k.file \in Files /\ k.at \in Blocks(docs[k.file]) /\ docs[k.file][k.at].id = id
        /\ k = [file |-> k.file, at |-> k.at]
    BY FoundPlace
  <2>4. \A m \in redundant : /\ m.file \in Files /\ m.at \in Blocks(docs[m.file])
                             /\ docs[m.file][m.at].id = id /\ m = [file |-> m.file, at |-> m.at]
    BY FoundPlace
  <2>5. k \notin redundant
    OBVIOUS
  <2> HIDE DEF redundant, keepers
  <2>6. ASSUME NEW f \in Files
        PROVE  dropped(f) \subseteq Blocks(docs[f]) /\ \A i \in dropped(f) : docs[f][i].id = id
    BY <2>4
  <2>7. k.at \notin dropped(k.file)
    BY <2>3, <2>4, <2>5
  <2>8. names \in SUBSET Files
    BY <2>4
  <2> HIDE DEF dropped, names
  <2>9. \A f \in Files : new[f] = Drop(docs[f], dropped(f))
    OBVIOUS
  <2> HIDE DEF new
  <2>10. \A f \in names : new[f] \in Document
    BY <2>8, <2>9, DroppedLines
  <2>11. id \in IdsIn(docs[k.file])
    BY <2>3 DEF IdsIn
  <2>12. id \in IdsIn(new[k.file])
    BY <2>3, <2>7, <2>9, DroppedRecords
  <2>13. ASSUME NEW f \in names, NEW x \in IdsIn(docs[f]) \ IdsIn(new[f]) PROVE x = id
    <3>1. PICK i \in Blocks(docs[f]) : x = docs[f][i].id
      BY DEF IdsIn
    <3>2. f \in Files /\ docs[f] \in Document
      BY <2>8
    <3>3. i \in dropped(f)
      BY <2>9, <3>1, <3>2, DroppedRecords
    <3> QED
      BY <2>6, <3>1, <3>2, <3>3
  <2>14. \A f \in names : \A x \in IdsIn(docs[f]) \ IdsIn(new[f]) : \E g \in Files :
            \/ g \notin names /\ x \in IdsIn(docs[g])
            \/ /\ g \in names /\ x \in IdsIn(new[g])
               /\ x \in IdsIn(docs[g]) \/ PathOrder[g] < PathOrder[f]
    BY <2>3, <2>11, <2>12, <2>13
  <2>15. AsksIn(docs["backlog"]) \subseteq AsksIn(new["backlog"])
    <3>1. "backlog" \in Files /\ docs["backlog"] \in Document
      BY DEF Files
    <3>2. \A i \in OfKind(docs["backlog"], "ask") : i \notin dropped("backlog")
      BY <2>6, <3>1 DEF Blocks, OfKind
    <3>3. \A i \in OfKind(docs["backlog"], "ask") : docs["backlog"][i] \in AsksIn(new["backlog"])
      BY <2>9, <3>1, <3>2, DroppedRecords
    <3> QED
      BY <3>3 DEF AsksIn
  <2>16. PathOrder \in [Files -> Nat]
    BY DEF PathOrder, Files
  <2>17. Keeping(Rewrites(docs, names, new, PathOrder), docs)
    BY <2>8, <2>10, <2>14, <2>15, <2>16, RewritesKeep
  <2> QED
    BY <1>1, <2>17, UnchangedKeeps
<1> QED
  BY <1>1, <1>2, UnchangedKeeps

LEMMA RankBounded == ASSUME NEW t PROVE Rank(t) \in 0 .. 3
<1> DEFINE owned == IF t.owner = "Unassigned" THEN 0 ELSE 1
           begun == IF t.status = "In Progress" THEN 2 ELSE 0
<1>1. owned \in {0, 1} /\ begun \in {0, 2}
  OBVIOUS
<1>2. Rank(t) = owned + begun
  BY DEF Rank
<1> HIDE DEF owned, begun
<1> QED
  BY <1>1, <1>2

\* Of the copies of a record there is a best and last one.
LEMMA BestRecord ==
    ASSUME NEW doc \in Document, NEW x \in IdsIn(doc)
    PROVE  \E i \in Blocks(doc) : doc[i].id = x /\ ~Outranked(doc, i)
<1> DEFINE copies == {i \in Blocks(doc) : doc[i].id = x}
           rank(i) == Rank(doc[i])
           ranks == {rank(i) + 1 : i \in copies}
           best == {i \in copies : rank(i) + 1 = Max(ranks)}
<1>1. DOMAIN doc = 1 .. Len(doc) /\ Len(doc) \in Nat
  BY DocumentLines
<1>2. copies # {} /\ copies \subseteq 1 .. Len(doc)
  BY <1>1 DEF IdsIn, Blocks, OfKind
<1>3. \A i : rank(i) \in 0 .. 3
  BY RankBounded
<1>4. \A i, k : Rank(doc[k]) = rank(k) /\ Rank(doc[i]) = rank(i)
  OBVIOUS
<1> HIDE DEF rank
<1>5. ranks # {} /\ ranks \subseteq 1 .. 4
  BY <1>2, <1>3
<1>6. Max(ranks) \in ranks /\ \A r \in ranks : Max(ranks) >= r
  BY <1>5, FirstAndLast
<1>7. best # {} /\ best \subseteq 1 .. Len(doc)
  BY <1>2, <1>6
<1>8. Max(best) \in best /\ \A k \in best : Max(best) >= k
  BY <1>1, <1>7, FirstAndLast
<1> DEFINE i == Max(best)
<1>9. i \in Blocks(doc) /\ doc[i].id = x /\ rank(i) + 1 = Max(ranks) /\ i \in 1 .. Len(doc)
  BY <1>7, <1>8
<1>10. ASSUME NEW k \in Blocks(doc), doc[k].id = doc[i].id
       PROVE  ~(rank(k) > rank(i) \/ (rank(k) = rank(i) /\ k > i))
  <2>1. k \in copies
    BY <1>9, <1>10
  <2>2. rank(k) + 1 <= rank(i) + 1
    <3>1. rank(k) + 1 \in ranks
      BY <2>1
    <3>2. Max(ranks) >= rank(k) + 1
      BY <1>6, <3>1
    <3> QED
      BY <1>3, <1>5, <1>6, <1>9, <3>1, <3>2
  <2>3. rank(k) = rank(i) => k <= i
    <3>1. rank(k) = rank(i) => k \in best
      BY <1>9, <2>1
    <3> QED
      BY <1>2, <1>8, <1>9, <2>1, <3>1
  <2> HIDE DEF i, copies, best, ranks
  <2> QED
    BY <1>2, <1>3, <1>9, <2>1, <2>2, <2>3
<1> HIDE DEF i, copies, best, ranks
<1>11. ~Outranked(doc, i)
  BY <1>4, <1>10 DEF Outranked
<1> QED
  BY <1>9, <1>11

LEMMA NormalizeKeeps ==
    ASSUME NEW docs \in [Files -> Document]
    PROVE  Keeping(NormalizeTasks(docs), docs)
<1> DEFINE old == docs["tasks"]
           doc == DropRepeatedHeadings(old)
           outranked == {i \in Blocks(doc) : Outranked(doc, i)}
           new == Drop(doc, outranked)
<1>1. NormalizeTasks(docs) \in {Refuse(docs), Rewrite(docs, "tasks", new)}
  BY DEF NormalizeTasks
<1>2. "tasks" \in Files /\ old \in Document
  BY DEF Files
<1>3. doc \in Document /\ IdsIn(old) \subseteq IdsIn(doc)
  <2> DEFINE P == {i \in DOMAIN old :
                      old[i].kind \in {"top", "section"} =>
                         \A k \in 1 .. (i - 1) : old[k] # old[i]}
  <2>1. P \subseteq DOMAIN old /\ doc = Keep(old, P)
    BY DEF DropRepeatedHeadings
  <2>2. \A i \in Blocks(old) : i \in P
    BY DEF Blocks, OfKind
  <2> HIDE DEF P, doc
  <2>3. Keep(old, P) = Drop(old, DOMAIN old \ P)
    <3>1. DOMAIN old \ (DOMAIN old \ P) = P
      BY <2>1
    <3> QED
      BY <3>1 DEF Drop
  <2>4. doc \in Document
    BY <1>2, <2>1, <2>3, DroppedLines
  <2>5. \A i \in Blocks(old) : old[i].id \in IdsIn(doc)
    BY <1>2, <2>1, <2>2, <2>3, DroppedRecords
  <2> QED
    BY <2>4, <2>5 DEF IdsIn
<1> HIDE DEF doc
<1>4. new \in Document
  BY <1>3, DroppedLines
<1>5. IdsIn(doc) \subseteq IdsIn(new)
  <2> SUFFICES ASSUME NEW x \in IdsIn(doc) PROVE x \in IdsIn(new)
    OBVIOUS
  <2>1. PICK i \in Blocks(doc) : doc[i].id = x /\ ~Outranked(doc, i)
    BY <1>3, BestRecord
  <2>2. i \notin outranked
    BY <2>1
  <2> HIDE DEF outranked
  <2> QED
    BY <1>3, <2>1, <2>2, DroppedRecords
<1> HIDE DEF new, old
<1>6. IdsIn(docs["tasks"]) \subseteq IdsIn(new)
  BY <1>3, <1>5 DEF old
<1> QED
  BY <1>1, <1>2, <1>4, <1>6, RewriteKeeps, UnchangedKeeps

\* A question is taken away when its task is in the archive.
LEMMA ClearKeeps ==
    ASSUME NEW docs \in [Files -> Document], NEW id
    PROVE  Keeping(ClearCompletedHumanInput(docs, id), docs)
<1> DEFINE source == Source(docs, id, None)
           backlog == docs["backlog"]
           asks == {i \in OfKind(backlog, "ask") :
                       backlog[i].id = id /\ SectionAt(backlog, i) = "Awaiting Human Input"}
           new == Drop(backlog, asks)
<1>1. \/ ClearCompletedHumanInput(docs, id) \in {Refuse(docs), Answer(docs)}
      \/ /\ Located(docs, id, None) /\ source.file = "archive"
         /\ ClearCompletedHumanInput(docs, id) = Rewrite(docs, "backlog", new)
  BY DEF ClearCompletedHumanInput
<1>2. CASE Located(docs, id, None) /\ source.file = "archive"
  <2>1. source \in Matches(docs, id, None)
    BY <1>2, LocatedSource
  <2>2. id \in IdsIn(docs["archive"])
    <3> HIDE DEF source
    <3>1. source.at \in Blocks(docs[source.file]) /\ docs[source.file][source.at].id = id
      BY <2>1, FoundPlace
    <3> QED
      BY <1>2, <3>1 DEF IdsIn
  <2>3. "backlog" \in Files /\ backlog \in Document
    BY DEF Files
  <2>4. \A i \in asks : backlog[i].kind = "ask" /\ backlog[i].id = id
    BY DEF OfKind
  <2> HIDE DEF asks, backlog
  <2>5. new \in Document
    BY <2>3, DroppedLines
  <2>6. IdsIn(backlog) \subseteq IdsIn(new)
    <3>1. \A i \in Blocks(backlog) : i \notin asks
      BY <2>4 DEF Blocks, OfKind
    <3>2. \A i \in Blocks(backlog) : backlog[i].id \in IdsIn(new)
      BY <2>3, <3>1, DroppedRecords
    <3> QED
      BY <3>2 DEF IdsIn
  <2>7. \A i \in OfKind(backlog, "ask") : backlog[i] \in AsksIn(new) \/ backlog[i].id = id
    BY <2>3, <2>4, DroppedRecords
  <2>8. \A a \in AsksIn(backlog) : a \in AsksIn(new) \/ a.id \in IdsIn(docs["archive"])
    BY <2>2, <2>7 DEF AsksIn
  <2> HIDE DEF new
  <2>9. Keeping(Rewrite(docs, "backlog", new), docs)
    BY <2>3, <2>5, <2>6, <2>8, RewriteKeeps DEF backlog
  <2> QED
    BY <1>1, <2>9, UnchangedKeeps
<1> QED
  BY <1>1, <1>2, UnchangedKeeps

\* Whatever the board, a command keeps its records and its open questions.
LEMMA DecisionKeeps ==
    ASSUME NEW docs \in [Files -> Document], NEW c \in Commands
    PROVE  Keeping(Decide(c, docs), docs)
<1>1. Keeping(Get(docs, c.id), docs)
  BY UnchangedKeeps DEF Get
<1>2. c.op = "create" =>
         Keeping(CreateBacklogTask(docs, c.id, c.category, c.branch, c.deps, c.body), docs)
  BY CommandFields, CreateKeeps
<1>3. c.op = "set" => Keeping(Set(docs, c.id, c.update), docs)
  BY CommandFields, SetKeeps
<1>4. c.op = "continue" =>
         Keeping(RequestContinuation(docs, c.id, c.role, c.branch, c.lease), docs)
  BY CommandFields, ContinueKeeps
<1> QED
  BY <1>1, <1>2, <1>3, <1>4, UnchangedKeeps, AssignKeeps, ReconcileKeeps, NormalizeKeeps,
     ClearKeeps, CommandFields DEF Decide, Operations

-----------------------------------------------------------------------------
(* The files and the journal.                                              *)

LEMMA RecordsInvInit == Init => RecordsInv
BY BoardsAssumption DEF Init, RecordsInv

\* The documents stay documents.
LEMMA DocumentsStay ==
    ASSUME BoardInv, RecordsInv, [Next]_vars,
           \A f \in Files, b \in [Files -> Document] : Edits(f, b) \subseteq Document
    PROVE  files' \in [Files -> Document]
<1>1. CASE files' = files
  BY <1>1 DEF RecordsInv
<1>2. ASSUME NEW p \in Procs, pc[p] = "write", files' = verdict[p].after
      PROVE  files' \in [Files -> Document]
  <2>1. command[p] \in Commands /\ verdict[p] = Decide(command[p], files)
    BY <1>2, PlannedIsBoard
  <2>2. Keeping(Decide(command[p], files), files)
    BY <2>1, DecisionKeeps DEF RecordsInv
  <2> QED
    BY <1>2, <2>1, <2>2 DEF Keeping
<1>3. ASSUME NEW p \in Procs, Recovering(p), NEW f \in Files,
             files' = [files EXCEPT ![f] = journal.after[f]]
      PROVE  files' \in [Files -> Document]
  <2>1. journal.after \in [Files -> Document]
    BY <1>3 DEF BoardInv, RecoveryInv, Recovering, RecordsInv, KeepsRecords
  <2> QED
    BY <1>3, <2>1 DEF RecordsInv
<1>4. ASSUME NEW f \in Files, EditByHand(f) PROVE files' \in [Files -> Document]
  <2>1. PICK doc \in Edits(f, files) : files' = [files EXCEPT ![f] = doc]
    BY <1>4 DEF EditByHand
  <2> QED
    BY <2>1 DEF RecordsInv
<1>5. ASSUME NEW p \in Procs, Step(p) \/ Fault(p) \/ Crash(p)
      PROVE  \/ files' = files
             \/ pc[p] = "write" /\ files' = verdict[p].after
             \/ \E f \in Files : Recovering(p) /\ files' = [files EXCEPT ![f] = journal.after[f]]
  BY <1>5 DEF Step, Fault, Crash, Lock, Inspect, NothingToRecover, Replay, RemoveJournal, Run,
              Write, Stage, ReplayFails, RemoveJournalFails, WriteFails, StageFails, Fail
<1>6. CASE UNCHANGED vars
  BY <1>1, <1>6 DEF vars
<1> QED
  BY <1>1, <1>2, <1>3, <1>4, <1>5, <1>6 DEF Next, ByHand

LEMMA JournalKeeps ==
    ASSUME BoardInv, RecordsInv, [Next]_vars
    PROVE  journal' # Absent => KeepsRecords(journal')
<1>1. CASE journal' \in {journal, Absent}
  BY <1>1 DEF RecordsInv
<1>2. ASSUME NEW p \in Procs, pc[p] = "stage", journal' = Intent(p)
      PROVE  KeepsRecords(journal')
  <2>1. command[p] \in Commands /\ verdict[p] = Decide(command[p], files)
    BY <1>2, PlannedIsBoard
  <2>2. Keeping(verdict[p], files)
    BY <2>1, DecisionKeeps DEF RecordsInv
  <2>3. verdict[p].journaled
    BY <1>2 DEF BoardInv, PlanInv
  <2> QED
    BY <1>2, <2>2, <2>3 DEF Keeping, Intent
<1>3. ASSUME NEW p \in Procs, Step(p) \/ Fault(p) \/ Crash(p)
      PROVE  journal' \in {journal, Absent} \/ (pc[p] = "stage" /\ journal' = Intent(p))
  BY <1>3 DEF Step, Fault, Crash, Lock, Inspect, NothingToRecover, Replay, RemoveJournal, Run,
              Write, Stage, ReplayFails, RemoveJournalFails, WriteFails, StageFails, Fail
<1>4. ASSUME NEW f \in Files, EditByHand(f) PROVE journal' = journal
  BY <1>4 DEF EditByHand
<1>5. CASE UNCHANGED vars
  BY <1>1, <1>5 DEF vars
<1> QED
  BY <1>1, <1>2, <1>3, <1>4, <1>5 DEF Next, ByHand

\* In every reachable state the files are documents, and an unfinished move
\* keeps their records and questions.
THEOREM RecordsInvHolds ==
    ASSUME \A f \in Files, b \in [Files -> Document] : Edits(f, b) \subseteq Document
    PROVE  Spec => []RecordsInv
<1>1. BoardInv /\ RecordsInv /\ [Next]_vars => RecordsInv'
  BY DocumentsStay, JournalKeeps DEF RecordsInv
<1> QED
  BY <1>1, RecordsInvInit, BoardInvHolds, PTL DEF Spec

\* What changes the files when nobody edits them: a command that needs no
\* journal, or the journal's next document.
LEMMA FilesChange ==
    ASSUME [Next]_vars, ~ByHand
    PROVE  \/ files' = files
           \/ \E p \in Procs : pc[p] = "write" /\ files' = verdict[p].after
           \/ \E p \in Procs, f \in Files :
                 /\ Recovering(p) /\ NextToWrite(p, f)
                 /\ files' = [files EXCEPT ![f] = journal.after[f]]
<1>1. ASSUME NEW p \in Procs, Step(p) \/ Fault(p) \/ Crash(p)
      PROVE  \/ files' = files
             \/ pc[p] = "write" /\ files' = verdict[p].after
             \/ \E f \in Files : /\ Recovering(p) /\ NextToWrite(p, f)
                                 /\ files' = [files EXCEPT ![f] = journal.after[f]]
  BY <1>1 DEF Step, Fault, Crash, Lock, Inspect, NothingToRecover, Replay, RemoveJournal, Run,
              Write, Stage, ReplayFails, RemoveJournalFails, WriteFails, StageFails, Fail
<1> QED
  BY <1>1 DEF Next, vars

\* What a command that needs no journal writes is its decision on the files.
LEMMA WriteKeeps ==
    ASSUME BoardInv, RecordsInv, NEW p \in Procs, pc[p] = "write"
    PROVE  Keeping(verdict[p], files)
<1>1. command[p] \in Commands /\ verdict[p] = Decide(command[p], files)
  BY PlannedIsBoard
<1> QED
  BY <1>1, DecisionKeeps DEF RecordsInv

\* A document that is replayed loses a task only to a document that has it, or
\* that a person has taken it from.
LEMMA ReplayKeeps ==
    ASSUME BoardInv, RecordsInv, NEW p \in Procs, Recovering(p), NEW f \in Files,
           NextToWrite(p, f), files' = [files EXCEPT ![f] = journal.after[f]],
           NEW x \in AllIds(files) \ AllIds(files')
    PROVE  \E g \in Files \ journal.files : x \in IdsIn(journal.before[g]) \ IdsIn(files[g])
<1>1. /\ journal # Absent /\ KeepsRecords(journal) /\ ~Torn
      /\ todo[p] \subseteq journal.files
      /\ \A g \in journal.files : g \in todo[p] \/ files[g] = journal.after[g]
  BY DEF BoardInv, RecoveryInv, Recovering, RecordsInv
<1>2. f \in todo[p] /\ \A g \in todo[p] : journal.order[f] <= journal.order[g]
  BY DEF NextToWrite
<1>3. \A g \in Files : files'[g] = IF g = f THEN journal.after[f] ELSE files[g]
  BY DEF RecordsInv
<1>4. x \in IdsIn(files[f]) /\ \A g \in Files : x \notin IdsIn(files'[g])
  BY <1>3 DEF AllIds
<1>5. files[f] = journal.before[f] /\ x \in IdsIn(journal.before[f]) \ IdsIn(journal.after[f])
  BY <1>1, <1>2, <1>3, <1>4 DEF Torn, Matched
<1>6. PICK g \in Files : /\ x \in IdsIn(journal.after[g])
                         /\ \/ x \in IdsIn(journal.before[g])
                            \/ g \in journal.files /\ journal.order[g] < journal.order[f]
  BY <1>1, <1>2, <1>5 DEF KeepsRecords
<1>7. g # f
  BY <1>5, <1>6
<1>8. x \notin IdsIn(files[g])
  BY <1>3, <1>4, <1>7
<1>9. CASE g \in journal.files
  <2>1. files[g] = journal.before[g] /\ files[g] # journal.after[g]
    BY <1>1, <1>6, <1>8, <1>9 DEF Torn, Matched
  <2>2. journal.order[g] < journal.order[f] /\ g \in todo[p]
    BY <1>1, <1>6, <1>8, <1>9, <2>1
  <2>3. journal.order[g] \in Nat /\ journal.order[f] \in Nat
    BY <1>1 DEF KeepsRecords
  <2> QED
    BY <1>2, <2>2, <2>3
<1>10. CASE g \notin journal.files
  <2>1. journal.after[g] = journal.before[g]
    BY <1>1, <1>10 DEF KeepsRecords
  <2> QED
    BY <1>6, <1>8, <1>10, <2>1
<1> QED
  BY <1>9, <1>10

\* No task disappears from the files, for any number of edits, failures and
\* crashes; the one way to lose it is a person deleting, in a document that the
\* unfinished move does not name, the copy that the move was to keep.
THEOREM NoTaskVanishesHolds ==
    ASSUME \A f \in Files, b \in [Files -> Document] : Edits(f, b) \subseteq Document
    PROVE  Spec => NoTaskVanishes
<1> DEFINE Deleted == ~ByHand =>
              \A id \in AllIds(files) \ AllIds(files') :
                  /\ journal # Absent
                  /\ \E f \in Files \ journal.files :
                        id \in IdsIn(journal.before[f]) \ IdsIn(files[f])
<1>1. BoardInv /\ RecordsInv /\ [Next]_vars => [Deleted]_vars
  <2> SUFFICES ASSUME BoardInv, RecordsInv, [Next]_vars, ~ByHand,
                      NEW id \in AllIds(files) \ AllIds(files')
               PROVE  /\ journal # Absent
                      /\ \E f \in Files \ journal.files :
                            id \in IdsIn(journal.before[f]) \ IdsIn(files[f])
    OBVIOUS
  <2>1. ASSUME NEW p \in Procs, pc[p] = "write", files' = verdict[p].after PROVE FALSE
    BY <2>1, WriteKeeps DEF Keeping
  <2>2. PICK p \in Procs, f \in Files : /\ Recovering(p) /\ NextToWrite(p, f)
                                        /\ files' = [files EXCEPT ![f] = journal.after[f]]
    BY <2>1, FilesChange
  <2>3. journal # Absent
    BY <2>2 DEF BoardInv, RecoveryInv, Recovering
  <2> QED
    BY <2>2, <2>3, ReplayKeeps
<1> QED
  BY <1>1, BoardInvHolds, RecordsInvHolds, PTL DEF Spec, NoTaskVanishes

\* An open question stays until its task is in the archive (human_input.go:29).
THEOREM AsksKeptHolds ==
    ASSUME \A f \in Files, b \in [Files -> Document] : Edits(f, b) \subseteq Document
    PROVE  Spec => AsksKept
<1> DEFINE Asked == ~ByHand =>
              \A i \in OfKind(files["backlog"], "ask") :
                  LET ask == files["backlog"][i]
                  IN  ask \in Range(files'["backlog"]) \/ ask.id \in IdsIn(files["archive"])
<1>1. BoardInv /\ RecordsInv /\ [Next]_vars => [Asked]_vars
  <2> SUFFICES ASSUME BoardInv, RecordsInv, [Next]_vars, ~ByHand,
                      NEW i \in OfKind(files["backlog"], "ask")
               PROVE  \/ files["backlog"][i] \in Range(files'["backlog"])
                      \/ files["backlog"][i].id \in IdsIn(files["archive"])
    OBVIOUS
  <2> DEFINE a == files["backlog"][i]
  <2>1. a \in AsksIn(files["backlog"]) /\ a \in Range(files["backlog"])
    BY DEF AsksIn, OfKind, Range
  <2> HIDE DEF a
  <2>2. \A doc : AsksIn(doc) \subseteq Range(doc)
    BY DEF AsksIn, OfKind, Range
  <2>3. CASE files' = files
    BY <2>1, <2>3 DEF a
  <2>4. ASSUME NEW p \in Procs, pc[p] = "write", files' = verdict[p].after
        PROVE  a \in Range(files'["backlog"]) \/ a.id \in IdsIn(files["archive"])
    BY <2>1, <2>2, <2>4, WriteKeeps DEF Keeping
  <2>5. ASSUME NEW p \in Procs, Recovering(p), NEW f \in Files, NextToWrite(p, f),
               files' = [files EXCEPT ![f] = journal.after[f]]
        PROVE  a \in Range(files'["backlog"])
    <3>1. /\ journal # Absent /\ ~Torn /\ f \in journal.files
      BY <2>5 DEF BoardInv, RecoveryInv, Recovering, NextToWrite
    <3>2. KeepsRecords(journal)
      BY <3>1 DEF RecordsInv
    <3>3. "backlog" \in Files
      BY DEF Files
    <3>4. files'["backlog"] = IF f = "backlog" THEN journal.after[f] ELSE files["backlog"]
      BY <2>5, <3>3 DEF RecordsInv
    <3>5. f = "backlog" => files[f] \in {journal.before[f], journal.after[f]}
      BY <3>1 DEF Torn, Matched
    <3>6. a \in AsksIn(files'["backlog"])
      BY <2>1, <3>2, <3>4, <3>5 DEF KeepsRecords
    <3> QED
      BY <2>2, <3>6
  <2> QED
    BY <2>3, <2>4, <2>5, FilesChange DEF a
<1> QED
  BY <1>1, BoardInvHolds, RecordsInvHolds, PTL DEF Spec, AsksKept

-----------------------------------------------------------------------------
(* How often a task occurs in a document, and on a board.                  *)

Spots(doc, x) == {i \in Blocks(doc) : doc[i].id = x}
Count(doc, x) == Cardinality(Spots(doc, x))
One(line, x) == IF line.kind = "task" /\ line.id = x THEN 1 ELSE 0

LEMMA SpotsFinite ==
    ASSUME NEW doc \in Document, NEW x
    PROVE  /\ Spots(doc, x) \subseteq 1 .. Len(doc)
           /\ IsFiniteSet(Spots(doc, x)) /\ Count(doc, x) \in Nat
<1>1. DOMAIN doc = 1 .. Len(doc) /\ Len(doc) \in Nat
  BY DocumentLines
<1>2. Spots(doc, x) \in SUBSET (1 .. Len(doc))
  BY <1>1 DEF Spots, Blocks, OfKind
<1>3. IsFiniteSet(1 .. Len(doc))
  BY <1>1, FS_Interval
<1> QED
  BY <1>2, <1>3, FS_Subset, FS_CardinalityType DEF Count

LEMMA SpotsByLine ==
    ASSUME NEW doc \in Document, NEW x
    PROVE  Spots(doc, x) = {i \in 1 .. Len(doc) : doc[i].kind = "task" /\ doc[i].id = x}
BY DocumentLines DEF Spots, Blocks, OfKind

\* The copies of a task are those in the three documents.
LEMMA CopiesCounted ==
    ASSUME NEW docs \in [Files -> Document], NEW x
    PROVE  /\ Copies(docs, x) =
                 Count(docs["backlog"], x) + Count(docs["tasks"], x) + Count(docs["archive"], x)
           /\ Copies(docs, x) \in Nat
<1> DEFINE place(f) == {[file |-> f, at |-> i] : i \in Spots(docs[f], x)}
<1>1. ASSUME NEW f \in Files
      PROVE  IsFiniteSet(place(f)) /\ Cardinality(place(f)) = Count(docs[f], x)
             /\ Count(docs[f], x) \in Nat
  <2> DEFINE S == Spots(docs[f], x)
             T == place(f)
             g == [i \in S |-> [file |-> f, at |-> i]]
  <2>1. IsFiniteSet(S) /\ Count(docs[f], x) \in Nat
    BY SpotsFinite
  <2>2. g \in [S -> T] /\ (\A i, k \in S : g[i] = g[k] => i = k) /\ \A m \in T : \E i \in S : g[i] = m
    OBVIOUS
  <2> HIDE DEF S, T, g
  <2>3. g \in Bijection(S, T)
    BY <2>2 DEF Bijection, Injection, Surjection, IsInjective
  <2>4. ExistsBijection(S, T)
    BY <2>3 DEF ExistsBijection
  <2>5. IsFiniteSet(T) /\ Cardinality(T) = Cardinality(S)
    BY <2>1, <2>4, FS_Bijection
  <2> QED
    BY <2>1, <2>5 DEF S, T, Count
<1>2. Matches(docs, x, None) = place("backlog") \cup place("tasks") \cup place("archive")
  <2>1. ASSUME NEW m \in Matches(docs, x, None)
        PROVE  m \in place("backlog") \cup place("tasks") \cup place("archive")
    <3>1. m.file \in Files /\ m.at \in Blocks(docs[m.file]) /\ docs[m.file][m.at].id = x
          /\ m = [file |-> m.file, at |-> m.at]
      BY FoundPlace
    <3>2. m.at \in Spots(docs[m.file], x)
      BY <3>1 DEF Spots
    <3>3. m \in place(m.file)
      BY <3>1, <3>2
    <3> QED
      BY <3>1, <3>3 DEF Files
  <2>2. ASSUME NEW f \in Files, NEW m \in place(f)
        PROVE  m \in Matches(docs, x, None)
    <3>1. PICK i \in Spots(docs[f], x) : m = [file |-> f, at |-> i]
      OBVIOUS
    <3>2. i \in Blocks(docs[f]) /\ docs[f][i].id = x /\ m.file = f /\ m.at = i
      BY <3>1 DEF Spots
    <3> QED
      BY <3>1, <3>2 DEF Matches
  <2>3. "backlog" \in Files /\ "tasks" \in Files /\ "archive" \in Files
    BY DEF Files
  <2> HIDE DEF place
  <2> QED
    BY <2>1, <2>2, <2>3
<1>3. /\ place("backlog") \cap place("tasks") = {}
      /\ (place("backlog") \cup place("tasks")) \cap place("archive") = {}
  OBVIOUS
<1>4. "backlog" \in Files /\ "tasks" \in Files /\ "archive" \in Files
  BY DEF Files
<1> DEFINE B == place("backlog")
           T == place("tasks")
           A == place("archive")
<1>5. /\ IsFiniteSet(B) /\ IsFiniteSet(T) /\ IsFiniteSet(A)
      /\ Cardinality(B) = Count(docs["backlog"], x) /\ Count(docs["backlog"], x) \in Nat
      /\ Cardinality(T) = Count(docs["tasks"], x) /\ Count(docs["tasks"], x) \in Nat
      /\ Cardinality(A) = Count(docs["archive"], x) /\ Count(docs["archive"], x) \in Nat
  BY <1>1, <1>4
<1>6. Matches(docs, x, None) = (B \cup T) \cup A /\ B \cap T = {} /\ (B \cup T) \cap A = {}
  BY <1>2, <1>3
<1> HIDE DEF place, B, T, A
<1>7. IsFiniteSet(B \cup T) /\ Cardinality(B \cup T) = Cardinality(B) + Cardinality(T)
  <2>1. IsFiniteSet(B \cup T)
        /\ Cardinality(B \cup T) = Cardinality(B) + Cardinality(T) - Cardinality(B \cap T)
    BY <1>5, FS_Union
  <2>2. Cardinality(B \cap T) = 0
    BY <1>6, FS_EmptySet
  <2> QED
    BY <1>5, <2>1, <2>2
<1>8. Cardinality((B \cup T) \cup A) = Cardinality(B \cup T) + Cardinality(A)
  <2> DEFINE BT == B \cup T
  <2>1. IsFiniteSet(BT) /\ Cardinality(BT) \in Nat
    BY <1>5, <1>7
  <2>2. BT \cap A = {}
    BY <1>6
  <2> HIDE DEF BT
  <2>3. Cardinality(BT \cup A) = Cardinality(BT) + Cardinality(A) - Cardinality(BT \cap A)
    BY <1>5, <2>1, FS_Union
  <2>4. Cardinality(BT \cap A) = 0
    BY <2>2, FS_EmptySet
  <2>5. Cardinality(BT \cup A) = Cardinality(BT) + Cardinality(A)
    BY <1>5, <2>1, <2>3, <2>4
  <2> QED
    BY <2>5 DEF BT
<1> QED
  BY <1>5, <1>6, <1>7, <1>8 DEF Copies

LEMMA InsertedLines ==
    ASSUME NEW doc \in Document, NEW j \in 1 .. Len(doc) + 1, NEW e \in Line
    PROVE  /\ InsertAt(doc, j, e) \in Document
           /\ Len(InsertAt(doc, j, e)) = Len(doc) + 1
           /\ \A k \in 1 .. Len(doc) + 1 :
                 InsertAt(doc, j, e)[k] =
                    IF k < j THEN doc[k] ELSE IF k = j THEN e ELSE doc[k - 1]
<1> DEFINE a == SubSeq(doc, 1, j - 1)
           b == SubSeq(doc, j, Len(doc))
           m == <<e>>
           am == a \o m
           n == Len(doc)
<1>1. DOMAIN doc = 1 .. n /\ n \in Nat /\ \A i \in 1 .. n : doc[i] \in Line
  BY DocumentLines
<1>2. /\ a \in Seq(Line) /\ Len(a) = j - 1
      /\ \A i \in 1 .. j - 1 : a[i] = doc[i]
  <2>1. \A i \in 1 .. j - 1 : doc[i] \in Line
    BY <1>1
  <2>2. /\ a \in Seq(Line) /\ Len(a) = IF 1 <= j - 1 THEN (j - 1) - 1 + 1 ELSE 0
        /\ \A i \in 1 .. (j - 1) - 1 + 1 : a[i] = doc[1 + i - 1]
    <3>1. j - 1 \in Int /\ 1 \in Int
      BY <1>1
    <3> QED
      BY <2>1, <3>1, SubSeqProperties
  <2> QED
    BY <1>1, <2>2
<1>3. /\ b \in Seq(Line) /\ Len(b) = n - j + 1
      /\ \A i \in 1 .. n - j + 1 : b[i] = doc[j + i - 1]
  <2>1. \A i \in j .. n : doc[i] \in Line
    BY <1>1
  <2>2. /\ b \in Seq(Line) /\ Len(b) = IF j <= n THEN n - j + 1 ELSE 0
        /\ \A i \in 1 .. n - j + 1 : b[i] = doc[j + i - 1]
    <3>1. j \in Int /\ n \in Int
      BY <1>1
    <3> QED
      BY <2>1, <3>1, SubSeqProperties
  <2> QED
    BY <1>1, <2>2
<1>4. m \in Seq(Line) /\ Len(m) = 1 /\ m[1] = e
  OBVIOUS
<1>5. InsertAt(doc, j, e) = am \o b
  BY DEF InsertAt
<1> HIDE DEF a, b, m
<1>6. /\ am \in Seq(Line) /\ Len(am) = j
      /\ \A i \in 1 .. j : am[i] = IF i < j THEN doc[i] ELSE e
  <2>1. /\ am \in Seq(Line) /\ Len(am) = Len(a) + Len(m)
        /\ \A i \in 1 .. Len(a) + Len(m) : am[i] = IF i <= Len(a) THEN a[i] ELSE m[i - Len(a)]
    BY <1>2, <1>4, ConcatProperties
  <2> HIDE DEF am
  <2> QED
    BY <1>1, <1>2, <1>4, <2>1
<1> HIDE DEF am
<1>7. /\ am \o b \in Seq(Line) /\ Len(am \o b) = Len(am) + Len(b)
      /\ \A i \in 1 .. Len(am) + Len(b) :
            (am \o b)[i] = IF i <= Len(am) THEN am[i] ELSE b[i - Len(am)]
  BY <1>3, <1>6, ConcatProperties
<1> DEFINE new == am \o b
<1> HIDE DEF new
<1>8. new \in Seq(Line) /\ Len(new) = n + 1
  BY <1>1, <1>3, <1>6, <1>7 DEF new
<1>9. ASSUME NEW k \in 1 .. n + 1
      PROVE  new[k] = IF k < j THEN doc[k] ELSE IF k = j THEN e ELSE doc[k - 1]
  <2>1. new[k] = IF k <= j THEN am[k] ELSE b[k - j]
    BY <1>1, <1>3, <1>6, <1>7 DEF new
  <2>2. CASE k <= j
    BY <1>1, <1>6, <2>1, <2>2
  <2>3. CASE k > j
    <3>1. k - j \in 1 .. n - j + 1 /\ j + (k - j) - 1 = k - 1
      BY <1>1, <2>3
    <3>2. b[k - j] = doc[j + (k - j) - 1]
      BY <1>3, <3>1
    <3> QED
      BY <1>1, <2>1, <2>3, <3>1, <3>2
  <2> QED
    BY <1>1, <2>2, <2>3
<1> QED
  BY <1>5, <1>8, <1>9 DEF new, Document

LEMMA RemovedLines ==
    ASSUME NEW doc \in Document, NEW i \in DOMAIN doc
    PROVE  /\ RemoveAt(doc, i) \in Document
           /\ Len(doc) = Len(RemoveAt(doc, i)) + 1
           /\ \A k \in 1 .. Len(RemoveAt(doc, i)) :
                 RemoveAt(doc, i)[k] = IF k < i THEN doc[k] ELSE doc[k + 1]
<1> DEFINE a == SubSeq(doc, 1, i - 1)
           b == SubSeq(doc, i + 1, Len(doc))
           n == Len(doc)
<1>1. DOMAIN doc = 1 .. n /\ n \in Nat /\ \A k \in 1 .. n : doc[k] \in Line
  BY DocumentLines
<1>2. /\ a \in Seq(Line) /\ Len(a) = i - 1
      /\ \A k \in 1 .. i - 1 : a[k] = doc[k]
  <2>1. \A k \in 1 .. i - 1 : doc[k] \in Line
    BY <1>1
  <2>2. /\ a \in Seq(Line) /\ Len(a) = IF 1 <= i - 1 THEN (i - 1) - 1 + 1 ELSE 0
        /\ \A k \in 1 .. (i - 1) - 1 + 1 : a[k] = doc[1 + k - 1]
    <3>1. i - 1 \in Int /\ 1 \in Int
      BY <1>1
    <3> QED
      BY <2>1, <3>1, SubSeqProperties
  <2> QED
    BY <1>1, <2>2
<1>3. /\ b \in Seq(Line) /\ Len(b) = n - i
      /\ \A k \in 1 .. n - i : b[k] = doc[i + k]
  <2>1. \A k \in i + 1 .. n : doc[k] \in Line
    BY <1>1
  <2>2. /\ b \in Seq(Line) /\ Len(b) = IF i + 1 <= n THEN n - (i + 1) + 1 ELSE 0
        /\ \A k \in 1 .. n - (i + 1) + 1 : b[k] = doc[(i + 1) + k - 1]
    <3>1. i + 1 \in Int /\ n \in Int
      BY <1>1
    <3> QED
      BY <2>1, <3>1, SubSeqProperties
  <2> QED
    BY <1>1, <2>2
<1>4. RemoveAt(doc, i) = a \o b
  BY DEF RemoveAt
<1> HIDE DEF a, b
<1> DEFINE rest == a \o b
<1>5. /\ rest \in Seq(Line) /\ Len(rest) = Len(a) + Len(b)
      /\ \A k \in 1 .. Len(a) + Len(b) : rest[k] = IF k <= Len(a) THEN a[k] ELSE b[k - Len(a)]
  BY <1>2, <1>3, ConcatProperties
<1> HIDE DEF rest
<1>6. Len(rest) = n - 1
  BY <1>1, <1>2, <1>3, <1>5
<1>7. ASSUME NEW k \in 1 .. n - 1
      PROVE  rest[k] = IF k < i THEN doc[k] ELSE doc[k + 1]
  <2>1. rest[k] = IF k <= i - 1 THEN a[k] ELSE b[k - (i - 1)]
    BY <1>1, <1>2, <1>3, <1>5
  <2>2. CASE k < i
    BY <1>1, <1>2, <2>1, <2>2
  <2>3. CASE k >= i
    <3>1. k - (i - 1) \in 1 .. n - i /\ i + (k - (i - 1)) = k + 1
      BY <1>1, <2>3
    <3>2. b[k - (i - 1)] = doc[i + (k - (i - 1))]
      BY <1>3, <3>1
    <3> QED
      BY <1>1, <2>1, <2>3, <3>1, <3>2
  <2> QED
    BY <1>1, <2>2, <2>3
<1>8. /\ rest \in Document /\ n = Len(rest) + 1
      /\ \A k \in 1 .. Len(rest) : rest[k] = IF k < i THEN doc[k] ELSE doc[k + 1]
  <2>1. rest \in Document
    BY <1>5 DEF Document
  <2>2. n = Len(rest) + 1 /\ Len(rest) = n - 1
    BY <1>1, <1>6
  <2> QED
    BY <1>7, <2>1, <2>2
<1> QED
  BY <1>4, <1>8 DEF rest

\* A document with one line more has that line's task once more.
LEMMA CountShifted ==
    ASSUME NEW doc \in Document, NEW new \in Document, NEW x,
           NEW j \in 1 .. Len(doc) + 1, Len(new) = Len(doc) + 1,
           \A k \in 1 .. Len(doc) : doc[k] = IF k < j THEN new[k] ELSE new[k + 1]
    PROVE  Count(new, x) = Count(doc, x) + One(new[j], x)
<1> DEFINE n == Len(doc)
           S == Spots(doc, x)
           T == Spots(new, x) \ {j}
           shift(k) == IF k < j THEN k ELSE k + 1
           g == [k \in S |-> shift(k)]
<1>1. n \in Nat
  BY DocumentLines
<1>2. /\ S = {i \in 1 .. n : doc[i].kind = "task" /\ doc[i].id = x}
      /\ T = {i \in 1 .. n + 1 : i # j /\ new[i].kind = "task" /\ new[i].id = x}
  BY SpotsByLine
<1>3. \A k \in 1 .. n : shift(k) \in 1 .. n + 1 /\ shift(k) # j /\ doc[k] = new[shift(k)]
  BY <1>1
<1>4. \A i, k \in 1 .. n : shift(i) = shift(k) => i = k
  BY <1>1
<1>5. \A m \in 1 .. n + 1 : m # j => \E k \in 1 .. n : shift(k) = m
  <2> SUFFICES ASSUME NEW m \in 1 .. n + 1, m # j PROVE \E k \in 1 .. n : shift(k) = m
    OBVIOUS
  <2>1. CASE m < j
    BY <1>1, <2>1
  <2>2. CASE m > j
    <3>1. m - 1 \in 1 .. n /\ shift(m - 1) = m
      BY <1>1, <2>2
    <3> QED
      BY <3>1
  <2> QED
    BY <1>1, <2>1, <2>2
<1> HIDE DEF shift
<1>6. g \in [S -> T] /\ (\A i, k \in S : g[i] = g[k] => i = k) /\ \A m \in T : \E k \in S : g[k] = m
  <2>1. \A k \in S : shift(k) \in T
    BY <1>2, <1>3
  <2>2. \A m \in T : \E k \in S : shift(k) = m
    BY <1>2, <1>3, <1>5
  <2>3. \A i, k \in S : shift(i) = shift(k) => i = k
    BY <1>2, <1>4
  <2> HIDE DEF S, T
  <2> QED
    BY <2>1, <2>2, <2>3
<1>7. IsFiniteSet(S) /\ Count(doc, x) \in Nat /\ IsFiniteSet(Spots(new, x)) /\ Count(new, x) \in Nat
  BY SpotsFinite
<1>8. Cardinality(T) = IF j \in Spots(new, x) THEN Count(new, x) - 1 ELSE Count(new, x)
  BY <1>7, FS_RemoveElement DEF Count
<1>9. j \in Spots(new, x) <=> One(new[j], x) = 1
  BY <1>1, SpotsByLine DEF One
<1> HIDE DEF S, T, g
<1>10. ExistsBijection(S, T)
  BY <1>6 DEF ExistsBijection, Bijection, Injection, Surjection, IsInjective
<1>11. Cardinality(T) = Count(doc, x)
  BY <1>7, <1>10, FS_Bijection DEF Count, S
<1>12. One(new[j], x) \in {0, 1}
  BY DEF One
<1> QED
  BY <1>7, <1>8, <1>9, <1>11, <1>12

LEMMA CountInserted ==
    ASSUME NEW doc \in Document, NEW j \in 1 .. Len(doc) + 1, NEW e \in Line, NEW x
    PROVE  Count(InsertAt(doc, j, e), x) = Count(doc, x) + One(e, x)
<1> DEFINE new == InsertAt(doc, j, e)
<1>1. Len(doc) \in Nat
  BY DocumentLines
<1>2. /\ new \in Document /\ Len(new) = Len(doc) + 1
      /\ \A k \in 1 .. Len(doc) + 1 :
            new[k] = IF k < j THEN doc[k] ELSE IF k = j THEN e ELSE doc[k - 1]
  BY InsertedLines
<1> HIDE DEF new
<1>3. new[j] = e
  BY <1>1, <1>2
<1>4. \A k \in 1 .. Len(doc) : doc[k] = IF k < j THEN new[k] ELSE new[k + 1]
  BY <1>1, <1>2
<1>5. Count(new, x) = Count(doc, x) + One(new[j], x)
  BY <1>2, <1>4, CountShifted
<1> QED
  BY <1>3, <1>5 DEF new

LEMMA CountRemoved ==
    ASSUME NEW doc \in Document, NEW i \in DOMAIN doc, NEW x
    PROVE  Count(doc, x) = Count(RemoveAt(doc, i), x) + One(doc[i], x)
<1> DEFINE rest == RemoveAt(doc, i)
<1>1. DOMAIN doc = 1 .. Len(doc) /\ Len(doc) \in Nat
  BY DocumentLines
<1>2. /\ rest \in Document /\ Len(doc) = Len(rest) + 1
      /\ \A k \in 1 .. Len(rest) : rest[k] = IF k < i THEN doc[k] ELSE doc[k + 1]
  BY RemovedLines
<1> HIDE DEF rest
<1>3. i \in 1 .. Len(rest) + 1
  BY <1>1, <1>2
<1>4. Count(doc, x) = Count(rest, x) + One(doc[i], x)
  BY <1>2, <1>3, CountShifted
<1> QED
  BY <1>4 DEF rest

LEMMA CountAppended ==
    ASSUME NEW doc \in Document, NEW e \in Line, NEW x
    PROVE  Append(doc, e) \in Document /\ Count(Append(doc, e), x) = Count(doc, x) + One(e, x)
<1> DEFINE new == Append(doc, e)
           n == Len(doc)
<1>1. n \in Nat /\ doc \in Seq(Line) /\ DOMAIN doc = 1 .. n
  BY DocumentLines DEF Document
<1>2. /\ new \in Seq(Line) /\ Len(new) = n + 1
      /\ \A k \in 1 .. n : new[k] = doc[k]
      /\ new[n + 1] = e
  BY <1>1, AppendProperties
<1> HIDE DEF new
<1>3. new \in Document
  BY <1>2 DEF Document
<1>4. \A k \in 1 .. n : doc[k] = IF k < n + 1 THEN new[k] ELSE new[k + 1]
  BY <1>1, <1>2
<1>5. Count(new, x) = Count(doc, x) + One(new[n + 1], x)
  <2>1. n + 1 \in 1 .. n + 1
    BY <1>1
  <2> QED
    BY <1>2, <1>3, <1>4, <2>1, CountShifted
<1> QED
  BY <1>2, <1>3, <1>5 DEF new

LEMMA CountInsertedTask ==
    ASSUME NEW doc \in Document, NEW t \in Task, NEW section \in Sections, NEW x
    PROVE  Count(InsertTask(doc, t, section), x) = Count(doc, x) + One(t, x)
<1> DEFINE headings == {h \in OfKind(doc, "section") : doc[h].name = section}
<1>1. DOMAIN doc = 1 .. Len(doc) /\ Len(doc) \in Nat
  BY DocumentLines
<1>2. t \in Line /\ Heading(section) \in Line
  BY DEF Line
<1>3. CASE headings = {}
  <2> DEFINE one == Append(doc, Heading(section))
             two == Append(one, t)
  <2>1. one \in Document /\ Count(one, x) = Count(doc, x) + One(Heading(section), x)
    BY <1>2, CountAppended
  <2>2. one = doc \o <<Heading(section)>>
    BY <1>2, AppendIsConcat DEF Document
  <2> HIDE DEF one
  <2>3. Count(two, x) = Count(one, x) + One(t, x)
    BY <1>2, <2>1, CountAppended
  <2>4. One(Heading(section), x) = 0
    BY DEF One, Heading
  <2>5. two = one \o <<t>>
    BY <1>2, <2>1, AppendIsConcat DEF Document
  <2>6. (doc \o <<Heading(section)>>) \o <<t>> = doc \o <<Heading(section), t>>
    <3>1. doc \in Seq(Line) /\ <<Heading(section)>> \in Seq(Line) /\ <<t>> \in Seq(Line)
      BY <1>2 DEF Document
    <3>2. (doc \o <<Heading(section)>>) \o <<t>> = doc \o (<<Heading(section)>> \o <<t>>)
      BY <3>1, ConcatAssociative
    <3>3. <<Heading(section)>> \o <<t>> = <<Heading(section), t>>
      <4> DEFINE p == <<Heading(section)>>
                 q == <<t>>
      <4>1. p \in Seq(Line) /\ q \in Seq(Line) /\ Len(p) = 1 /\ Len(q) = 1
            /\ p[1] = Heading(section) /\ q[1] = t
        BY <1>2
      <4> HIDE DEF p, q
      <4>2. p \o q \in Seq(Line) /\ Len(p \o q) = 2
            /\ (p \o q)[1] = Heading(section) /\ (p \o q)[2] = t
        BY <4>1, ConcatProperties
      <4> DEFINE pq == p \o q
                 r == <<Heading(section), t>>
      <4>3. r \in Seq(Line) /\ Len(r) = 2 /\ r[1] = Heading(section) /\ r[2] = t
        BY <1>2
      <4> HIDE DEF pq, r
      <4>4. pq \in Seq(Line) /\ Len(pq) = Len(r) /\ \A k \in 1 .. Len(pq) : pq[k] = r[k]
        BY <4>2, <4>3 DEF pq
      <4>5. pq = r
        BY <4>3, <4>4, SeqEqual
      <4> QED
        BY <4>5 DEF p, q, pq, r
    <3> QED
      BY <3>2, <3>3
  <2>7. InsertTask(doc, t, section) = two
    BY <1>3, <2>2, <2>5, <2>6 DEF InsertTask
  <2>8. Count(doc, x) \in Nat
    BY SpotsFinite
  <2> HIDE DEF two
  <2> QED
    BY <2>1, <2>3, <2>4, <2>7, <2>8
<1>4. CASE headings # {}
  <2>1. headings \subseteq 1 .. Len(doc)
    BY <1>1 DEF OfKind
  <2> DEFINE first == Min(headings)
  <2>2. first \in headings
    BY <1>1, <1>4, <2>1, FirstAndLast
  <2>3. InsertTask(doc, t, section) = InsertAt(doc, first + 1, t)
    BY <1>4 DEF InsertTask
  <2> HIDE DEF headings, first
  <2>4. first + 1 \in 1 .. Len(doc) + 1
    BY <1>1, <2>1, <2>2
  <2> QED
    BY <1>2, <2>3, <2>4, CountInserted
<1> QED
  BY <1>3, <1>4

LEMMA CountAmended ==
    ASSUME NEW doc \in Document, NEW i \in Blocks(doc), NEW t \in Task, t.id = doc[i].id, NEW x
    PROVE  Count(Amend(doc, i, t), x) = Count(doc, x)
<1> DEFINE new == Amend(doc, i, t)
<1>1. Blocks(new) = Blocks(doc) /\ \A k \in Blocks(doc) : new[k].id = doc[k].id
  BY AmendedRecord
<1> HIDE DEF new
<1>2. Spots(new, x) = Spots(doc, x)
  BY <1>1 DEF Spots
<1> QED
  BY <1>2 DEF Count, new

\* Keeping some of the lines adds no task.
LEMMA CountKept ==
    ASSUME NEW doc \in Document, NEW P, P \subseteq DOMAIN doc, NEW x
    PROVE  Keep(doc, P) \in Document /\ Count(Keep(doc, P), x) <= Count(doc, x)
<1> DEFINE rank(i) == Cardinality({k \in P : k <= i})
           c == Cardinality(P)
           nth(m) == CHOOSE i \in P : rank(i) = m
           new == Keep(doc, P)
           S == Spots(new, x)
           T == Spots(doc, x)
           g == [m \in S |-> nth(m)]
<1>1. DOMAIN doc = 1 .. Len(doc) /\ Len(doc) \in Nat
  BY DocumentLines
<1>2. c \in Nat /\ \A m \in 1 .. c : \E i \in P : rank(i) = m
  BY <1>1, Ranked
<1>3. new = [m \in 1 .. c |-> doc[nth(m)]]
  BY DEF Keep
<1>4. new \in Document
  BY Kept DEF Document
<1> HIDE DEF rank, c, new
<1>5. \A m \in 1 .. c : nth(m) \in P /\ rank(nth(m)) = m
  BY <1>2
<1> HIDE DEF nth
<1>6. DOMAIN new = 1 .. c /\ \A m \in 1 .. c : new[m] = doc[nth(m)]
  BY <1>3
<1>7. S = {m \in 1 .. c : doc[nth(m)].kind = "task" /\ doc[nth(m)].id = x}
  BY <1>6 DEF Spots, Blocks, OfKind
<1>8. T = {i \in DOMAIN doc : doc[i].kind = "task" /\ doc[i].id = x}
  BY DEF Spots, Blocks, OfKind
<1>9. \A m \in S : nth(m) \in T
  BY <1>5, <1>7, <1>8
<1>10. \A m, k \in S : nth(m) = nth(k) => m = k
  <2>1. \A m \in S : m = rank(nth(m))
    BY <1>5, <1>7
  <2> QED
    BY <2>1
<1>11. IsFiniteSet(T) /\ Count(doc, x) = Cardinality(T) /\ Count(new, x) = Cardinality(S)
  BY SpotsFinite DEF Count
<1> HIDE DEF S, T
<1>12. g \in [S -> T] /\ \A m, k \in S : g[m] = g[k] => m = k
  BY <1>9, <1>10
<1> HIDE DEF g
<1>13. g \in Injection(S, T)
  BY <1>12 DEF Injection, IsInjective
<1>14. Cardinality(S) <= Cardinality(T)
  BY <1>11, <1>13, FS_Injection
<1> QED
  BY <1>4, <1>11, <1>14 DEF new

LEMMA CountDropped ==
    ASSUME NEW doc \in Document, NEW P, NEW x
    PROVE  Drop(doc, P) \in Document /\ Count(Drop(doc, P), x) <= Count(doc, x)
BY CountKept DEF Drop

-----------------------------------------------------------------------------
(* How often a task is on the board a command makes.                       *)

Sparing(v, docs) ==
    \A x : Copies(v.after, x) <= 1 \/ Copies(v.after, x) <= Copies(docs, x)

LEMMA UnchangedSpares ==
    ASSUME NEW docs \in [Files -> Document]
    PROVE  Sparing(Refuse(docs), docs) /\ Sparing(Answer(docs), docs)
<1>1. [f \in Files |-> docs[f]] = docs
  OBVIOUS
<1>2. \A x : Copies(docs, x) <= Copies(docs, x)
  BY CopiesCounted
<1> QED
  BY <1>1, <1>2 DEF Sparing, Refuse, Answer, Verdict

LEMMA FewerCopies ==
    ASSUME NEW docs \in [Files -> Document], NEW after \in [Files -> Document], NEW x,
           \A f \in Files : Count(after[f], x) <= Count(docs[f], x)
    PROVE  Copies(after, x) <= Copies(docs, x)
<1>1. "backlog" \in Files /\ "tasks" \in Files /\ "archive" \in Files
  BY DEF Files
<1>2. \A f \in Files : Count(after[f], x) \in Nat /\ Count(docs[f], x) \in Nat
  BY SpotsFinite
<1>3. /\ Copies(after, x) =
            Count(after["backlog"], x) + Count(after["tasks"], x) + Count(after["archive"], x)
      /\ Copies(docs, x) =
            Count(docs["backlog"], x) + Count(docs["tasks"], x) + Count(docs["archive"], x)
  BY CopiesCounted
<1> QED
  BY <1>1, <1>2, <1>3

LEMMA RewriteSpares ==
    ASSUME NEW docs \in [Files -> Document], NEW f \in Files, NEW doc \in Document,
           \A x : Count(doc, x) <= Count(docs[f], x)
    PROVE  Sparing(Rewrite(docs, f, doc), docs)
<1>1. CASE ~ValidDocument(doc, f)
  BY <1>1, UnchangedSpares DEF Rewrite
<1>2. CASE ValidDocument(doc, f)
  <2> DEFINE after == [g \in Files |-> IF g = f THEN doc ELSE docs[g]]
             v == Rewrite(docs, f, doc)
  <2>1. v.after = after
    BY <1>2 DEF Rewrite, Verdict
  <2> HIDE DEF v
  <2>2. after \in [Files -> Document] /\ \A g \in Files : after[g] = IF g = f THEN doc ELSE docs[g]
    OBVIOUS
  <2> HIDE DEF after
  <2>3. \A g \in Files : \A x : Count(after[g], x) <= Count(docs[g], x)
    BY <2>2, SpotsFinite
  <2>4. Sparing(v, docs)
    BY <2>1, <2>2, <2>3, FewerCopies DEF Sparing
  <2> QED
    BY <2>4 DEF v
<1> QED
  BY <1>1, <1>2

LEMMA RewritesSpare ==
    ASSUME NEW docs \in [Files -> Document], NEW names \in SUBSET Files, NEW new,
           NEW order \in [Files -> Nat],
           \A f \in names : new[f] \in Document,
           \A after \in [Files -> Document] :
              (\A f \in Files : after[f] = IF f \in names THEN new[f] ELSE docs[f])
              => \A x : Copies(after, x) <= Copies(docs, x)
    PROVE  Sparing(Rewrites(docs, names, new, order), docs)
<1>1. CASE ~\A f \in names : ValidDocument(new[f], f)
  BY <1>1, UnchangedSpares DEF Rewrites
<1>2. CASE \A f \in names : ValidDocument(new[f], f)
  <2> DEFINE after == [f \in Files |-> IF f \in names THEN new[f] ELSE docs[f]]
             v == Rewrites(docs, names, new, order)
  <2>1. v.after = after
    BY <1>2 DEF Rewrites, Verdict
  <2> HIDE DEF v
  <2>2. /\ after \in [Files -> Document]
        /\ \A g \in Files : after[g] = IF g \in names THEN new[g] ELSE docs[g]
    OBVIOUS
  <2> HIDE DEF after
  <2>3. Sparing(v, docs)
    BY <2>1, <2>2 DEF Sparing
  <2> QED
    BY <2>3 DEF v
<1> QED
  BY <1>1, <1>2

LEMMA StaySpares ==
    ASSUME NEW docs \in [Files -> Document], NEW id, NEW section,
           NEW m \in Matches(docs, id, section),
           NEW t \in Task, t.id = docs[m.file][m.at].id
    PROVE  Sparing(Rewrite(docs, m.file, Amend(docs[m.file], m.at, t)), docs)
<1> DEFINE f == m.file
           new == Amend(docs[f], m.at, t)
<1>1. f \in Files /\ docs[f] \in Document /\ m.at \in Blocks(docs[f])
  BY FoundTask
<1>2. new \in Document
  BY <1>1, AmendedRecord
<1>3. \A x : Count(new, x) = Count(docs[f], x)
  BY <1>1, CountAmended
<1>4. \A x : Count(docs[f], x) \in Nat
  BY <1>1, SpotsFinite
<1> HIDE DEF new
<1>5. \A x : Count(new, x) <= Count(docs[f], x)
  BY <1>3, <1>4
<1>6. Sparing(Rewrite(docs, f, new), docs)
  BY <1>1, <1>2, <1>5, RewriteSpares
<1> QED
  BY <1>6 DEF new

\* A task that moves is counted where it arrives and no longer where it was.
LEMMA SetSpares ==
    ASSUME NEW docs \in [Files -> Document], NEW id, NEW u \in Updates
    PROVE  Sparing(Set(docs, id, u), docs)
<1> DEFINE source == Source(docs, id, u.source)
           from == source.file
           to == IF u.file = None THEN from ELSE u.file
           old == docs[from][source.at]
           t == ApplyMetadata(old, u)
           rest == RemoveAt(docs[from], source.at)
           base == IF from = to THEN rest ELSE docs[to]
           new == InsertTask(base, t, u.section)
<1>1. CASE (u.file = None) # (u.section = None) \/ ~Located(docs, id, u.source)
  BY <1>1, UnchangedSpares DEF Set
<1>2. CASE (u.file = None) = (u.section = None) /\ Located(docs, id, u.source)
  <2>1. source \in Matches(docs, id, u.source)
    BY <1>2, LocatedSource
  <2>2. /\ from \in Files /\ source.at \in Blocks(docs[from])
        /\ docs[from] \in Document /\ old \in Task /\ old.id = id
    <3> HIDE DEF source
    <3> QED
      BY <2>1, FoundTask
  <2>3. t \in Task /\ t.id = old.id
    BY <2>2, UpdatedTask
  <2>4. CASE u.section = None
    <3>1. Set(docs, id, u) = Rewrite(docs, from, Amend(docs[from], source.at, t))
      BY <1>2, <2>4 DEF Set
    <3> HIDE DEF source, t
    <3>2. Sparing(Rewrite(docs, from, Amend(docs[from], source.at, t)), docs)
      BY <2>1, <2>3, StaySpares
    <3> QED
      BY <3>1, <3>2
  <2>5. CASE u.section # None /\ ~ValidLifecycle(t, u.section, to)
    <3>1. Set(docs, id, u) = Refuse(docs)
      BY <1>2, <2>5 DEF Set
    <3> QED
      BY <3>1, UnchangedSpares
  <2>6. CASE u.section # None /\ ValidLifecycle(t, u.section, to)
    <3>1. to \in Files /\ u.section \in Sections
      BY <1>2, <2>6 DEF Updates
    <3>2. source.at \in DOMAIN docs[from]
      BY <2>2 DEF Blocks, OfKind
    <3>3. rest \in Document
      BY <2>2, RemovedRecord
    <3>4. \A x : Count(docs[from], x) = Count(rest, x) + One(old, x)
      BY <2>2, <3>2, CountRemoved
    <3>5. \A x : One(old, x) = One(t, x) /\ One(t, x) \in {0, 1}
      BY <2>2, <2>3, TaskIsNoAsk DEF One
    <3>6. /\ from = to => Set(docs, id, u) = Rewrite(docs, from, new)
          /\ from # to => Set(docs, id, u) =
                Rewrites(docs, {from, to}, [f \in Files |-> IF f = to THEN new ELSE rest], First(to))
      BY <1>2, <2>6 DEF Set
    <3> HIDE DEF t, rest, from, old, to, source
    <3>7. base \in Document
      BY <3>1, <3>3
    <3>8. from = to => base = rest
      OBVIOUS
    <3>9. from # to => base = docs[to]
      OBVIOUS
    <3> HIDE DEF base
    <3>10. new \in Document /\ \A x : Count(new, x) = Count(base, x) + One(t, x)
      BY <2>3, <3>1, <3>7, InsertedRecord, CountInsertedTask
    <3> HIDE DEF new
    <3>11. CASE from = to
      <4>1. \A x : Count(new, x) <= Count(docs[from], x)
        BY <2>2, <3>3, <3>4, <3>5, <3>8, <3>10, <3>11, SpotsFinite
      <4> QED
        BY <2>2, <3>6, <3>10, <3>11, <4>1, RewriteSpares
    <3>12. CASE from # to
      <4> DEFINE written == [f \in Files |-> IF f = to THEN new ELSE rest]
                 names == {from, to}
                 order == First(to)
      <4>1. names \in SUBSET Files /\ Set(docs, id, u) = Rewrites(docs, names, written, order)
        BY <2>2, <3>1, <3>6, <3>12
      <4>2. written[to] = new /\ written[from] = rest
        BY <2>2, <3>1, <3>12
      <4>3. order \in [Files -> Nat]
        BY DEF First
      <4>4. \A f : f \in names <=> f = from \/ f = to
        OBVIOUS
      <4> HIDE DEF written, names, order
      <4>5. \A f \in names : written[f] \in Document
        BY <3>3, <3>10, <4>2, <4>4
      <4>6. ASSUME NEW after \in [Files -> Document], NEW x,
                   \A f \in Files : after[f] = IF f \in names THEN written[f] ELSE docs[f]
            PROVE  Copies(after, x) <= Copies(docs, x)
        <5>1. after[to] = new /\ after[from] = rest
          BY <2>2, <3>1, <4>2, <4>4, <4>6
        <5>2. \A f \in Files : f # from /\ f # to => after[f] = docs[f]
          BY <4>4, <4>6
        <5> DEFINE a(f) == Count(after[f], x)
                   d(f) == Count(docs[f], x)
        <5>3. a(to) = d(to) + One(t, x) /\ d(from) = a(from) + One(t, x)
          BY <3>4, <3>5, <3>9, <3>10, <3>12, <5>1
        <5>4. \A f \in Files : f # from /\ f # to => a(f) = d(f)
          BY <5>2
        <5>5. \A f \in Files : a(f) \in Nat /\ d(f) \in Nat
          BY SpotsFinite
        <5>6. /\ Copies(after, x) = a("backlog") + a("tasks") + a("archive")
              /\ Copies(docs, x) = d("backlog") + d("tasks") + d("archive")
          BY CopiesCounted
        <5> HIDE DEF a, d
        <5>7. a("backlog") + a("tasks") + a("archive") = d("backlog") + d("tasks") + d("archive")
          BY <2>2, <3>1, <3>5, <3>12, <5>3, <5>4, <5>5 DEF Files
        <5>8. d("backlog") + d("tasks") + d("archive") \in Nat
          BY <5>5 DEF Files
        <5> QED
          BY <5>6, <5>7, <5>8
      <4>7. \A after \in [Files -> Document] :
               (\A f \in Files : after[f] = IF f \in names THEN written[f] ELSE docs[f])
               => \A x : Copies(after, x) <= Copies(docs, x)
        BY <4>6
      <4> QED
        BY <4>1, <4>3, <4>5, <4>7, RewritesSpare
    <3> QED
      BY <3>11, <3>12
  <2> QED
    BY <2>4, <2>5, <2>6
<1> QED
  BY <1>1, <1>2

LEMMA AssignSpares ==
    ASSUME NEW docs \in [Files -> Document], NEW id, NEW role
    PROVE  Sparing(Assign(docs, id, role), docs)
<1> DEFINE u == [NoUpdate EXCEPT !.file = "tasks", !.section = role, !.owner = role,
                                 !.status = "In Progress"]
<1>1. \/ Assign(docs, id, role) \in {Refuse(docs), Answer(docs)}
      \/ role \in Roles /\ Assign(docs, id, role) = Set(docs, id, u)
  BY DEF Assign
<1>2. role \in Roles => u \in Updates
  BY LaneUpdate
<1> HIDE DEF u
<1> QED
  BY <1>1, <1>2, SetSpares, UnchangedSpares

\* A task is created only where no document has one of its id.
LEMMA CreateSpares ==
    ASSUME NEW docs \in [Files -> Document], NEW id \in TaskIds, NEW category \in {"AFK", "HITL"},
           NEW branch \in Branches, NEW deps \in SUBSET TaskIds, NEW body \in Bodies
    PROVE  Sparing(CreateBacklogTask(docs, id, category, branch, deps, body), docs)
<1> DEFINE t == [kind |-> "task", id |-> id, owner |-> "Unassigned", branch |-> branch,
                 status |-> "Backlog", category |-> category, deps |-> deps,
                 after |-> None, body |-> body]
           doc == docs["backlog"]
           new == Append(doc, t)
           v == CreateBacklogTask(docs, id, category, branch, deps, body)
           after == [g \in Files |-> IF g = "backlog" THEN new ELSE docs[g]]
<1>1. v = Refuse(docs) \/ (Matches(docs, id, None) = {} /\ v.after = after)
  BY DEF CreateBacklogTask, Rewrite, Verdict
<1> HIDE DEF v
<1>2. t \in Task /\ t.kind = "task" /\ t.id = id
  BY DEF Task, Owners, Statuses
<1> HIDE DEF t
<1>3. "backlog" \in Files /\ doc \in Document /\ t \in Line
  BY <1>2 DEF Files, Line
<1>4. new \in Document /\ \A x : Count(new, x) = Count(doc, x) + One(t, x)
  BY <1>3, CountAppended
<1> HIDE DEF new
<1>5. /\ after \in [Files -> Document]
      /\ \A g \in Files : after[g] = IF g = "backlog" THEN new ELSE docs[g]
  BY <1>4
<1> HIDE DEF after
<1>6. ASSUME NEW x PROVE Copies(after, x) = Copies(docs, x) + One(t, x)
  <2>1. /\ "backlog" \in Files /\ "tasks" \in Files /\ "archive" \in Files
        /\ after["backlog"] = new /\ after["tasks"] = docs["tasks"]
        /\ after["archive"] = docs["archive"]
    BY <1>5 DEF Files
  <2>2. \A f \in Files : Count(docs[f], x) \in Nat
    BY SpotsFinite
  <2>3. One(t, x) \in {0, 1}
    BY DEF One
  <2>4. /\ Copies(after, x) =
              Count(after["backlog"], x) + Count(after["tasks"], x) + Count(after["archive"], x)
        /\ Copies(docs, x) =
              Count(docs["backlog"], x) + Count(docs["tasks"], x) + Count(docs["archive"], x)
    BY <1>5, CopiesCounted
  <2> QED
    BY <1>4, <2>1, <2>2, <2>3, <2>4 DEF doc
<1>7. CASE Matches(docs, id, None) = {} /\ v.after = after
  <2>1. Copies(docs, id) = 0
    BY <1>7, FS_EmptySet DEF Copies
  <2>2. One(t, id) = 1 /\ \A x : x # id => One(t, x) = 0
    BY <1>2 DEF One
  <2>3. \A x : Copies(docs, x) \in Nat
    BY CopiesCounted
  <2>4. Copies(after, id) <= 1
    BY <1>6, <2>1, <2>2
  <2>5. \A x : x # id => Copies(after, x) <= Copies(docs, x)
    BY <1>6, <2>2, <2>3
  <2> QED
    BY <1>7, <2>4, <2>5 DEF Sparing, v
<1> QED
  BY <1>1, <1>7, UnchangedSpares DEF v

LEMMA ContinueSpares ==
    ASSUME NEW docs \in [Files -> Document], NEW id, NEW role, NEW branch, NEW lease \in Leases
    PROVE  Sparing(RequestContinuation(docs, id, role, branch, lease), docs)
<1> DEFINE source == Source(docs, id, None)
           t == docs[source.file][source.at]
           n == [t EXCEPT !.after = lease]
<1>1. \/ RequestContinuation(docs, id, role, branch, lease) = Refuse(docs)
      \/ /\ Located(docs, id, None) /\ source.file = "tasks"
         /\ RequestContinuation(docs, id, role, branch, lease) =
               Rewrite(docs, "tasks", Amend(docs["tasks"], source.at, n))
  BY DEF RequestContinuation
<1>2. CASE Located(docs, id, None) /\ source.file = "tasks"
  <2>1. source \in Matches(docs, id, None)
    BY <1>2, LocatedSource
  <2>2. t \in Task
    <3> HIDE DEF source
    <3> QED
      BY <2>1, FoundTask
  <2>3. n \in Task /\ n.id = t.id
    BY <2>2 DEF Task
  <2> HIDE DEF source, n
  <2>4. Sparing(Rewrite(docs, source.file, Amend(docs[source.file], source.at, n)), docs)
    BY <2>1, <2>3, StaySpares
  <2> QED
    BY <1>1, <1>2, <2>4, UnchangedSpares
<1> QED
  BY <1>1, <1>2, UnchangedSpares

LEMMA ReconcileSpares ==
    ASSUME NEW docs \in [Files -> Document], NEW id, NEW section
    PROVE  Sparing(ReconcileDuplicate(docs, id, section), docs)
<1> DEFINE redundant == Matches(docs, id, None) \ Matches(docs, id, section)
           names == {m.file : m \in redundant}
           dropped(f) == {m.at : m \in {n \in redundant : n.file = f}}
           new == [f \in Files |-> Drop(docs[f], dropped(f))]
<1>1. \/ ReconcileDuplicate(docs, id, section) = Refuse(docs)
      \/ ReconcileDuplicate(docs, id, section) = Rewrites(docs, names, new, PathOrder)
  BY DEF ReconcileDuplicate
<1>2. \A m \in redundant : m.file \in Files
  BY FoundPlace
<1> HIDE DEF redundant
<1>3. names \in SUBSET Files
  BY <1>2
<1> HIDE DEF dropped, names
<1>4. \A f \in Files : new[f] = Drop(docs[f], dropped(f))
  OBVIOUS
<1> HIDE DEF new
<1>5. \A f \in Files : new[f] \in Document /\ \A x : Count(new[f], x) <= Count(docs[f], x)
  BY <1>4, CountDropped
<1>6. ASSUME NEW after \in [Files -> Document], NEW x,
             \A f \in Files : after[f] = IF f \in names THEN new[f] ELSE docs[f]
      PROVE  Copies(after, x) <= Copies(docs, x)
  <2>1. \A f \in Files : Count(after[f], x) <= Count(docs[f], x)
    BY <1>5, <1>6, SpotsFinite
  <2> QED
    BY <2>1, FewerCopies
<1>7. PathOrder \in [Files -> Nat]
  BY DEF PathOrder, Files
<1>8. \A after \in [Files -> Document] :
         (\A f \in Files : after[f] = IF f \in names THEN new[f] ELSE docs[f])
         => \A x : Copies(after, x) <= Copies(docs, x)
  BY <1>6
<1>9. Sparing(Rewrites(docs, names, new, PathOrder), docs)
  BY <1>3, <1>5, <1>7, <1>8, RewritesSpare
<1> QED
  BY <1>1, <1>9, UnchangedSpares

LEMMA NormalizeSpares ==
    ASSUME NEW docs \in [Files -> Document]
    PROVE  Sparing(NormalizeTasks(docs), docs)
<1> DEFINE old == docs["tasks"]
           P == {i \in DOMAIN old :
                    old[i].kind \in {"top", "section"} => \A k \in 1 .. (i - 1) : old[k] # old[i]}
           doc == DropRepeatedHeadings(old)
           new == Drop(doc, {i \in Blocks(doc) : Outranked(doc, i)})
<1>1. NormalizeTasks(docs) \in {Refuse(docs), Rewrite(docs, "tasks", new)}
  BY DEF NormalizeTasks
<1>2. "tasks" \in Files /\ old \in Document
  BY DEF Files
<1>3. P \subseteq DOMAIN old /\ doc = Keep(old, P)
  BY DEF DropRepeatedHeadings
<1> HIDE DEF P, doc
<1>4. doc \in Document /\ \A x : Count(doc, x) <= Count(old, x)
  BY <1>2, <1>3, CountKept
<1>5. new \in Document /\ \A x : Count(new, x) <= Count(doc, x)
  BY <1>4, CountDropped
<1> HIDE DEF new
<1>6. \A x : Count(new, x) <= Count(old, x)
  BY <1>2, <1>4, <1>5, SpotsFinite
<1> QED
  BY <1>1, <1>2, <1>5, <1>6, RewriteSpares, UnchangedSpares

LEMMA ClearSpares ==
    ASSUME NEW docs \in [Files -> Document], NEW id
    PROVE  Sparing(ClearCompletedHumanInput(docs, id), docs)
<1> DEFINE backlog == docs["backlog"]
           asks == {i \in OfKind(backlog, "ask") :
                       backlog[i].id = id /\ SectionAt(backlog, i) = "Awaiting Human Input"}
           new == Drop(backlog, asks)
<1>1. ClearCompletedHumanInput(docs, id) \in
         {Refuse(docs), Answer(docs), Rewrite(docs, "backlog", new)}
  BY DEF ClearCompletedHumanInput
<1>2. "backlog" \in Files /\ backlog \in Document
  BY DEF Files
<1> HIDE DEF asks
<1>3. new \in Document /\ \A x : Count(new, x) <= Count(backlog, x)
  BY <1>2, CountDropped
<1> HIDE DEF new
<1>4. Sparing(Rewrite(docs, "backlog", new), docs)
  BY <1>2, <1>3, RewriteSpares
<1> QED
  BY <1>1, <1>4, UnchangedSpares

LEMMA DecisionSpares ==
    ASSUME NEW docs \in [Files -> Document], NEW c \in Commands
    PROVE  Sparing(Decide(c, docs), docs)
<1>1. Sparing(Get(docs, c.id), docs)
  BY UnchangedSpares DEF Get
<1>2. c.op = "create" =>
         Sparing(CreateBacklogTask(docs, c.id, c.category, c.branch, c.deps, c.body), docs)
  BY CommandFields, CreateSpares
<1>3. c.op = "set" => Sparing(Set(docs, c.id, c.update), docs)
  BY CommandFields, SetSpares
<1>4. c.op = "continue" =>
         Sparing(RequestContinuation(docs, c.id, c.role, c.branch, c.lease), docs)
  BY CommandFields, ContinueSpares
<1> QED
  BY <1>1, <1>2, <1>3, <1>4, UnchangedSpares, AssignSpares, ReconcileSpares, NormalizeSpares,
     ClearSpares, CommandFields DEF Decide, Operations

LEMMA EditsCounted ==
    ASSUME edits \in Nat, [Next]_vars
    PROVE  edits' \in Nat /\ (~ByHand => edits' = edits)
<1>1. ASSUME NEW p \in Procs, Step(p) \/ Fault(p) \/ Crash(p) PROVE edits' = edits
  BY <1>1 DEF Step, Fault, Crash, Lock, Inspect, NothingToRecover, Replay, RemoveJournal, Run,
              Write, Stage, ReplayFails, RemoveJournalFails, WriteFails, StageFails, Fail, bounds
<1>2. ASSUME NEW f \in Files, EditByHand(f) PROVE edits' = edits + 1
  BY <1>2 DEF EditByHand
<1>3. CASE UNCHANGED vars
  BY <1>3 DEF vars
<1> QED
  BY <1>1, <1>2, <1>3 DEF Next, ByHand

LEMMA WholeIsDocuments ==
    ASSUME RecordsInv
    PROVE  Whole \in [Files -> Document]
<1>1. CASE Torn
  BY <1>1 DEF Whole, RecordsInv
<1>2. CASE ~Torn
  <2>1. \A f \in journal.files : journal.after[f] \in Document \/ f \notin Files
    <3>1. CASE journal = Absent
      BY <3>1 DEF Absent
    <3>2. CASE journal # Absent
      BY <3>2 DEF RecordsInv, KeepsRecords
    <3> QED
      BY <3>1, <3>2
  <2> QED
    BY <1>2, <2>1 DEF Whole, RecordsInv
<1> QED
  BY <1>1, <1>2

\* Whoever takes the lock never finds one more record of a task because of a
\* command, a failure or a recovery (mutate.go:137, 413).
THEOREM NoNewDuplicatesHolds ==
    ASSUME \A f \in Files, b \in [Files -> Document] : Edits(f, b) \subseteq Document
    PROVE  Spec => NoNewDuplicates
<1> DEFINE Counted == edits \in Nat
           Spared == ~ByHand =>
              \A id \in AllIds(Whole') :
                  Copies(Whole', id) <= 1 \/ Copies(Whole', id) <= Copies(Whole, id)
<1>1. Init => Counted
  BY DEF Init
<1>2. Counted /\ [Next]_vars => Counted'
  BY EditsCounted
<1>3. BoardInv /\ RecordsInv /\ Counted /\ [Next]_vars => [Spared]_vars
  <2> SUFFICES ASSUME BoardInv, RecordsInv, edits \in Nat, [Next]_vars, ~ByHand,
                      NEW id \in AllIds(Whole')
               PROVE  Copies(Whole', id) <= 1 \/ Copies(Whole', id) <= Copies(Whole, id)
    OBVIOUS
  <2>1. Whole \in [Files -> Document]
    BY WholeIsDocuments
  <2>2. CASE Whole' = Whole
    <3>1. Copies(Whole, id) <= Copies(Whole, id)
      BY <2>1, CopiesCounted
    <3> QED
      BY <2>2, <3>1
  <2>3. CASE \E c \in Commands : Whole' = Decide(c, Whole).after
    <3>1. PICK c \in Commands : Whole' = Decide(c, Whole).after
      BY <2>3
    <3>2. Sparing(Decide(c, Whole), Whole)
      BY <2>1, DecisionSpares
    <3> QED
      BY <3>1, <3>2 DEF Sparing
  <2>4. [Abstract!Next]_(Abstract!vars)
    BY NextRefines
  <2>5. edits' # edits + 1
    BY EditsCounted
  <2> QED
    BY <2>2, <2>3, <2>4, <2>5 DEF Abstract!Next, Abstract!Command, Abstract!Edit, Abstract!vars
<1> QED
  BY <1>1, <1>2, <1>3, BoardInvHolds, RecordsInvHolds, PTL DEF Spec, NoNewDuplicates

=============================================================================
