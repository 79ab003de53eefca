--------------------------- MODULE OrderSourceProofs ---------------------------
(****************************************************************************)
(* Theorems about OrderSource, for any orders, items and number of restarts. *)
(*                                                                          *)
(* TypeInv adds to the types what each thread has still to write and which  *)
(* threads can be at work together.  LifecycleInv says how far the          *)
(* transaction may be ahead of what is committed, and SoundInv what the     *)
(* three upserts of an update leave behind one after the other.             *)
(****************************************************************************)
EXTENDS OrderSource, SequenceTheorems, TLAPS

Values == Statuses \cup {"sent", None}

\* The three upserts of an update of an order o to s, with items S.
OrderRow(o, s) == Written({o}, s)
ItemRows(S, s) == Written(S, s)
EventRows(S, s) == Written(S \X EventOf(s), "sent")

\* What an update still has to write: all of it, or what follows the order.
Whole(o, s, S) ==
    {<<OrderRow(o, s)>>, <<OrderRow(o, s), ItemRows(S, s)>>,
     <<OrderRow(o, s), ItemRows(S, s), EventRows(S, s)>>}
Rest(s, S) ==
    {<<ItemRows(S, s)>>, <<ItemRows(S, s), EventRows(S, s)>>, <<EventRows(S, s)>>}

\* What thread t may have to write.
IsPlan(t, j) ==
    \/ t = "orders" /\ \E o \in Orders : j = <<Written({o}, "Processing")>>
    \/ t = "items" /\ \E o \in Orders : j = <<Written(ItemsOf(o), "Processing")>>
    \/ t = "events" /\ \E o \in Orders : j = <<Written(ItemsOf(o) \X {"purchase"}, "sent")>>
    \/ t \in {"address", "other"} /\ j = <<Written({Other}, "sent")>>
    \/ t = "update" /\ \E o \in Orders, s \in Statuses : \E S \in SUBSET ItemsOf(o) :
                          j \in Whole(o, s, S) \cup Rest(s, S)

\* What one of its upserts writes.
Writes(t, S, v) ==
    \/ t = "orders" /\ v = "Processing" /\ \E o \in Orders : S = {o}
    \/ t = "items" /\ v = "Processing" /\ S \in SUBSET Items
    \/ t = "events" /\ v = "sent" /\ S \in SUBSET (Items \X {"purchase"})
    \/ t \in {"address", "other"} /\ v = "sent" /\ S = {Other}
    \/ t = "update" /\ v \in Statuses /\ \E o \in Orders : S = {o}
    \/ t = "update" /\ v \in Statuses /\ S \in SUBSET Items
    \/ t = "update" /\ v = "sent" /\ S \in SUBSET (Items \X {"cancel", "return"})

----------------------------------------------------------------------------
(* Lemmas about sequences and statuses. *)

LEMMA Tuples ==
  ASSUME NEW a, NEW b, NEW c
  PROVE  /\ Head(<<a>>) = a /\ Tail(<<a>>) = <<>> /\ Len(<<a>>) = 1
         /\ Head(<<a, b>>) = a /\ Tail(<<a, b>>) = <<b>> /\ Len(<<a, b>>) = 2
         /\ Head(<<a, b, c>>) = a /\ Tail(<<a, b, c>>) = <<b, c>> /\ Len(<<a, b, c>>) = 3
  OBVIOUS

LEMMA Pair == ASSUME NEW a, NEW b PROVE <<a>> \o <<b>> = <<a, b>>
<1> DEFINE V == {a, b}
           l == <<a>> \o <<b>>
           r == <<a, b>>
<1>1. r \in Seq(V) /\ Len(r) = 2 /\ r[1] = a /\ r[2] = b
  OBVIOUS
<1>2. l \in Seq(V) /\ Len(l) = 2 /\ l[1] = a /\ l[2] = b
  <2>1. <<a>> \in Seq(V) /\ <<b>> \in Seq(V)
    OBVIOUS
  <2> QED
    BY <2>1
<1> HIDE DEF l, r, V
<1>3. \A i \in 1..Len(l) : l[i] = r[i]
  BY <1>1, <1>2
<1>4. l = r
  BY <1>1, <1>2, <1>3, SeqEqual
<1> QED
  BY <1>4 DEF l, r

LEMMA Triple == ASSUME NEW a, NEW b, NEW c PROVE <<a, b>> \o <<c>> = <<a, b, c>>
<1> DEFINE V == {a, b, c}
           l == <<a, b>> \o <<c>>
           r == <<a, b, c>>
<1>1. r \in Seq(V) /\ Len(r) = 3 /\ r[1] = a /\ r[2] = b /\ r[3] = c
  OBVIOUS
<1>2. l \in Seq(V) /\ Len(l) = 3 /\ l[1] = a /\ l[2] = b /\ l[3] = c
  <2>1. <<a, b>> \in Seq(V) /\ <<c>> \in Seq(V)
    OBVIOUS
  <2> QED
    BY <2>1
<1> HIDE DEF l, r, V
<1>3. \A i \in 1..Len(l) : l[i] = r[i]
  BY <1>1, <1>2
<1>4. l = r
  BY <1>1, <1>2, <1>3, SeqEqual
<1> QED
  BY <1>4 DEF l, r

LEMMA RankValues ==
  /\ Rank(None) = 0 /\ Rank("Processing") = 1 /\ Rank("Shipped") = 2
  /\ Rank("Delivered") = 3 /\ Rank("Cancelled") = 4 /\ Rank("Returned") = 4
  BY DEF Rank, None

LEMMA NextValues ==
  /\ NextStatuses("Processing") = {"Shipped", "Cancelled"}
  /\ NextStatuses("Shipped") = {"Delivered"}
  /\ NextStatuses("Delivered") = {"Delivered", "Returned"}
  /\ NextStatuses("Cancelled") = {"Cancelled"}
  /\ NextStatuses("Returned") = {"Returned"}
  BY DEF NextStatuses

LEMMA EventValues ==
  /\ EventOf("Processing") = {} /\ EventOf("Shipped") = {} /\ EventOf("Delivered") = {}
  /\ EventOf("Cancelled") = {"cancel"} /\ EventOf("Returned") = {"return"}
  BY DEF EventOf

LEMMA AwaitedValues ==
  /\ main = "joining" => Awaited = Writers
  /\ main = "joined" => Awaited = SideTasks
<1>1. ASSUME main = "joining" PROVE Awaited = Writers
  BY <1>1 DEF Awaited
<1>2. ASSUME main = "joined" PROVE Awaited = SideTasks
  BY <1>2 DEF Awaited
<1> QED
  BY <1>1, <1>2

LEMMA EmptyProduct == ASSUME NEW A, NEW B PROVE A \X B = {} <=> A = {} \/ B = {}
<1>1. ASSUME NEW a \in A, NEW b \in B PROVE A \X B # {}
  <2>1. <<a, b>> \in A \X B
    OBVIOUS
  <2> QED
    BY <2>1
<1>2. ASSUME A = {} \/ B = {} PROVE A \X B = {}
  BY <1>2
<1> QED
  BY <1>1, <1>2

\* What the three upserts of an update are.
LEMMA UpsertsAre ==
  ASSUME NEW o \in Orders, NEW s \in Statuses
  PROVE  \E S \in SUBSET ItemsOf(o) : Upserts(o, s) \in Whole(o, s, S)
<1> DEFINE S == {i \in ItemsOf(o) : txn[i] # None}
           O == OrderRow(o, s)
           I == ItemRows(S, s)
           E == EventRows(S, s)
<1>1. Upserts(o, s) = Rows({o}, s) \o Rows(S, s) \o Rows(S \X EventOf(s), "sent")
  BY DEF Upserts
<1>2. Rows({o}, s) = <<O>>
  BY DEF Rows, OrderRow
<1>3. Rows(S, s) = IF S = {} THEN <<>> ELSE <<I>>
  BY DEF Rows, ItemRows
<1>4. Rows(S \X EventOf(s), "sent") = IF S = {} \/ EventOf(s) = {} THEN <<>> ELSE <<E>>
  <2>1. S \X EventOf(s) = {} <=> S = {} \/ EventOf(s) = {}
    BY EmptyProduct
  <2> QED
    BY <2>1 DEF Rows, EventRows
<1>5. S \in SUBSET ItemsOf(o)
  OBVIOUS
<1> HIDE DEF S, O, I, E
<1>6. /\ <<O>> \o <<>> = <<O>>
      /\ <<O, I>> \o <<>> = <<O, I>>
      /\ <<O>> \o <<I>> = <<O, I>>
      /\ <<O, I>> \o <<E>> = <<O, I, E>>
  BY Pair, Triple
<1>7. Upserts(o, s) \in {<<O>>, <<O, I>>, <<O, I, E>>}
  BY <1>1, <1>2, <1>3, <1>4, <1>6
<1> QED
  BY <1>5, <1>7 DEF Whole, O, I, E

\* The head of a plan is an upsert of one kind, and its tail is a plan.
LEMMA PlanHead ==
  ASSUME NEW t, NEW j, IsPlan(t, j)
  PROVE  \E S, v : Head(j) = Written(S, v) /\ Writes(t, S, v)
<1>1. CASE t # "update"
  <2>1. \A o \in Orders : /\ ItemsOf(o) \in SUBSET Items
                          /\ ItemsOf(o) \X {"purchase"} \in SUBSET (Items \X {"purchase"})
    BY DEF ItemsOf
  <2>2. \A f : Head(<<f>>) = f
    OBVIOUS
  <2> QED
    BY <1>1, <2>1, <2>2 DEF IsPlan, Writes
<1>2. CASE t = "update"
  <2>1. PICK o \in Orders, s \in Statuses : \E S \in SUBSET ItemsOf(o) :
                j \in Whole(o, s, S) \cup Rest(s, S)
    BY <1>2 DEF IsPlan
  <2>2. PICK S \in SUBSET ItemsOf(o) : j \in Whole(o, s, S) \cup Rest(s, S)
    BY <2>1
  <2>3. Head(j) \in {OrderRow(o, s), ItemRows(S, s), EventRows(S, s)}
    BY <2>2 DEF Whole, Rest
  <2>4. S \in SUBSET Items
    BY DEF ItemsOf
  <2>5. EventOf(s) \in SUBSET {"cancel", "return"}
    BY EventValues DEF Statuses
  <2>6. S \X EventOf(s) \in SUBSET (Items \X {"cancel", "return"})
    BY <2>4, <2>5
  <2> QED
    BY <1>2, <2>3, <2>4, <2>6 DEF Writes, OrderRow, ItemRows, EventRows
<1> QED
  BY <1>1, <1>2

LEMMA PlanTail ==
  ASSUME NEW t, NEW j, IsPlan(t, j)
  PROVE  /\ Len(j) \in 1..3
         /\ Len(j) > 1 => IsPlan(t, Tail(j))
         /\ ~(Len(j) > 1) => Tail(j) = <<>>
<1>1. CASE t # "update"
  <2>1. PICK f : j = <<f>>
    BY <1>1 DEF IsPlan
  <2> QED
    BY <2>1
<1>2. CASE t = "update"
  <2>1. PICK o \in Orders, s \in Statuses : \E S \in SUBSET ItemsOf(o) :
                j \in Whole(o, s, S) \cup Rest(s, S)
    BY <1>2 DEF IsPlan
  <2>2. PICK S \in SUBSET ItemsOf(o) : j \in Whole(o, s, S) \cup Rest(s, S)
    BY <2>1
  <2>3. /\ Len(j) \in 1..3
        /\ Len(j) > 1 => Tail(j) \in Rest(s, S)
        /\ ~(Len(j) > 1) => Tail(j) = <<>>
    <3> DEFINE O == OrderRow(o, s)
               I == ItemRows(S, s)
               E == EventRows(S, s)
    <3>1. j \in {<<O>>, <<O, I>>, <<O, I, E>>, <<I>>, <<I, E>>, <<E>>}
      BY <2>2 DEF Whole, Rest
    <3>2. Rest(s, S) = {<<I>>, <<I, E>>, <<E>>}
      BY DEF Rest
    <3> HIDE DEF O, I, E
    <3>3. CASE j \in {<<O>>, <<I>>, <<E>>}
      BY <3>3
    <3>4. CASE j = <<O, I>>
      BY <3>2, <3>4
    <3>6. CASE j = <<I, E>>
      BY <3>2, <3>6
    <3>5. CASE j = <<O, I, E>>
      BY <3>2, <3>5
    <3> QED
      BY <3>1, <3>3, <3>4, <3>5, <3>6
  <2> QED
    BY <1>2, <2>3 DEF IsPlan
<1> QED
  BY <1>1, <1>2

LEMMA UpsertedRows ==
  ASSUME NEW S, NEW v, NEW f
  PROVE  Upserted(Written(S, v), f) = [k \in Keys |-> IF k \in S THEN v ELSE f[k]]
  BY DEF Written, Upserted

----------------------------------------------------------------------------
(* Types, plans, and the threads that may be at work together. *)

Typed ==
    /\ db \in [Keys -> Values]
    /\ txn \in [Keys -> Values]
    /\ acked \in [Keys -> Values]
    /\ aborted \in BOOLEAN
    /\ link \in {"up", "lost", "invalid", "stale", "closed"}
    /\ opening \in [Threads -> {None, "connect", "revalidate"}]
    /\ main \in {"purchase", "address", "joining", "side", "joined", "closing",
                 "releasing", "down"}
    /\ step \in [Threads -> {"done", "select", "execute", "commit", "rollback"}]
    /\ raised \in BOOLEAN
    /\ errors \in 0..max_consecutive_errors
    /\ restarts \in 0..MaxRestarts
    /\ sound \in BOOLEAN /\ cutShort \in BOOLEAN

\* Orders and items have a status, events and the other rows are there or not.
Kinds(f) == \A k \in Keys :
    IF k \in Orders \cup Items THEN f[k] # "sent" ELSE f[k] \in {"sent", None}
KindsInv == Kinds(db) /\ Kinds(txn) /\ Kinds(acked)

Idle(t) == step[t] \in {"done", "select"}
PlansInv ==
    /\ DOMAIN jobs = Threads
    /\ \A t \in Threads : IF Idle(t) THEN jobs[t] = <<>> ELSE IsPlan(t, jobs[t])

\* close() has thrown the transaction away.
Closed == main \in {"releasing", "down"}

\* An update runs when no purchase does, and the loop is where it started it.  Only
\* threads that close() left behind open a connection.
ThreadsInv ==
    /\ step["address"] # "done" => main \in {"address", "closing", "releasing", "down"}
    /\ \A t \in Writers : step[t] # "done" => main \in {"joining", "closing", "releasing", "down"}
    /\ step["update"] # "done" =>
         main \in {"joined", "closing", "releasing", "down"} /\ Done(Writers)
    /\ \A t \in Threads : step[t] = "select" => t = "update"
    /\ main \notin {"closing", "releasing", "down"} => errors < max_consecutive_errors
    /\ link \in {"stale", "closed"} => main = "down"
    /\ \A t \in Threads : opening[t] # None => main = "down" /\ step[t] # "done"
    /\ Closed /\ step["update"] # "done" => cutShort

TypeInv == Typed /\ KindsInv /\ PlansInv /\ ThreadsInv

LEMMA TypeInit == Init => TypeInv
<1> SUFFICES ASSUME Init PROVE TypeInv
  OBVIOUS
<1> USE DEF Init
<1>1. Typed
  <2>1. restarts \in 0..MaxRestarts /\ errors \in 0..max_consecutive_errors
    BY SourceAssumption DEF max_consecutive_errors
  <2>2. None \in Values
    BY DEF Values
  <2> QED
    BY <2>1, <2>2 DEF Typed
<1>2. KindsInv
  BY DEF KindsInv, Kinds, None
<1>3. PlansInv
  BY DEF PlansInv, Idle
<1>4. ThreadsInv
  BY DEF ThreadsInv, Threads, Writers, SideTasks, Done, Closed, max_consecutive_errors
<1> QED
  BY <1>1, <1>2, <1>3, <1>4 DEF TypeInv

LEMMA ThreadSet == Threads = {"orders", "items", "events", "update", "other", "address"}
  BY DEF Threads, Writers, SideTasks

\* What an upsert writes has the kind of its keys.
LEMMA WritesKinds ==
  ASSUME NEW t, NEW S, NEW v, Writes(t, S, v)
  PROVE  /\ S \in SUBSET Keys
         /\ v \in Statuses \cup {"sent"}
         /\ v \in Statuses => S \in SUBSET (Orders \cup Items)
         /\ v = "sent" => S \cap (Orders \cup Items) = {}
  BY KeysAssumption DEF Writes, Keys, Statuses, EventKeys

LEMMA UpsertedKinds ==
  ASSUME NEW t, NEW S, NEW v, Writes(t, S, v),
         NEW f \in [Keys -> Values], Kinds(f)
  PROVE  /\ Upserted(Written(S, v), f) \in [Keys -> Values]
         /\ Kinds(Upserted(Written(S, v), f))
<1>1. /\ S \in SUBSET Keys
      /\ v \in Statuses \cup {"sent"}
      /\ v \in Statuses => S \in SUBSET (Orders \cup Items)
      /\ v = "sent" => S \cap (Orders \cup Items) = {}
  BY WritesKinds
<1>2. "sent" \notin Statuses
  BY DEF Statuses
<1> QED
  BY <1>1, <1>2, UpsertedRows DEF Kinds, Values

LEMMA TypedStep == Typed /\ KindsInv /\ PlansInv /\ ThreadsInv /\ [Next]_vars => Typed' /\ KindsInv'
<1> SUFFICES ASSUME Typed, KindsInv, PlansInv, ThreadsInv, [Next]_vars PROVE Typed' /\ KindsInv'
  OBVIOUS
<1> USE DEF Typed, KindsInv, threads, history
<1>1. ASSUME NEW t \in Threads, Execute(t) PROVE Typed' /\ KindsInv'
  <2>1. IsPlan(t, jobs[t])
    BY <1>1 DEF PlansInv, Idle, Execute
  <2>2. PICK S, v : Head(jobs[t]) = Written(S, v) /\ Writes(t, S, v)
    BY <2>1, PlanHead
  <2>3. txn' \in [Keys -> Values] /\ Kinds(txn')
    BY <1>1, <2>2, UpsertedKinds DEF Execute
  <2> QED
    BY <1>1, <2>3 DEF Execute, Kinds
<1>2. ASSUME NEW t \in Threads, Commit(t) PROVE Typed' /\ KindsInv'
  <2>1. IsPlan(t, jobs[t])
    BY <1>2 DEF PlansInv, Idle, Commit
  <2>2. PICK S, v : Head(jobs[t]) = Written(S, v) /\ Writes(t, S, v)
    BY <2>1, PlanHead
  <2>3. acked' \in [Keys -> Values] /\ Kinds(acked')
    BY <1>2, <2>2, UpsertedKinds DEF Commit, Returns
  <2> QED
    BY <1>2, <2>3 DEF Commit, Returns, Kinds
<1>3. ASSUME NEW t \in Threads, ExecuteFails(t) \/ CommitFails(t) \/ Rollback(t)
      PROVE  Typed' /\ KindsInv'
  <2>1. /\ \E a \in {"rollback", "done"} : step' = [step EXCEPT ![t] = a]
        /\ aborted' \in BOOLEAN /\ raised' \in BOOLEAN /\ sound' \in BOOLEAN
    BY <1>3 DEF ExecuteFails, CommitFails, Rollback, history
  <2>2. step' \in [Threads -> {"done", "select", "execute", "commit", "rollback"}]
    BY <2>1
  <2>3. /\ UNCHANGED <<db, acked, link, main, opening, errors, restarts, cutShort>>
        /\ txn' = txn \/ txn' = db
    BY <1>3 DEF ExecuteFails, CommitFails, Rollback, history
  <2> QED
    BY <2>1, <2>2, <2>3 DEF Kinds
<1>11. ASSUME NEW t \in Threads, SeesGone(t) \/ Opens(t) \/ OpenFails(t)
       PROVE  Typed' /\ KindsInv'
  <2>1. opening' \in [Threads -> {None, "connect", "revalidate"}]
    <3>1. opening \in [Threads -> {None, "connect", "revalidate"}]
      OBVIOUS
    <3>2. \E a \in {None, "connect", "revalidate"} : opening' = [opening EXCEPT ![t] = a]
      BY <1>11 DEF SeesGone, Opens, OpenFails
    <3> QED
      BY <3>1, <3>2
  <2>2. CASE SeesGone(t)
    BY <2>1, <2>2 DEF SeesGone, Kinds, history
  <2>3. CASE Opens(t)
    BY <2>1, <2>3 DEF Opens, Kinds, history
  <2>4. CASE OpenFails(t)
    <3>1. \E a \in {"rollback", "done"} : step' = [step EXCEPT ![t] = a]
      BY <2>4 DEF OpenFails
    <3>2. step' \in [Threads -> {"done", "select", "execute", "commit", "rollback"}]
      BY <3>1
    <3>3. UNCHANGED <<db, txn, aborted, link, main, raised, errors, restarts, history>>
      BY <2>4 DEF OpenFails
    <3> QED
      BY <2>1, <3>2, <3>3 DEF Kinds, history
  <2> QED
    BY <1>11, <2>2, <2>3, <2>4
<1>4. CASE LoseLink
  BY <1>4 DEF LoseLink, Kinds
<1>5. CASE UpdateAddress \/ (\E o \in Orders : Purchase(o))
            \/ (\E S \in SUBSET SideTasks : StartSideTasks(S))
  <2>1. CASE UpdateAddress
    BY <2>1 DEF UpdateAddress, Kinds
  <2>2. CASE \E o \in Orders : Purchase(o)
    BY <2>2 DEF Purchase, Kinds
  <2>3. CASE \E S \in SUBSET SideTasks : StartSideTasks(S)
    BY <2>3 DEF StartSideTasks, Kinds
  <2> QED
    BY <1>5, <2>1, <2>2, <2>3
<1>6. CASE Join \/ SelectUserFails \/ UpdateReadFails \/ Abandon
  <2>1. Kinds(db)' /\ Kinds(txn)' /\ Kinds(acked)'
    BY <1>6 DEF Join, SelectUserFails, UpdateReadFails, Abandon, Kinds, history
  <2>2. CASE Join
    BY <2>1, <2>2 DEF Join, ThreadsInv, max_consecutive_errors, threads, history
  <2>3. CASE SelectUserFails
    BY <2>1, <2>3
       DEF SelectUserFails, CountError, Invalidate, ThreadsInv, max_consecutive_errors, threads, history
  <2>4. CASE UpdateReadFails
    <3>1. step' = [step EXCEPT !["update"] = "done"] /\ UNCHANGED opening
      BY <2>4 DEF UpdateReadFails
    <3>2. step' \in [Threads -> {"done", "select", "execute", "commit", "rollback"}]
      BY <3>1
    <3>3. /\ errors' \in 0..max_consecutive_errors
          /\ main' \in {"purchase", "closing", main}
      BY <2>4 DEF UpdateReadFails, CountError, ThreadsInv, max_consecutive_errors
    <3> QED
      BY <2>1, <2>4, <3>1, <3>2, <3>3 DEF UpdateReadFails, Invalidate, history
  <2>5. CASE Abandon
    BY <2>1, <2>5 DEF Abandon, threads, history
  <2> QED
    BY <1>6, <2>2, <2>3, <2>4, <2>5
<1>7. CASE CloseRollsBack \/ CloseReleases \/ CloseFails
  BY <1>7 DEF CloseRollsBack, CloseReleases, CloseFails, CutShort, Kinds
<1>10. CASE Restart
  <2>1. restarts' \in 0..MaxRestarts /\ errors' \in 0..max_consecutive_errors
    BY <1>10, SourceAssumption DEF Restart, max_consecutive_errors
  <2> QED
    BY <1>10, <2>1 DEF Restart, Kinds
<1>8. CASE \E o \in Orders, s \in Statuses : UpdateRead(o, s)
  BY <1>8 DEF UpdateRead, Kinds
<1>9. CASE UNCHANGED vars
  BY <1>9 DEF vars, Kinds
<1> QED
  BY <1>1, <1>2, <1>3, <1>4, <1>5, <1>6, <1>7, <1>8, <1>9, <1>10, <1>11 DEF Next

LEMMA PlansStep == TypeInv /\ [Next]_vars => PlansInv'
<1> SUFFICES ASSUME TypeInv, [Next]_vars PROVE PlansInv'
  OBVIOUS
<1> USE DEF PlansInv, Idle
<1>0. step \in [Threads -> {"done", "select", "execute", "commit", "rollback"}]
  BY DEF TypeInv, Typed
<1>1. ASSUME NEW t \in Threads, Execute(t) \/ ExecuteFails(t) \/ CommitFails(t) \/ Rollback(t)
      PROVE  PlansInv'
  BY <1>0, <1>1 DEF TypeInv, Execute, ExecuteFails, CommitFails, Rollback
<1>10. ASSUME NEW t \in Threads, SeesGone(t) \/ Opens(t) \/ OpenFails(t) PROVE PlansInv'
  BY <1>0, <1>10 DEF TypeInv, SeesGone, Opens, OpenFails
<1>2. ASSUME NEW t \in Threads, Commit(t) PROVE PlansInv'
  <2>1. IsPlan(t, jobs[t])
    BY <1>2 DEF TypeInv, Commit
  <2>2. /\ Len(jobs[t]) > 1 => IsPlan(t, Tail(jobs[t]))
        /\ ~(Len(jobs[t]) > 1) => Tail(jobs[t]) = <<>>
    BY <2>1, PlanTail
  <2> QED
    BY <1>0, <1>2, <2>2 DEF TypeInv, Commit, Returns
<1>3. CASE LoseLink \/ Join \/ SelectUserFails \/ Abandon \/ Restart \/ UNCHANGED vars
  BY <1>3 DEF TypeInv, LoseLink, Join, SelectUserFails, Abandon, Restart, vars, threads
<1>4. CASE UpdateReadFails
  BY <1>0, <1>4, ThreadSet DEF TypeInv, UpdateReadFails
<1>5. CASE UpdateAddress
  BY <1>0, <1>5, ThreadSet DEF TypeInv, UpdateAddress, IsPlan
<1>6. ASSUME NEW o \in Orders, Purchase(o) PROVE PlansInv'
  <2>1. /\ IsPlan("orders", <<Written({o}, "Processing")>>)
        /\ IsPlan("items", <<Written(ItemsOf(o), "Processing")>>)
        /\ IsPlan("events", <<Written(ItemsOf(o) \X {"purchase"}, "sent")>>)
    BY DEF IsPlan
  <2> QED
    BY <1>0, <1>6, <2>1, ThreadSet DEF TypeInv, Purchase, Writers
<1>7. ASSUME NEW S \in SUBSET SideTasks, StartSideTasks(S) PROVE PlansInv'
  <2>1. IsPlan("other", <<Written({Other}, "sent")>>)
    BY DEF IsPlan
  <2>2. \A t \in Threads : step[t] = "done"
    BY <1>0, <1>7, ThreadSet DEF TypeInv, ThreadsInv, StartSideTasks, Done, Writers, SideTasks
  <2>3. \A t \in Threads : jobs[t] = <<>>
    BY <2>2 DEF TypeInv
  <2> QED
    BY <1>0, <1>7, <2>1, <2>2, <2>3, ThreadSet DEF TypeInv, StartSideTasks, SideTasks
<1>8. CASE CloseRollsBack \/ CloseReleases \/ CloseFails
  BY <1>8 DEF TypeInv, CloseRollsBack, CloseReleases, CloseFails, threads
<1>9. ASSUME NEW o \in Orders, NEW s \in Statuses, UpdateRead(o, s) PROVE PlansInv'
  <2>1. IsPlan("update", Upserts(o, s))
    BY UpsertsAre DEF IsPlan
  <2> QED
    BY <1>0, <1>9, <2>1, ThreadSet DEF TypeInv, UpdateRead
<1> QED
  BY <1>1, <1>2, <1>3, <1>4, <1>5, <1>6, <1>7, <1>8, <1>9, <1>10 DEF Next

LEMMA ThreadsStep == TypeInv /\ [Next]_vars => ThreadsInv'
<1> SUFFICES ASSUME TypeInv, [Next]_vars PROVE ThreadsInv'
  OBVIOUS
<1> USE ThreadSet DEF ThreadsInv, Writers, SideTasks, Done, Closed
<1>0. /\ step \in [Threads -> {"done", "select", "execute", "commit", "rollback"}]
      /\ opening \in [Threads -> {None, "connect", "revalidate"}]
  BY DEF TypeInv, Typed
<1>1. ASSUME NEW t \in Threads,
             Execute(t) \/ ExecuteFails(t) \/ CommitFails(t) \/ Rollback(t) \/ Commit(t)
      PROVE  ThreadsInv'
  <2>1. step[t] # "done" /\ step[t] # "select"
    BY <1>1 DEF Execute, ExecuteFails, CommitFails, Rollback, Commit
  <2>2. PICK x \in {"done", "execute", "commit", "rollback"} : step' = [step EXCEPT ![t] = x]
    BY <1>1 DEF Execute, ExecuteFails, CommitFails, Rollback, Commit, Returns
  <2>3. UNCHANGED <<main, errors, link, opening, cutShort>> /\ opening[t] = None
    BY <1>1 DEF Execute, ExecuteFails, CommitFails, Rollback, Commit, Uses, history
  <2> QED
    BY <1>0, <2>1, <2>2, <2>3 DEF TypeInv
<1>2. CASE LoseLink \/ UNCHANGED vars
  BY <1>2 DEF TypeInv, LoseLink, vars, threads, history
<1>13. ASSUME NEW t \in Threads, SeesGone(t) PROVE ThreadsInv'
  BY <1>0, <1>13 DEF TypeInv, SeesGone, history
<1>14. ASSUME NEW t \in Threads, Opens(t) PROVE ThreadsInv'
  BY <1>0, <1>14 DEF TypeInv, Opens, history
<1>15. ASSUME NEW t \in Threads, OpenFails(t) PROVE ThreadsInv'
  <2>1. PICK x \in {"done", "rollback"} : step' = [step EXCEPT ![t] = x]
    BY <1>15 DEF OpenFails
  <2>2. UNCHANGED <<main, errors, link, cutShort>> /\ opening' = [opening EXCEPT ![t] = None]
    BY <1>15 DEF OpenFails, history
  <2>3. step[t] # "done"
    BY <1>15 DEF OpenFails, TypeInv
  <2> QED
    BY <1>0, <2>1, <2>2, <2>3 DEF TypeInv
<1>3. CASE Join
  BY <1>0, <1>3, AwaitedValues DEF TypeInv, Typed, Join, threads, history, max_consecutive_errors
<1>4. CASE SelectUserFails
  BY <1>0, <1>4
     DEF TypeInv, Typed, SelectUserFails, CountError, Invalidate, threads, history, max_consecutive_errors
<1>5. CASE UpdateReadFails
  BY <1>0, <1>5
     DEF TypeInv, Typed, UpdateReadFails, CountError, Invalidate, Uses, history, max_consecutive_errors
<1>6. CASE Abandon
  BY <1>0, <1>6 DEF TypeInv, Abandon, Awaited, threads, history
<1>7. CASE UpdateAddress
  BY <1>0, <1>7 DEF TypeInv, UpdateAddress, history
<1>8. ASSUME NEW o \in Orders, Purchase(o) PROVE ThreadsInv'
  BY <1>0, <1>8 DEF TypeInv, Purchase, history
<1>9. ASSUME NEW S \in SUBSET SideTasks, StartSideTasks(S) PROVE ThreadsInv'
  BY <1>0, <1>9 DEF TypeInv, StartSideTasks, history
<1>10. CASE CloseRollsBack \/ CloseReleases \/ CloseFails
  BY <1>0, <1>10 DEF TypeInv, Typed, CloseRollsBack, CloseReleases, CloseFails, CutShort, threads
<1>11. CASE Restart
  BY <1>0, <1>11 DEF TypeInv, Restart, threads, history, max_consecutive_errors
<1>12. ASSUME NEW o \in Orders, NEW s \in Statuses, UpdateRead(o, s) PROVE ThreadsInv'
  BY <1>0, <1>12 DEF TypeInv, UpdateRead, Uses, history
<1> QED
  BY <1>1, <1>2, <1>3, <1>4, <1>5, <1>6, <1>7, <1>8, <1>9, <1>10, <1>11, <1>12,
     <1>13, <1>14, <1>15 DEF Next

LEMMA TypeInvHolds == Spec => []TypeInv
<1>1. TypeInv /\ [Next]_vars => TypeInv'
  BY TypedStep, PlansStep, ThreadsStep DEF TypeInv
<1> QED
  BY <1>1, TypeInit, PTL DEF Spec

\* Every key holds a value of its type, no thread has more than the three upserts of
\* an update ahead of it (simulate_order_update), and the loop stops at the third
\* consecutive error (EcommerceSimulator.run).
THEOREM TypeOKHolds == Spec => []TypeOK
<1>1. TypeInv => TypeOK
  <2>1. ASSUME TypeInv, NEW t \in Threads PROVE Len(jobs[t]) <= 3
    <3>1. CASE Idle(t)
      BY <2>1, <3>1 DEF TypeInv, PlansInv
    <3>2. CASE ~Idle(t)
      <4>1. IsPlan(t, jobs[t])
        BY <2>1, <3>2 DEF TypeInv, PlansInv
      <4> DEFINE n == Len(jobs[t])
      <4>2. n \in 1..3
        BY <4>1, PlanTail
      <4> HIDE DEF n
      <4>3. n <= 3
        BY <4>2
      <4> QED
        BY <4>3 DEF n
    <3> QED
      BY <3>1, <3>2
  <2> QED
    BY <2>1 DEF TypeInv, Typed, TypeOK, Values
<1> QED
  BY <1>1, TypeInvHolds, PTL

----------------------------------------------------------------------------
(* The order lifecycle. *)

Moves(s) == IF s = None THEN {"Processing"} ELSE NextStatuses(s)

\* t is about to commit on the connection it executed its upsert on.
Pending(t) == step[t] = "commit" /\ opening[t] = None

\* The transaction is at most one move ahead of what is committed, and then its writer
\* is about to commit; a writer that has not executed its upsert has a move to make.
LifecycleInv ==
    /\ link # "up" => txn = db
    /\ \A o \in Orders : txn[o] \in {db[o]} \cup Moves(db[o])
    /\ \A o \in Orders : txn[o] # db[o] => Pending("orders") \/ Pending("update")
    /\ \A t \in Threads : step[t] = "execute" =>
         \A o \in Orders : o \in DOMAIN Head(jobs[t]) => Head(jobs[t])[o] \in Moves(db[o])

LEMMA WrittenRows ==
  ASSUME NEW S, NEW v
  PROVE  DOMAIN Written(S, v) = S /\ \A k \in S : Written(S, v)[k] = v
  BY DEF Written

LEMMA OrderWriters ==
  ASSUME NEW t, NEW S, NEW v, Writes(t, S, v), NEW o \in Orders, o \in S
  PROVE  t \in {"orders", "update"} /\ v \in Statuses
<1>1. S \cap (Orders \cup Items) # {}
  OBVIOUS
<1>2. v # "sent" /\ v \in Statuses \cup {"sent"}
  BY <1>1, WritesKinds
<1>3. t # "items" /\ t \notin {"address", "other"} /\ t # "events"
  BY <1>2, KeysAssumption DEF Writes
<1> QED
  BY <1>2, <1>3 DEF Writes

\* Only the first upsert of a thread writes an order.
LEMMA RestWithoutOrder ==
  ASSUME NEW t, NEW j, IsPlan(t, j), Len(j) > 1, NEW o \in Orders
  PROVE  o \notin DOMAIN Head(Tail(j))
<1>1. t = "update"
  <2>1. ASSUME t # "update" PROVE FALSE
    <3>1. PICK f : j = <<f>>
      BY <2>1 DEF IsPlan
    <3> QED
      BY <3>1
  <2> QED
    BY <2>1
<1>2. PICK q \in Orders, s \in Statuses : \E S \in SUBSET ItemsOf(q) : j \in Whole(q, s, S) \cup Rest(s, S)
  BY <1>1 DEF IsPlan
<1>3. PICK S \in SUBSET ItemsOf(q) : j \in Whole(q, s, S) \cup Rest(s, S)
  BY <1>2
<1> DEFINE O == OrderRow(q, s)
           I == ItemRows(S, s)
           E == EventRows(S, s)
<1>4. j \in {<<O>>, <<O, I>>, <<O, I, E>>, <<I>>, <<I, E>>, <<E>>}
  BY <1>3 DEF Whole, Rest
<1>5. /\ DOMAIN I = S
      /\ DOMAIN E = S \X EventOf(s)
  BY WrittenRows DEF ItemRows, EventRows
<1>6. o \notin S /\ S \in SUBSET Items
  BY KeysAssumption DEF ItemsOf
<1>7. S \X EventOf(s) \in SUBSET EventKeys
  <2>1. EventOf(s) \in SUBSET {"cancel", "return"}
    BY EventValues DEF Statuses
  <2> QED
    BY <1>6, <2>1 DEF EventKeys
<1>8. o \notin DOMAIN I /\ o \notin DOMAIN E
  BY <1>5, <1>6, <1>7, KeysAssumption
<1> HIDE DEF O, I, E
<1>9. CASE j \in {<<O>>, <<I>>, <<E>>}
  BY <1>9
<1>10. CASE j = <<O, I>>
  BY <1>8, <1>10
<1>11. CASE j = <<O, I, E>>
  BY <1>8, <1>11
<1>12. CASE j = <<I, E>>
  BY <1>8, <1>12
<1> QED
  BY <1>4, <1>9, <1>10, <1>11, <1>12

LEMMA LifecycleInit == Init => LifecycleInv
  BY DEF Init, LifecycleInv, Keys

\* The two threads that write orders are not at work together.
LEMMA OrderWritersExclude ==
  ASSUME TypeInv
  PROVE  step["orders"] = "done" \/ step["update"] = "done"
  BY DEF TypeInv, ThreadsInv, Writers, Done

\* What is committed of an order changes only when one of them commits.
LEMMA PendingKept ==
  ASSUME TypeInv, LifecycleInv, NEW t \in Threads, step[t] = "execute",
         NEW o \in Orders, o \in DOMAIN Head(jobs[t])
  PROVE  t \in {"orders", "update"} /\ txn[o] = db[o]
<1>1. IsPlan(t, jobs[t])
  BY DEF TypeInv, PlansInv, Idle
<1>2. PICK S, v : Head(jobs[t]) = Written(S, v) /\ Writes(t, S, v)
  BY <1>1, PlanHead
<1>3. o \in S
  BY <1>2, WrittenRows
<1>4. t \in {"orders", "update"}
  BY <1>2, <1>3, OrderWriters
<1> QED
  BY <1>4, OrderWritersExclude DEF LifecycleInv, Pending

LEMMA LifecycleStep == TypeInv /\ LifecycleInv /\ [Next]_vars => LifecycleInv'
<1> SUFFICES ASSUME TypeInv, LifecycleInv, [Next]_vars PROVE LifecycleInv'
  OBVIOUS
<1>0. /\ step \in [Threads -> {"done", "select", "execute", "commit", "rollback"}]
      /\ opening \in [Threads -> {None, "connect", "revalidate"}]
      /\ DOMAIN jobs = Threads
      /\ Orders \in SUBSET Keys
      /\ Threads = {"orders", "items", "events", "update", "other", "address"}
  BY ThreadSet DEF TypeInv, Typed, PlansInv, Keys
<1>1. ASSUME NEW t \in Threads, Execute(t) PROVE LifecycleInv'
  <2>1. PICK S, v : Head(jobs[t]) = Written(S, v) /\ Writes(t, S, v)
    BY <1>1, PlanHead DEF TypeInv, PlansInv, Idle, Execute
  <2>2. txn' = [k \in Keys |-> IF k \in S THEN v ELSE txn[k]]
    BY <1>1, <2>1, UpsertedRows DEF Execute
  <2>3. \A o \in Orders : o \in S => v \in Moves(db[o]) /\ t \in {"orders", "update"}
    BY <1>1, <2>1, WrittenRows, OrderWriters DEF LifecycleInv, Execute
  <2> QED
    BY <1>0, <1>1, <2>2, <2>3 DEF LifecycleInv, Pending, Execute, Uses
<1>2. ASSUME NEW t \in Threads, Commit(t) PROVE LifecycleInv'
  <2>1. IsPlan(t, jobs[t])
    BY <1>2 DEF TypeInv, PlansInv, Idle, Commit
  <2>2. ASSUME NEW u \in Threads, step'[u] = "execute", NEW o \in Orders, o \in DOMAIN Head(jobs'[u])
        PROVE  Head(jobs'[u])[o] \in Moves(db'[o])
    <3>1. u # t
      BY <1>0, <1>2, <2>1, <2>2, RestWithoutOrder DEF Commit, Returns
    <3>2. step[u] = "execute" /\ jobs'[u] = jobs[u]
      BY <1>0, <1>2, <2>2, <3>1 DEF Commit, Returns
    <3>3. txn[o] = db[o]
      BY <2>2, <3>2, PendingKept
    <3>4. db'[o] = db[o]
      BY <1>2, <3>3 DEF Commit
    <3> QED
      BY <2>2, <3>2, <3>4 DEF LifecycleInv
  <2>3. txn' = db'
    BY <1>2 DEF Commit
  <2> QED
    BY <2>2, <2>3 DEF LifecycleInv
<1>3. CASE LoseLink
  <2>1. ASSUME NEW u \in Threads, step'[u] = "execute", NEW o \in Orders, o \in DOMAIN Head(jobs'[u])
        PROVE  Head(jobs'[u])[o] \in Moves(db'[o])
    <3>1. step[u] = "execute" /\ jobs'[u] = jobs[u]
      BY <1>3, <2>1 DEF LoseLink, threads
    <3>2. txn[o] = db[o]
      BY <2>1, <3>1, PendingKept
    <3>3. db'[o] = db[o]
      BY <1>3, <3>2 DEF LoseLink
    <3> QED
      BY <2>1, <3>1, <3>3 DEF LifecycleInv
  <2>2. txn' = db'
    BY <1>3 DEF LoseLink
  <2> QED
    BY <2>1, <2>2 DEF LifecycleInv
<1>15. ASSUME NEW t \in Threads, SeesGone(t) \/ Opens(t) PROVE LifecycleInv'
  BY <1>15 DEF LifecycleInv, Pending, SeesGone, Opens
<1>16. ASSUME NEW t \in Threads, OpenFails(t) PROVE LifecycleInv'
  <2>1. \A u \in Threads : step'[u] = "execute" => step[u] = "execute" /\ jobs'[u] = jobs[u]
    BY <1>0, <1>16 DEF OpenFails
  <2>2. \A u \in Threads : Pending(u) => Pending(u)'
    BY <1>0, <1>16 DEF OpenFails, Pending
  <2>3. UNCHANGED <<db, txn, link>>
    BY <1>16 DEF OpenFails
  <2> QED
    BY <1>0, <2>1, <2>2, <2>3 DEF LifecycleInv
<1>4. ASSUME NEW t \in Threads, Rollback(t) PROVE LifecycleInv'
  BY <1>0, <1>4 DEF LifecycleInv, Pending, Rollback
<1>5. ASSUME NEW t \in Threads, ExecuteFails(t) PROVE LifecycleInv'
  BY <1>0, <1>5 DEF LifecycleInv, Pending, ExecuteFails
<1>6. ASSUME NEW t \in Threads, CommitFails(t) PROVE LifecycleInv'
  BY <1>0, <1>6 DEF LifecycleInv, Pending, CommitFails
<1>7. CASE Join \/ SelectUserFails \/ Abandon \/ UNCHANGED vars
  BY <1>7 DEF LifecycleInv, Pending, Join, SelectUserFails, Invalidate, Abandon, threads, vars
<1>8. CASE UpdateReadFails
  BY <1>0, <1>8 DEF LifecycleInv, Pending, UpdateReadFails, Invalidate
<1>9. CASE CloseRollsBack \/ CloseReleases \/ CloseFails
  <2>1. db' = db /\ txn' = db /\ step' = step /\ jobs' = jobs
    BY <1>9 DEF CloseRollsBack, CloseReleases, CloseFails, threads, LifecycleInv
  <2> QED
    BY <2>1 DEF LifecycleInv
<1>10. CASE Restart
  BY <1>10 DEF LifecycleInv, Pending, Restart, threads, TypeInv, Done
<1>11. CASE UpdateAddress
  <2>1. \A o \in Orders : o \notin DOMAIN Head(<<Written({Other}, "sent")>>)
    BY WrittenRows, KeysAssumption
  <2> QED
    BY <1>0, <1>11, <2>1 DEF LifecycleInv, Pending, UpdateAddress, TypeInv, ThreadsInv
<1>12. ASSUME NEW o \in Orders, Purchase(o) PROVE LifecycleInv'
  <2>1. step["orders"] # "commit" /\ step["update"] # "commit"
    BY <1>12 DEF Purchase, TypeInv, ThreadsInv, Writers
  <2>2. db[o] = None
    BY <1>12, <2>1 DEF LifecycleInv, Pending, Purchase
  <2>3. jobs' = [jobs EXCEPT
         !["orders"] = <<Written({o}, "Processing")>>,
         !["items"] = <<Written(ItemsOf(o), "Processing")>>,
         !["events"] = <<Written(ItemsOf(o) \X {"purchase"}, "sent")>>]
    BY <1>12 DEF Purchase
  <2>4. ASSUME NEW u \in Threads, step'[u] = "execute", NEW p \in Orders, p \in DOMAIN Head(jobs'[u])
        PROVE  Head(jobs'[u])[p] \in Moves(db[p])
    <3>1. CASE u = "orders"
      <4>1. Head(jobs'[u]) = Written({o}, "Processing")
        BY <1>0, <2>3, <3>1
      <4> QED
        BY <2>2, <2>4, <4>1, WrittenRows DEF Moves
    <3>2. CASE u = "items"
      <4>1. Head(jobs'[u]) = Written(ItemsOf(o), "Processing")
        BY <1>0, <2>3, <3>2
      <4> QED
        BY <2>4, <4>1, WrittenRows, KeysAssumption DEF ItemsOf
    <3>3. CASE u = "events"
      <4>1. Head(jobs'[u]) = Written(ItemsOf(o) \X {"purchase"}, "sent")
        BY <1>0, <2>3, <3>3
      <4>2. ItemsOf(o) \X {"purchase"} \in SUBSET EventKeys
        BY DEF ItemsOf, EventKeys
      <4> QED
        BY <2>4, <4>1, <4>2, WrittenRows, KeysAssumption
    <3>4. CASE u \notin Writers
      <4>1. step[u] = "execute" /\ jobs'[u] = jobs[u]
        BY <1>0, <1>12, <2>3, <2>4, <3>4 DEF Purchase, Writers
      <4> QED
        BY <2>4, <4>1 DEF LifecycleInv
    <3> QED
      BY <3>1, <3>2, <3>3, <3>4 DEF Writers
  <2>5. \A p \in Orders : txn[p] = db[p]
    BY <2>1 DEF LifecycleInv, Pending
  <2> QED
    BY <1>12, <2>4, <2>5 DEF LifecycleInv, Pending, Purchase
<1>13. ASSUME NEW S \in SUBSET SideTasks, StartSideTasks(S) PROVE LifecycleInv'
  <2>1. \A o \in Orders : o \notin DOMAIN Head(<<Written({Other}, "sent")>>)
    BY WrittenRows, KeysAssumption
  <2>2. step["orders"] # "commit" /\ step["update"] # "commit"
    BY <1>13 DEF StartSideTasks, TypeInv, ThreadsInv, Writers
  <2>3. \A u \in Threads : step'[u] = "execute" => u = "other" /\ jobs'[u] = <<Written({Other}, "sent")>>
    BY <1>0, <1>13 DEF StartSideTasks, SideTasks
  <2> QED
    BY <1>0, <1>13, <2>1, <2>2, <2>3 DEF LifecycleInv, Pending, StartSideTasks
<1>14. ASSUME NEW o \in Orders, NEW s \in Statuses, UpdateRead(o, s) PROVE LifecycleInv'
  <2>1. \A p \in Orders : txn[p] = db[p]
    BY <1>14, OrderWritersExclude DEF UpdateRead, LifecycleInv, Pending
  <2>2. PICK S \in SUBSET ItemsOf(o) : Upserts(o, s) \in Whole(o, s, S)
    BY UpsertsAre
  <2>3. Head(Upserts(o, s)) = Written({o}, s)
    BY <2>2 DEF Whole, OrderRow
  <2>4. s \in Moves(db[o])
    BY <1>14, <2>1 DEF UpdateRead, Moves
  <2>5. jobs'["update"] = Upserts(o, s) /\ \A u \in Threads \ {"update"} : jobs'[u] = jobs[u] /\ step'[u] = step[u]
    BY <1>0, <1>14 DEF UpdateRead
  <2>6. \A p \in Orders : p \in DOMAIN Head(jobs'["update"]) => Head(jobs'["update"])[p] \in Moves(db[p])
    BY <2>3, <2>4, <2>5, WrittenRows
  <2> QED
    BY <1>0, <1>14, <2>1, <2>5, <2>6 DEF LifecycleInv, Pending, UpdateRead
<1> QED
  BY <1>1, <1>2, <1>3, <1>4, <1>5, <1>6, <1>7, <1>8, <1>9, <1>10, <1>11, <1>12, <1>13, <1>14,
     <1>15, <1>16 DEF Next

LEMMA LifecycleInvHolds == Spec => []LifecycleInv
<1> QED
  BY TypeInvHolds, LifecycleInit, LifecycleStep, PTL DEF Spec

\* simulate_order_update reads the order it moves through the transaction all threads
\* share, and writes it later: what is committed still takes one move at a time,
\* whichever statement, thread or connection fails and whatever a restart cuts short.
THEOREM LifecycleRespectedHolds == Spec => LifecycleRespected
<1> DEFINE Move == \A o \in Orders : db'[o] \in {db[o]} \cup
                     IF db[o] = None THEN {"Processing"} ELSE NextStatuses(db[o])
<1>1. LifecycleInv /\ [Next]_vars => [Move]_vars
  <2> SUFFICES ASSUME LifecycleInv, [Next]_vars PROVE Move
    OBVIOUS
  <2>1. db' = db \/ db' = txn
    BY DEF Next, vars, UpdateAddress, Purchase, StartSideTasks, Join, SelectUserFails, Abandon,
           CloseRollsBack, CloseReleases, CloseFails, Restart, UpdateRead, UpdateReadFails, SeesGone, Opens,
           OpenFails, Execute, ExecuteFails, Commit, CommitFails, Rollback, LoseLink
  <2> QED
    BY <2>1 DEF LifecycleInv, Moves
<1>2. LifecycleRespected <=> [][Move]_vars
  BY PTL DEF LifecycleRespected
<1> HIDE DEF Move
<1> QED
  BY <1>1, <1>2, LifecycleInvHolds, PTL DEF Spec

----------------------------------------------------------------------------
(* What a sound connection keeps. *)

\* b is what a may become: a later status, or a row that stays.
Kept(k, a, b) == IF k \in Orders \cup Items THEN Rank(a) <= Rank(b) ELSE a = "sent" => b = "sent"

\* Items are bought before they follow their order, and final events report it.
Follows(f) == \A i \in Items : LET o == OrderOf[i] IN
    /\ Rank(f[i]) <= 1 \/ Rank(f[i]) <= Rank(f[o])
    /\ f[<<i, "cancel">>] = "sent" => f[o] = "Cancelled"
    /\ f[<<i, "return">>] = "sent" => f[o] = "Returned"

\* Until close() has rolled back, statements fail on a lost connection only.
Failing == ~aborted /\ (~Closed => \A t \in Threads : step[t] = "rollback" => link # "up")

\* Until then, what a thread has executed and not yet committed is in the transaction.
Executed == ~Closed /\ link = "up" => \A t \in Threads : step[t] = "commit" =>
    \A k \in DOMAIN Head(jobs[t]) : txn[k] = Head(jobs[t])[k]

Following == ~cutShort => Follows(db) /\ Follows(txn)

\* What upsert has reported is committed, and no item was reported ahead of its order.
Keeping ==
    /\ \A k \in Keys : Kept(k, acked[k], db[k]) /\ Kept(k, acked[k], txn[k])
    /\ \A i \in Items : Rank(acked[i]) <= 1 \/ Rank(acked[i]) <= Rank(db[OrderOf[i]])

\* The items of a purchase are written while their order is not past its first status.
ItemsTurn == step["items"] = "execute" =>
    \A i \in Items : i \in DOMAIN Head(jobs["items"]) =>
        db[OrderOf[i]] \in {None, "Processing"} /\ txn[OrderOf[i]] \in {None, "Processing"}

\* An update moves its order on from where it is; its items and events are written once
\* the order is committed, unless close() came between.
Turn(o, s, S) ==
    /\ s \in {db[o]} \cup Moves(db[o])
    /\ txn[o] \in {db[o], s}
    /\ \/ jobs["update"] \in Whole(o, s, S)
       \/ jobs["update"] \in Rest(s, S) /\ (~Closed => db[o] = s /\ txn[o] = s)
UpdateTurn == step["update"] \in {"execute", "commit"} =>
    \E o \in Orders, s \in Statuses : \E S \in SUBSET ItemsOf(o) : Turn(o, s, S)

SoundParts == Failing /\ Executed /\ Following /\ Keeping /\ ItemsTurn /\ UpdateTurn
SoundInv == sound => SoundParts

LEMMA SoundInit == Init => SoundInv
<1> SUFFICES ASSUME Init PROVE SoundInv
  OBVIOUS
<1>1. \A i \in Items : /\ i \in Keys /\ OrderOf[i] \in Keys
                       /\ <<i, "cancel">> \in Keys /\ <<i, "return">> \in Keys
  BY SourceAssumption DEF Keys, EventKeys
<1>2. Following
  BY <1>1, RankValues DEF Init, Following, Follows, None
<1>3. Keeping
  BY RankValues DEF Init, Keeping, Kept, Keys
<1>4. Failing /\ Executed /\ ItemsTurn /\ UpdateTurn
  BY ThreadSet DEF Init, Failing, Executed, ItemsTurn, UpdateTurn
<1> QED
  BY <1>2, <1>3, <1>4 DEF SoundInv, SoundParts

LEMMA MoveRank ==
  ASSUME NEW a \in Statuses \cup {None}, NEW b \in Moves(a)
  PROVE  /\ b \in Statuses /\ Rank(a) <= Rank(b)
         /\ a \in {"Cancelled", "Returned"} => b = a
         /\ b = "Processing" => a = None
<1>1. CASE a = None
  BY <1>1, RankValues DEF Moves, Statuses, None
<1>2. CASE a # None
  <2>1. b \in NextStatuses(a) /\ a \in Statuses
    BY <1>2 DEF Moves
  <2> QED
    BY <2>1, NextValues, RankValues DEF Statuses, None
<1> QED
  BY <1>1, <1>2

LEMMA RankRange == \A s \in Statuses : Rank(s) \in 1..4
  BY RankValues DEF Statuses

LEMMA KindsRank ==
  ASSUME NEW f \in [Keys -> Values], Kinds(f), NEW k \in Orders \cup Items
  PROVE  f[k] \in Statuses \cup {None} /\ Rank(f[k]) \in 0..4
<1>1. f[k] \in Statuses \cup {None}
  BY DEF Kinds, Values, Keys
<1> QED
  BY <1>1, RankRange, RankValues

LEMMA KeptOrder ==
  ASSUME NEW k \in Keys,
         NEW f \in [Keys -> Values], Kinds(f),
         NEW g \in [Keys -> Values], Kinds(g),
         NEW h \in [Keys -> Values], Kinds(h)
  PROVE  /\ Kept(k, f[k], f[k])
         /\ Kept(k, f[k], g[k]) /\ Kept(k, g[k], h[k]) => Kept(k, f[k], h[k])
<1>1. CASE k \in Orders \cup Items
  <2>1. Rank(f[k]) \in 0..4 /\ Rank(g[k]) \in 0..4 /\ Rank(h[k]) \in 0..4
    BY <1>1, KindsRank
  <2> QED
    BY <1>1, <2>1 DEF Kept
<1>2. CASE k \notin Orders \cup Items
  BY <1>2 DEF Kept
<1> QED
  BY <1>1, <1>2

\* Threads at work together do not write one key differently.
LEMMA WritesAgree ==
  ASSUME TypeInv, NEW t \in Threads, NEW u \in Threads, step[t] # "done", step[u] # "done", t # u,
         NEW S, NEW v, Writes(t, S, v), NEW T, NEW w, Writes(u, T, w), NEW k \in S, k \in T
  PROVE  v = w
<1>1. step["update"] = "done" \/ (step["orders"] = "done" /\ step["items"] = "done")
  BY DEF TypeInv, ThreadsInv, Done, Writers
<1>2. /\ v \in Statuses \cup {"sent"} /\ w \in Statuses \cup {"sent"}
      /\ v \in Statuses => k \in Orders \cup Items
      /\ v = "sent" => k \notin Orders \cup Items
      /\ w \in Statuses => k \in Orders \cup Items
      /\ w = "sent" => k \notin Orders \cup Items
  BY WritesKinds
<1>3. CASE v = "sent"
  BY <1>2, <1>3
<1>4. CASE v # "sent"
  <2>1. w # "sent"
    BY <1>2, <1>4
  <2>2. /\ t \in {"orders", "items", "update"} /\ u \in {"orders", "items", "update"}
        /\ t = "orders" => k \in Orders
        /\ u = "orders" => k \in Orders
        /\ t = "items" => k \in Items
        /\ u = "items" => k \in Items
    BY <1>4, <2>1 DEF Writes
  <2> QED
    BY <1>1, <2>2, KeysAssumption
<1> QED
  BY <1>3, <1>4

\* What follows the first upsert of an update.
LEMMA RestFollows ==
  ASSUME NEW o, NEW s, NEW R, NEW j, j \in Whole(o, s, R) \cup Rest(s, R), Len(j) > 1
  PROVE  Tail(j) \in Rest(s, R)
<1> DEFINE O == OrderRow(o, s)
           I == ItemRows(R, s)
           E == EventRows(R, s)
<1>1. j \in {<<O>>, <<O, I>>, <<O, I, E>>, <<I>>, <<I, E>>, <<E>>}
  BY DEF Whole, Rest
<1>2. Rest(s, R) = {<<I>>, <<I, E>>, <<E>>}
  BY DEF Rest
<1> HIDE DEF O, I, E
<1>3. CASE j \in {<<O>>, <<I>>, <<E>>}
  <2>1. PICK f : j = <<f>>
    BY <1>3
  <2>2. ~(Len(j) > 1)
    BY <2>1
  <2> QED
    BY <2>2
<1>4. CASE j = <<O, I>>
  BY <1>2, <1>4
<1>5. CASE j = <<O, I, E>>
  BY <1>2, <1>5
<1>6. CASE j = <<I, E>>
  BY <1>2, <1>6
<1> QED
  BY <1>1, <1>3, <1>4, <1>5, <1>6

LEMMA RestRows ==
  ASSUME NEW q, NEW s \in Statuses, NEW R \in SUBSET ItemsOf(q), NEW j \in Rest(s, R)
  PROVE  /\ Head(j) = Written(R, s) \/ Head(j) = Written(R \X EventOf(s), "sent")
         /\ DOMAIN Head(j) \in SUBSET (Items \cup EventKeys)
         /\ \A o \in Orders : o \notin DOMAIN Head(j)
<1>1. Head(j) = Written(R, s) \/ Head(j) = Written(R \X EventOf(s), "sent")
  BY DEF Rest, ItemRows, EventRows
<1>2. R \in SUBSET Items /\ EventOf(s) \in SUBSET {"cancel", "return"}
  BY EventValues DEF ItemsOf, Statuses
<1>3. R \X EventOf(s) \in SUBSET EventKeys
  BY <1>2 DEF EventKeys
<1>4. DOMAIN Head(j) = R \/ DOMAIN Head(j) = R \X EventOf(s)
  BY <1>1, WrittenRows
<1> QED
  BY <1>1, <1>2, <1>3, <1>4, KeysAssumption

LEMMA Facts ==
  ASSUME TypeInv
  PROVE  /\ step \in [Threads -> {"done", "select", "execute", "commit", "rollback"}]
         /\ DOMAIN jobs = Threads
         /\ Threads = {"orders", "items", "events", "update", "other", "address"}
         /\ db \in [Keys -> Values] /\ Kinds(db)
         /\ txn \in [Keys -> Values] /\ Kinds(txn)
         /\ acked \in [Keys -> Values] /\ Kinds(acked)
         /\ opening \in [Threads -> {None, "connect", "revalidate"}]
  BY ThreadSet DEF TypeInv, Typed, PlansInv, KindsInv

\* An upsert is executed.
LEMMA ExecuteKeeps ==
  ASSUME TypeInv, LifecycleInv,
         Failing, Executed, Following, Keeping, ItemsTurn, UpdateTurn,
         NEW t \in Threads, Execute(t)
  PROVE  SoundParts'
<1>0. /\ step[t] = "execute" /\ link = "up" /\ ~aborted
      /\ step' = [step EXCEPT ![t] = "commit"]
      /\ UNCHANGED <<db, acked, aborted, link, main, cutShort, jobs>>
  BY DEF Execute, history
<1>1. PICK S, v : Head(jobs[t]) = Written(S, v) /\ Writes(t, S, v)
  BY <1>0, PlanHead DEF TypeInv, PlansInv, Idle
<1>2. txn' = [k \in Keys |-> IF k \in S THEN v ELSE txn[k]]
  BY <1>1, UpsertedRows DEF Execute
<1>3. txn' \in [Keys -> Values] /\ Kinds(txn')
  BY Facts, <1>1, UpsertedKinds DEF Execute
<1>4. /\ DOMAIN Head(jobs[t]) = S
      /\ S \in SUBSET Keys
      /\ v \in Statuses \cup {"sent"}
      /\ v \in Statuses => S \in SUBSET (Orders \cup Items)
      /\ v = "sent" => S \cap (Orders \cup Items) = {}
  BY <1>1, WrittenRows, WritesKinds
\* An order moves on.
<1>5. ASSUME NEW o \in Orders, o \in S
      PROVE  /\ t \in {"orders", "update"} /\ txn[o] = db[o] /\ v \in Statuses
             /\ v \in Moves(db[o]) /\ db[o] \in Statuses \cup {None}
             /\ Rank(db[o]) <= Rank(v)
             /\ db[o] \in {"Cancelled", "Returned"} => v = db[o]
             /\ v = "Processing" => db[o] = None
  <2>1. t \in {"orders", "update"} /\ txn[o] = db[o]
    BY <1>0, <1>4, <1>5, PendingKept
  <2>2. v \in Moves(db[o])
    BY <1>0, <1>1, <1>4, <1>5, WrittenRows DEF LifecycleInv
  <2>3. db[o] \in Statuses \cup {None}
    BY Facts, KindsRank
  <2> QED
    BY <2>1, <2>2, <2>3, MoveRank
\* An update writes its order, or items and events of an order that has been written.
<1>6. ASSUME t = "update"
      PROVE  \E o \in Orders, s \in Statuses : \E R \in SUBSET ItemsOf(o) :
                /\ s \in {db[o]} \cup Moves(db[o])
                /\ S = {o} \/ (S = R /\ v = s) \/ S = R \X EventOf(s)
                /\ S = {o} \/ Closed \/ txn[o] = s
  <2>1. PICK o \in Orders, s \in Statuses : \E R \in SUBSET ItemsOf(o) : Turn(o, s, R)
    BY <1>0, <1>6 DEF UpdateTurn
  <2>2. PICK R \in SUBSET ItemsOf(o) : Turn(o, s, R)
    BY <2>1
  <2>3. CASE jobs["update"] \in Whole(o, s, R)
    <3>1. Head(jobs["update"]) = Written({o}, s)
      BY <2>3 DEF Whole, OrderRow
    <3>2. S = {o}
      BY <1>4, <1>6, <3>1, WrittenRows
    <3> QED
      BY <2>2, <3>2 DEF Turn
  <2>4. CASE jobs["update"] \in Rest(s, R) /\ (~Closed => db[o] = s /\ txn[o] = s)
    <3>1. Head(jobs["update"]) = Written(R, s) \/ Head(jobs["update"]) = Written(R \X EventOf(s), "sent")
      BY <2>4, RestRows
    <3>2. CASE Head(jobs["update"]) = Written(R \X EventOf(s), "sent")
      <4>1. S = R \X EventOf(s)
        BY <1>4, <1>6, <3>2, WrittenRows
      <4> QED
        BY <2>2, <2>4, <4>1 DEF Turn
    <3>3. CASE Head(jobs["update"]) = Written(R, s) /\ R # {}
      <4>1. S = R
        BY <1>4, <1>6, <3>3, WrittenRows
      <4>2. v = s
        BY <1>1, <1>6, <3>3, <4>1, WrittenRows
      <4> QED
        BY <2>2, <2>4, <4>1, <4>2 DEF Turn
    <3>4. CASE Head(jobs["update"]) = Written(R, s) /\ R = {}
      <4>1. S = R \X EventOf(s)
        BY <1>4, <1>6, <3>4, WrittenRows, EmptyProduct
      <4> QED
        BY <2>2, <2>4, <4>1 DEF Turn
    <3> QED
      BY <3>1, <3>2, <3>3, <3>4
  <2> QED
    BY <2>2, <2>3, <2>4 DEF Turn
\* An item is bought, or takes the status its order already has.
<1>7. ASSUME NEW i \in Items, i \in S
      PROVE  /\ v \in Statuses /\ Rank(acked[i]) <= Rank(v)
             /\ ~cutShort => v = "Processing" \/ (v = txn[OrderOf[i]] /\ OrderOf[i] \notin S)
  <2>1. v \in Statuses /\ Rank(v) \in 1..4
    BY <1>4, <1>7, RankRange
  <2>2. /\ OrderOf[i] \in Orders
        /\ i \notin Orders /\ i \notin EventKeys /\ i # Other
    BY SourceAssumption, KeysAssumption
  <2>3. /\ Rank(acked[i]) <= 1 \/ Rank(acked[i]) <= Rank(db[OrderOf[i]])
        /\ Rank(acked[i]) \in 0..4 /\ Rank(db[OrderOf[i]]) \in 0..4
        /\ db[OrderOf[i]] \in Statuses \cup {None}
    BY Facts, <2>2, KindsRank DEF Keeping
  <2>4. (t = "items" /\ v = "Processing") \/ t = "update"
    BY <1>1, <1>7, <2>1, <2>2 DEF Writes, Statuses
  <2>5. CASE t = "items" /\ v = "Processing"
    <3>1. db[OrderOf[i]] \in {None, "Processing"}
      BY <1>0, <1>4, <1>7, <2>5 DEF ItemsTurn
    <3> QED
      BY <2>1, <2>3, <2>5, <3>1, RankValues
  <2>6. CASE t = "update"
    <3>1. PICK o \in Orders, s \in Statuses : \E R \in SUBSET ItemsOf(o) :
             /\ s \in {db[o]} \cup Moves(db[o])
             /\ S = {o} \/ (S = R /\ v = s) \/ S = R \X EventOf(s)
             /\ S = {o} \/ Closed \/ txn[o] = s
      BY <1>6, <2>6
    <3>2. PICK R \in SUBSET ItemsOf(o) :
             /\ s \in {db[o]} \cup Moves(db[o])
             /\ S = {o} \/ (S = R /\ v = s) \/ S = R \X EventOf(s)
             /\ S = {o} \/ Closed \/ txn[o] = s
      BY <3>1
    <3>3. R \X EventOf(s) \in SUBSET EventKeys
      BY EventValues DEF ItemsOf, EventKeys, Statuses
    <3>4. S = R /\ v = s /\ (Closed \/ txn[o] = s)
      BY <1>7, <2>2, <3>2, <3>3
    <3>5. OrderOf[i] = o /\ o \notin S
      BY <1>7, <3>4, KeysAssumption DEF ItemsOf
    <3>6. Rank(db[o]) <= Rank(s)
      BY <2>1, <2>3, <3>2, <3>4, <3>5, MoveRank
    <3>7. ~cutShort => ~Closed
      BY <1>0, <2>6 DEF TypeInv, ThreadsInv
    <3> QED
      BY <2>1, <2>3, <3>4, <3>5, <3>6, <3>7
  <2> QED
    BY <2>4, <2>5, <2>6
\* A final event is written after its order has got there.
<1>8. ASSUME ~cutShort, NEW i \in Items, NEW e \in {"cancel", "return"}, <<i, e>> \in S
      PROVE  /\ OrderOf[i] \notin S
             /\ e = "cancel" => txn[OrderOf[i]] = "Cancelled"
             /\ e = "return" => txn[OrderOf[i]] = "Returned"
  <2>1. /\ <<i, e>> \in EventKeys
        /\ <<i, e>> \notin Orders \cup Items /\ <<i, e>> # Other
        /\ <<i, e>> \notin Items \X {"purchase"}
    BY KeysAssumption DEF EventKeys
  <2>2. t = "update"
    BY <1>1, <1>8, <2>1 DEF Writes
  <2>3. PICK o \in Orders, s \in Statuses : \E R \in SUBSET ItemsOf(o) :
           /\ s \in {db[o]} \cup Moves(db[o])
           /\ S = {o} \/ (S = R /\ v = s) \/ S = R \X EventOf(s)
           /\ S = {o} \/ Closed \/ txn[o] = s
    BY <1>6, <2>2
  <2>4. PICK R \in SUBSET ItemsOf(o) :
           /\ S = {o} \/ (S = R /\ v = s) \/ S = R \X EventOf(s)
           /\ S = {o} \/ Closed \/ txn[o] = s
    BY <2>3
  <2>5. R \in SUBSET Items
    BY DEF ItemsOf
  <2>6. S = R \X EventOf(s)
    BY <1>8, <2>1, <2>4, <2>5
  <2>7. i \in R /\ e \in EventOf(s)
    BY <1>8, <2>6
  <2>8. OrderOf[i] = o
    BY <2>7 DEF ItemsOf
  <2>9. /\ e = "cancel" => s = "Cancelled"
        /\ e = "return" => s = "Returned"
    BY <2>7, EventValues DEF Statuses
  <2>10. o \notin S
    <3>1. S \in SUBSET EventKeys
      BY <2>5, <2>6, EventValues DEF EventKeys, Statuses
    <3> QED
      BY <3>1, KeysAssumption
  <2>11. ~Closed
    BY <1>0, <1>8, <2>2 DEF TypeInv, ThreadsInv
  <2> QED
    BY <2>4, <2>8, <2>9, <2>10, <2>11
<1>9. Failing'
  BY Facts, <1>0 DEF Failing, Closed
<1>10. Executed'
  <2>1. ASSUME ~Closed, NEW u \in Threads, step'[u] = "commit", NEW k \in DOMAIN Head(jobs[u])
        PROVE  txn'[k] = Head(jobs[u])[k]
    <3>1. CASE u = t
      BY <1>1, <1>2, <1>4, <2>1, <3>1, WrittenRows
    <3>2. CASE u # t
      <4>1. step[u] = "commit"
        BY Facts, <1>0, <2>1, <3>2
      <4>2. PICK T, w : Head(jobs[u]) = Written(T, w) /\ Writes(u, T, w)
        BY <4>1, PlanHead DEF TypeInv, PlansInv, Idle
      <4>3. k \in T /\ k \in Keys /\ Head(jobs[u])[k] = w
        BY <2>1, <4>2, WrittenRows, WritesKinds
      <4>4. txn[k] = w
        BY <1>0, <2>1, <4>1, <4>3 DEF Executed
      <4>5. k \in S => v = w
        BY <1>0, <1>1, <3>2, <4>1, <4>2, <4>3, WritesAgree
      <4> QED
        BY <1>2, <4>3, <4>4, <4>5
    <3> QED
      BY <3>1, <3>2
  <2> QED
    BY <1>0, <2>1 DEF Executed, Closed
<1>11. Following'
  <2>1. ASSUME ~cutShort, NEW i \in Items
        PROVE  /\ Rank(txn'[i]) <= 1 \/ Rank(txn'[i]) <= Rank(txn'[OrderOf[i]])
               /\ txn'[<<i, "cancel">>] = "sent" => txn'[OrderOf[i]] = "Cancelled"
               /\ txn'[<<i, "return">>] = "sent" => txn'[OrderOf[i]] = "Returned"
    <3> DEFINE o == OrderOf[i]
    <3>1. /\ o \in Orders /\ o \in Keys /\ i \in Keys
          /\ <<i, "cancel">> \in Keys /\ <<i, "return">> \in Keys
      BY SourceAssumption DEF Keys, EventKeys
    <3>2. /\ Rank(txn[i]) <= 1 \/ Rank(txn[i]) <= Rank(txn[o])
          /\ txn[<<i, "cancel">>] = "sent" => txn[o] = "Cancelled"
          /\ txn[<<i, "return">>] = "sent" => txn[o] = "Returned"
      BY <2>1 DEF Following, Follows
    <3>3. /\ Rank(txn[i]) \in 0..4 /\ Rank(txn[o]) \in 0..4
          /\ Rank(txn'[i]) \in 0..4 /\ Rank(txn'[o]) \in 0..4
      BY Facts, <1>3, <3>1, KindsRank
    <3>4. /\ Rank(txn[o]) <= Rank(txn'[o])
          /\ txn[o] \in {"Cancelled", "Returned"} => txn'[o] = txn[o]
      <4>1. CASE o \in S
        BY <1>2, <1>5, <3>1, <4>1
      <4>2. CASE o \notin S
        BY <1>2, <3>1, <3>3, <4>2
      <4> QED
        BY <4>1, <4>2
    <3> HIDE DEF o
    <3>5. Rank(txn'[i]) <= 1 \/ Rank(txn'[i]) <= Rank(txn'[o])
      <4>1. CASE i \in S
        <5>1. txn'[i] = v
          BY <1>2, <3>1, <4>1
        <5>2. v = "Processing" \/ v = txn'[o]
          BY <1>2, <1>7, <2>1, <3>1, <4>1 DEF o
        <5> QED
          BY <3>3, <5>1, <5>2, RankValues
      <4>2. CASE i \notin S
        <5>1. txn'[i] = txn[i]
          BY <1>2, <3>1, <4>2
        <5> QED
          BY <3>2, <3>3, <3>4, <5>1
      <4> QED
        BY <4>1, <4>2
    <3>6. txn'[<<i, "cancel">>] = "sent" => txn'[o] = "Cancelled"
      BY <1>2, <1>8, <2>1, <3>1, <3>2, <3>4 DEF o
    <3>7. txn'[<<i, "return">>] = "sent" => txn'[o] = "Returned"
      BY <1>2, <1>8, <2>1, <3>1, <3>2, <3>4 DEF o
    <3> QED
      BY <3>5, <3>6, <3>7 DEF o
  <2> QED
    BY <1>0, <2>1 DEF Following, Follows
<1>12. Keeping'
  <2>1. ASSUME NEW k \in Keys PROVE Kept(k, acked[k], txn'[k])
    <3>1. CASE k \in S /\ k \in Orders
      <4>1. Rank(acked[k]) <= Rank(db[k])
        BY <3>1 DEF Keeping, Kept
      <4>2. Rank(acked[k]) \in 0..4 /\ Rank(db[k]) \in 0..4 /\ Rank(v) \in 1..4
        BY Facts, <1>5, <3>1, KindsRank, RankRange
      <4> QED
        BY <1>2, <1>5, <3>1, <4>1, <4>2 DEF Kept
    <3>2. CASE k \in S /\ k \in Items
      BY <1>2, <1>7, <3>2 DEF Kept
    <3>3. CASE k \in S /\ k \notin Orders \cup Items
      BY <1>2, <1>4, <3>3 DEF Kept
    <3>4. CASE k \notin S
      BY <1>2, <3>4 DEF Keeping
    <3> QED
      BY <3>1, <3>2, <3>3, <3>4
  <2> QED
    BY <1>0, <2>1 DEF Keeping
<1>13. ItemsTurn'
  <2>1. ASSUME step'["items"] = "execute", NEW i \in Items, i \in DOMAIN Head(jobs["items"])
        PROVE  txn'[OrderOf[i]] \in {None, "Processing"}
    <3>1. OrderOf[i] \in Orders /\ OrderOf[i] \in Keys
      BY SourceAssumption DEF Keys
    <3>2. step["items"] = "execute" /\ t # "items"
      BY Facts, <1>0, <2>1
    <3>3. txn[OrderOf[i]] \in {None, "Processing"}
      BY <2>1, <3>2 DEF ItemsTurn
    <3>4. OrderOf[i] \in S => v = "Processing"
      <4>1. step["update"] = "done"
        BY <3>2 DEF TypeInv, ThreadsInv, Done, Writers
      <4> QED
        BY <1>0, <1>1, <1>5, <3>1, <4>1 DEF Writes
    <3> QED
      BY <1>2, <3>1, <3>3, <3>4
  <2> QED
    BY Facts, <1>0, <2>1 DEF ItemsTurn
<1>14. UpdateTurn'
  <2> SUFFICES ASSUME step'["update"] \in {"execute", "commit"} PROVE UpdateTurn'
    BY DEF UpdateTurn
  <2>2. step["update"] \in {"execute", "commit"}
    BY Facts, <1>0
  <2>3. PICK o \in Orders, s \in Statuses : \E R \in SUBSET ItemsOf(o) : Turn(o, s, R)
    BY <2>2 DEF UpdateTurn
  <2>4. PICK R \in SUBSET ItemsOf(o) : Turn(o, s, R)
    BY <2>3
  <2>5. step["orders"] = "done" /\ o \in Keys
    BY <2>2 DEF TypeInv, ThreadsInv, Done, Writers, Keys
  <2>6. txn'[o] \in {txn[o], s} /\ (txn'[o] = txn[o] \/ jobs["update"] \notin Rest(s, R))
    <3>1. CASE o \notin S
      BY <1>2, <2>5, <3>1
    <3>2. CASE o \in S
      <4>1. t = "update"
        BY <1>0, <1>5, <2>5, <3>2
      <4>2. jobs["update"] \notin Rest(s, R)
        BY <1>4, <3>2, <4>1, RestRows
      <4>3. Head(jobs["update"]) = Written({o}, s)
        BY <2>4, <4>2 DEF Turn, Whole, OrderRow
      <4>4. v = s
        BY <1>1, <3>2, <1>4, <4>1, <4>3, WrittenRows
      <4> QED
        BY <1>2, <2>5, <3>2, <4>2, <4>4
    <3> QED
      BY <3>1, <3>2
  <2>7. Turn(o, s, R)'
    BY <1>0, <2>4, <2>6 DEF Turn, Closed
  <2> QED
    BY <2>7 DEF UpdateTurn
<1> QED
  BY <1>9, <1>10, <1>11, <1>12, <1>13, <1>14 DEF SoundParts

LEMMA OrderAhead ==
  ASSUME TypeInv, LifecycleInv, NEW o \in Orders
  PROVE  Rank(db[o]) <= Rank(txn[o])
<1>1. db[o] \in Statuses \cup {None} /\ Rank(db[o]) \in 0..4
  BY Facts, KindsRank
<1>2. CASE txn[o] = db[o]
  BY <1>1, <1>2
<1>3. CASE txn[o] \in Moves(db[o])
  BY <1>1, <1>3, MoveRank
<1> QED
  BY <1>2, <1>3 DEF LifecycleInv

\* And committed.
LEMMA CommitKeeps ==
  ASSUME TypeInv, LifecycleInv,
         Failing, Executed, Following, Keeping, ItemsTurn, UpdateTurn,
         NEW t \in Threads, Commit(t)
  PROVE  SoundParts'
<1>0. /\ step[t] = "commit" /\ link = "up" /\ ~aborted
      /\ db' = txn /\ txn' = txn /\ aborted' = FALSE
      /\ step' = [step EXCEPT ![t] = IF Len(jobs[t]) > 1 THEN "execute" ELSE "done"]
      /\ jobs' = [jobs EXCEPT ![t] = Tail(@)]
      /\ acked' = IF Closed THEN acked ELSE Upserted(Head(jobs[t]), acked)
      /\ UNCHANGED <<link, main, cutShort>>
  BY DEF Commit, Returns, Failing, Closed
<1>1. IsPlan(t, jobs[t])
  BY <1>0 DEF TypeInv, PlansInv, Idle
<1>2. PICK S, v : Head(jobs[t]) = Written(S, v) /\ Writes(t, S, v)
  BY <1>1, PlanHead
<1>3. ~Closed => acked' = [k \in Keys |-> IF k \in S THEN v ELSE acked[k]]
  BY <1>0, <1>2, UpsertedRows
<1>4. ~Closed => \A k \in S : txn[k] = v
  BY <1>0, <1>2, WrittenRows DEF Executed
<1>5. \A u \in Threads : u # t => step'[u] = step[u] /\ jobs'[u] = jobs[u]
  BY Facts, <1>0
<1>6. step'[t] \in {"execute", "done"} /\ jobs'[t] = Tail(jobs[t])
  BY Facts, <1>0
<1>7. Failing' /\ Executed'
  BY <1>0, <1>5, <1>6 DEF Failing, Executed, Closed
<1>8. Following'
  BY <1>0 DEF Following, Follows
<1>9. Keeping'
  <2>1. ASSUME NEW k \in Keys PROVE Kept(k, acked'[k], txn[k])
    <3>1. Kept(k, acked[k], txn[k]) /\ Kept(k, txn[k], txn[k])
      BY Facts, KeptOrder DEF Keeping
    <3>2. CASE Closed
      BY <1>0, <3>1, <3>2
    <3>3. CASE ~Closed
      BY <1>3, <1>4, <3>1, <3>3
    <3> QED
      BY <3>2, <3>3
  <2>2. ASSUME NEW i \in Items
        PROVE  Rank(acked'[i]) <= 1 \/ Rank(acked'[i]) <= Rank(txn[OrderOf[i]])
    <3>1. /\ OrderOf[i] \in Orders /\ i \in Keys
          /\ Rank(acked[i]) \in 0..4 /\ Rank(db[OrderOf[i]]) \in 0..4
          /\ Rank(txn[OrderOf[i]]) \in 0..4
      BY Facts, SourceAssumption, KindsRank DEF Keys
    <3>2. Rank(acked[i]) <= 1 \/ Rank(acked[i]) <= Rank(txn[OrderOf[i]])
      <4>1. Rank(db[OrderOf[i]]) <= Rank(txn[OrderOf[i]])
        BY <3>1, OrderAhead
      <4> QED
        BY <3>1, <4>1 DEF Keeping
    <3>3. CASE Closed \/ i \notin S
      BY <1>0, <1>3, <3>1, <3>2, <3>3
    <3>4. CASE ~Closed /\ i \in S
      <4>1. acked'[i] = v /\ v \in Statuses
        BY <1>2, <1>3, <3>1, <3>4, WritesKinds, KeysAssumption
      <4>2. (t = "items" /\ v = "Processing") \/ t = "update"
        BY <1>2, <3>4, <4>1, KeysAssumption DEF Writes, Statuses
      <4>3. CASE v = "Processing"
        BY <4>1, <4>3, RankValues
      <4>4. CASE t = "update"
        <5>1. PICK o \in Orders, s \in Statuses : \E R \in SUBSET ItemsOf(o) : Turn(o, s, R)
          BY <1>0, <4>4 DEF UpdateTurn
        <5>2. PICK R \in SUBSET ItemsOf(o) : Turn(o, s, R)
          BY <5>1
        <5>3. jobs["update"] \in Rest(s, R) /\ txn[o] = s
          <6>1. ASSUME jobs["update"] \in Whole(o, s, R) PROVE FALSE
            <7>1. Head(jobs["update"]) = Written({o}, s)
              BY <6>1 DEF Whole, OrderRow
            <7> QED
              BY <1>2, <3>4, <4>4, <7>1, WrittenRows, KeysAssumption
          <6> QED
            BY <3>4, <5>2, <6>1 DEF Turn
        <5>4. Head(jobs["update"]) = Written(R, s)
          <6>1. Head(jobs["update"]) = Written(R, s) \/ Head(jobs["update"]) = Written(R \X EventOf(s), "sent")
            BY <5>3, RestRows
          <6>2. "sent" \notin Statuses
            BY DEF Statuses
          <6> QED
            BY <1>2, <3>4, <4>1, <4>4, <6>1, <6>2, WrittenRows
        <5>5. v = s /\ i \in R
          BY <1>2, <3>4, <4>4, <5>4, WrittenRows
        <5>6. OrderOf[i] = o
          BY <5>5 DEF ItemsOf
        <5> QED
          BY <3>1, <4>1, <5>3, <5>5, <5>6
      <4> QED
        BY <4>2, <4>3, <4>4
    <3> QED
      BY <3>3, <3>4
  <2> QED
    BY <1>0, <2>1, <2>2 DEF Keeping
<1>10. ItemsTurn'
  <2>1. CASE t = "items"
    <3>1. PICK f : jobs[t] = <<f>>
      BY <1>1, <2>1 DEF IsPlan
    <3>2. ~(Len(jobs[t]) > 1)
      BY <3>1
    <3>3. step'["items"] = "done"
      BY Facts, <1>0, <2>1, <3>2
    <3> QED
      BY <3>3 DEF ItemsTurn
  <2>2. CASE t # "items"
    <3>1. step'["items"] = step["items"] /\ jobs'["items"] = jobs["items"]
      BY Facts, <1>5, <2>2
    <3> QED
      BY <1>0, <3>1 DEF ItemsTurn
  <2> QED
    BY <2>1, <2>2
<1>11. UpdateTurn'
  <2>1. SUFFICES ASSUME step'["update"] \in {"execute", "commit"} PROVE UpdateTurn'
    BY DEF UpdateTurn
  <2>2. step["update"] \in {"execute", "commit"}
    BY Facts, <1>0, <2>1
  <2>3. PICK o \in Orders, s \in Statuses : \E R \in SUBSET ItemsOf(o) : Turn(o, s, R)
    BY <2>2 DEF UpdateTurn
  <2>4. PICK R \in SUBSET ItemsOf(o) : Turn(o, s, R)
    BY <2>3
  <2>5. CASE t # "update"
    <3>1. jobs'["update"] = jobs["update"]
      BY Facts, <1>5, <2>5
    <3>2. Turn(o, s, R)'
      BY <1>0, <2>4, <3>1 DEF Turn, Closed
    <3> QED
      BY <3>2 DEF UpdateTurn
  <2>6. CASE t = "update"
    <3>1. Len(jobs["update"]) > 1
      BY Facts, <1>0, <2>1, <2>6
    <3>2. jobs["update"] \in Whole(o, s, R) => Head(jobs["update"]) = OrderRow(o, s)
      BY DEF Whole
    <3>3. ~Closed => txn[o] = s
      <4>1. ASSUME ~Closed, jobs["update"] \in Whole(o, s, R) PROVE txn[o] = s
        BY <1>0, <2>6, <3>2, <4>1, WrittenRows DEF Executed, OrderRow
      <4> QED
        BY <2>4, <4>1 DEF Turn
    <3>4. Tail(jobs["update"]) \in Rest(s, R)
      <4>1. jobs["update"] \in Whole(o, s, R) \cup Rest(s, R)
        BY <2>4 DEF Turn
      <4> QED
        BY <3>1, <4>1, RestFollows
    <3>5. Turn(o, s, R)'
      BY <1>0, <1>6, <2>4, <2>6, <3>3, <3>4 DEF Turn, Closed
    <3> QED
      BY <3>5 DEF UpdateTurn
  <2> QED
    BY <2>5, <2>6
<1> QED
  BY <1>7, <1>8, <1>9, <1>10, <1>11 DEF SoundParts

\* What a transaction that is thrown away, and threads that stop, leave as it is.
LEMMA Dropped ==
  ASSUME TypeInv, Following, Keeping, ItemsTurn, UpdateTurn,
         UNCHANGED <<db, acked>>, cutShort => cutShort', Closed => Closed',
         txn' = txn \/ (txn' = db /\ Closed'),
         \A u \in Threads : step'[u] \in {"execute", "commit"} =>
            step'[u] = step[u] /\ jobs'[u] = jobs[u]
  PROVE  Following' /\ Keeping' /\ ItemsTurn' /\ UpdateTurn'
<1>1. Following'
  BY DEF Following, Follows
<1>2. Keeping'
  BY DEF Keeping
<1>3. ItemsTurn'
  BY Facts DEF ItemsTurn
<1>4. UpdateTurn'
  <2> SUFFICES ASSUME step'["update"] \in {"execute", "commit"} PROVE UpdateTurn'
    BY DEF UpdateTurn
  <2>1. step["update"] \in {"execute", "commit"} /\ jobs'["update"] = jobs["update"]
    BY Facts
  <2>2. PICK o \in Orders, s \in Statuses : \E R \in SUBSET ItemsOf(o) : Turn(o, s, R)
    BY <2>1 DEF UpdateTurn
  <2>3. PICK R \in SUBSET ItemsOf(o) : Turn(o, s, R)
    BY <2>2
  <2>4. Turn(o, s, R)'
    BY <2>1, <2>3 DEF Turn
  <2> QED
    BY <2>4 DEF UpdateTurn
<1> QED
  BY <1>1, <1>2, <1>3, <1>4

LEMMA SoundStep ==
  ASSUME TypeInv, LifecycleInv, SoundInv, [Next]_vars, sound'
  PROVE  SoundParts'
<1>b. sound
  BY DEF Next, vars, history, UpdateAddress, Purchase, StartSideTasks, Join, SelectUserFails, Abandon,
         CloseRollsBack, CloseReleases, CloseFails, Restart, UpdateRead, UpdateReadFails, SeesGone,
         Opens, OpenFails, Execute, ExecuteFails, Commit, CommitFails, Rollback, LoseLink
<1>a. Failing /\ Executed /\ Following /\ Keeping /\ ItemsTurn /\ UpdateTurn
  BY <1>b DEF SoundInv, SoundParts
<1>1. ASSUME NEW t \in Threads, Execute(t) PROVE SoundParts'
  BY <1>1, <1>a, ExecuteKeeps DEF SoundParts
<1>2. ASSUME NEW t \in Threads, Commit(t) PROVE SoundParts'
  BY <1>2, <1>a, CommitKeeps DEF SoundParts
<1>3. CASE LoseLink
  <2>1. /\ link' = "lost" /\ txn' = db' /\ db' \in {db, txn}
        /\ UNCHANGED <<step, jobs, aborted, acked, main, cutShort>>
    BY <1>3 DEF LoseLink, threads, history
  <2>2. Failing' /\ Executed'
    BY <1>a, <2>1 DEF Failing, Executed
  <2>3. Following'
    BY <1>a, <2>1 DEF Following, Follows
  <2>4. Keeping'
    <3>1. \A k \in Keys : Kept(k, acked[k], db'[k])
      BY <1>a, <2>1 DEF Keeping
    <3>2. ASSUME NEW i \in Items
          PROVE  Rank(acked[i]) <= 1 \/ Rank(acked[i]) <= Rank(db'[OrderOf[i]])
      <4>1. /\ OrderOf[i] \in Orders
            /\ Rank(acked[i]) \in 0..4 /\ Rank(db[OrderOf[i]]) \in 0..4
            /\ Rank(txn[OrderOf[i]]) \in 0..4
        BY Facts, SourceAssumption, KindsRank
      <4>2. Rank(db[OrderOf[i]]) <= Rank(txn[OrderOf[i]])
        BY <4>1, OrderAhead
      <4>3. Rank(acked[i]) <= 1 \/ Rank(acked[i]) <= Rank(db[OrderOf[i]])
        BY <1>a DEF Keeping
      <4> QED
        BY <2>1, <4>1, <4>2, <4>3
    <3> QED
      BY <2>1, <3>1, <3>2 DEF Keeping
  <2>5. ItemsTurn'
    BY <1>a, <2>1 DEF ItemsTurn
  <2>6. UpdateTurn'
    <3> SUFFICES ASSUME step["update"] \in {"execute", "commit"} PROVE UpdateTurn'
      BY <2>1 DEF UpdateTurn
    <3>1. PICK o \in Orders, s \in Statuses : \E R \in SUBSET ItemsOf(o) : Turn(o, s, R)
      BY <1>a DEF UpdateTurn
    <3>2. PICK R \in SUBSET ItemsOf(o) : Turn(o, s, R)
      BY <3>1
    <3>3. Turn(o, s, R)'
      BY <2>1, <3>2 DEF Turn, Closed
    <3> QED
      BY <3>3 DEF UpdateTurn
  <2> QED
    BY <2>2, <2>3, <2>4, <2>5, <2>6 DEF SoundParts
<1>4. ASSUME NEW t \in Threads, Rollback(t) PROVE SoundParts'
  <2>1. ~Closed => link # "up" /\ txn = db
    BY <1>a, <1>4 DEF Failing, Rollback, LifecycleInv
  <2>2. UNCHANGED <<db, acked, link, main, cutShort>> /\ txn' = db /\ aborted' = FALSE
    BY <1>4 DEF Rollback, history
  <2>3. \A u \in Threads : step'[u] # "done" => step'[u] = step[u] /\ jobs'[u] = jobs[u]
    BY Facts, <1>4 DEF Rollback
  <2>4. Failing' /\ Executed'
    BY <1>a, <2>1, <2>2, <2>3 DEF Failing, Executed, Closed
  <2>5. Following' /\ Keeping' /\ ItemsTurn' /\ UpdateTurn'
    BY <1>a, <2>1, <2>2, <2>3, Dropped DEF Closed
  <2> QED
    BY <2>4, <2>5 DEF SoundParts
<1>5. ASSUME NEW t \in Threads, ExecuteFails(t) \/ CommitFails(t) PROVE SoundParts'
  <2>1. link # "up"
    BY <1>a, <1>5 DEF Failing, ExecuteFails, CommitFails
  <2>2. UNCHANGED <<db, txn, acked, link, jobs, main, cutShort>> /\ ~aborted'
    <3>1. ~aborted /\ (aborted' = aborted \/ aborted' = (aborted \/ link = "up"))
      BY <1>a, <1>5 DEF ExecuteFails, CommitFails, Failing
    <3>2. ~aborted'
      BY <2>1, <3>1
    <3> QED
      BY <1>5, <3>2 DEF ExecuteFails, CommitFails, history
  <2>3. \A u \in Threads : step'[u] # "rollback" => step'[u] = step[u]
    BY Facts, <1>5 DEF ExecuteFails, CommitFails
  <2>4. Failing' /\ Executed'
    BY <1>a, <2>1, <2>2 DEF Failing, Executed
  <2>5. Following' /\ Keeping' /\ ItemsTurn' /\ UpdateTurn'
    BY <1>a, <2>2, <2>3, Dropped DEF Closed
  <2> QED
    BY <2>4, <2>5 DEF SoundParts
<1>6. CASE Join \/ SelectUserFails \/ Abandon \/ UNCHANGED vars
  <2>1. /\ UNCHANGED <<db, txn, acked, aborted, step, jobs, cutShort>>
        /\ link' = "up" <=> link = "up"
        /\ Closed' <=> Closed
    BY <1>6 DEF Join, SelectUserFails, CountError, Invalidate, Abandon, Awaited, threads, history,
                vars, Closed
  <2>2. Failing' /\ Executed'
    BY <1>a, <2>1 DEF Failing, Executed
  <2>3. Following' /\ Keeping' /\ ItemsTurn' /\ UpdateTurn'
    BY <1>a, <2>1, Dropped
  <2> QED
    BY <2>2, <2>3 DEF SoundParts
<1>7. CASE UpdateReadFails
  <2>1. /\ UNCHANGED <<db, txn, acked, aborted, jobs, cutShort>>
        /\ link' = "up" <=> link = "up"
        /\ Closed' <=> Closed
    BY <1>7 DEF UpdateReadFails, CountError, Invalidate, history, Closed
  <2>2. \A u \in Threads : step'[u] # "done" => step'[u] = step[u]
    BY Facts, <1>7 DEF UpdateReadFails
  <2>3. Failing' /\ Executed'
    BY <1>a, <2>1, <2>2 DEF Failing, Executed
  <2>4. Following' /\ Keeping' /\ ItemsTurn' /\ UpdateTurn'
    BY <1>a, <2>1, <2>2, Dropped
  <2> QED
    BY <2>3, <2>4 DEF SoundParts
<1>8. CASE CloseRollsBack \/ CloseReleases \/ CloseFails
  <2>1. /\ UNCHANGED <<db, acked, step, jobs>> /\ Closed' /\ ~aborted'
        /\ cutShort => cutShort'
        /\ txn' = txn \/ txn' = db
    <3>1. ~aborted
      BY <1>a DEF Failing
    <3>2. CASE CloseRollsBack
      BY <3>2 DEF CloseRollsBack, CutShort, threads, Closed
    <3>3. CASE CloseReleases
      BY <3>3 DEF CloseReleases, CutShort, threads, Closed
    <3>4. CASE CloseFails
      BY <3>1, <3>4 DEF CloseFails, CutShort, threads, Closed
    <3> QED
      BY <1>8, <3>2, <3>3, <3>4
  <2>2. Failing' /\ Executed'
    BY <2>1 DEF Failing, Executed
  <2>3. Following' /\ Keeping' /\ ItemsTurn' /\ UpdateTurn'
    BY <1>a, <2>1, Dropped
  <2> QED
    BY <2>2, <2>3 DEF SoundParts
<1>14. ASSUME NEW t \in Threads, SeesGone(t) \/ Opens(t) \/ OpenFails(t) PROVE SoundParts'
  <2>1. Closed
    BY <1>14 DEF SeesGone, Opens, OpenFails, TypeInv, ThreadsInv, Closed
  <2>2. /\ UNCHANGED <<db, acked, main, cutShort>> /\ ~aborted'
        /\ txn' = txn \/ txn' = db
    <3>1. ~aborted
      BY <1>a DEF Failing
    <3>2. CASE SeesGone(t)
      BY <3>1, <3>2 DEF SeesGone, history
    <3>3. CASE Opens(t)
      BY <3>3 DEF Opens, history
    <3>4. CASE OpenFails(t)
      BY <3>1, <3>4 DEF OpenFails, history
    <3> QED
      BY <1>14, <3>2, <3>3, <3>4
  <2>3. \A u \in Threads : step'[u] \in {"execute", "commit"} =>
           step'[u] = step[u] /\ jobs'[u] = jobs[u]
    BY Facts, <1>14 DEF SeesGone, Opens, OpenFails
  <2>4. Closed'
    BY <2>1, <2>2 DEF Closed
  <2>5. Failing' /\ Executed'
    BY <2>2, <2>4 DEF Failing, Executed
  <2>6. Following' /\ Keeping' /\ ItemsTurn' /\ UpdateTurn'
    BY <1>a, <2>2, <2>3, <2>4, Dropped
  <2> QED
    BY <2>5, <2>6 DEF SoundParts
<1>9. CASE Restart
  <2>1. UNCHANGED <<db, acked, step, cutShort>> /\ txn' = db /\ ~aborted'
    BY <1>9 DEF Restart, threads, history
  <2>2. \A u \in Threads : step'[u] = "done"
    BY <1>9, <2>1 DEF Restart, Done
  <2> QED
    BY Facts, <1>a, <2>1, <2>2
       DEF SoundParts, Failing, Executed, Following, Follows, Keeping, ItemsTurn, UpdateTurn
<1>10. CASE UpdateAddress
  <2>1. UNCHANGED <<db, txn, acked, aborted, link, cutShort>> /\ ~Closed /\ ~Closed'
    BY <1>10 DEF UpdateAddress, history, Closed
  <2>2. \A u \in Threads \ {"address"} : step'[u] = step[u] /\ jobs'[u] = jobs[u]
    BY Facts, <1>10 DEF UpdateAddress
  <2>3. step'["address"] = "execute"
    BY Facts, <1>10 DEF UpdateAddress
  <2>4. step["update"] = "done"
    BY <1>10 DEF UpdateAddress, TypeInv, ThreadsInv
  <2> QED
    BY Facts, <1>a, <2>1, <2>2, <2>3, <2>4
       DEF SoundParts, Failing, Executed, Following, Follows, Keeping, ItemsTurn, UpdateTurn
<1>11. ASSUME NEW o \in Orders, Purchase(o) PROVE SoundParts'
  <2>1. UNCHANGED <<db, txn, acked, aborted, link, cutShort>> /\ ~Closed /\ ~Closed'
    BY <1>11 DEF Purchase, history, Closed
  <2>2. \A u \in Threads \ Writers : step'[u] = step[u] /\ jobs'[u] = jobs[u]
    BY Facts, <1>11 DEF Purchase, Writers
  <2>3. \A u \in Writers : step'[u] = "execute"
    BY Facts, <1>11 DEF Purchase, Writers
  <2>4. jobs'["items"] = <<Written(ItemsOf(o), "Processing")>>
    BY Facts, <1>11 DEF Purchase
  <2>5. step["orders"] = "done" /\ step["update"] = "done"
    BY <1>11 DEF Purchase, TypeInv, ThreadsInv, Writers
  <2>6. txn[o] = None /\ db[o] = None
    BY <1>11, <2>5 DEF Purchase, LifecycleInv, Pending
  <2>7. ItemsTurn'
    BY <2>1, <2>4, <2>6, WrittenRows DEF ItemsTurn, ItemsOf
  <2>8. Failing' /\ Executed'
    BY Facts, <1>a, <2>1, <2>2, <2>3 DEF Failing, Executed
  <2>9. UpdateTurn'
    BY <2>2, <2>5, Facts DEF UpdateTurn, Writers
  <2> QED
    BY <1>a, <2>1, <2>7, <2>8, <2>9 DEF SoundParts, Following, Follows, Keeping
<1>12. ASSUME NEW S \in SUBSET SideTasks, StartSideTasks(S) PROVE SoundParts'
  <2>1. UNCHANGED <<db, txn, acked, aborted, link, cutShort>>
    BY <1>12 DEF StartSideTasks, history
  <2>2. \A u \in Threads : step'[u] \in {"done", "select", "execute"}
    BY Facts, <1>12 DEF StartSideTasks
  <2>3. step'["items"] = "done" /\ step'["update"] \in {"done", "select"}
    BY Facts, <1>12 DEF StartSideTasks, SideTasks
  <2> QED
    BY Facts, <1>a, <2>1, <2>2, <2>3
       DEF SoundParts, Failing, Executed, Following, Follows, Keeping, ItemsTurn, UpdateTurn
<1>13. ASSUME NEW o \in Orders, NEW s \in Statuses, UpdateRead(o, s) PROVE SoundParts'
  <2>1. UNCHANGED <<db, txn, acked, aborted, link, main, cutShort>>
    BY <1>13 DEF UpdateRead, history
  <2>2. \A u \in Threads \ {"update"} : step'[u] = step[u] /\ jobs'[u] = jobs[u]
    BY Facts, <1>13 DEF UpdateRead
  <2>3. step'["update"] = "execute" /\ jobs'["update"] = Upserts(o, s)
    BY Facts, <1>13 DEF UpdateRead
  <2>4. txn[o] = db[o] /\ s \in Moves(db[o])
    <3>1. step["update"] = "select" /\ step["orders"] = "done"
      BY <1>13 DEF UpdateRead, TypeInv, ThreadsInv, Done, Writers
    <3> QED
      BY <1>13, <3>1 DEF UpdateRead, LifecycleInv, Pending, Moves
  <2>5. PICK S \in SUBSET ItemsOf(o) : Upserts(o, s) \in Whole(o, s, S)
    BY UpsertsAre
  <2>6. Turn(o, s, S)'
    BY <2>1, <2>3, <2>4, <2>5 DEF Turn
  <2>7. UpdateTurn'
    BY <2>6 DEF UpdateTurn
  <2>8. Failing' /\ Executed' /\ ItemsTurn'
    BY Facts, <1>a, <2>1, <2>2, <2>3 DEF Failing, Executed, ItemsTurn, Closed
  <2> QED
    BY <1>a, <2>1, <2>7, <2>8 DEF SoundParts, Following, Follows, Keeping
<1> QED
  BY <1>1, <1>2, <1>3, <1>4, <1>5, <1>6, <1>7, <1>8, <1>9, <1>10, <1>11, <1>12, <1>13, <1>14 DEF Next

LEMMA SoundInvHolds == Spec => []SoundInv
<1>1. ASSUME TypeInv, LifecycleInv, SoundInv, [Next]_vars PROVE SoundInv'
  BY <1>1, SoundStep DEF SoundInv
<1> QED
  BY <1>1, SoundInit, TypeInvHolds, LifecycleInvHolds, PTL DEF Spec

\* What DataWriter.upsert returned from before close() stays written, or is overwritten
\* by a later status, although any thread's rollback, a lost connection or one opened
\* over it throws away what other threads have executed (as long as no statement failed
\* on a connection that was up).
THEOREM AckedStaysWritten == Spec => []AckedIsDurable
<1>1. TypeInv /\ SoundInv => AckedIsDurable
  <2> SUFFICES ASSUME TypeInv, SoundInv, sound, NEW k \in Keys, acked[k] # None
               PROVE  IF k \in Orders \cup Items THEN Rank(db[k]) >= Rank(acked[k]) ELSE db[k] = acked[k]
    BY DEF AckedIsDurable
  <2>1. Kept(k, acked[k], db[k])
    BY DEF SoundInv, SoundParts, Keeping
  <2>2. CASE k \in Orders \cup Items
    <3>1. Rank(acked[k]) \in 0..4 /\ Rank(db[k]) \in 0..4
      BY <2>2, KindsRank DEF TypeInv, Typed, KindsInv
    <3> QED
      BY <2>1, <2>2, <3>1 DEF Kept
  <2>3. CASE k \notin Orders \cup Items
    BY <2>1, <2>3 DEF Kept, TypeInv, KindsInv, Kinds
  <2> QED
    BY <2>2, <2>3
<1> QED
  BY <1>1, TypeInvHolds, SoundInvHolds, PTL

\* simulate_order_update writes an order, its items and its events in three
\* transactions: wherever it stops, no item is ahead of its order, and no cancel or
\* return event is there without the order's (as long as no statement failed on a
\* connection that was up, and close() has not cut an update short).
THEOREM ItemsFollowOrderHolds == Spec => []ItemsFollowOrder
<1>1. TypeInv /\ SoundInv => ItemsFollowOrder
  <2> SUFFICES ASSUME TypeInv, SoundInv, sound, ~cutShort, NEW i \in Items
               PROVE  LET o == OrderOf[i] IN
                        /\ db[o] # None => Rank(db[i]) <= Rank(db[o])
                        /\ db[<<i, "cancel">>] = "sent" => db[o] = "Cancelled"
                        /\ db[<<i, "return">>] = "sent" => db[o] = "Returned"
    BY DEF ItemsFollowOrder
  <2>1. Follows(db)
    BY DEF SoundInv, SoundParts, Following
  <2>2. OrderOf[i] \in Orders
    BY SourceAssumption
  <2>3. db[OrderOf[i]] \in Statuses \cup {None} /\ Rank(db[i]) \in 0..4
    BY <2>2, KindsRank DEF TypeInv, Typed, KindsInv
  <2>4. db[OrderOf[i]] # None => Rank(db[OrderOf[i]]) \in 1..4
    BY <2>3, RankRange
  <2> QED
    BY <2>1, <2>3, <2>4 DEF Follows
<1> QED
  BY <1>1, TypeInvHolds, SoundInvHolds, PTL
=============================================================================
