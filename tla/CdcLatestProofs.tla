---------------------------- MODULE CdcLatestProofs ----------------------------
(****************************************************************************)
(* That the newest event applied to an id decides what staging holds of it, *)
(* for every value of CdcStream's constants: however many events share an   *)
(* id, however batches are cut, and however often a batch is run again,     *)
(* under the same or another approved schema.                               *)
(****************************************************************************)
EXTENDS CdcTableProofs

----------------------------------------------------------------------------
(* The invariant. *)

\* A row holds event o, and no row of o's id holds anything newer.
Current(o) ==
    /\ \E row \in staging : row.cur = o
    /\ \A row \in staging : IdOf(row) = log[o].id => row.cur \in 1..o

\* No row of the id is left.
Gone(id) == \A row \in staging : IdOf(row) # id

\* What LatestWins says, of the batches committed: it holds in the middle of a
\* batch too, since a batch only touches ids for which it applies something newer.
CommittedShown ==
    \A o \in NewestApplied \ Quarantined :
        o <= committed => Shows(o) \/ DeletedWith(o)

\* How far the run in hand has come: after the merge the winners are current,
\* after the deletes only those without a delete beside them need be.
BatchShown ==
    /\ pc \in {"merge", "delete", "metrics", "commit"} => Bad \subseteq Quarantined
    /\ pc = "delete" => Ups \subseteq applied /\ \A w \in Winners : Current(w)
    /\ pc \in {"metrics", "commit"} =>
         /\ Ups \cup Dels \subseteq applied
         /\ \A d \in Dels : Gone(log[d].id)
         /\ \A w \in Winners :
              Current(w) \/ \E d \in Dels : log[d].id = log[w].id

\* The staging table has taken upserts and deletes only, none beyond the batch in
\* hand, and batches end where they were committed.
AppliedSound ==
    /\ \A o \in applied : o <= planned /\ log[o].op # Null
    /\ \A e \in ends : e <= committed

Showing == CommittedShown /\ BatchShown /\ AppliedSound

----------------------------------------------------------------------------
(* What the operators mean, and what leaves them alone. *)

\* A delete shows when the id is gone, an upsert when it is current.
LEMMA ShowsMeans ==
    ASSUME TypeOK, NEW o \in 1..Len(log)
    PROVE  Shows(o) <=> IF log[o].op = "d" THEN Gone(log[o].id) ELSE Current(o)
<1> DEFINE held == {row.cur : row \in RowsOf(log[o].id)}
<1>1. held = {} <=> Gone(log[o].id)
  BY DEF RowsOf, Gone
<1>2. o \in held <=> \E row \in staging : row.cur = o
  BY DEF RowsOf, IdOf
<1>3. held \subseteq 1..o <=>
        \A row \in staging : IdOf(row) = log[o].id => row.cur \in 1..o
  BY DEF RowsOf
<1> QED
  BY <1>1, <1>2, <1>3 DEF Shows, Current

\* The same rows of an id show the same of its events.
LEMMA ShowsStays ==
    ASSUME TypeOK, TypeOK', NEW o \in 1..Len(log),
           \A p \in 1..Len(log) : log'[p] = log[p],
           RowsOf(log[o].id)' = RowsOf(log[o].id)
    PROVE  Shows(o)' <=> Shows(o)
<1>1. log'[o] = log[o]
  OBVIOUS
<1> QED
  BY <1>1 DEF Shows, RowsOf

\* A step that applies nothing but events of the batch in hand, and leaves the
\* rows of all other ids, keeps what the committed batches show.
LEMMA CommittedStays ==
    ASSUME TypeOK, TypeOK', CommittedShown,
           \A p \in 1..Len(log) : log'[p] = log[p],
           UNCHANGED <<committed, ends>>,
           applied \subseteq applied',
           \A p \in applied' \ applied : p > committed,
           Quarantined \subseteq Quarantined',
           \A o \in applied :
              (\A p \in applied' : p > committed => log'[p].id # log[o].id)
                => RowsOf(log[o].id)' = RowsOf(log[o].id)
    PROVE  CommittedShown'
<1> SUFFICES ASSUME NEW o \in (NewestApplied \ Quarantined)', o <= committed
             PROVE  Shows(o)' \/ DeletedWith(o)'
  BY DEF CommittedShown
<1>0. applied \subseteq 1..Len(log) /\ committed \in Int /\ \A p \in applied : log'[p] = log[p]
  <2>1. applied \subseteq 1..Len(log) /\ committed \in Int
    BY DEF TypeOK
  <2> QED
    BY <2>1
<1>1. o \in applied' /\ \A p \in applied' : log'[p].id = log'[o].id => p <= o
  BY DEF NewestApplied
<1>2. o \in applied /\ o \in 1..Len(log)
  BY <1>0, <1>1 DEF TypeOK
<1>3. o \in NewestApplied \ Quarantined
  BY <1>0, <1>1, <1>2 DEF NewestApplied
<1>4. \A p \in applied' : p > committed => log'[p].id # log[o].id
  <2>1. \A p \in applied' : p \in Int
    BY DEF TypeOK
  <2> QED
    BY <2>1, <1>0, <1>1, <1>2
<1>5. CASE Shows(o)
  <2>1. RowsOf(log[o].id)' = RowsOf(log[o].id)
    BY <1>2, <1>4
  <2> QED
    BY <1>2, <1>5, <2>1, ShowsStays
<1>6. CASE DeletedWith(o)
  BY <1>0, <1>2, <1>6 DEF DeletedWith
<1> QED
  BY <1>3, <1>5, <1>6 DEF CommittedShown

\* A step that leaves the batch and the tables as they are keeps its progress.
LEMMA BatchShownStays ==
    ASSUME TypeOK, BatchShown,
           \A p \in 1..Len(log) : log'[p] = log[p],
           UNCHANGED <<expected, committed, planned, staging, quarantine, applied>>,
           pc' = pc \/ (pc = "metrics" /\ pc' = "commit")
    PROVE  BatchShown'
<1>1. /\ Bad' = Bad /\ Ups' = Ups /\ Dels' = Dels /\ Quarantined' = Quarantined
      /\ Ups \subseteq 1..Len(log) /\ Dels \subseteq 1..Len(log)
  BY BatchStable, BatchInLog DEF Quarantined
<1>2. \A o \in Ups \cup Dels : log'[o] = log[o]
  BY <1>1
<1>3. \A o, p \in Ups : Precedes(o, p)' <=> Precedes(o, p)
  BY <1>2 DEF Precedes
<1>4. Winners' = Winners /\ Winners \subseteq Ups
  BY <1>1, <1>2, <1>3 DEF Winners
<1>5. \A row \in staging : row.cur \in 1..Len(log) /\ IdOf(row)' = IdOf(row)
  BY DEF TypeOK, IdOf
<1>6. \A w \in Winners : Current(w)' <=> Current(w)
  BY <1>2, <1>4, <1>5 DEF Current
<1>7. \A d \in Dels : Gone(log[d].id)' <=> Gone(log[d].id)
  BY <1>2, <1>5 DEF Gone
<1> QED
  BY <1>1, <1>2, <1>4, <1>6, <1>7 DEF BatchShown

----------------------------------------------------------------------------
(* What a merge and a delete do to the rows of an id. *)

\* A merge leaves the rows of an id for which the batch has no upsert.
LEMMA MergeKeepsOthers ==
    ASSUME TypeOK, MergeUpserts, NEW id, \A u \in Ups : log[u].id # id
    PROVE  RowsOf(id)' = RowsOf(id)
<1>1. log' = log /\ Winners \subseteq Ups
  BY DEF MergeUpserts, kafka, Winners
<1>2. ASSUME NEW n \in staging', log[n.cur].id = id
      PROVE  n \in staging
  <2>1. ASSUME NEW r \in staging, NEW w \in Winners, n = [r EXCEPT !.cur = w]
        PROVE  FALSE
    <3>1. n.cur = w
      BY <2>1 DEF TypeOK
    <3> QED
      BY <1>1, <1>2, <3>1
  <2>2. ASSUME NEW u \in Ups, n = [at |-> Run, src |-> u, cur |-> u]
        PROVE  FALSE
    BY <1>2, <2>2
  <2> QED
    BY <2>1, <2>2, MergedRows
<1>3. ASSUME NEW n \in staging, log[n.cur].id = id
      PROVE  n \in staging'
  BY <1>1, <1>3 DEF MergeUpserts, Untouched, IdOf
<1> QED
  BY <1>1, <1>2, <1>3 DEF RowsOf, IdOf

\* After a merge a row holds the winner of each id, and none anything newer.
LEMMA MergeShowsWinners ==
    ASSUME TypeOK, Dated, MergeUpserts, NEW w \in Winners
    PROVE  Current(w)'
<1>1. /\ log' = log /\ Winners \subseteq Ups /\ Ups \subseteq 1..Len(log)
      /\ w \in Ups /\ w \in 1..Len(log)
  BY BatchInLog DEF MergeUpserts, kafka, Winners
<1>2. staging' = Untouched \cup Overwritten
                  \cup {[at |-> Run, src |-> o, cur |-> o] : o \in Unmatched}
  BY DEF MergeUpserts
<1>3. \E row \in staging' : row.cur = w
  <2>1. CASE RowsOf(log[w].id) = {}
    <3>1. w \in Unmatched
      BY <1>1, <2>1 DEF Unmatched
    <3>2. [at |-> Run, src |-> w, cur |-> w] \in staging'
      BY <1>2, <3>1
    <3> QED
      BY <3>2
  <2>2. CASE RowsOf(log[w].id) # {}
    <3>1. PICK row \in staging : IdOf(row) = log[w].id
      BY <2>2 DEF RowsOf
    <3>2. <<row, w>> \in Matched
      BY <3>1 DEF Matched
    <3>3. [row EXCEPT !.cur = w] \in Overwritten
      BY <3>2 DEF Overwritten
    <3>4. [row EXCEPT !.cur = w].cur = w
      BY DEF TypeOK
    <3> QED
      BY <1>2, <3>3, <3>4
  <2> QED
    BY <2>1, <2>2
<1>4. ASSUME NEW n \in staging', log[n.cur].id = log[w].id
      PROVE  n.cur \in 1..w
  <2>1. ~(\A v \in Winners : log[v].id # IdOf(n))
    BY <1>4 DEF IdOf
  <2>2. ASSUME NEW r \in staging, NEW v \in Winners, n = [r EXCEPT !.cur = v]
        PROVE  n.cur \in 1..w
    <3>1. n.cur = v
      BY <2>2 DEF TypeOK
    <3>2. v = w
      BY <1>4, <3>1, OneWinner
    <3> QED
      BY <1>1, <3>1, <3>2
  <2>3. ASSUME NEW u \in Ups, n = [at |-> Run, src |-> u, cur |-> u]
        PROVE  n.cur \in 1..w
    <3>1. u = w \/ Precedes(w, u)
      BY <1>4, <2>3 DEF Winners
    <3>2. log[u].ts = u /\ log[w].ts = w /\ u \in 1..Len(log)
      BY <1>1 DEF Dated
    <3> QED
      BY <1>1, <2>3, <3>1, <3>2 DEF Precedes, TypeOK
  <2> QED
    BY <2>1, <2>2, <2>3, MergedRows
<1> QED
  BY <1>1, <1>3, <1>4 DEF Current, IdOf

\* Deletes leave the rows of every other id, and none of their own.
LEMMA DeletesById ==
    ASSUME ApplyDeletes, NEW id
    PROVE  /\ (\A d \in Dels : log[d].id # id) => RowsOf(id)' = RowsOf(id)
           /\ (\E d \in Dels : log[d].id = id) => Gone(id)'
<1>1. log' = log /\ \A row : IdOf(row)' = IdOf(row)
  BY DEF ApplyDeletes, kafka, IdOf
<1>2. staging' = {row \in staging : \A o \in Dels : log[o].id # IdOf(row)}
  BY DEF ApplyDeletes
<1> QED
  BY <1>1, <1>2 DEF RowsOf, Gone

\* An event that is current stays so while the rows of its id do.
LEMMA CurrentStays ==
    ASSUME log' = log, NEW o, Current(o), RowsOf(log[o].id)' = RowsOf(log[o].id)
    PROVE  Current(o)'
<1>1. \A row : IdOf(row)' = IdOf(row)
  BY DEF IdOf
<1>2. PICK row \in staging : row.cur = o
  BY DEF Current
<1>3. row \in staging'
  BY <1>2 DEF RowsOf, IdOf
<1>4. ASSUME NEW n \in staging', IdOf(n) = log[o].id PROVE n.cur \in 1..o
  BY <1>1, <1>4 DEF Current, RowsOf
<1> QED
  BY <1>1, <1>2, <1>3, <1>4 DEF Current

\* When the deletes are done, a winner is current unless its id was deleted.
LEMMA DeletesShown ==
    ASSUME TypeOK, BatchShown, ApplyDeletes
    PROVE  BatchShown'
<1>1. /\ UNCHANGED <<log, expected, committed, planned, quarantine>>
      /\ applied' = applied \cup Dels /\ pc = "delete" /\ pc' = "metrics"
  BY DEF ApplyDeletes, kafka, progress
<1>2. /\ Bad' = Bad /\ Ups' = Ups /\ Dels' = Dels /\ Quarantined' = Quarantined
  BY <1>1, BatchStable DEF Quarantined
<1>3. Winners' = Winners
  BY <1>1, <1>2 DEF Winners, Precedes
<1>4. Bad \subseteq Quarantined /\ Ups \subseteq applied /\ \A w \in Winners : Current(w)
  BY <1>1 DEF BatchShown
<1>5. ASSUME NEW d \in Dels PROVE Gone(log[d].id)'
  <2>1. \E e \in Dels : log[e].id = log[d].id
    OBVIOUS
  <2> QED
    BY <1>1, <2>1, DeletesById DEF Gone, IdOf
<1>6. ASSUME NEW w \in Winners, \A d \in Dels : log[d].id # log[w].id
      PROVE  Current(w)'
  BY <1>1, <1>4, <1>6, DeletesById, CurrentStays
<1> QED
  BY <1>1, <1>2, <1>3, <1>4, <1>5, <1>6 DEF BatchShown

\* At its commit a batch shows what it applied: the newest event of an id is one
\* the last run let pass, a delete that ran last or an upsert that won its merge.
LEMMA BatchEndShown ==
    ASSUME TypeOK, Dated, Showing, pc = "commit",
           NEW o \in NewestApplied \ Quarantined, o > committed
    PROVE  \/ Shows(o)
           \/ \E d \in applied : d < o /\ d > committed /\ log[d].id = log[o].id
                                   /\ log[d].op = "d"
<1>0. /\ committed \in Nat /\ planned \in Nat /\ o \in applied /\ applied \subseteq 1..Len(log)
      /\ \A p \in applied : log[p].id = log[o].id => p <= o
  BY DEF TypeOK, NewestApplied
<1>1. o \in Batch /\ log[o].op # Null
  BY <1>0 DEF Batch, Showing, AppliedSound
<1>2. o \in Valid
  BY <1>1 DEF Bad, Showing, BatchShown
<1>3. /\ Ups \cup Dels \subseteq applied
      /\ \A d \in Dels : Gone(log[d].id)
      /\ \A w \in Winners : Current(w) \/ \E d \in Dels : log[d].id = log[w].id
  BY DEF Showing, BatchShown
<1>4. CASE log[o].op = "d"
  <2>1. Gone(log[o].id)
    BY <1>2, <1>3, <1>4 DEF Dels
  <2> QED
    BY <1>0, <1>4, <2>1, ShowsMeans
<1>5. CASE log[o].op # "d"
  <2>1. o \in Ups
    BY <1>1, <1>2, <1>5 DEF Ups
  <2>2. ASSUME NEW p \in Ups \ {o}, log[p].id = log[o].id PROVE Precedes(o, p)
    <3>1. p \in applied /\ p \in 1..Len(log) /\ o \in 1..Len(log) /\ p # o
      BY <1>0, <1>3, <2>2
    <3>2. p <= o /\ p \in Int /\ o \in Int
      BY <1>0, <2>2, <3>1
    <3>3. log[p].ts = p /\ log[o].ts = o
      BY <3>1 DEF Dated
    <3> QED
      BY <3>1, <3>2, <3>3 DEF Precedes
  <2>3. o \in Winners
    BY <2>1, <2>2 DEF Winners
  <2>4. CASE Current(o)
    BY <1>0, <1>5, <2>4, ShowsMeans
  <2>5. CASE \E d \in Dels : log[d].id = log[o].id
    <3>1. PICK d \in Dels : log[d].id = log[o].id
      BY <2>5
    <3>2. d \in applied /\ log[d].op = "d" /\ d \in Batch
      BY <1>3, BatchInLog DEF Dels
    <3>3. d <= o /\ d # o /\ d > committed
      BY <1>0, <1>5, <3>1, <3>2 DEF Batch
    <3> QED
      BY <1>0, <3>1, <3>2, <3>3
  <2> QED
    BY <1>3, <2>3, <2>4, <2>5
<1> QED
  BY <1>4, <1>5

----------------------------------------------------------------------------
(* Every step keeps the invariant. *)

LEMMA InitShowing == Init => Showing
  BY DEF Init, Showing, CommittedShown, BatchShown, AppliedSound, NewestApplied

LEMMA NextShowing ==
    ASSUME "quarantine" \notin Unreadable,
           TypeInv, TypeInv', Dated, Showing, [Next]_vars
    PROVE  Showing'
<1>t. TypeOK /\ TypeOK' /\ CommittedShown /\ BatchShown /\ AppliedSound
  BY DEF TypeInv, Showing
<1>n. /\ committed \in Nat /\ planned \in Nat /\ committed <= planned /\ Len(log) \in Nat
      /\ applied \subseteq 1..Len(log) /\ ends \subseteq 1..Len(log)
      /\ \A row \in staging : row.cur \in 1..Len(log)
  <2>1. Len(log) \in Nat /\ committed \in 0..Len(log) /\ planned \in committed..Len(log)
    BY <1>t DEF TypeOK
  <2>2. /\ applied \subseteq 1..Len(log) /\ ends \subseteq 1..Len(log)
        /\ \A row \in staging : row.cur \in 1..Len(log)
    BY <1>t DEF TypeOK
  <2> QED
    BY <2>1, <2>2
<1>0. ASSUME \A p \in 1..Len(log) : log'[p] = log[p],
             UNCHANGED <<committed, ends, staging, applied>>,
             Quarantined \subseteq Quarantined'
      PROVE  CommittedShown'
  <2>1. \A row \in staging : log'[row.cur] = log[row.cur]
    BY <1>0, <1>n
  <2>2. \A o \in applied : RowsOf(log[o].id)' = RowsOf(log[o].id)
    BY <1>0, <1>n, <2>1 DEF RowsOf, IdOf
  <2> QED
    BY <1>0, <1>t, <2>2, CommittedStays
<1>1. ASSUME \/ \E p \in Payloads : Publish(p)
             \/ RegisterSchema
             \/ \E shape \in Shapes : UpdateContract(shape)
             \/ UNCHANGED vars
      PROVE  Showing'
  <2>1. /\ \A o \in 1..Len(log) : log'[o] = log[o]
        /\ UNCHANGED <<pc, expected, planned, committed, ends, staging, quarantine, applied>>
    BY <1>1, <1>t, TopicGrows
  <2>2. CommittedShown'
    BY <1>0, <2>1 DEF Quarantined
  <2>3. BatchShown'
    BY <1>t, <2>1, BatchShownStays
  <2>4. AppliedSound'
    BY <1>t, <1>n, <2>1 DEF AppliedSound
  <2> QED
    BY <2>2, <2>3, <2>4 DEF Showing
<1>2. ASSUME NEW lost \in SUBSET Unreadable, Start(lost) \/ StartFails(lost)
      PROVE  Showing'
  <2>1. /\ UNCHANGED <<log, planned, committed, ends, quarantine>>
        /\ pc' \in {"down", "idle"}
        /\ \/ UNCHANGED <<staging, applied>>
           \/ applied' = {}
    BY <1>2 DEF Start, StartFails, PrepareTables, kafka, progress
  <2>2. CommittedShown'
    <3>1. CASE UNCHANGED <<staging, applied>>
      BY <1>0, <2>1, <3>1 DEF Quarantined
    <3>2. CASE applied' = {}
      BY <3>2 DEF CommittedShown, NewestApplied
    <3> QED
      BY <2>1, <3>1, <3>2
  <2>3. AppliedSound'
    BY <1>t, <2>1 DEF AppliedSound
  <2> QED
    BY <2>1, <2>2, <2>3 DEF Showing, BatchShown
<1>3. ASSUME PlanBatch \/ (\E s \in SchemaIds : ReportDrift(s)) \/ DriftChecked \/ Crash
      PROVE  Showing'
  <2>1. /\ UNCHANGED <<log, committed, ends, staging, quarantine, applied>>
        /\ pc' \in {"down", "detect", "quarantine"}
    BY <1>3 DEF PlanBatch, ReportDrift, DriftChecked, Crash, kafka, progress
  <2>2. planned \in Int /\ planned' \in Int /\ planned <= planned'
    BY <1>3, <1>n, BoundAssumption
    DEF PlanBatch, ReportDrift, DriftChecked, Crash, progress
  <2>3. CommittedShown'
    BY <1>0, <2>1 DEF Quarantined
  <2>4. AppliedSound'
    BY <1>t, <1>n, <2>1, <2>2 DEF AppliedSound
  <2> QED
    BY <2>1, <2>3, <2>4 DEF Showing, BatchShown
<1>4. ASSUME WriteQuarantine PROVE Showing'
  <2>1. /\ UNCHANGED <<log, expected, planned, committed, ends, staging, applied>>
        /\ pc' = "merge"
    BY <1>4 DEF WriteQuarantine, kafka, progress
  <2>2. Quarantined' = Quarantined \cup Bad /\ Bad' = Bad
    BY <1>4, <1>t, <2>1, QuarantineGrows, BatchStable
  <2>3. CommittedShown'
    BY <1>0, <2>1, <2>2
  <2>4. AppliedSound'
    BY <1>t, <2>1 DEF AppliedSound
  <2> QED
    BY <2>1, <2>2, <2>3, <2>4 DEF Showing, BatchShown
<1>5. ASSUME MergeUpserts PROVE Showing'
  <2>1. /\ UNCHANGED <<log, expected, planned, committed, ends, quarantine>>
        /\ applied' = applied \cup Ups /\ pc = "merge" /\ pc' = "delete"
    BY <1>5 DEF MergeUpserts, kafka, progress
  <2>2. \A u \in Ups : u > committed /\ u <= planned /\ log[u].op # Null /\ u \in 1..Len(log)
    BY <1>t, <1>n, BatchInLog DEF Ups, Valid, Batch
  <2>3. AppliedSound'
    BY <1>t, <2>1, <2>2 DEF AppliedSound
  <2>4. ASSUME NEW o \in applied, \A p \in applied' : p > committed => log'[p].id # log[o].id
        PROVE  RowsOf(log[o].id)' = RowsOf(log[o].id)
    <3>0. PICK id : id = log[o].id
      OBVIOUS
    <3>1. log'[o].id = id /\ \A u \in Ups : log[u].id # id
      BY <2>1, <2>2, <2>4, <3>0
    <3>2. RowsOf(id)' = RowsOf(id)
      BY <1>5, <1>t, <3>1, MergeKeepsOthers
    <3> QED
      BY <3>0, <3>1, <3>2 DEF RowsOf
  <2>5. CommittedShown'
    BY <1>t, <2>1, <2>2, <2>4, CommittedStays DEF Quarantined
  <2>6. Bad' = Bad /\ Ups' = Ups /\ Quarantined' = Quarantined
    BY <1>t, <2>1, BatchStable DEF Quarantined
  <2>7. Winners' = Winners
    BY <2>1, <2>6 DEF Winners, Precedes
  <2>8. \A w \in Winners : Current(w)'
    BY <1>5, <1>t, MergeShowsWinners
  <2>9. BatchShown'
    BY <1>t, <2>1, <2>6, <2>7, <2>8 DEF BatchShown
  <2> QED
    BY <2>3, <2>5, <2>9 DEF Showing
<1>6. ASSUME ApplyDeletes PROVE Showing'
  <2>1. /\ UNCHANGED <<log, expected, planned, committed, ends, quarantine>>
        /\ applied' = applied \cup Dels
    BY <1>6 DEF ApplyDeletes, kafka, progress
  <2>2. \A d \in Dels : d > committed /\ d <= planned /\ log[d].op # Null /\ d \in 1..Len(log)
    BY <1>t, <1>n, BatchInLog, NullAssumption DEF Dels, Valid, Batch, VALID_OPS
  <2>3. AppliedSound'
    BY <1>t, <2>1, <2>2 DEF AppliedSound
  <2>4. ASSUME NEW o \in applied, \A p \in applied' : p > committed => log'[p].id # log[o].id
        PROVE  RowsOf(log[o].id)' = RowsOf(log[o].id)
    <3>0. PICK id : id = log[o].id
      OBVIOUS
    <3>1. log'[o].id = id /\ \A d \in Dels : log[d].id # id
      BY <2>1, <2>2, <2>4, <3>0
    <3>2. RowsOf(id)' = RowsOf(id)
      BY <1>6, <3>1, DeletesById
    <3> QED
      BY <3>0, <3>1, <3>2 DEF RowsOf
  <2>5. CommittedShown'
    BY <1>t, <2>1, <2>2, <2>4, CommittedStays DEF Quarantined
  <2>6. BatchShown'
    BY <1>6, <1>t, DeletesShown
  <2> QED
    BY <2>3, <2>5, <2>6 DEF Showing
<1>7. ASSUME WriteMetrics PROVE Showing'
  <2>1. /\ UNCHANGED <<log, expected, planned, committed, ends, staging, quarantine, applied>>
        /\ pc = "metrics" /\ pc' = "commit"
    BY <1>7 DEF WriteMetrics, kafka, progress
  <2>2. CommittedShown'
    BY <1>0, <2>1 DEF Quarantined
  <2>3. BatchShown'
    BY <1>t, <2>1, BatchShownStays
  <2>4. AppliedSound'
    BY <1>t, <2>1 DEF AppliedSound
  <2> QED
    BY <2>2, <2>3, <2>4 DEF Showing
<1>8. ASSUME CommitBatch PROVE Showing'
  <2>1. /\ UNCHANGED <<log, planned, staging, quarantine, applied>>
        /\ committed' = planned /\ ends' = ends \cup {planned}
        /\ pc = "commit" /\ pc' = "idle"
    BY <1>8 DEF CommitBatch, kafka
  <2>2. AppliedSound'
    BY <1>t, <1>n, <2>1 DEF AppliedSound
  <2>3. ASSUME NEW o \in NewestApplied \ Quarantined
        PROVE  Shows(o)' \/ DeletedWith(o)'
    <3>1. o \in applied /\ o <= planned /\ o \in 1..Len(log)
      BY <1>t, <1>n DEF NewestApplied, AppliedSound
    <3>2. Shows(o)' <=> Shows(o)
      BY <2>1 DEF Shows, RowsOf, IdOf
    <3>3. ASSUME NEW d \in applied, d < o, log[d].id = log[o].id, log[d].op = "d",
                 \A e \in ends : e < d <=> e < o
          PROVE  DeletedWith(o)'
      <4>1. ~(planned < d) /\ ~(planned < o)
        BY <1>n, <3>1, <3>3
      <4>2. \A e \in ends' : e < d <=> e < o
        BY <2>1, <3>3, <4>1
      <4> QED
        BY <2>1, <3>3, <4>2 DEF DeletedWith
    <3>4. CASE o <= committed
      BY <1>t, <3>2, <3>3, <3>4 DEF CommittedShown, DeletedWith
    <3>5. CASE o > committed
      <4>1. CASE Shows(o)
        BY <3>2, <4>1
      <4>2. ASSUME NEW d \in applied, d < o, d > committed, log[d].id = log[o].id,
                   log[d].op = "d"
            PROVE  DeletedWith(o)'
        <5>1. \A e \in ends : e <= committed /\ e \in Int
          BY <1>t, <1>n DEF AppliedSound
        <5>2. \A e \in ends : e < d <=> e < o
          BY <1>n, <3>1, <3>5, <4>2, <5>1
        <5> QED
          BY <3>3, <4>2, <5>2
      <4> QED
        BY <1>t, <2>1, <3>5, <4>1, <4>2, BatchEndShown
    <3> QED
      BY <1>n, <3>1, <3>4, <3>5
  <2>4. NewestApplied' = NewestApplied /\ Quarantined' = Quarantined
    BY <2>1 DEF NewestApplied, Quarantined
  <2> QED
    BY <2>1, <2>2, <2>3, <2>4 DEF Showing, CommittedShown, BatchShown
<1> QED
  BY <1>1, <1>2, <1>3, <1>4, <1>5, <1>6, <1>7, <1>8 DEF Next, ProcessorStep

\* Whenever nothing is in flight, the newest event applied to each id decides what
\* staging holds of it, for any number of ids, batches, crashes and retries under
\* any schemas, and when the staging table itself is lost; the quarantine table,
\* which tells what a retry took back, must be readable.
THEOREM LatestWinsHolds ==
    ASSUME "quarantine" \notin Unreadable
    PROVE  Spec => []LatestWins
<1>1. TypeInv /\ Dated /\ Showing /\ [Next]_vars => TypeInv' /\ Dated' /\ Showing'
  BY NextTypeInv, NextDated, NextShowing
<1>2. TypeInv /\ Showing => LatestWins
  <2> SUFFICES ASSUME TypeInv, Showing, CaughtUp, NEW o \in NewestApplied \ Quarantined
               PROVE  Shows(o) \/ DeletedWith(o)
    BY DEF LatestWins
  <2>1. o <= committed
    BY DEF Showing, AppliedSound, NewestApplied, CaughtUp
  <2> QED
    BY <2>1 DEF Showing, CommittedShown
<1> QED
  BY <1>1, <1>2, InitTypeInv, InitDated, InitShowing, PTL DEF Spec
================================================================================
