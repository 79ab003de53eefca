------------------------------ MODULE OrderSource ------------------------------
(****************************************************************************)
(* The data generator that drives the source database: generator.py's loop  *)
(* of purchases and side tasks, and DataWriter.upsert of db_writer.py.      *)
(*                                                                          *)
(* The writers of a purchase, and the side tasks, are threads that share    *)
(* one connection, hence one transaction: COMMIT and ROLLBACK of a thread   *)
(* take with them what the others have executed so far.  A failed statement *)
(* leaves the transaction aborted, and a COMMIT then rolls it back without  *)
(* an error.                                                                *)
(*                                                                          *)
(* A row is a key and its status: an order, an item, or an event of an item *)
(* ("sent" once written).  An upsert is a function from keys to statuses.   *)
(****************************************************************************)
EXTENDS Integers, Sequences, FiniteSets

CONSTANTS
    Orders, Items,     \* keys: fresh uuids in the code, each of one table
    OrderOf,           \* the order of each item
    Other,             \* a row of a task that concerns no order: a user, a ghost event
    MaxRestarts        \* bound: restarts of the container

ASSUME SourceAssumption ==
    /\ OrderOf \in [Items -> Orders]
    /\ MaxRestarts \in Nat

Writers == {"orders", "items", "events"}
SideTasks == {"update", "other"}
Threads == Writers \cup SideTasks \cup {"address"}

None == "None"
Statuses == {"Processing", "Shipped", "Delivered", "Cancelled", "Returned"}
EventKeys == Items \X {"purchase", "cancel", "return"}
Keys == Orders \cup Items \cup EventKeys \cup {Other}

ASSUME KeysAssumption ==
    /\ Orders \cap Items = {}
    /\ EventKeys \cap (Orders \cup Items) = {}
    /\ Other \notin Orders \cup Items \cup EventKeys

max_consecutive_errors == 3

VARIABLES
    db,       \* what is committed: a status, "sent" or None for each key
    txn,      \* what the shared connection sees
    aborted,  \* a statement of the open transaction has failed
    link,     \* the connection: "up"; "lost", which nobody need know; "invalid" or
              \* "stale", known to be lost with or without a transaction of its own;
              \* or "closed"
    opening,  \* threads about to open a connection: "connect", "revalidate" or None
    main,     \* the loop: "purchase", "address", "joining", "side", "joined",
              \* "closing", "releasing" or "down"
    step,     \* of each thread: "done", "select", "execute", "commit", "rollback"
    jobs,     \* upserts each thread has still to make
    raised,   \* an exception of psycopg2 has left a thread the loop waits for
    errors,   \* consecutive_db_errors
    restarts,
    acked,    \* history: the last value of each key upsert returned normally for
              \* before close() rolled back
    sound,    \* history: no statement has failed on a connection that was up
    cutShort  \* history: close() has found an update at work

threads == <<step, jobs, opening>>
history == <<acked, sound, cutShort>>
vars == <<db, txn, aborted, link, main, threads, raised, errors, restarts, history>>

ItemsOf(o) == {i \in Items : OrderOf[i] = o}
Written(S, status) == [k \in S |-> status]
\* INSERT ... ON CONFLICT DO UPDATE.
Upserted(rows, table) == [k \in Keys |-> IF k \in DOMAIN rows THEN rows[k] ELSE table[k]]
Done(S) == \A t \in S : step[t] = "done"

\* The next statement of t uses the connection as it is.
Uses(t) == opening[t] = None /\ link # "stale"

\* The threads the loop waits for.
Awaited ==
    CASE main = "address" -> {"address"}
      [] main = "joining" -> Writers
      [] main = "joined" -> SideTasks
      [] OTHER -> {}

----------------------------------------------------------------------------
Init ==
    /\ db = [k \in Keys |-> None]
    /\ txn = db
    /\ aborted = FALSE
    /\ link = "up"
    /\ opening = [t \in Threads |-> None]
    /\ main = "purchase"
    /\ step = [t \in Threads |-> "done"]
    /\ jobs = [t \in Threads |-> <<>>]
    /\ raised = FALSE
    /\ errors = 0
    /\ restarts = 0
    /\ acked = [k \in Keys |-> None]
    /\ sound = TRUE
    /\ cutShort = FALSE

(* The loop of EcommerceSimulator.run. *)

\* simulate_purchases may first give the user it selected a new address.
UpdateAddress ==
    /\ main = "purchase" /\ link = "up" /\ ~aborted
    /\ main' = "address"
    /\ step' = [step EXCEPT !["address"] = "execute"]
    /\ jobs' = [jobs EXCEPT !["address"] = <<Written({Other}, "sent")>>]
    /\ UNCHANGED <<db, txn, aborted, link, opening, raised, errors, restarts, history>>

\* The purchase: an order, its items and their events, in three threads.
Purchase(o) ==
    /\ \/ main = "purchase" /\ link = "up" /\ ~aborted
       \/ main = "address" /\ step["address"] = "done" /\ ~raised
    /\ txn[o] = None
    /\ main' = "joining"
    /\ step' = [t \in Threads |-> IF t \in Writers THEN "execute" ELSE step[t]]
    /\ jobs' = [jobs EXCEPT
         !["orders"] = <<Written({o}, "Processing")>>,
         !["items"] = <<Written(ItemsOf(o), "Processing")>>,
         !["events"] = <<Written(ItemsOf(o) \X {"purchase"}, "sent")>>]
    /\ UNCHANGED <<db, txn, aborted, link, opening, raised, errors, restarts, history>>

\* simulate_side_tasks: each task with a probability of its own.  (Bound: a
\* task left running by an earlier iteration has ended by now.)
StartSideTasks(S) ==
    /\ main = "side" /\ Done(SideTasks)
    /\ main' = "joined"
    /\ step' = [t \in Threads |->
                  IF t \notin S THEN "done" ELSE IF t = "update" THEN "select" ELSE "execute"]
    /\ jobs' = [jobs EXCEPT !["other"] = IF "other" \in S THEN <<Written({Other}, "sent")>> ELSE <<>>]
    /\ UNCHANGED <<db, txn, aborted, link, opening, raised, errors, restarts, history>>

\* gather returned: on to the side tasks, and then to the next iteration.
Join ==
    /\ main \in {"joining", "joined"}
    /\ Done(Awaited) /\ ~raised
    /\ main' = IF main = "joining" THEN "side" ELSE "purchase"
    /\ errors' = IF main = "joined" THEN 0 ELSE errors
    /\ UNCHANGED <<db, txn, aborted, link, threads, raised, restarts, history>>

\* Mutant: one error more than the limit is tolerated.
CountErrorLate ==
    /\ errors' = errors + 1
    /\ main' = IF errors + 1 > max_consecutive_errors THEN "closing" ELSE "purchase"

\* A SQLAlchemyError: counted, and tolerated until there have been three.
CountError ==
    /\ errors' = errors + 1
    /\ main' = IF errors + 1 >= max_consecutive_errors THEN "closing" ELSE "purchase"

\* SQLAlchemy notes that the connection is lost, in the transaction that its first
\* SELECT began: from then on every use of it raises, as that is never ended.
Invalidate == link' = IF link = "lost" THEN "invalid" ELSE link

\* The SELECT of a random user fails: nothing reconnects, as a connection that
\* was lost does not count as closed.
SelectUserFails ==
    /\ main = "purchase" /\ (link # "up" \/ aborted)
    /\ CountError
    /\ Invalidate
    /\ UNCHANGED <<db, txn, aborted, threads, raised, restarts, history>>

\* An exception of psycopg2 is not a SQLAlchemyError: it ends the loop.
Abandon ==
    /\ Awaited # {}
    /\ raised
    /\ main' = "closing"
    /\ UNCHANGED <<db, txn, aborted, link, threads, raised, errors, restarts, history>>

(* close(), in a thread of its own beside those the loop has left behind. *)

CutShort == cutShort' = (cutShort \/ step["update"] # "done")

\* It first ends the transaction.  Until the connection is released the others go
\* on using it: a COMMIT then returns normally, with nothing to commit.
CloseRollsBack ==
    /\ main = "closing" /\ link = "up"
    /\ main' = "releasing"
    /\ txn' = db
    /\ aborted' = FALSE
    /\ CutShort
    /\ UNCHANGED <<db, link, threads, raised, errors, restarts, acked, sound>>

\* There may be nothing to roll back: no transaction, or one lost and known to be.
\* A statement still under way on a connection that is given up comes to nothing,
\* as it would just before.
CloseReleases ==
    /\ main = "releasing" \/ (main = "closing" /\ link # "up")
    /\ main' = "down"
    /\ link' = "closed"
    /\ txn' = db
    /\ aborted' = FALSE
    /\ CutShort
    /\ UNCHANGED <<db, threads, raised, errors, restarts, acked, sound>>

\* The rollback finds the connection lost and raises.  SQLAlchemy then forgets the
\* transaction, and opens another connection for whoever asks for one next.
CloseFails ==
    /\ main = "closing" /\ link = "lost"
    /\ main' = "down"
    /\ link' = "stale"
    /\ CutShort
    /\ UNCHANGED <<db, txn, aborted, threads, raised, errors, restarts, acked, sound>>

\* The process ends when its threads have, and the container is restarted,
\* whatever the exit code.
Restart ==
    /\ main = "down" /\ Done(Threads)
    /\ restarts < MaxRestarts
    /\ restarts' = restarts + 1
    /\ main' = "purchase"
    /\ link' = "up"
    /\ txn' = db
    /\ aborted' = FALSE
    /\ raised' = FALSE
    /\ errors' = 0
    /\ UNCHANGED <<db, threads, history>>

----------------------------------------------------------------------------
(* simulate_order_update, before its upserts. *)

NextStatuses(s) ==
    CASE s = "Processing" -> {"Shipped", "Cancelled"}
      [] s = "Shipped" -> {"Delivered"}
      [] s = "Delivered" -> {"Delivered", "Returned"}
      [] OTHER -> {s}

\* An upsert of no rows returns at once.
Rows(S, status) == IF S = {} THEN <<>> ELSE <<Written(S, status)>>

EventOf(s) == CASE s = "Cancelled" -> {"cancel"} [] s = "Returned" -> {"return"} [] OTHER -> {}

\* Mutant: the items before their order.
UpsertsItemsFirst(o, s) ==
    LET items == {i \in ItemsOf(o) : txn[i] # None}
    IN  Rows(items, s) \o Rows({o}, s) \o Rows(items \X EventOf(s), "sent")

\* Every item is given the order's status, and an event if that is final.
Upserts(o, s) ==
    LET items == {i \in ItemsOf(o) : txn[i] # None}
    IN  Rows({o}, s) \o Rows(items, s) \o Rows(items \X EventOf(s), "sent")

\* Mutant: any status may follow any other.
UpdateToAny(o, s) ==
    /\ step["update"] = "select" /\ Uses("update") /\ link = "up" /\ ~aborted
    /\ txn[o] # None
    /\ jobs' = [jobs EXCEPT !["update"] = Upserts(o, s)]
    /\ step' = [step EXCEPT !["update"] = "execute"]
    /\ UNCHANGED <<db, txn, aborted, link, main, opening, raised, errors, restarts, history>>

\* There is an order to select: side tasks only follow a purchase.
UpdateRead(o, s) ==
    /\ step["update"] = "select" /\ Uses("update") /\ link = "up" /\ ~aborted
    /\ txn[o] # None /\ s \in NextStatuses(txn[o])
    /\ jobs' = [jobs EXCEPT !["update"] = Upserts(o, s)]
    /\ step' = [step EXCEPT !["update"] = "execute"]
    /\ UNCHANGED <<db, txn, aborted, link, main, opening, raised, errors, restarts, history>>

\* Its SELECTs go through SQLAlchemy, whose errors the loop counts.
UpdateReadFails ==
    /\ step["update"] = "select" /\ Uses("update") /\ (link # "up" \/ aborted)
    /\ step' = [step EXCEPT !["update"] = "done"]
    /\ IF main = "joined" /\ ~raised THEN CountError ELSE UNCHANGED <<main, errors>>
    /\ Invalidate
    /\ UNCHANGED <<db, txn, aborted, jobs, opening, raised, restarts, history>>

(* DataWriter, by any thread.  Each use of self.conn reads it again. *)

\* ensure_connection finds the connection closed; or SQLAlchemy, at any use of it,
\* one to open again.  Several threads may see it before one has opened it.
SeesGone(t) ==
    /\ opening[t] = None
    /\ \/ link = "closed" /\ step[t] \in {"select", "execute"}
          /\ opening' = [opening EXCEPT ![t] = "connect"]
       \/ link = "stale" /\ step[t] # "done"
          /\ opening' = [opening EXCEPT ![t] = "revalidate"]
    /\ UNCHANGED <<db, txn, aborted, link, main, step, jobs, raised, errors, restarts, history>>

\* The connection opened becomes the shared one, in the place of another's.
Opens(t) ==
    /\ opening[t] # None
    /\ opening' = [opening EXCEPT ![t] = None]
    /\ link' = "up"
    /\ txn' = db
    /\ aborted' = FALSE
    /\ UNCHANGED <<db, main, step, jobs, raised, errors, restarts, history>>

\* ensure_connection raises before the try; revalidating is done within it.
OpenFails(t) ==
    /\ opening[t] # None
    /\ opening' = [opening EXCEPT ![t] = None]
    /\ IF opening[t] = "revalidate" /\ step[t] \in {"execute", "commit"}
       THEN step' = [step EXCEPT ![t] = "rollback"] /\ UNCHANGED jobs
       ELSE step' = [step EXCEPT ![t] = "done"] /\ jobs' = [jobs EXCEPT ![t] = <<>>]
    /\ UNCHANGED <<db, txn, aborted, link, main, raised, errors, restarts, history>>

Execute(t) ==
    /\ step[t] = "execute" /\ Uses(t) /\ link = "up" /\ ~aborted
    /\ txn' = Upserted(Head(jobs[t]), txn)
    /\ step' = [step EXCEPT ![t] = "commit"]
    /\ UNCHANGED <<db, aborted, link, main, jobs, opening, raised, errors, restarts, history>>

ExecuteFails(t) ==
    /\ step[t] = "execute" /\ Uses(t)
    /\ sound' = (sound /\ (link # "up" \/ aborted))
    /\ aborted' = (aborted \/ link = "up")
    /\ step' = [step EXCEPT ![t] = "rollback"]
    /\ UNCHANGED <<db, txn, link, main, jobs, opening, raised, errors, restarts,
                   acked, cutShort>>

\* upsert returns.
Returns(t) ==
    /\ jobs' = [jobs EXCEPT ![t] = Tail(@)]
    /\ step' = [step EXCEPT ![t] = IF Len(jobs[t]) > 1 THEN "execute" ELSE "done"]
    /\ acked' = IF main \in {"releasing", "down"} THEN acked
                ELSE Upserted(Head(jobs[t]), acked)

\* Mutant: upsert returns without a COMMIT of its own.
CommitNever(t) ==
    /\ step[t] = "commit" /\ Uses(t) /\ link = "up"
    /\ Returns(t)
    /\ UNCHANGED <<db, txn, aborted, link, main, opening, raised, errors, restarts,
                   sound, cutShort>>

Commit(t) ==
    /\ step[t] = "commit" /\ Uses(t) /\ link = "up"
    /\ db' = IF aborted THEN db ELSE txn
    /\ txn' = db'
    /\ aborted' = FALSE
    /\ Returns(t)
    /\ UNCHANGED <<link, main, opening, raised, errors, restarts, sound, cutShort>>

\* The connection went while COMMIT was under way: it may have been carried out.
CommitFails(t) ==
    /\ step[t] = "commit" /\ Uses(t) /\ link # "up"
    /\ step' = [step EXCEPT ![t] = "rollback"]
    /\ UNCHANGED <<db, txn, aborted, link, main, jobs, opening, raised, errors,
                   restarts, history>>

\* except: rollback, of whatever the connection then is, and raise.  (No thread the
\* loop waits for comes here once the connection is invalid: the SELECT that made it
\* so was one of the loop's, or of a task beside it, whose error ended the wait.)
Rollback(t) ==
    /\ step[t] = "rollback" /\ Uses(t)
    /\ txn' = db
    /\ aborted' = FALSE
    /\ raised' = (raised \/ (t \in Awaited /\ link # "invalid"))
    /\ step' = [step EXCEPT ![t] = "done"]
    /\ jobs' = [jobs EXCEPT ![t] = <<>>]
    /\ UNCHANGED <<db, link, main, opening, errors, restarts, history>>

\* The connection is lost, and the server ends its transaction: by the COMMIT
\* it had received from a thread, or by rolling back.
LoseLink ==
    /\ link = "up"
    /\ link' = "lost"
    /\ db' \in {db} \cup (IF ~aborted /\ \E t \in Threads : step[t] = "commit" /\ Uses(t)
                         THEN {txn} ELSE {})
    /\ txn' = db'
    /\ UNCHANGED <<aborted, main, threads, raised, errors, restarts, history>>

Next ==
    \/ UpdateAddress
    \/ \E o \in Orders : Purchase(o)
    \/ \E S \in SUBSET SideTasks : StartSideTasks(S)
    \/ Join
    \/ SelectUserFails
    \/ Abandon
    \/ CloseRollsBack \/ CloseReleases \/ CloseFails
    \/ Restart
    \/ \E o \in Orders, s \in Statuses : UpdateRead(o, s)
    \/ UpdateReadFails
    \/ \E t \in Threads :
         \/ SeesGone(t) \/ Opens(t) \/ OpenFails(t)
         \/ Execute(t) \/ ExecuteFails(t) \/ Commit(t) \/ CommitFails(t) \/ Rollback(t)
    \/ LoseLink

Spec == Init /\ [][Next]_vars

----------------------------------------------------------------------------
TypeOK ==
    /\ db \in [Keys -> Statuses \cup {"sent", None}]
    /\ txn \in [Keys -> Statuses \cup {"sent", None}]
    /\ aborted \in BOOLEAN
    /\ link \in {"up", "lost", "invalid", "stale", "closed"}
    /\ opening \in [Threads -> {None, "connect", "revalidate"}]
    /\ main \in {"purchase", "address", "joining", "side", "joined", "closing",
                 "releasing", "down"}
    /\ step \in [Threads -> {"done", "select", "execute", "commit", "rollback"}]
    /\ \A t \in Threads : Len(jobs[t]) <= 3
    /\ raised \in BOOLEAN
    /\ errors \in 0..max_consecutive_errors
    /\ restarts \in 0..MaxRestarts
    /\ sound \in BOOLEAN /\ cutShort \in BOOLEAN

Rank(s) ==
    CASE s = None -> 0 [] s = "Processing" -> 1 [] s = "Shipped" -> 2
      [] s = "Delivered" -> 3 [] s = "Cancelled" -> 4 [] s = "Returned" -> 4

\* What upsert reported as written before close() rolled back stays written, or is
\* overwritten by a later status, however the connection is lost, threads are left
\* behind and open connections over each other's, and the container restarts, as
\* long as no statement failed on a sound connection.
AckedIsDurable ==
    sound => \A k \in Keys : acked[k] # None =>
        IF k \in Orders \cup Items THEN Rank(db[k]) >= Rank(acked[k]) ELSE db[k] = acked[k]

\* An update writes the order, its items and its events in three transactions:
\* items are never committed ahead of their order, and a cancel or return event
\* never without the order's cancellation or return, however it is cut short, but
\* by close(), as long as no statement failed on a sound connection.
ItemsFollowOrder ==
    sound /\ ~cutShort => \A i \in Items : LET o == OrderOf[i] IN
        /\ db[o] # None => Rank(db[i]) <= Rank(db[o])
        /\ db[<<i, "cancel">>] = "sent" => db[o] = "Cancelled"
        /\ db[<<i, "return">>] = "sent" => db[o] = "Returned"

\* The committed status of an order only moves along the order lifecycle, one
\* move at a time, whatever statement, thread, connection or container fails.
LifecycleRespected ==
    [][\A o \in Orders : db'[o] \in {db[o]} \cup
          IF db[o] = None THEN {"Processing"} ELSE NextStatuses(db[o])]_vars
================================================================================
