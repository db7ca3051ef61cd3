----------------------------- MODULE GlobalSync -----------------------------
(***************************************************************************)
(* The synchronisation mode "global".  The trigger on the title of an      *)
(* article appends to ^globalSyncBuffer under the database lock of that    *)
(* name (triggers/global/syncBuffer.m); the plugin's tick callback tries   *)
(* the lock, copies the buffer into the local variable dummy, kills the    *)
(* buffer, releases the lock and publishes from dummy                      *)
(* (get_global_sync_buffer_data, mosquitto_plugin/plugin.cpp).             *)
(*                                                                         *)
(* A trigger runs inside the transaction of the set that fired it: what it *)
(* stores is seen by others when the transaction commits, and a commit     *)
(* whose reads are out of date runs the trigger again.  The lock is held   *)
(* until the commit or given back before it, as HeldToCommit says.  The    *)
(* plugin uses no transaction: each of its database calls is a step.  A    *)
(* process may die between two steps; the database frees its locks.  Topic *)
(* and payload are abstracted to the ordinal of the commit.                *)
(***************************************************************************)
EXTENDS Naturals, Sequences, FiniteSets

CONSTANTS
  Writers,       \* database processes that set titles
  Plugin,        \* the broker process
  NoOne,         \* the lock is free
  HeldToCommit,  \* whether a lock given back in a transaction stays held
  MaxAppends     \* bound: titles set in all

ASSUME GlobalSyncAssumption ==
  /\ Plugin \notin Writers
  /\ NoOne \notin Writers \cup {Plugin}
  /\ HeldToCommit \in BOOLEAN
  /\ MaxAppends \in Nat

VARIABLES
  root,          \* ^globalSyncBuffer, the counter (0 when it is undefined)
  children,      \* ^globalSyncBuffer(nr): the ordinal of the title there
  lock,          \* who holds the lock on ^globalSyncBuffer
  writer,        \* where each writer is in appendMessage
  nr,            \* appendMessage: the number drawn
  outdated,      \* writers whose transaction read a counter since changed
  tick,          \* where the plugin is in get_global_sync_buffer_data
  iterator,      \* the subscript its loop is at
  dummy,         \* the local variable the buffer is copied to
  published,     \* history: titles handed to mosquitto_broker_publish_copy
  appended       \* history: how many titles were committed

buffer == <<root, children>>
writing == <<writer, nr, outdated, appended>>
ticking == <<tick, iterator, dummy>>
vars == <<buffer, lock, writing, ticking, published>>

WriterStates == {"idle", "waiting", "locked", "stored", "leaving"}
TickStates == {"idle", "checked", "copying", "copied", "killed", "publishing"}

Empty == [i \in {} |-> 0]
Values(f) == {f[i] : i \in DOMAIN f}

TypeOK ==
  /\ root \in Nat
  /\ children \in [1..root -> 1..appended]
  /\ lock \in Writers \cup {Plugin, NoOne}
  /\ writer \in [Writers -> WriterStates]
  /\ nr \in [Writers -> Nat]
  /\ outdated \subseteq Writers
  /\ tick \in TickStates
  /\ iterator \in Nat
  /\ DOMAIN dummy \subseteq Nat /\ dummy \in [DOMAIN dummy -> Nat]
  /\ published \in Seq(Nat)
  /\ appended \in Nat

Init ==
  /\ root = 0 /\ children = Empty
  /\ lock = NoOne
  /\ writer = [w \in Writers |-> "idle"]
  /\ nr = [w \in Writers |-> 0]
  /\ outdated = {}
  /\ tick = "idle" /\ iterator = 0 /\ dummy = Empty
  /\ published = <<>> /\ appended = 0

-----------------------------------------------------------------------------
(* The trigger: appendMessage(dest,topic,payload)                          *)

(* A set of a title fires the trigger.                                     *)
SetTitle(w) ==
  /\ writer[w] = "idle"
  /\ appended + Cardinality({v \in Writers : writer[v] # "idle"}) < MaxAppends
  /\ writer' = [writer EXCEPT ![w] = "waiting"]
  /\ UNCHANGED <<buffer, lock, nr, outdated, appended, ticking, published>>

(* lock +@dest: waits for the lock.                                        *)
LockDest(w) ==
  /\ writer[w] = "waiting"
  /\ lock = NoOne
  /\ lock' = w
  /\ writer' = [writer EXCEPT ![w] = "locked"]
  /\ UNCHANGED <<buffer, nr, outdated, appended, ticking, published>>

(* Mutant of Store: the counter is read, not incremented.                  *)
StoreAtCounter(w) ==
  /\ writer[w] = "locked"
  /\ nr' = [nr EXCEPT ![w] = root]
  /\ outdated' = outdated \ {w}
  /\ writer' = [writer EXCEPT ![w] = "stored"]
  /\ UNCHANGED <<buffer, lock, appended, ticking, published>>

(* set nr=$INCREMENT(@dest), then merge @(dest_"("_nr_")")=dummy: seen by  *)
(* nobody before the commit.                                               *)
Store(w) ==
  /\ writer[w] = "locked"
  /\ nr' = [nr EXCEPT ![w] = root + 1]
  /\ outdated' = outdated \ {w}
  /\ writer' = [writer EXCEPT ![w] = "stored"]
  /\ UNCHANGED <<buffer, lock, appended, ticking, published>>

Release(p) == IF lock = p THEN NoOne ELSE lock

(* lock -@dest                                                             *)
UnlockDest(w) ==
  /\ writer[w] = "stored"
  /\ writer' = [writer EXCEPT ![w] = "leaving"]
  /\ lock' = IF HeldToCommit THEN lock ELSE Release(w)
  /\ UNCHANGED <<buffer, nr, outdated, appended, ticking, published>>

(* The set and its trigger take effect.                                    *)
Commit(w) ==
  /\ writer[w] = "leaving"
  /\ w \notin outdated
  /\ root' = nr[w]
  /\ appended' = appended + 1
  /\ children' = [i \in DOMAIN children \cup {nr[w]} |->
                    IF i = nr[w] THEN appended + 1 ELSE children[i]]
  /\ outdated' = Writers
  /\ lock' = Release(w)
  /\ writer' = [writer EXCEPT ![w] = "idle"]
  /\ UNCHANGED <<nr, ticking, published>>

(* The counter was read too early: the transaction runs again.             *)
Restart(w) ==
  /\ writer[w] = "leaving"
  /\ w \in outdated
  /\ lock' = Release(w)
  /\ writer' = [writer EXCEPT ![w] = "waiting"]
  /\ UNCHANGED <<buffer, nr, outdated, appended, ticking, published>>

(* The writer's process is killed inside the trigger.                      *)
WriterDies(w) ==
  /\ writer[w] # "idle"
  /\ lock' = Release(w)
  /\ writer' = [writer EXCEPT ![w] = "idle"]
  /\ UNCHANGED <<buffer, nr, outdated, appended, ticking, published>>

-----------------------------------------------------------------------------
(* The tick: get_global_sync_buffer_data()                                 *)

(* nextSibling: the first subscript of f after k.                          *)
IsNextSibling(f, k, i) ==
  /\ i \in DOMAIN f /\ k < i
  /\ \A j \in DOMAIN f : k < j => i <= j

NoNextSiblingEarly(f, k) == \A j \in DOMAIN f : j <= k + 1   \* mutant: stops one short

NoNextSibling(f, k) == \A j \in DOMAIN f : j <= k

(* hasChilds: an empty buffer ends the tick.                               *)
FindChildren ==
  /\ tick = "idle"
  /\ DOMAIN children # {}
  /\ tick' = "checked"
  /\ UNCHANGED <<buffer, lock, writing, iterator, dummy, published>>

(* Mutant of TryLock: the result of lock_inc is not looked at.             *)
TryLockUnchecked ==
  /\ tick = "checked"
  /\ lock' = IF lock = NoOne THEN Plugin ELSE lock
  /\ tick' = "copying" /\ iterator' = 0
  /\ UNCHANGED <<buffer, writing, dummy, published>>

(* lock_inc(0): does not wait ...                                          *)
TryLock ==
  /\ tick = "checked"
  /\ lock = NoOne
  /\ lock' = Plugin
  /\ tick' = "copying" /\ iterator' = 0
  /\ UNCHANGED <<buffer, writing, dummy, published>>

(* ... and a lock that is held ends the tick.                              *)
LockBusy ==
  /\ tick = "checked"
  /\ lock # NoOne
  /\ tick' = "idle"
  /\ UNCHANGED <<buffer, lock, writing, iterator, dummy, published>>

Copy ==
  /\ tick = "copying"
  /\ \E i \in DOMAIN children :
       /\ IsNextSibling(children, iterator, i)
       /\ dummy' = [j \in DOMAIN dummy \cup {i} |-> IF j = i THEN children[i] ELSE dummy[j]]
       /\ iterator' = i
  /\ UNCHANGED <<buffer, lock, writing, tick, published>>

EndCopy ==
  /\ tick = "copying"
  /\ NoNextSibling(children, iterator)
  /\ tick' = "copied"
  /\ UNCHANGED <<buffer, lock, writing, iterator, dummy, published>>

(* Mutant of KillBuffer: the children go and the counter stays.            *)
KillChildrenOnly ==
  /\ tick = "copied"
  /\ children' = Empty
  /\ outdated' = Writers
  /\ tick' = "killed"
  /\ UNCHANGED <<root, lock, writer, nr, appended, iterator, dummy, published>>

(* _globalSyncBuffer.kill(): the children and the counter.                 *)
KillBuffer ==
  /\ tick = "copied"
  /\ root' = 0 /\ children' = Empty
  /\ outdated' = Writers
  /\ tick' = "killed"
  /\ UNCHANGED <<lock, writer, nr, appended, iterator, dummy, published>>

(* Mutant of Unlock: lock_dec is missing.                                  *)
UnlockForgotten ==
  /\ tick = "killed"
  /\ tick' = "publishing" /\ iterator' = 0
  /\ UNCHANGED <<buffer, lock, writing, dummy, published>>

Unlock ==
  /\ tick = "killed"
  /\ lock' = Release(Plugin)
  /\ tick' = "publishing" /\ iterator' = 0
  /\ UNCHANGED <<buffer, writing, dummy, published>>

Publish ==
  /\ tick = "publishing"
  /\ \E i \in DOMAIN dummy :
       /\ IsNextSibling(dummy, iterator, i)
       /\ published' = Append(published, dummy[i])
       /\ iterator' = i
  /\ UNCHANGED <<buffer, lock, writing, tick, dummy>>

(* Mutant of KillDummy: dummy keeps what was published.                    *)
KillDummyForgotten ==
  /\ tick = "publishing"
  /\ NoNextSibling(dummy, iterator)
  /\ tick' = "idle"
  /\ UNCHANGED <<buffer, lock, writing, iterator, dummy, published>>

(* dummy.kill()                                                            *)
KillDummy ==
  /\ tick = "publishing"
  /\ NoNextSibling(dummy, iterator)
  /\ dummy' = Empty
  /\ tick' = "idle"
  /\ UNCHANGED <<buffer, lock, writing, iterator, published>>

(* The broker dies and is started again: dummy was its own memory.         *)
BrokerDies ==
  /\ tick # "idle"
  /\ tick' = "idle" /\ iterator' = 0 /\ dummy' = Empty
  /\ lock' = Release(Plugin)
  /\ UNCHANGED <<buffer, writing, published>>

-----------------------------------------------------------------------------
AppendMessage(w) ==
  LockDest(w) \/ Store(w) \/ UnlockDest(w) \/ Commit(w) \/ Restart(w)

Tick ==
  \/ FindChildren \/ TryLock \/ LockBusy \/ Copy \/ EndCopy
  \/ KillBuffer \/ Unlock \/ Publish \/ KillDummy

Next == Tick \/ \E w \in Writers : SetTitle(w) \/ AppendMessage(w)

Deaths == BrokerDies \/ \E w \in Writers : WriterDies(w)

Spec == Init /\ [][Next]_vars

(* Mosquitto calls the tick callback once per turn of its main loop, so a  *)
(* tick always begins again and runs on; a trigger runs on, and waits for  *)
(* the lock no longer than others hold it.  Nobody has to set a title.     *)
FairSpec == Spec /\ WF_vars(Tick) /\ \A w \in Writers : WF_vars(AppendMessage(w))

DeathSpec == Init /\ [][Next \/ Deaths]_vars

-----------------------------------------------------------------------------
Published == {published[i] : i \in DOMAIN published}

(* Every title that was committed is in the buffer, in the copy or out: it *)
(* is never in none of them, though the plugin copies and kills in two     *)
(* steps (plugin.cpp:344-350) while triggers go on committing.             *)
NothingLost ==
  1..appended \subseteq Values(children) \cup Values(dummy) \cup Published

(* Titles go out in the order of their commits and none goes out twice,    *)
(* across all ticks and whoever dies: each kill of the buffer starts its   *)
(* numbers again at 1, so that the order lies in the locking alone.        *)
PublishedInOrderOnce ==
  \A i, j \in DOMAIN published : i < j => published[i] < published[j]

(* No number is given twice while its title is in the buffer: a trigger    *)
(* about to commit draws the next number or runs again.                    *)
NumbersAreNew ==
  \A w \in Writers :
    writer[w] \in {"stored", "leaving"} /\ w \notin outdated => nr[w] \notin DOMAIN children

(* The mode implements a channel of titles: one that loses none, or, with  *)
(* deaths or a lock given back before the commit, one that may.            *)
Feed == INSTANCE TitleFeed WITH sent <- appended, MayLose <- FALSE
LossyFeed == INSTANCE TitleFeed WITH sent <- appended, MayLose <- TRUE

ImplementsTitleFeed == Feed!Spec
ImplementsLossyTitleFeed == LossyFeed!Spec

(* Once the burst of sets ends, every title is published: the plugin's try *)
(* at the lock (plugin.cpp:337) cannot fail for ever.                      *)
EventuallyPublished ==
  \A t \in 1..MaxAppends : appended >= t ~> t \in Published

(* Setting a title ends: the lock the trigger waits for becomes free, and  *)
(* a transaction that runs again is not run for ever.                      *)
TriggerReturns ==
  \A w \in Writers : writer[w] = "waiting" ~> writer[w] = "idle"
=============================================================================
