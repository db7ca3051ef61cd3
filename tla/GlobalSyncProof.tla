--------------------------- MODULE GlobalSyncProof ---------------------------
(***************************************************************************)
(* Proofs about module GlobalSync, for any number of writers and titles.   *)
(*                                                                         *)
(* First what holds whoever dies and whenever the lock is given back: the  *)
(* types and numbers (Numbered) and the order of titles through buffer,    *)
(* copy and publication (Ordered); then, for a lock that is held until the *)
(* commit and processes that live, that no title is lost (Complete).       *)
(***************************************************************************)
EXTENDS GlobalSync, TLAPS

NextOrDeath == Next \/ Deaths

(* A writer about to commit has drawn the next number, or runs again.      *)
Numbered ==
  \A w \in Writers :
    writer[w] \in {"stored", "leaving"} /\ w \notin outdated => nr[w] = root + 1

(* The empty buffer has its types.                                         *)
LEMMA TypeInit == Init => TypeOK /\ Numbered
<1> SUFFICES ASSUME Init PROVE TypeOK /\ Numbered
  OBVIOUS
<1>1. Empty \in [1..0 -> 1..0] /\ DOMAIN Empty = {}
  BY DEF Empty
<1>2. TypeOK
  BY <1>1 DEF Init, TypeOK, WriterStates, TickStates, Empty
<1>3. Numbered
  BY DEF Init, Numbered
<1> QED  BY <1>2, <1>3

(* Every step, and every death, keeps the types and the numbers.           *)
LEMMA TypeStep == TypeOK /\ Numbered /\ [NextOrDeath]_vars => TypeOK' /\ Numbered'
<1> SUFFICES ASSUME TypeOK, Numbered, [NextOrDeath]_vars
             PROVE  TypeOK' /\ Numbered'
  OBVIOUS
<1> USE DEF TypeOK, Numbered, WriterStates, TickStates, buffer, writing, ticking
<1>1. CASE UNCHANGED vars
  BY <1>1 DEF vars
<1>2. ASSUME NEW w \in Writers, SetTitle(w) PROVE TypeOK' /\ Numbered'
  BY <1>2 DEF SetTitle
<1>3. ASSUME NEW w \in Writers, LockDest(w) PROVE TypeOK' /\ Numbered'
  BY <1>3 DEF LockDest
<1>4. ASSUME NEW w \in Writers, Store(w) PROVE TypeOK' /\ Numbered'
  BY <1>4 DEF Store
<1>5. ASSUME NEW w \in Writers, UnlockDest(w) PROVE TypeOK' /\ Numbered'
  BY <1>5 DEF UnlockDest, Release
<1>6. ASSUME NEW w \in Writers, Commit(w) PROVE TypeOK' /\ Numbered'
  <2>1. root' = root + 1 /\ nr[w] = root + 1
    BY <1>6 DEF Commit
  <2>2. children' \in [1..root' -> 1..appended']
    BY <1>6, <2>1 DEF Commit
  <2>3. TypeOK'
    BY <1>6, <2>1, <2>2 DEF Commit, Release
  <2>4. Numbered'
    BY <1>6 DEF Commit
  <2> QED  BY <2>3, <2>4
<1>7. ASSUME NEW w \in Writers, Restart(w) PROVE TypeOK' /\ Numbered'
  BY <1>7 DEF Restart, Release
<1>8. ASSUME NEW w \in Writers, WriterDies(w) PROVE TypeOK' /\ Numbered'
  BY <1>8 DEF WriterDies, Release
<1>9. CASE FindChildren
  BY <1>9 DEF FindChildren
<1>10. CASE TryLock
  BY <1>10 DEF TryLock
<1>11. CASE LockBusy
  BY <1>11 DEF LockBusy
<1>12. CASE Copy
  <2>1. PICK i \in DOMAIN children :
          /\ dummy' = [j \in DOMAIN dummy \cup {i} |-> IF j = i THEN children[i] ELSE dummy[j]]
          /\ iterator' = i
    BY <1>12 DEF Copy
  <2>2. i \in Nat /\ children[i] \in Nat
    OBVIOUS
  <2>3. DOMAIN dummy' \subseteq Nat /\ dummy' \in [DOMAIN dummy' -> Nat]
    BY <2>1, <2>2
  <2> QED  BY <1>12, <2>1, <2>2, <2>3 DEF Copy
<1>13. CASE EndCopy
  BY <1>13 DEF EndCopy
<1>14. CASE KillBuffer
  <2>1. children' \in [1..0 -> 1..appended]
    BY <1>14 DEF KillBuffer, Empty
  <2> QED  BY <1>14, <2>1 DEF KillBuffer
<1>15. CASE Unlock
  BY <1>15 DEF Unlock, Release
<1>16. CASE Publish
  <2>1. PICK i \in DOMAIN dummy : published' = Append(published, dummy[i]) /\ iterator' = i
    BY <1>16 DEF Publish
  <2>2. i \in Nat /\ dummy[i] \in Nat
    OBVIOUS
  <2>3. published' \in Seq(Nat)
    BY <2>1, <2>2
  <2> QED  BY <1>16, <2>1, <2>2, <2>3 DEF Publish
<1>17. CASE KillDummy
  BY <1>17 DEF KillDummy, Empty
<1>18. CASE BrokerDies
  BY <1>18 DEF BrokerDies, Release, Empty
<1> QED
  BY <1>1, <1>2, <1>3, <1>4, <1>5, <1>6, <1>7, <1>8, <1>9, <1>10, <1>11, <1>12, <1>13,
     <1>14, <1>15, <1>16, <1>17, <1>18
     DEF NextOrDeath, Next, Deaths, Tick, AppendMessage

(* The children are numbered 1 to the counter and a writer about to        *)
(* commit has the number after it: what every later proof rests on.        *)
THEOREM NumberedInvariant == DeathSpec => [](TypeOK /\ Numbered)
<1>1. TypeOK /\ Numbered /\ [Next \/ Deaths]_vars => (TypeOK /\ Numbered)'
  BY TypeStep DEF NextOrDeath
<1> QED  BY TypeInit, <1>1, PTL DEF DeathSpec

(* The buffer, its counter and the lock are what the code takes them for,  *)
(* and the children are always numbered 1 to the counter.                  *)
THEOREM TypeCorrect == DeathSpec => []TypeOK
BY NumberedInvariant, PTL

(* No trigger overwrites a title that is still in the buffer.              *)
THEOREM NumbersCorrect == DeathSpec => []NumbersAreNew
<1>1. TypeOK /\ Numbered => NumbersAreNew
  BY DEF TypeOK, Numbered, NumbersAreNew
<1> QED  BY <1>1, NumberedInvariant, PTL

-----------------------------------------------------------------------------
(* The order of titles                                                     *)

Increasing(f) == \A i, j \in DOMAIN f : i < j => f[i] < f[j]
Before(f, g) == \A i \in DOMAIN f, j \in DOMAIN g : f[i] < g[j]

(* A copy in the making agrees with the buffer; one whose buffer is killed *)
(* lies between what is published and what came into the buffer since.     *)
Ordered ==
  /\ Increasing(children) /\ Increasing(dummy) /\ Increasing(published)
  /\ \A i \in DOMAIN published : published[i] \in 1..appended
  /\ \A i \in DOMAIN dummy : i > 0 /\ dummy[i] \in 1..appended
  /\ Before(published, children)
  /\ tick \in {"idle", "checked"} => DOMAIN dummy = {}
  /\ tick \in {"copying", "copied"} =>
       \A i \in DOMAIN dummy : i <= iterator /\ i \in 1..root /\ dummy[i] = children[i]
  /\ tick \in {"killed", "publishing"} => Before(dummy, children)
  /\ tick = "killed" => Before(published, dummy)
  /\ tick = "publishing" =>
       \A i \in DOMAIN published, j \in DOMAIN dummy : j > iterator => published[i] < dummy[j]

(* The empty buffer is in order.                                           *)
LEMMA OrderedInit == Init => Ordered
BY DEF Init, Ordered, Increasing, Before, Empty

(* Every step and every death keeps the order of the titles.               *)
LEMMA OrderedStep == TypeOK /\ Numbered /\ Ordered /\ [NextOrDeath]_vars => Ordered'
<1> SUFFICES ASSUME TypeOK, Numbered, Ordered, [NextOrDeath]_vars PROVE Ordered'
  OBVIOUS
<1> USE DEF Increasing, Before, buffer, writing, ticking
<1>0. /\ DOMAIN children = 1..root /\ root \in Nat /\ appended \in Nat /\ iterator \in Nat
      /\ \A i \in DOMAIN children : children[i] \in 1..appended
      /\ \A i \in DOMAIN dummy : i \in Nat /\ dummy[i] \in Nat
      /\ published \in Seq(Nat)
      /\ DOMAIN published = 1..Len(published)
      /\ \A i \in DOMAIN published : published[i] \in Nat
  BY DEF TypeOK
<1>1. CASE UNCHANGED vars
  BY <1>1 DEF vars, Ordered
<1>2. ASSUME NEW w \in Writers,
             SetTitle(w) \/ LockDest(w) \/ Store(w) \/ UnlockDest(w) \/ Restart(w) \/ WriterDies(w)
      PROVE  Ordered'
  <2>1. UNCHANGED <<root, children, tick, iterator, dummy, published, appended>>
    BY <1>2 DEF SetTitle, LockDest, Store, UnlockDest, Restart, WriterDies
  <2> QED  BY <2>1 DEF Ordered
<1>3. ASSUME NEW w \in Writers, Commit(w) PROVE Ordered'
  <2>1. /\ root' = root + 1 /\ appended' = appended + 1
        /\ children' = [i \in 1..(root + 1) |->
                          IF i = root + 1 THEN appended + 1 ELSE children[i]]
        /\ UNCHANGED <<tick, iterator, dummy, published>>
    BY <1>0, <1>3 DEF Commit, Numbered
  <2>2. Increasing(children')
    BY <1>0, <2>1 DEF Ordered
  <2>3. Before(published, children')
    <3>1. /\ Before(published, children)
          /\ \A i \in DOMAIN published : published[i] \in 1..appended
      BY DEF Ordered
    <3>2. SUFFICES ASSUME NEW i \in DOMAIN published, NEW j \in 1..(root + 1)
                   PROVE  published[i] < children'[j]
      BY <2>1
    <3>3. CASE j = root + 1
      BY <1>0, <2>1, <3>1, <3>3
    <3>4. CASE j # root + 1
      <4>1. j \in DOMAIN children /\ children'[j] = children[j]
        BY <1>0, <2>1, <3>4
      <4> QED  BY <3>1, <4>1
    <3> QED  BY <3>3, <3>4
  <2>4. Before(dummy, children) => Before(dummy, children')
    <3>1. \A i \in DOMAIN dummy : dummy[i] \in 1..appended
      BY DEF Ordered
    <3>2. SUFFICES ASSUME Before(dummy, children), NEW i \in DOMAIN dummy, NEW j \in 1..(root + 1)
                   PROVE  dummy[i] < children'[j]
      BY <2>1
    <3>3. CASE j = root + 1
      BY <1>0, <2>1, <3>1, <3>3
    <3>4. CASE j # root + 1
      <4>1. j \in DOMAIN children /\ children'[j] = children[j]
        BY <1>0, <2>1, <3>4
      <4> QED  BY <3>2, <4>1
    <3> QED  BY <3>3, <3>4
  <2>5. /\ \A i \in DOMAIN published : published[i] \in 1..appended'
        /\ \A i \in DOMAIN dummy : i > 0 /\ dummy[i] \in 1..appended'
    BY <1>0, <2>1 DEF Ordered
  <2>6. tick \in {"copying", "copied"} =>
          \A i \in DOMAIN dummy : i <= iterator /\ i \in 1..root' /\ dummy[i] = children'[i]
    BY <1>0, <2>1 DEF Ordered
  <2> QED  BY <2>1, <2>2, <2>3, <2>4, <2>5, <2>6 DEF Ordered
<1>4. CASE FindChildren
  BY <1>4 DEF FindChildren, Ordered
<1>5. CASE TryLock
  BY <1>5 DEF TryLock, Ordered
<1>6. CASE LockBusy
  BY <1>6 DEF LockBusy, Ordered
<1>7. CASE Copy
  <2>1. PICK i \in DOMAIN children :
          /\ IsNextSibling(children, iterator, i)
          /\ dummy' = [j \in DOMAIN dummy \cup {i} |-> IF j = i THEN children[i] ELSE dummy[j]]
          /\ iterator' = i
    BY <1>7 DEF Copy
  <2>2. tick = "copying" /\ UNCHANGED <<root, children, published, appended, tick>>
    BY <1>7 DEF Copy
  <2>3. iterator < i /\ i \in 1..root
    BY <1>0, <2>1 DEF IsNextSibling
  <2>4. \A j \in DOMAIN dummy' : j <= i /\ j \in 1..root /\ dummy'[j] = children[j]
    BY <1>0, <2>1, <2>2, <2>3 DEF Ordered
  <2>5. Increasing(dummy')
    BY <1>0, <2>2, <2>4 DEF Ordered
  <2>6. \A j \in DOMAIN dummy' : j > 0 /\ dummy'[j] \in 1..appended
    BY <1>0, <2>4
  <2> QED  BY <2>1, <2>2, <2>4, <2>5, <2>6 DEF Ordered
<1>8. CASE EndCopy
  BY <1>8 DEF EndCopy, Ordered
<1>9. CASE KillBuffer
  <2>1. /\ tick = "copied" /\ tick' = "killed" /\ DOMAIN children' = {}
        /\ UNCHANGED <<iterator, dummy, published, appended>>
    BY <1>9 DEF KillBuffer, Empty
  <2>2. Before(published, dummy)
    BY <1>0, <2>1 DEF Ordered
  <2> QED  BY <2>1, <2>2 DEF Ordered
<1>10. CASE Unlock
  BY <1>10 DEF Unlock, Ordered
<1>11. CASE Publish
  <2>1. PICK i \in DOMAIN dummy :
          /\ IsNextSibling(dummy, iterator, i)
          /\ published' = Append(published, dummy[i])
          /\ iterator' = i
    BY <1>11 DEF Publish
  <2>2. tick = "publishing" /\ UNCHANGED <<root, children, dummy, appended, tick>>
    BY <1>11 DEF Publish
  <2>3. /\ DOMAIN published' = 1..(Len(published) + 1)
        /\ \A j \in DOMAIN published : published'[j] = published[j]
        /\ published'[Len(published) + 1] = dummy[i]
    BY <1>0, <2>1
  <2>4. iterator < i /\ i \in Nat /\ dummy[i] \in Nat
    BY <1>0, <2>1 DEF IsNextSibling
  <2>5. \A j \in DOMAIN published : published[j] < dummy[i]
    BY <2>2, <2>4 DEF Ordered
  <2>6. Increasing(published')
    <3>1. Increasing(published)
      BY DEF Ordered
    <3>2. SUFFICES ASSUME NEW j \in DOMAIN published', NEW k \in DOMAIN published', j < k
                   PROVE  published'[j] < published'[k]
      OBVIOUS
    <3>3. j \in DOMAIN published
      BY <1>0, <2>3, <3>2
    <3>4. CASE k \in DOMAIN published
      BY <2>3, <3>1, <3>2, <3>3, <3>4
    <3>5. CASE k = Len(published) + 1
      BY <2>3, <2>5, <3>3, <3>5
    <3> QED  BY <1>0, <2>3, <3>4, <3>5
  <2>7. \A j \in DOMAIN published' : published'[j] \in 1..appended
    BY <1>0, <2>3 DEF Ordered
  <2>8. Before(published', children)
    <3>1. Before(published, children) /\ Before(dummy, children)
      BY <2>2 DEF Ordered
    <3>2. SUFFICES ASSUME NEW j \in DOMAIN published', NEW k \in DOMAIN children
                   PROVE  published'[j] < children[k]
      OBVIOUS
    <3>3. CASE j \in DOMAIN published
      BY <2>3, <3>1, <3>3
    <3>4. CASE j = Len(published) + 1
      BY <2>3, <3>1, <3>4
    <3> QED  BY <1>0, <2>3, <3>3, <3>4
  <2>9. ASSUME NEW k \in DOMAIN published', NEW j \in DOMAIN dummy, j > i
        PROVE  published'[k] < dummy[j]
    <3>1. dummy[i] < dummy[j] /\ j > iterator
      BY <1>0, <2>4, <2>9 DEF Ordered
    <3>2. CASE k \in DOMAIN published
      BY <2>2, <2>3, <3>1, <3>2 DEF Ordered
    <3>3. CASE k = Len(published) + 1
      BY <2>3, <3>1, <3>3
    <3> QED  BY <1>0, <2>3, <3>2, <3>3
  <2> QED  BY <2>1, <2>2, <2>6, <2>7, <2>8, <2>9 DEF Ordered
<1>12. CASE KillDummy
  BY <1>12 DEF KillDummy, Empty, Ordered
<1>13. CASE BrokerDies
  BY <1>13 DEF BrokerDies, Empty, Ordered
<1> QED
  BY <1>1, <1>2, <1>3, <1>4, <1>5, <1>6, <1>7, <1>8, <1>9, <1>10, <1>11, <1>12, <1>13
     DEF NextOrDeath, Next, Deaths, Tick, AppendMessage

(* Titles are in order through buffer, copy and publication: the           *)
(* inductive invariant behind OrderCorrect and LossyFeedCorrect.           *)
THEOREM OrderedInvariant == DeathSpec => [](TypeOK /\ Numbered /\ Ordered)
<1>1. TypeOK /\ Numbered /\ Ordered /\ [Next \/ Deaths]_vars => Ordered'
  BY OrderedStep DEF NextOrDeath
<1> QED  BY OrderedInit, <1>1, NumberedInvariant, PTL DEF DeathSpec

(* Titles are published in the order of their commits and none twice,      *)
(* whoever dies and whether or not the lock is held until the commit.      *)
THEOREM OrderCorrect == DeathSpec => []PublishedInOrderOnce
<1>1. Ordered => PublishedInOrderOnce
  BY DEF Ordered, Increasing, PublishedInOrderOnce
<1> QED  BY <1>1, OrderedInvariant, PTL

(* What is published is published as by a channel that may lose titles.    *)
THEOREM LossyFeedCorrect == DeathSpec => ImplementsLossyTitleFeed
<1>1. Init => LossyFeed!Init
  BY DEF Init, LossyFeed!Init
<1>2. TypeOK /\ Ordered /\ [Next \/ Deaths]_vars => [LossyFeed!Next]_(LossyFeed!vars)
  <2> SUFFICES ASSUME TypeOK, Ordered, [Next \/ Deaths]_vars
               PROVE  [LossyFeed!Next]_(LossyFeed!vars)
    OBVIOUS
  <2> USE DEF buffer, writing, ticking, LossyFeed!vars
  <2>1. ASSUME NEW w \in Writers, Commit(w) PROVE LossyFeed!Send
    BY <2>1 DEF Commit, LossyFeed!Send
  <2>2. CASE Publish
    <3>1. PICK i \in DOMAIN dummy :
            IsNextSibling(dummy, iterator, i) /\ published' = Append(published, dummy[i])
      BY <2>2 DEF Publish
    <3>2. tick = "publishing" /\ appended' = appended
      BY <2>2 DEF Publish
    <3>3. /\ dummy[i] \in 1..appended
          /\ \A j \in DOMAIN published : published[j] < dummy[i]
      BY <3>1, <3>2 DEF Ordered, IsNextSibling, TypeOK
    <3> QED  BY <3>1, <3>2, <3>3 DEF LossyFeed!Publish, LossyFeed!Next
  <2>3. ASSUME ~Publish, \A w \in Writers : ~Commit(w)
        PROVE  UNCHANGED <<appended, published>>
    BY <2>3 DEF vars, Next, Deaths, Tick, AppendMessage, SetTitle, LockDest, Store, UnlockDest,
                Restart, WriterDies, FindChildren, TryLock, LockBusy, Copy, EndCopy, KillBuffer,
                Unlock, KillDummy, BrokerDies
  <2> QED  BY <2>1, <2>2, <2>3 DEF LossyFeed!Next
<1> QED  BY <1>1, <1>2, OrderedInvariant, PTL DEF DeathSpec, LossyFeed!Spec, ImplementsLossyTitleFeed

-----------------------------------------------------------------------------
(* Completeness                                                            *)

(* Who is where the lock is needed has it.                                 *)
Locks ==
  /\ \A w \in Writers :
       writer[w] \in {"locked", "stored"} \/ (HeldToCommit /\ writer[w] = "leaving") => lock = w
  /\ tick \in {"copying", "copied", "killed"} => lock = Plugin

(* At the start nobody needs the lock.                                     *)
LEMMA LocksInit == Init => Locks
BY DEF Init, Locks

(* Nobody but its holder gives the lock away, whoever dies.                *)
LEMMA LocksStep == TypeOK /\ Locks /\ [NextOrDeath]_vars => Locks'
<1> SUFFICES ASSUME TypeOK, Locks, [NextOrDeath]_vars PROVE Locks'
  OBVIOUS
<1> USE GlobalSyncAssumption DEF TypeOK, Locks, WriterStates, buffer, writing, ticking, Release
<1>1. CASE UNCHANGED vars
  BY <1>1 DEF vars
<1>2. ASSUME NEW w \in Writers, SetTitle(w) PROVE Locks'
  BY <1>2 DEF SetTitle
<1>3. ASSUME NEW w \in Writers, LockDest(w) PROVE Locks'
  BY <1>3 DEF LockDest
<1>4. ASSUME NEW w \in Writers, Store(w) PROVE Locks'
  BY <1>4 DEF Store
<1>5. ASSUME NEW w \in Writers, UnlockDest(w) PROVE Locks'
  BY <1>5 DEF UnlockDest
<1>6. ASSUME NEW w \in Writers, Commit(w) PROVE Locks'
  BY <1>6 DEF Commit
<1>7. ASSUME NEW w \in Writers, Restart(w) PROVE Locks'
  BY <1>7 DEF Restart
<1>8. ASSUME NEW w \in Writers, WriterDies(w) PROVE Locks'
  BY <1>8 DEF WriterDies
<1>9. CASE FindChildren \/ LockBusy \/ Copy \/ EndCopy \/ KillBuffer \/ Publish \/ KillDummy
  BY <1>9 DEF FindChildren, LockBusy, Copy, EndCopy, KillBuffer, Publish, KillDummy
<1>10. CASE TryLock
  BY <1>10 DEF TryLock
<1>11. CASE Unlock
  BY <1>11 DEF Unlock
<1>12. CASE BrokerDies
  BY <1>12 DEF BrokerDies
<1> QED
  BY <1>1, <1>2, <1>3, <1>4, <1>5, <1>6, <1>7, <1>8, <1>9, <1>10, <1>11, <1>12
     DEF NextOrDeath, Next, Deaths, Tick, AppendMessage

Holds(f, t) == \E i \in DOMAIN f : f[i] = t
Somewhere(t) == Holds(children, t) \/ Holds(dummy, t) \/ Holds(published, t)

(* Every title is somewhere; the copy has all of the buffer before the     *)
(* buffer is killed, and all of the copy is out before it is.              *)
Complete ==
  /\ \A t \in 1..appended : Somewhere(t)
  /\ \A i \in DOMAIN published : published[i] = i
  /\ tick = "copying" => \A i \in 1..root : i <= iterator => i \in DOMAIN dummy
  /\ tick = "copied" => \A i \in 1..root : i \in DOMAIN dummy
  /\ tick = "publishing" =>
       \A i \in DOMAIN dummy : i <= iterator => Holds(published, dummy[i])

(* At the start there is no title to lose.                                 *)
LEMMA CompleteInit == Init => Complete
BY DEF Init, Complete

(* No step loses a title while the lock is held until the commit.          *)
LEMMA CompleteStep ==
  ASSUME HeldToCommit, TypeOK, Numbered, Ordered, Locks, Complete, [Next]_vars
  PROVE  Complete'
<1> USE DEF buffer, writing, ticking
<1>0. /\ DOMAIN children = 1..root /\ root \in Nat /\ appended \in Nat /\ iterator \in Nat
      /\ \A i \in DOMAIN dummy : i \in Nat /\ i > 0 /\ dummy[i] \in Nat
      /\ published \in Seq(Nat)
      /\ DOMAIN published = 1..Len(published)
  BY DEF TypeOK, Ordered
<1>1. CASE UNCHANGED vars
  BY <1>1 DEF vars, Complete, Somewhere, Holds
<1>2. ASSUME NEW w \in Writers,
             SetTitle(w) \/ LockDest(w) \/ Store(w) \/ UnlockDest(w) \/ Restart(w)
      PROVE  Complete'
  <2>1. UNCHANGED <<root, children, tick, iterator, dummy, published, appended>>
    BY <1>2 DEF SetTitle, LockDest, Store, UnlockDest, Restart
  <2> QED  BY <2>1 DEF Complete, Somewhere, Holds
<1>3. ASSUME NEW w \in Writers, Commit(w) PROVE Complete'
  <2>1. /\ root' = root + 1 /\ appended' = appended + 1
        /\ children' = [i \in 1..(root + 1) |->
                          IF i = root + 1 THEN appended + 1 ELSE children[i]]
        /\ UNCHANGED <<tick, iterator, dummy, published>>
    BY <1>0, <1>3 DEF Commit, Numbered
  <2>2. tick \notin {"copying", "copied", "killed"}
    BY <1>3, GlobalSyncAssumption DEF Commit, Locks
  <2>3. ASSUME NEW t \in 1..(appended + 1) PROVE Somewhere(t)'
    <3>1. CASE t = appended + 1
      <4>1. root + 1 \in DOMAIN children' /\ children'[root + 1] = t
        BY <1>0, <2>1, <3>1
      <4> QED  BY <4>1 DEF Somewhere, Holds
    <3>2. CASE t # appended + 1
      <4>1. Somewhere(t)
        BY <1>0, <3>2 DEF Complete
      <4>2. Holds(children, t) => Holds(children, t)'
        BY <1>0, <2>1 DEF Holds
      <4> QED  BY <2>1, <4>1, <4>2 DEF Somewhere, Holds
    <3> QED  BY <3>1, <3>2
  <2> QED  BY <2>1, <2>2, <2>3 DEF Complete, Holds
<1>4. CASE FindChildren
  BY <1>4 DEF FindChildren, Complete, Somewhere, Holds
<1>5. CASE TryLock
  <2>1. tick' = "copying" /\ iterator' = 0 /\ UNCHANGED <<root, children, dummy, published, appended>>
    BY <1>5 DEF TryLock
  <2> QED  BY <1>0, <2>1 DEF Complete, Somewhere, Holds
<1>6. CASE LockBusy
  BY <1>6 DEF LockBusy, Complete, Somewhere, Holds
<1>7. CASE Copy
  <2>1. PICK i \in DOMAIN children :
          /\ IsNextSibling(children, iterator, i)
          /\ dummy' = [j \in DOMAIN dummy \cup {i} |-> IF j = i THEN children[i] ELSE dummy[j]]
          /\ iterator' = i
    BY <1>7 DEF Copy
  <2>2. tick = "copying" /\ UNCHANGED <<root, children, published, appended, tick>>
    BY <1>7 DEF Copy
  <2>3. ASSUME NEW t, Holds(dummy, t) PROVE Holds(dummy', t)
    <3>1. PICK j \in DOMAIN dummy : dummy[j] = t
      BY <2>3 DEF Holds
    <3>2. j \in DOMAIN dummy' /\ dummy'[j] = t
      <4>1. dummy[j] = children[j]
        BY <2>2 DEF Ordered
      <4> QED  BY <2>1, <3>1, <4>1
    <3> QED  BY <3>2 DEF Holds
  <2>4. \A t \in 1..appended : Somewhere(t)'
    BY <2>2, <2>3 DEF Complete, Somewhere, Holds
  <2>5. \A j \in 1..root : j <= i => j \in DOMAIN dummy'
    <3> SUFFICES ASSUME NEW j \in 1..root, j <= i PROVE j \in DOMAIN dummy'
      OBVIOUS
    <3>1. j <= iterator \/ j = i
      <4>1. iterator < j => i <= j
        BY <1>0, <2>1, SMTT(30) DEF IsNextSibling
      <4>2. i \in Nat /\ j \in Nat /\ iterator \in Nat
        BY <1>0
      <4> QED  BY <4>1, <4>2
    <3>2. j <= iterator => j \in DOMAIN dummy
      BY <2>2 DEF Complete
    <3>3. DOMAIN dummy' = DOMAIN dummy \cup {i}
      BY <2>1
    <3> QED  BY <3>1, <3>2, <3>3
  <2> QED  BY <2>1, <2>2, <2>4, <2>5 DEF Complete
<1>8. CASE EndCopy
  <2>1. /\ tick = "copying" /\ tick' = "copied"
        /\ UNCHANGED <<root, children, iterator, dummy, published, appended>>
        /\ \A i \in 1..root : i <= iterator
    BY <1>0, <1>8 DEF EndCopy, NoNextSibling
  <2> QED  BY <2>1 DEF Complete, Somewhere, Holds
<1>9. CASE KillBuffer
  <2>1. /\ tick = "copied" /\ tick' = "killed"
        /\ UNCHANGED <<iterator, dummy, published, appended>>
    BY <1>9 DEF KillBuffer
  <2>2. ASSUME NEW t, Holds(children, t) PROVE Holds(dummy, t)
    <3>1. PICK i \in 1..root : children[i] = t
      BY <1>0, <2>2 DEF Holds
    <3>2. i \in DOMAIN dummy /\ dummy[i] = children[i]
      BY <2>1, <3>1 DEF Complete, Ordered
    <3> QED  BY <3>1, <3>2 DEF Holds
  <2> QED  BY <2>1, <2>2 DEF Complete, Somewhere, Holds
<1>10. CASE Unlock
  <2>1. /\ tick' = "publishing" /\ iterator' = 0
        /\ UNCHANGED <<root, children, dummy, published, appended>>
    BY <1>10 DEF Unlock
  <2>2. \A i \in DOMAIN dummy : ~(i <= 0)
    BY <1>0
  <2> QED  BY <2>1, <2>2 DEF Complete, Somewhere, Holds
<1>11. CASE Publish
  <2>1. PICK i \in DOMAIN dummy :
          /\ IsNextSibling(dummy, iterator, i)
          /\ published' = Append(published, dummy[i])
          /\ iterator' = i
    BY <1>11 DEF Publish
  <2>2. tick = "publishing" /\ UNCHANGED <<root, children, dummy, appended, tick>>
    BY <1>11 DEF Publish
  <2>3. /\ DOMAIN published' = 1..(Len(published) + 1)
        /\ \A j \in DOMAIN published : published'[j] = published[j]
        /\ published'[Len(published) + 1] = dummy[i]
    BY <1>0, <2>1
  <2>4. \A t : Holds(published, t) => Holds(published', t)
    BY <1>0, <2>3 DEF Holds
  <2>5. Holds(published', dummy[i])
    BY <1>0, <2>3 DEF Holds
  <2>6. \A j \in DOMAIN dummy : j <= i => Holds(published', dummy[j])
    <3> SUFFICES ASSUME NEW j \in DOMAIN dummy, j <= i PROVE Holds(published', dummy[j])
      OBVIOUS
    <3>1. j <= iterator \/ j = i
      BY <1>0, <2>1 DEF IsNextSibling
    <3> QED  BY <2>2, <2>4, <2>5, <3>1 DEF Complete
  <2>7. dummy[i] = Len(published) + 1
    <3>1. dummy[i] \in 1..appended /\ Increasing(dummy) /\ Before(dummy, children)
      BY <2>2 DEF Ordered
    <3>2. \A t \in 1..(dummy[i] - 1) : Holds(published, t)
      <4> SUFFICES ASSUME NEW t \in 1..(dummy[i] - 1) PROVE Holds(published, t)
        OBVIOUS
      <4>1. Somewhere(t) /\ t < dummy[i]
        BY <1>0, <3>1 DEF Complete
      <4>2. ~Holds(children, t)
        <5> SUFFICES ASSUME NEW j \in DOMAIN children, children[j] = t PROVE FALSE
          BY DEF Holds
        <5>1. dummy[i] < children[j]
          BY <3>1 DEF Before
        <5> QED  BY <1>0, <4>1, <5>1
      <4>3. ASSUME NEW j \in DOMAIN dummy, dummy[j] = t PROVE Holds(published, t)
        <5>1. j < i
          BY <1>0, <3>1, <4>1, <4>3 DEF Increasing
        <5>2. j <= iterator
          BY <1>0, <2>1, <5>1 DEF IsNextSibling
        <5> QED  BY <2>2, <4>3, <5>2 DEF Complete
      <4> QED  BY <4>1, <4>2, <4>3 DEF Somewhere, Holds
    <3>3. \A j \in DOMAIN published : published[j] = j /\ j < dummy[i]
      <4>1. i > iterator
        BY <1>0, <2>1 DEF IsNextSibling
      <4>2. \A j \in DOMAIN published : published[j] < dummy[i]
        BY <2>2, <4>1 DEF Ordered
      <4>3. \A j \in DOMAIN published : published[j] = j
        BY DEF Complete
      <4> QED  BY <4>2, <4>3
    <3>4. \A t \in 1..(dummy[i] - 1) : t \in 1..Len(published)
      BY <1>0, <3>2, <3>3 DEF Holds
    <3>5. dummy[i] - 1 <= Len(published)
      BY <1>0, <3>1, <3>4
    <3>6. Len(published) < dummy[i]
      BY <1>0, <3>1, <3>3
    <3> QED  BY <1>0, <3>1, <3>5, <3>6
  <2>8. \A j \in DOMAIN published' : published'[j] = j
    BY <1>0, <2>3, <2>7 DEF Complete
  <2>9. \A t \in 1..appended : Somewhere(t)'
    BY <2>2, <2>4 DEF Complete, Somewhere, Holds
  <2> QED  BY <2>1, <2>2, <2>6, <2>8, <2>9 DEF Complete, Holds
<1>12. CASE KillDummy
  <2>1. /\ tick = "publishing" /\ tick' = "idle"
        /\ UNCHANGED <<root, children, published, appended>>
        /\ \A i \in DOMAIN dummy : i <= iterator
    BY <1>12 DEF KillDummy, NoNextSibling
  <2>2. ASSUME NEW t, Holds(dummy, t) PROVE Holds(published, t)
    BY <2>1, <2>2 DEF Complete, Holds
  <2> QED  BY <2>1, <2>2 DEF Complete, Somewhere, Holds
<1> QED
  BY <1>1, <1>2, <1>3, <1>4, <1>5, <1>6, <1>7, <1>8, <1>9, <1>10, <1>11, <1>12
     DEF Next, Tick, AppendMessage
-----------------------------------------------------------------------------
(* The whole inductive invariant, for a lock held until the commit.        *)
LEMMA CompleteInvariant ==
  ASSUME HeldToCommit
  PROVE  Spec => [](TypeOK /\ Numbered /\ Ordered /\ Locks /\ Complete)
<1>1. [Next]_vars => [NextOrDeath]_vars
  BY DEF NextOrDeath
<1>2. Init => TypeOK /\ Numbered /\ Ordered /\ Locks /\ Complete
  BY TypeInit, OrderedInit, LocksInit, CompleteInit
<1>3. TypeOK /\ Numbered /\ Ordered /\ Locks /\ Complete /\ [Next]_vars
        => TypeOK' /\ Numbered' /\ Ordered' /\ Locks' /\ Complete'
  BY <1>1, TypeStep, OrderedStep, LocksStep, CompleteStep
<1> QED  BY <1>2, <1>3, PTL DEF Spec

(* No committed title is lost between buffer, copy and publication, if the *)
(* trigger's lock is held until its transaction commits and no process     *)
(* dies.                                                                   *)
THEOREM NoLoss ==
  ASSUME HeldToCommit
  PROVE  Spec => []NothingLost
<1>1. TypeOK /\ Complete => NothingLost
  BY DEF TypeOK, Complete, Somewhere, Holds, NothingLost, Values, Published
<1> QED  BY <1>1, CompleteInvariant, PTL

(* Under the same assumption the mode is a channel that loses nothing: the *)
(* title published next is always the one after the last.                  *)
THEOREM FeedCorrect ==
  ASSUME HeldToCommit
  PROVE  Spec => ImplementsTitleFeed
<1>1. Init => Feed!Init
  BY DEF Init, Feed!Init
<1>2. /\ TypeOK /\ Numbered /\ Ordered /\ Locks /\ Complete
      /\ TypeOK' /\ Complete' /\ [Next]_vars
      => [Feed!Next]_(Feed!vars)
  <2> SUFFICES ASSUME TypeOK, Ordered, TypeOK', Complete', [Next]_vars
               PROVE  [Feed!Next]_(Feed!vars)
    OBVIOUS
  <2> USE DEF buffer, writing, ticking, Feed!vars
  <2>1. ASSUME NEW w \in Writers, Commit(w) PROVE Feed!Send
    BY <2>1 DEF Commit, Feed!Send
  <2>2. CASE Publish
    <3>1. PICK i \in DOMAIN dummy :
            IsNextSibling(dummy, iterator, i) /\ published' = Append(published, dummy[i])
      BY <2>2 DEF Publish
    <3>2. tick = "publishing" /\ appended' = appended
      BY <2>2 DEF Publish
    <3>3. /\ dummy[i] \in 1..appended
          /\ \A j \in DOMAIN published : published[j] < dummy[i]
      BY <3>1, <3>2 DEF Ordered, IsNextSibling, TypeOK
    <3>4. /\ Len(published) + 1 \in DOMAIN published'
          /\ published'[Len(published) + 1] = dummy[i]
      BY <3>1 DEF TypeOK
    <3>5. dummy[i] = Len(published) + 1
      BY <3>4 DEF Complete
    <3> QED  BY <3>1, <3>2, <3>3, <3>5 DEF Feed!Publish, Feed!Next
  <2>3. ASSUME ~Publish, \A w \in Writers : ~Commit(w)
        PROVE  UNCHANGED <<appended, published>>
    BY <2>3 DEF vars, Next, Tick, AppendMessage, SetTitle, LockDest, Store, UnlockDest,
                Restart, FindChildren, TryLock, LockBusy, Copy, EndCopy, KillBuffer,
                Unlock, KillDummy
  <2> QED  BY <2>1, <2>2, <2>3 DEF Feed!Next
<1> QED  BY <1>1, <1>2, CompleteInvariant, PTL DEF Spec, Feed!Spec, ImplementsTitleFeed
=============================================================================
