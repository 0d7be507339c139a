------------------------- MODULE SubscriptionsProofs -------------------------
(***************************************************************************)
(* Proofs about Subscriptions, for any number of calls, keys, drops and    *)
(* data losses.  The argument for the streams: IBKR serves an open stream, *)
(* or something that is still to run will re-request it (SeenTo), since a  *)
(* pass leaves nothing between what it has done and what is left of its    *)
(* copy (GoOnSplits).                                                      *)
(***************************************************************************)
EXTENDS Subscriptions, FiniteSetTheorems, TLAPS

Inductive == IInv /\ LeaksOnlyByReRequest

-----------------------------------------------------------------------------
(* Helpers *)

\* Calls can be counted.
LEMMA CallersCount ==
    ASSUME NEW S \in SUBSET Caller
    PROVE  IsFiniteSet(S) /\ Cardinality(S) \in Nat
  BY RegistryAssumption, FS_Subset, FS_CardinalityType

\* What is registered is not being opened.
LEMMA Apart ==
    ASSUME TypeOK, OpenedOnce
    PROVE  /\ Registered \in SUBSET Caller /\ Opening \in SUBSET Caller
           /\ Registered \cap Opening = {}
           /\ at \notin Opening /\ None \notin Caller /\ None \notin Key
  BY RegistryAssumption DEF TypeOK, OpenedOnce, Opening, Registered

\* What forgetting does to the tables.
LEMMA ForgetTables ==
    ASSUME TypeOK, OneStreamPerKey, OpenedOnce, NEW S \in SUBSET Registered, Forget(S),
           UNCHANGED key
    PROVE  /\ Registered' = Registered \ S
           /\ ids' \in Nat /\ entries' \in [Registered' -> 1..ids']
           /\ index' \in [Key -> Caller \cup {None}]
           /\ \A k \in Key : index'[k] # None => index'[k] \in Registered' /\ key[index'[k]] = k
           /\ \A c \in Registered' : index'[key[c]] = c
           /\ \A k \in Key : index[k] = None => index'[k] = None
           /\ IsInjective(entries')
  <1>1. /\ entries' = [c \in Registered \ S |-> entries[c]] /\ ids' = ids
        /\ index' = [k \in Key |-> IF \E c \in S : key[c] = k THEN None ELSE index[k]]
    BY DEF Forget, Restrict
  <1>2. /\ Registered' = Registered \ S
        /\ entries' \in [Registered' -> 1..ids'] /\ ids' \in Nat
    BY <1>1 DEF Registered, TypeOK
  <1>3. \A c \in Registered : c \in Caller /\ key[c] \in Key /\ index[key[c]] = c
    BY DEF TypeOK, OneStreamPerKey, OpenedOnce
  <1>4. index' \in [Key -> Caller \cup {None}]
    BY <1>1 DEF TypeOK
  <1>5. \A k \in Key : index'[k] # None => index'[k] \in Registered' /\ key[index'[k]] = k
    BY <1>1, <1>2, <1>3 DEF OneStreamPerKey
  <1>6. \A c \in Registered' : index'[key[c]] = c
    BY <1>1, <1>2, <1>3
  <1>7. IsInjective(entries')
    BY <1>1, <1>2 DEF OneStreamPerKey, IsInjective, Registered
  <1> QED BY <1>1, <1>2, <1>4, <1>5, <1>6, <1>7

\* With no more registered or being opened, the caps still hold.
LEMMA CapsShrink ==
    ASSUME TypeOK, CapsHold, Registered' \subseteq Registered, Opening' \subseteq Opening,
           UNCHANGED key
    PROVE  CapsHold'
  <1> DEFINE kind == {c \in Registered \cup Opening : key[c] \in Capped}
             kindNow == {c \in Registered' \cup Opening' : key[c] \in Capped}
  <1>1. /\ Registered \in SUBSET Caller /\ Opening \in SUBSET Caller
        /\ Registered' \in SUBSET Caller /\ Opening' \in SUBSET Caller
        /\ kind \in SUBSET Caller /\ kindNow \in SUBSET Caller /\ kindNow \subseteq kind
    BY DEF TypeOK, Opening
  <1> HIDE DEF kind, kindNow
  <1>2. /\ Cardinality(Registered') <= Cardinality(Registered)
        /\ Cardinality(Opening') <= Cardinality(Opening)
        /\ Cardinality(kindNow) <= Cardinality(kind)
    BY <1>1, CallersCount, FS_Subset
  <1>3. /\ Cardinality(Registered) \in Nat /\ Cardinality(Registered') \in Nat
        /\ Cardinality(Opening) \in Nat /\ Cardinality(Opening') \in Nat
        /\ Cardinality(kind) \in Nat /\ Cardinality(kindNow) \in Nat
    BY <1>1, CallersCount
  <1>4. /\ Cardinality(Registered) + Cardinality(Opening) <= MaxSubscriptions
        /\ Cardinality(kind) <= KindCap /\ KindCap \in Nat /\ MaxSubscriptions \in Nat
    BY RegistryAssumption DEF CapsHold, kind
  <1>5. /\ Cardinality(Registered') + Cardinality(Opening') <= MaxSubscriptions
        /\ Cardinality(kindNow) <= KindCap
    BY ONLY <1>2, <1>3, <1>4
  <1> QED BY <1>5 DEF CapsHold, kindNow

\* Opening one more stream stays within the caps.
LEMMA CapsGrow ==
    ASSUME TypeOK, TypeOK', CapsHold, LockIsHeld, OpenedOnce, NEW c \in Caller \ (Registered \cup Opening),
           openLock = None, HasRoom(key[c]), Registered' = Registered, Opening' = Opening \cup {c},
           UNCHANGED key
    PROVE  CapsHold'
  <1> DEFINE kind == {d \in Registered \cup Opening : key[d] \in Capped}
             kindNow == {d \in Registered' \cup Opening' : key[d] \in Capped}
  <1>1. Opening \in SUBSET Caller /\ Registered \in SUBSET Caller /\ kind \in SUBSET Caller
    BY DEF Opening, TypeOK
  <1>2. Reserved = Opening
    <2>1. \A d \in Opening : key[d] \in Live /\ d \in Caller
      BY <1>1, RegistryAssumption DEF LockIsHeld
    <2> QED BY <2>1 DEF Reserved, Opening, OpenedOnce, Settling
  <1>3. Cardinality(Registered) + Cardinality(Opening) < MaxSubscriptions
    BY <1>2 DEF HasRoom
  <1>4. Cardinality(Opening') = Cardinality(Opening) + 1
    BY <1>1, CallersCount, FS_AddElement
  <1>5. /\ Cardinality(Registered) \in Nat /\ Cardinality(Opening) \in Nat /\ MaxSubscriptions \in Nat
    BY <1>1, CallersCount, RegistryAssumption
  <1>6. Cardinality(Registered') + Cardinality(Opening') <= MaxSubscriptions
    BY ONLY <1>3, <1>4, <1>5, Registered' = Registered
  <1>7. Cardinality(kindNow) <= KindCap
    <2>1. CASE key[c] \in Capped
      <3>1. kind = {d \in Registered : key[d] \in Capped}
        BY <1>1, RegistryAssumption DEF LockIsHeld
      <3>2. kindNow = kind \cup {c} /\ c \notin kind
        BY <2>1
      <3>3. Cardinality(kind) < KindCap
        BY <2>1, <3>1 DEF HasRoom
      <3> HIDE DEF kind, kindNow
      <3>4. Cardinality(kindNow) = Cardinality(kind) + 1 /\ Cardinality(kind) \in Nat
        BY <1>1, <3>2, CallersCount, FS_AddElement
      <3> QED BY <3>3, <3>4, RegistryAssumption
    <2>2. CASE key[c] \notin Capped
      <3>1. kindNow = kind
        BY <2>2
      <3> QED BY <3>1 DEF CapsHold
    <2> QED BY <2>1, <2>2
  <1> QED BY <1>6, <1>7 DEF CapsHold

\* A stream that is open counts as it did while it was being opened.
LEMMA CapsMove ==
    ASSUME TypeOK, CapsHold, NEW c \in Opening \ Registered, Registered' = Registered \cup {c},
           Opening' = Opening \ {c}, UNCHANGED key
    PROVE  CapsHold'
  <1>1. Opening \in SUBSET Caller /\ Registered \in SUBSET Caller
    BY DEF Opening, TypeOK
  <1>2. Registered' \cup Opening' = Registered \cup Opening
    OBVIOUS
  <1>3. /\ Cardinality(Registered') = Cardinality(Registered) + 1
        /\ Cardinality(Opening') = Cardinality(Opening) - 1
    BY <1>1, CallersCount, FS_AddElement, FS_RemoveElement
  <1>4. Cardinality(Registered) \in Nat /\ Cardinality(Opening) \in Nat
    BY <1>1, CallersCount
  <1>5. Cardinality(Registered') + Cardinality(Opening') = Cardinality(Registered) + Cardinality(Opening)
    BY ONLY <1>3, <1>4
  <1> QED BY <1>2, <1>5 DEF CapsHold

\* Cancelling some streams ends others only if they are counted as missed.
LEMMA CancelEnds ==
    ASSUME TypeOK, NEW S \in SUBSET Caller, CancelStreams(S)
    PROVE  /\ held' \in SUBSET Caller /\ old' \in SUBSET Caller /\ missed' \in SUBSET Caller
           /\ held' \subseteq held \ (S \ {at}) /\ missed \subseteq missed'
           /\ held \ (S \ {at}) \subseteq held' \cup missed'
           /\ leaked' = leaked
  <1>1. PICK v \in Bystanders(S) : /\ held' = held \ ((S \ {at}) \cup v)
                                   /\ old' = old \ (S \ {at})
                                   /\ missed' = missed \cup v
                                   /\ UNCHANGED leaked
    BY DEF CancelStreams
  <1>2. v \subseteq held
    BY <1>1 DEF Bystanders
  <1> QED BY <1>1, <1>2 DEF TypeOK

\* A pass leaves nothing between what it re-requests, what it waits for, and what is
\* left of its copy.
LEMMA GoOnSplits ==
    ASSUME TypeOK, OneStreamPerKey, NEW copy \in SUBSET Caller, GoOn(copy)
    PROVE  \E now \in SUBSET (copy \cap Registered) :
              /\ ReRequest(now)
              /\ copy \cap Registered = now \cup todo' \cup ({at'} \ {None})
              /\ at' \notin now
              /\ \/ at' = None /\ todo' = {} /\ asking' = "none"
                 \/ /\ at' \in copy \cap Registered /\ key[at'] \in Live
                    /\ asking' \in {"asked", "failed"}
  <1> DEFINE present == copy \cap Registered
             slow == {c \in present : key[c] \in Live}
  <1>1. None \notin present
    BY RegistryAssumption DEF TypeOK
  <1>2. CASE /\ slow = {} /\ todo' = {} /\ at' = None /\ asking' = "none"
             /\ ReRequest(present)
    BY <1>1, <1>2
  <1>3. ASSUME NEW c \in slow,
               /\ todo' = {d \in present : entries[d] > entries[c]} /\ at' = c
               /\ asking' = IF session = "down" THEN "failed" ELSE "asked"
               /\ ReRequest({d \in present : entries[d] < entries[c]})
        PROVE  \E now \in SUBSET (copy \cap Registered) :
                  /\ ReRequest(now)
                  /\ copy \cap Registered = now \cup todo' \cup ({at'} \ {None})
                  /\ at' \notin now
                  /\ at' \in copy \cap Registered /\ key[at'] \in Live
                  /\ asking' \in {"asked", "failed"}
    <2> DEFINE now == {d \in present : entries[d] < entries[c]}
    <2>1. \A d \in present : entries[d] \in Nat /\ (entries[d] = entries[c] => d = c)
      BY DEF TypeOK, OneStreamPerKey, IsInjective, Registered
    <2>2. present = now \cup todo' \cup {c} /\ c \notin now
      BY <1>3, <2>1
    <2> QED BY <1>1, <1>3, <2>2
  <1> QED BY <1>2, <1>3 DEF GoOn

-----------------------------------------------------------------------------
(* Every step preserves the inductive invariant. *)

\* At the start nothing is open.
LEMMA InitInductive == Init => Inductive
  <1> SUFFICES ASSUME Init PROVE Inductive
    OBVIOUS
  <1>1. /\ Registered = {} /\ Opening = {} /\ Settling = {} /\ Cardinality({}) = 0
    BY FS_EmptySet DEF Init, Registered, Opening, Settling
  <1>2. TypeOK
    <2>1. DOMAIN entries = {} /\ entries \in [{} -> 1..ids]
      BY DEF Init
    <2>2. MaxLosses \in Nat
      BY RegistryAssumption
    <2>3. /\ pc \in [Caller -> {"idle", "queued", "waiting", "settling", "asked", "answered",
                                "failed", "done"}]
          /\ key \in [Caller -> Key \cup {None}] /\ index \in [Key -> Caller \cup {None}]
          /\ openLock \in Caller \cup {None} /\ ids \in Nat
      BY DEF Init
    <2>4. /\ stale \subseteq Caller /\ passing \in BOOLEAN /\ rerun \in BOOLEAN /\ pending \in Nat
          /\ todo \subseteq Caller /\ at \in Caller \cup {None}
          /\ asking \in {"none", "asked", "answered", "failed"}
          /\ session \in {"down", "setup", "up"}
      BY DEF Init
    <2>5. /\ held \subseteq Caller /\ old \subseteq Caller /\ leaked \subseteq Caller
          /\ losses \in 0..MaxLosses /\ missed \subseteq Caller
      BY <2>2 DEF Init
    <2> QED BY <2>1, <2>3, <2>4, <2>5 DEF TypeOK, Registered
  <1>3. OneStreamPerKey /\ LockIsHeld /\ OpenedOnce /\ PassInOrder /\ SeenTo
    BY <1>1, RegistryAssumption DEF Init, OneStreamPerKey, LockIsHeld, OpenedOnce, PassInOrder,
       SeenTo, IsInjective, Registered
  <1>4. CapsHold
    <2>1. {c \in Registered \cup Opening : key[c] \in Capped} = {}
      BY <1>1
    <2> QED BY <1>1, <2>1, RegistryAssumption DEF CapsHold
  <1>5. LeaksOnlyByReRequest
    BY <1>1 DEF Init, LeaksOnlyByReRequest
  <1> QED BY <1>2, <1>3, <1>4, <1>5 DEF Inductive, IInv

\* A call begins.
LEMMA CallSubscribeKeeps ==
    ASSUME Inductive, NEW c \in Caller, NEW k \in Key, CallSubscribe(c, k)
    PROVE  Inductive'
  <1> USE DEF Inductive, IInv
  <1>1. /\ pc[c] = "idle" /\ pc' = [pc EXCEPT ![c] = "queued"] /\ key' = [key EXCEPT ![c] = k]
        /\ UNCHANGED <<openLock, registry, pass, pending, session, ibkr, losses>>
        /\ UNCHANGED <<ids, entries, index, stale, passing, rerun, todo, at, asking, held, old,
                       leaked, missed>>
    BY DEF CallSubscribe, registry, pass, ibkr
  <1>2. /\ pc \in [Caller -> {"idle", "queued", "waiting", "settling", "asked", "answered",
                              "failed", "done"}]
        /\ key \in [Caller -> Key \cup {None}]
    BY DEF TypeOK
  <1>3. /\ Opening' = Opening /\ Settling' = Settling /\ Registered' = Registered
        /\ c \notin Registered \cup Opening \cup stale \cup todo \cup leaked \cup {at}
        /\ \A d \in Registered \cup Opening \cup stale \cup todo \cup leaked \cup ({at} \ {None}) :
              key'[d] = key[d] /\ pc'[d] = pc[d] /\ d \in Caller
    <2>1. /\ \A d \in Registered \cup stale \cup todo \cup leaked \cup ({at} \ {None}) :
                d \in Caller /\ pc[d] = "done"
          /\ None # c
      BY RegistryAssumption DEF TypeOK, OpenedOnce
    <2>2. \A d \in Opening : d \in Caller /\ pc[d] # "idle"
      BY DEF Opening
    <2>3. /\ \A d \in Caller : d # c => pc'[d] = pc[d] /\ key'[d] = key[d]
          /\ pc'[c] = "queued"
      BY <1>1, <1>2
    <2> QED BY <1>1, <2>1, <2>2, <2>3 DEF Opening, Settling, Registered
  <1>4. TypeOK'
    BY <1>1, <1>2, <1>3 DEF TypeOK
  <1>5. OneStreamPerKey'
    BY <1>1, <1>3 DEF OneStreamPerKey
  <1>6. CapsHold'
    <2>1. {d \in Registered' \cup Opening' : key'[d] \in Capped} = {d \in Registered \cup Opening : key[d] \in Capped}
      BY <1>3
    <2> QED BY <1>3, <2>1 DEF CapsHold
  <1>7. LockIsHeld'
    BY <1>1, <1>2, <1>3 DEF LockIsHeld
  <1>8. OpenedOnce'
    <2>1. \A d \in Caller : pc'[d] # "idle" => key'[d] \in Key
      BY <1>1, <1>2 DEF OpenedOnce
    <2>2. \A d \in Settling : d \in Opening
      BY DEF Settling, Opening
    <2> QED BY <1>1, <1>3, <2>1, <2>2 DEF OpenedOnce
  <1>9. PassInOrder' /\ SeenTo' /\ LeaksOnlyByReRequest'
    <2>1. {d \in Caller : pc'[d] = "answered"} = {d \in Caller : pc[d] = "answered"}
      BY <1>1, <1>2
    <2>2. \A d \in Opening : pc'[d] = pc[d]
      BY <1>3
    <2>3. PassInOrder'
      BY <1>1, <1>3 DEF PassInOrder
    <2>4. SeenTo'
      BY <1>1, <1>3, <2>1 DEF SeenTo
    <2>5. LeaksOnlyByReRequest'
      BY <1>1, <1>3, <2>2 DEF LeaksOnlyByReRequest
    <2> QED BY <2>3, <2>4, <2>5
  <1> QED BY <1>4, <1>5, <1>6, <1>7, <1>8, <1>9

\* A call that waits moves without opening anything.
LEMMA QuietCallKeeps ==
    ASSUME Inductive, NEW c \in Caller, pc[c] \in {"queued", "waiting"},
           NEW x \in {"queued", "waiting", "done"}, pc' = [pc EXCEPT ![c] = x],
           UNCHANGED <<key, openLock, ids, entries, index, stale, passing, rerun, todo, at, asking,
                       pending, session, held, old, leaked, missed, losses>>
    PROVE  Inductive'
  <1> USE DEF Inductive, IInv
  <1>1. /\ pc \in [Caller -> {"idle", "queued", "waiting", "settling", "asked", "answered",
                              "failed", "done"}]
        /\ \A d \in Caller : pc'[d] = IF d = c THEN x ELSE pc[d]
    BY DEF TypeOK
  <1>2. /\ Opening' = Opening /\ Settling' = Settling /\ Registered' = Registered
        /\ {d \in Caller : pc'[d] = "answered"} = {d \in Caller : pc[d] = "answered"}
        /\ {d \in Opening' : pc'[d] # "failed"} = {d \in Opening : pc[d] # "failed"}
    BY <1>1 DEF Opening, Settling, Registered
  <1>3. TypeOK'
    BY <1>1 DEF TypeOK, Registered
  <1>4. OneStreamPerKey' /\ CapsHold' /\ LockIsHeld' /\ PassInOrder' /\ SeenTo'
        /\ LeaksOnlyByReRequest'
    BY <1>2 DEF OneStreamPerKey, CapsHold, LockIsHeld, PassInOrder, SeenTo, LeaksOnlyByReRequest
  <1>5. OpenedOnce'
    <2>1. \A d \in Caller : pc'[d] # "idle" => pc[d] # "idle"
      BY <1>1
    <2>2. \A d \in Registered \cup stale \cup todo \cup leaked \cup ({at} \ {None}) :
              d \in Caller /\ pc[d] = "done" /\ d # c
      BY DEF OpenedOnce, TypeOK
    <2> QED BY <1>1, <1>2, <2>1, <2>2 DEF OpenedOnce
  <1> QED BY <1>3, <1>4, <1>5

\* A call waits for another's open, or gives up.
LEMMA WaitingKeeps ==
    ASSUME Inductive, NEW c \in Caller, WaitEnds(c) \/ GivesUp(c)
    PROVE  Inductive'
  <1>1. CASE WaitEnds(c)
    BY <1>1, QuietCallKeeps DEF WaitEnds, registry, pass, ibkr
  <1>2. CASE GivesUp(c)
    BY <1>2, QuietCallKeeps DEF GivesUp, registry, pass, ibkr
  <1> QED BY <1>1, <1>2

\* add, with the open lock: only here does a stream begin to open.
LEMMA AcquireKeeps ==
    ASSUME Inductive, NEW c \in Caller, Acquire(c)
    PROVE  Inductive'
  <1> USE DEF Inductive, IInv
  <1>0. /\ pc[c] = "queued" /\ openLock = None
        /\ UNCHANGED <<key, ids, entries, index, stale, passing, rerun, todo, at, asking,
                       pending, session, old, leaked, missed, losses>>
    BY DEF Acquire, registry, pass
  <1>1. CASE /\ pc' \in {[pc EXCEPT ![c] = "done"], [pc EXCEPT ![c] = "waiting"]}
             /\ UNCHANGED <<openLock, held>>
    BY <1>0, <1>1, QuietCallKeeps
  <1>2. CASE /\ index[key[c]] = None /\ \A d \in Reserved : key[d] # key[c]
             /\ HasRoom(key[c]) /\ session # "down"
             /\ pc' = [pc EXCEPT ![c] = IF key[c] \in Scan \cup Live THEN "asked" ELSE "settling"]
             /\ openLock' = IF key[c] \in Live THEN None ELSE c
             /\ held' = IF key[c] \in Live THEN held ELSE held \cup {c}
    <2>1. /\ pc \in [Caller -> {"idle", "queued", "waiting", "settling", "asked", "answered",
                                "failed", "done"}]
          /\ key[c] \in Key /\ None \notin Caller /\ Live \cap Scan = {}
      BY <1>0, RegistryAssumption DEF TypeOK, OpenedOnce
    <2>2. /\ \A d \in Caller : d # c => pc'[d] = pc[d]
          /\ pc'[c] \in {"asked", "settling"}
          /\ pc'[c] = "settling" => key[c] \notin Live
          /\ pc'[c] = "settling" => c \in held'
          /\ pc'[c] = "asked" /\ key[c] \notin Live => c \in held'
      BY <1>2, <2>1
    <2>3. /\ c \notin Registered \cup Opening \cup stale \cup todo \cup leaked \cup {at}
          /\ Registered' = Registered /\ Opening' = Opening \cup {c}
          /\ Settling' \subseteq Settling \cup {c} /\ (c \in Settling' => key[c] \notin Live /\ c \in held')
          /\ {d \in Caller : pc'[d] = "answered"} = {d \in Caller : pc[d] = "answered"}
      <3>1. \A d \in Registered \cup stale \cup todo \cup leaked \cup ({at} \ {None}) : pc[d] = "done"
        BY DEF OpenedOnce
      <3> QED BY <1>0, <2>1, <2>2, <3>1 DEF Opening, Settling, Registered
    <2>4. TypeOK'
      BY <1>0, <1>2, <2>1, <2>3 DEF TypeOK
    <2>5. \A d \in Opening : key[d] \in Live /\ d \in Reserved /\ d \in Caller
      <3>1. \A d \in Opening : d \in Caller /\ key[d] \in Live
        BY <1>0, <2>1 DEF LockIsHeld, Opening
      <3> QED BY <3>1 DEF Reserved, Opening, OpenedOnce, Settling
    <2>6. OneStreamPerKey'
      BY <1>0, <1>2, <2>3, <2>5 DEF OneStreamPerKey
    <2>7. CapsHold'
      BY <1>0, <1>2, <2>3, <2>4, CapsGrow
    <2>8. LockIsHeld'
      BY <1>0, <1>2, <2>1, <2>3, <2>5 DEF LockIsHeld
    <2>9. OpenedOnce'
      BY <1>0, <2>1, <2>2, <2>3 DEF OpenedOnce, TypeOK
    <2>10. PassInOrder'
      BY <1>0, <1>2, <2>3 DEF PassInOrder
    <2>11. SeenTo'
      BY <1>0, <1>2, <2>3 DEF SeenTo
    <2>12. LeaksOnlyByReRequest'
      <3>1. {d \in Opening : pc[d] # "failed"} \cup {c} \subseteq {d \in Opening' : pc'[d] # "failed"}
        BY <2>2, <2>3 DEF Opening
      <3> QED BY <1>0, <1>2, <2>3, <3>1 DEF LeaksOnlyByReRequest
    <2> QED BY <2>4, <2>6, <2>7, <2>8, <2>9, <2>10, <2>11, <2>12
  <1> QED BY <1>0, <1>1, <1>2 DEF Acquire

\* IBKR answers an open.
LEMMA OpenAnsweredKeeps ==
    ASSUME Inductive, NEW c \in Caller, OpenAnswered(c)
    PROVE  Inductive'
  <1> USE DEF Inductive, IInv
  <1>1. /\ pc[c] = "asked" /\ session # "down" /\ pc' = [pc EXCEPT ![c] = "answered"]
        /\ held' = held \cup {c}
        /\ UNCHANGED <<key, openLock, ids, entries, index, stale, passing, rerun, todo, at, asking,
                       pending, session, old, leaked, missed, losses>>
    BY DEF OpenAnswered, registry, pass
  <1>2. /\ pc \in [Caller -> {"idle", "queued", "waiting", "settling", "asked", "answered",
                              "failed", "done"}]
        /\ \A d \in Caller : d # c => pc'[d] = pc[d]
        /\ pc'[c] = "answered" /\ c \in Opening /\ None \notin Caller
    BY <1>1, RegistryAssumption DEF TypeOK, Opening
  <1>3. /\ Opening' = Opening /\ Settling' = Settling /\ Registered' = Registered
        /\ {d \in Caller : pc'[d] = "answered"} = {d \in Caller : pc[d] = "answered"} \cup {c}
        /\ {d \in Opening : pc[d] # "failed"} \subseteq {d \in Opening' : pc'[d] # "failed"}
        /\ c \in {d \in Opening' : pc'[d] # "failed"}
        /\ c \notin Registered \cup stale \cup todo \cup leaked \cup {at}
    <2>1. \A d \in Registered \cup stale \cup todo \cup leaked \cup ({at} \ {None}) : pc[d] = "done"
      BY DEF OpenedOnce
    <2> QED BY <1>1, <1>2, <2>1 DEF Opening, Settling, Registered
  <1>4. TypeOK'
    BY <1>1, <1>2, <1>3 DEF TypeOK
  <1>5. OneStreamPerKey' /\ CapsHold' /\ LockIsHeld'
    BY <1>1, <1>3 DEF OneStreamPerKey, CapsHold, LockIsHeld
  <1>6. OpenedOnce'
    BY <1>1, <1>2, <1>3 DEF OpenedOnce, TypeOK
  <1>7. PassInOrder'
    BY <1>1, <1>3 DEF PassInOrder
  <1>8. SeenTo'
    BY <1>1, <1>3 DEF SeenTo
  <1>9. LeaksOnlyByReRequest'
    BY <1>1, <1>3 DEF LeaksOnlyByReRequest
  <1> QED BY <1>4, <1>5, <1>6, <1>7, <1>8, <1>9

\* A stream that is open gets its entry.
LEMMA OpenedKeeps ==
    ASSUME Inductive, NEW c \in Caller, Opened(c)
    PROVE  Inductive'
  <1> USE DEF Inductive, IInv
  <1>1. /\ pc[c] \in {"settling", "answered"} /\ pc' = [pc EXCEPT ![c] = "done"]
        /\ openLock' = IF openLock = c THEN None ELSE openLock
        /\ ids' = ids + 1
        /\ entries' = [d \in Registered \cup {c} |-> IF d = c THEN ids + 1 ELSE entries[d]]
        /\ index' = [index EXCEPT ![key[c]] = c]
        /\ UNCHANGED <<key, stale, passing, rerun, todo, at, asking, pending, session, held, old,
                       leaked, missed, losses>>
    BY DEF Opened, Register, pass, ibkr
  <1>2. /\ pc \in [Caller -> {"idle", "queued", "waiting", "settling", "asked", "answered",
                              "failed", "done"}]
        /\ \A d \in Caller : d # c => pc'[d] = pc[d]
        /\ pc'[c] = "done" /\ c \in Opening /\ None \notin Caller /\ key[c] \in Key
        /\ index[key[c]] = None /\ \A d \in Opening \ {c} : key[d] # key[c]
        /\ c \in Settling \cup {d \in Caller : pc[d] = "answered"}
    BY <1>1, RegistryAssumption DEF TypeOK, Opening, OpenedOnce, OneStreamPerKey, Settling
  <1>3. /\ Opening' = Opening \ {c} /\ Registered' = Registered \cup {c}
        /\ Settling' = Settling \ {c}
        /\ {d \in Caller : pc'[d] = "answered"} = {d \in Caller : pc[d] = "answered"} \ {c}
        /\ {d \in Opening : pc[d] # "failed"} \subseteq {d \in Opening' : pc'[d] # "failed"} \cup {c}
        /\ c \notin Registered \cup stale \cup todo \cup leaked \cup {at}
    <2>1. \A d \in Registered \cup stale \cup todo \cup leaked \cup ({at} \ {None}) : pc[d] = "done"
      BY DEF OpenedOnce
    <2> QED BY <1>1, <1>2, <2>1 DEF Opening, Settling, Registered
  <1>4. TypeOK'
    <2>1. ids \in Nat /\ \A d \in Registered : entries[d] \in 1..ids /\ d \in Caller
      BY DEF TypeOK
    <2>2. entries' \in [Registered' -> 1..ids'] /\ Registered' \subseteq Caller /\ ids' \in Nat
      BY <1>1, <1>3, <2>1
    <2>3. index' \in [Key -> Caller \cup {None}] /\ openLock' \in Caller \cup {None}
      BY <1>1 DEF TypeOK
    <2> QED BY <1>1, <1>2, <2>2, <2>3 DEF TypeOK
  <1>5. OneStreamPerKey'
    <2>1. \A d \in Registered : key[d] \in Key /\ key[d] # key[c] /\ index[key[d]] = d
      BY <1>2 DEF OpenedOnce, OneStreamPerKey, TypeOK
    <2>2. \A k \in Key : index'[k] = IF k = key[c] THEN c ELSE index[k]
      BY <1>1, <1>2 DEF TypeOK
    <2>3. \A k \in Key : index'[k] # None => index'[k] \in Registered' /\ key'[index'[k]] = k
      BY <1>1, <1>3, <2>2 DEF OneStreamPerKey
    <2>4. \A d \in Registered' : index'[key'[d]] = d
      BY <1>1, <1>2, <1>3, <2>1, <2>2
    <2>5. IsInjective(entries')
      <3>1. ids \in Nat /\ \A d \in Registered : entries[d] \in 1..ids
        BY DEF TypeOK
      <3>2. \A d, e \in Registered : entries[d] = entries[e] => d = e
        BY DEF OneStreamPerKey, IsInjective, Registered
      <3>3. \A d, e \in Registered \cup {c} : entries'[d] = entries'[e] => d = e
        BY <1>1, <1>3, <3>1, <3>2
      <3>4. DOMAIN entries' = Registered \cup {c}
        BY <1>1
      <3> QED BY <3>3, <3>4 DEF IsInjective
    <2>6. \A d \in Opening' : /\ key[d] \in Key /\ index'[key[d]] = None
                              /\ \A e \in Opening' \ {d} : key'[e] # key'[d]
      BY <1>1, <1>2, <1>3, <2>2 DEF OneStreamPerKey, OpenedOnce, Opening
    <2> QED BY <1>1, <2>3, <2>4, <2>5, <2>6 DEF OneStreamPerKey
  <1>6. CapsHold'
    BY <1>1, <1>2, <1>3, CapsMove
  <1>7. LockIsHeld'
    BY <1>1, <1>2, <1>3 DEF LockIsHeld, TypeOK
  <1>8. OpenedOnce'
    BY <1>1, <1>2, <1>3 DEF OpenedOnce, TypeOK
  <1>9. PassInOrder'
    BY <1>1 DEF PassInOrder
  <1>10. SeenTo'
    BY <1>1, <1>2, <1>3 DEF SeenTo
  <1>11. LeaksOnlyByReRequest'
    BY <1>1, <1>3 DEF LeaksOnlyByReRequest
  <1> QED BY <1>4, <1>5, <1>6, <1>7, <1>8, <1>9, <1>10, <1>11

\* An open that fails is cancelled.
LEMMA OpenFailsKeeps ==
    ASSUME Inductive, NEW c \in Caller, OpenFails(c)
    PROVE  Inductive'
  <1> USE DEF Inductive, IInv
  <1>1. /\ c \in Opening /\ pc' = [pc EXCEPT ![c] = "done"]
        /\ openLock' = IF openLock = c THEN None ELSE openLock
        /\ CancelStreams({c})
        /\ UNCHANGED <<key, ids, entries, index, stale, passing, rerun, todo, at, asking, pending,
                       session, losses>>
    BY DEF OpenFails, Opening, registry, pass
  <1>2. /\ pc \in [Caller -> {"idle", "queued", "waiting", "settling", "asked", "answered",
                              "failed", "done"}]
        /\ \A d \in Caller : d # c => pc'[d] = pc[d]
        /\ pc'[c] = "done" /\ None \notin Caller /\ key[c] \in Key
    BY <1>1, RegistryAssumption DEF TypeOK, Opening, OpenedOnce
  <1>3. /\ Opening' = Opening \ {c} /\ Registered' = Registered /\ Settling' = Settling \ {c}
        /\ {d \in Caller : pc'[d] = "answered"} = {d \in Caller : pc[d] = "answered"} \ {c}
        /\ {d \in Opening : pc[d] # "failed"} \subseteq {d \in Opening' : pc'[d] # "failed"} \cup {c}
        /\ c \notin Registered \cup stale \cup todo \cup leaked \cup {at}
    <2>1. \A d \in Registered \cup stale \cup todo \cup leaked \cup ({at} \ {None}) : pc[d] = "done"
      BY DEF OpenedOnce
    <2> QED BY <1>1, <1>2, <2>1 DEF Opening, Settling, Registered
  <1>4. /\ held' \in SUBSET Caller /\ old' \in SUBSET Caller /\ missed' \in SUBSET Caller
        /\ held' \subseteq held \ {c} /\ missed \subseteq missed'
        /\ held \ {c} \subseteq held' \cup missed' /\ leaked' = leaked
    BY <1>1, <1>3, CancelEnds
  <1>5. TypeOK'
    BY <1>1, <1>2, <1>4 DEF TypeOK, Registered
  <1>6. OneStreamPerKey'
    BY <1>1, <1>3 DEF OneStreamPerKey
  <1>7. CapsHold'
    BY <1>1, <1>3, CapsShrink
  <1>8. LockIsHeld'
    BY <1>1, <1>2, <1>3 DEF LockIsHeld, TypeOK
  <1>9. OpenedOnce'
    BY <1>1, <1>2, <1>3, <1>4 DEF OpenedOnce, TypeOK
  <1>10. PassInOrder'
    BY <1>1, <1>4 DEF PassInOrder
  <1>11. SeenTo'
    BY <1>1, <1>3, <1>4 DEF SeenTo
  <1>12. LeaksOnlyByReRequest'
    BY <1>1, <1>3, <1>4 DEF LeaksOnlyByReRequest
  <1> QED BY <1>5, <1>6, <1>7, <1>8, <1>9, <1>10, <1>11, <1>12

\* A subscription is given up, by its caller or by the reaper.
LEMMA UnsubscribeKeeps ==
    ASSUME Inductive, NEW S \in SUBSET Caller, Unsubscribe(S)
    PROVE  Inductive'
  <1> USE DEF Inductive, IInv
  <1>1. /\ S \in SUBSET Registered /\ Forget(S) /\ stale' = stale \ S /\ CancelStreams(S)
        /\ UNCHANGED <<pc, key, openLock, passing, rerun, todo, at, asking, pending, session, losses>>
    BY DEF Unsubscribe, calls, pass
  <1>2. /\ Registered' = Registered \ S
        /\ ids' \in Nat /\ entries' \in [Registered' -> 1..ids']
        /\ index' \in [Key -> Caller \cup {None}]
        /\ \A k \in Key : index'[k] # None => index'[k] \in Registered' /\ key[index'[k]] = k
        /\ \A c \in Registered' : index'[key[c]] = c
        /\ \A k \in Key : index[k] = None => index'[k] = None
        /\ IsInjective(entries')
    BY <1>1, ForgetTables
  <1>3. /\ held' \in SUBSET Caller /\ old' \in SUBSET Caller /\ missed' \in SUBSET Caller
        /\ held' \subseteq held \ (S \ {at}) /\ missed \subseteq missed'
        /\ held \ (S \ {at}) \subseteq held' \cup missed' /\ leaked' = leaked
    BY <1>1, CancelEnds
  <1>4. /\ Opening' = Opening /\ Settling' = Settling
        /\ {d \in Opening' : pc'[d] # "failed"} = {d \in Opening : pc[d] # "failed"}
    BY <1>1 DEF Opening, Settling
  <1>5. S \cap Opening = {} /\ Opening \in SUBSET Caller
    BY <1>1, Apart
  <1>6. TypeOK'
    BY <1>1, <1>2, <1>3 DEF TypeOK
  <1>7. OneStreamPerKey'
    <2>1. \A c \in Opening : key[c] \in Key /\ index[key[c]] = None
      BY DEF OneStreamPerKey, OpenedOnce, Opening
    <2> QED BY <1>1, <1>2, <1>4, <2>1 DEF OneStreamPerKey
  <1>8. CapsHold'
    BY <1>1, <1>2, <1>4, CapsShrink
  <1>9. LockIsHeld' /\ OpenedOnce'
    BY <1>1, <1>2, <1>3, <1>4 DEF LockIsHeld, OpenedOnce
  <1>10. PassInOrder'
    BY <1>1, <1>3 DEF PassInOrder
  <1>11. SeenTo'
    <2>1. \A c \in Settling \cup {d \in Caller : pc[d] = "answered"} : c \notin S
      BY <1>5 DEF Settling, Opening
    <2> QED BY <1>1, <1>2, <1>3, <1>4, <2>1 DEF SeenTo
  <1>12. LeaksOnlyByReRequest'
    BY <1>1, <1>2, <1>3, <1>4 DEF LeaksOnlyByReRequest
  <1> QED BY <1>6, <1>7, <1>8, <1>9, <1>10, <1>11, <1>12

\* A pass starts, goes on or starts over with a copy that holds all that it has to see to.
LEMMA GoOnKeeps ==
    ASSUME Inductive, at = None, NEW copy \in SUBSET Caller, GoOn(copy),
           passing' = TRUE, rerun' \in BOOLEAN, pending' \in Nat,
           \/ copy = Registered
           \/ copy = todo /\ rerun' = rerun /\ pending' = pending,
           UNCHANGED <<pc, key, openLock, session, losses>>
    PROVE  Inductive'
  <1> USE DEF Inductive, IInv
  <1>1. PICK now \in SUBSET (copy \cap Registered) :
              /\ ReRequest(now)
              /\ copy \cap Registered = now \cup todo' \cup ({at'} \ {None})
              /\ at' \notin now
              /\ \/ at' = None /\ todo' = {} /\ asking' = "none"
                 \/ /\ at' \in copy \cap Registered /\ key[at'] \in Live
                    /\ asking' \in {"asked", "failed"}
    BY GoOnSplits
  <1>2. /\ None \notin Caller /\ now \in SUBSET Caller /\ at' \in Caller \cup {None}
        /\ todo' \in SUBSET Caller /\ Registered \in SUBSET Caller
        /\ asking = "none" /\ held \in SUBSET Caller
        /\ asking' \in {"none", "asked", "failed"} /\ (asking' = "none" <=> at' = None)
        /\ Live \cap Ticker = {}
    BY <1>1, RegistryAssumption DEF TypeOK, PassInOrder
  <1>3. /\ Opening' = Opening /\ Settling' = Settling /\ Opening \in SUBSET Caller
        /\ {d \in Opening' : pc'[d] # "failed"} = {d \in Opening : pc[d] # "failed"}
        /\ Registered \cap Opening = {}
    BY Apart DEF Opening, Settling
  <1>4. CASE /\ session = "down" /\ Forget(now)
             /\ stale' = (stale \ now) \cup ({at'} \ {None}) /\ UNCHANGED ibkr
    <2>1. /\ Registered' = Registered \ now
          /\ ids' \in Nat /\ entries' \in [Registered' -> 1..ids']
          /\ index' \in [Key -> Caller \cup {None}]
          /\ \A k \in Key : index'[k] # None => index'[k] \in Registered' /\ key[index'[k]] = k
          /\ \A c \in Registered' : index'[key[c]] = c
          /\ \A k \in Key : index[k] = None => index'[k] = None
          /\ IsInjective(entries')
      BY <1>4, ForgetTables
    <2>2. UNCHANGED <<held, old, leaked, missed>> /\ held = {} /\ session' = "down"
      BY <1>4 DEF ibkr, SeenTo
    <2>3. TypeOK'
      BY <1>2, <1>4, <2>1, <2>2 DEF TypeOK
    <2>4. OneStreamPerKey'
      <3>1. \A c \in Opening : key[c] \in Key /\ index[key[c]] = None
        BY DEF OneStreamPerKey, OpenedOnce, Opening
      <3> QED BY <1>3, <2>1, <3>1 DEF OneStreamPerKey
    <2>5. CapsHold'
      BY <1>3, <2>1, CapsShrink
    <2>6. LockIsHeld' /\ PassInOrder'
      BY <1>1, <1>2, <1>3, <2>2 DEF LockIsHeld, PassInOrder
    <2>7. OpenedOnce'
      BY <1>1, <1>2, <1>3, <1>4, <2>1, <2>2 DEF OpenedOnce
    <2>8. SeenTo'
      BY <2>2 DEF SeenTo
    <2>9. LeaksOnlyByReRequest'
      BY <2>1, <2>2 DEF LeaksOnlyByReRequest
    <2> QED BY <2>3, <2>4, <2>5, <2>6, <2>7, <2>8, <2>9
  <1>5. CASE /\ session # "down"
             /\ stale' = (stale \ now) \cup ({at'} \ {None})
             /\ held' = (held \cup now) \ {at'}
             /\ old' = old \ (now \cup {at'})
             /\ leaked' = leaked \cup {c \in now \cap held : key[c] \in Ticker}
             /\ missed' = missed \ (now \cup {at'})
             /\ UNCHANGED <<ids, entries, index>>
    <2>1. Registered' = Registered
      BY <1>5 DEF Registered
    <2>2. TypeOK'
      BY <1>2, <1>5, <2>1 DEF TypeOK
    <2>3. OneStreamPerKey' /\ CapsHold' /\ LockIsHeld'
      BY <1>3, <1>5, <2>1 DEF OneStreamPerKey, CapsHold, LockIsHeld
    <2>4. OpenedOnce'
      BY <1>1, <1>2, <1>3, <1>5, <2>1 DEF OpenedOnce
    <2>5. PassInOrder'
      BY <1>1, <1>2, <1>5 DEF PassInOrder
    <2>6. SeenTo'
      <3>1. (Settling \cup {c \in Caller : pc[c] = "answered"}) \cap (now \cup {at'}) = {}
        BY <1>1, <1>2, <1>3 DEF Settling, Opening
      <3>2. session' # "down" => Settling' \cup {c \in Caller : pc'[c] = "answered"} \subseteq (held' \cup missed')
        BY <1>3, <1>5, <3>1 DEF SeenTo
      <3>3. ASSUME ~(session' # "up" \/ pending' > 0 \/ rerun')
            PROVE  \A c \in Registered' \ (todo' \cup {at'}) : c \in (held' \cup missed') \ stale'
        <4>1. CASE copy = Registered
          BY <1>1, <1>2, <1>5, <2>1, <4>1
        <4>2. CASE copy = todo /\ rerun' = rerun /\ pending' = pending
          <5>1. \A c \in Registered \ (todo \cup {at}) : c \in (held \cup missed) \ stale
            BY <3>3, <4>2 DEF SeenTo
          <5>2. ASSUME NEW c \in Registered' \ (todo' \cup {at'})
                PROVE  c \in (held' \cup missed') \ stale'
            <6>1. CASE c \in todo
              BY <1>1, <1>2, <1>5, <2>1, <4>2, <5>2, <6>1
            <6>2. CASE c \notin todo
              BY <1>1, <1>2, <1>5, <2>1, <4>2, <5>1, <5>2, <6>2
            <6> QED BY <6>1, <6>2
          <5> QED BY <5>2
        <4> QED BY <4>1, <4>2
      <3> QED BY <1>2, <1>5, <3>2, <3>3 DEF SeenTo
    <2>7. LeaksOnlyByReRequest'
      BY <1>1, <1>2, <1>3, <1>5, <2>1 DEF LeaksOnlyByReRequest
    <2> QED BY <2>2, <2>3, <2>4, <2>5, <2>6, <2>7
  <1> QED BY <1>1, <1>4, <1>5 DEF ReRequest

\* The steps of a pass that get to its next streams, and those that only note something.
LEMMA PassKeeps ==
    ASSUME Inductive, ResubscribeStarts \/ PassGoesOn
    PROVE  Inductive'
  <1> USE DEF Inductive, IInv
  <1>1. /\ UNCHANGED <<pc, key, openLock, session, losses>>
        /\ Registered \in SUBSET Caller /\ todo \in SUBSET Caller /\ pending \in Nat
        /\ rerun \in BOOLEAN
    BY DEF ResubscribeStarts, PassGoesOn, calls, TypeOK
  <1>2. ASSUME /\ UNCHANGED <<ids, entries, index, stale, todo, at, asking, held, old, leaked, missed>>
               /\ passing' \in BOOLEAN /\ rerun' \in BOOLEAN /\ pending' \in Nat
               /\ (passing' \/ (todo = {} /\ at = None /\ ~rerun'))
               /\ (pending > 0 \/ rerun) => (pending' > 0 \/ rerun')
        PROVE  Inductive'
    <2>1. /\ Opening' = Opening /\ Settling' = Settling /\ Registered' = Registered
          /\ {d \in Opening' : pc'[d] # "failed"} = {d \in Opening : pc[d] # "failed"}
      BY <1>1, <1>2 DEF Opening, Settling, Registered
    <2>2. TypeOK'
      BY <1>1, <1>2, <2>1 DEF TypeOK
    <2>3. OneStreamPerKey' /\ CapsHold' /\ LockIsHeld' /\ OpenedOnce'
      BY <1>1, <1>2, <2>1 DEF OneStreamPerKey, CapsHold, LockIsHeld, OpenedOnce
    <2>4. PassInOrder' /\ LeaksOnlyByReRequest'
      BY <1>1, <1>2, <2>1 DEF PassInOrder, LeaksOnlyByReRequest
    <2>5. SeenTo'
      BY <1>1, <1>2, <2>1 DEF SeenTo
    <2> QED BY <2>2, <2>3, <2>4, <2>5
  <1>3. CASE ResubscribeStarts
    <2>1. pending' \in Nat
      BY <1>1, <1>3 DEF ResubscribeStarts
    <2>2. CASE passing
      <3>1. /\ rerun' = TRUE
            /\ UNCHANGED <<registry, passing, todo, at, asking, ibkr>>
        BY <1>3, <2>2 DEF ResubscribeStarts
      <3> QED BY <1>2, <2>1, <2>2, <3>1 DEF registry, ibkr
    <2>3. CASE ~passing
      <3>1. at = None
        BY <2>3 DEF PassInOrder
      <3>2. passing' = TRUE /\ rerun' = FALSE /\ GoOn(Registered)
        BY <1>3, <2>3 DEF ResubscribeStarts
      <3> QED BY <1>1, <2>1, <3>1, <3>2, GoOnKeeps
    <2> QED BY <2>2, <2>3
  <1>4. CASE PassGoesOn
    <2>1. passing /\ at = None /\ pending' = pending
      BY <1>4 DEF PassGoesOn
    <2>2. CASE todo # {} /\ GoOn(todo) /\ UNCHANGED <<passing, rerun>>
      BY <1>1, <2>1, <2>2, GoOnKeeps
    <2>3. CASE rerun /\ rerun' = FALSE /\ GoOn(Registered) /\ UNCHANGED passing
      BY <1>1, <2>1, <2>3, GoOnKeeps
    <2>4. CASE /\ todo = {} /\ ~rerun /\ passing' = FALSE
               /\ UNCHANGED <<rerun, todo, at, asking, registry, ibkr>>
      BY <1>1, <1>2, <2>1, <2>4 DEF registry, ibkr
    <2> QED BY <1>4, <2>2, <2>3, <2>4 DEF PassGoesOn
  <1> QED BY <1>3, <1>4

\* IBKR answers the re-request that a pass waits for.
LEMMA ReRequestAnsweredKeeps ==
    ASSUME Inductive, ReRequestAnswered
    PROVE  Inductive'
  <1> USE DEF Inductive, IInv
  <1>1. /\ asking = "asked" /\ session # "down" /\ asking' = "answered" /\ held' = held \cup {at}
        /\ UNCHANGED <<pc, key, openLock, ids, entries, index, stale, passing, rerun, todo, at,
                       pending, session, old, leaked, missed, losses>>
    BY DEF ReRequestAnswered, calls, registry
  <1>2. at # None /\ at \in Caller
    BY <1>1 DEF PassInOrder, TypeOK
  <1>3. /\ Opening' = Opening /\ Settling' = Settling /\ Registered' = Registered
        /\ {d \in Opening' : pc'[d] # "failed"} = {d \in Opening : pc[d] # "failed"}
    BY <1>1 DEF Opening, Settling, Registered
  <1>4. TypeOK' /\ PassInOrder'
    BY <1>1, <1>2, <1>3 DEF TypeOK, PassInOrder
  <1>5. OneStreamPerKey' /\ CapsHold' /\ LockIsHeld' /\ OpenedOnce'
    BY <1>1, <1>3 DEF OneStreamPerKey, CapsHold, LockIsHeld, OpenedOnce
  <1>6. SeenTo' /\ LeaksOnlyByReRequest'
    BY <1>1, <1>3 DEF SeenTo, LeaksOnlyByReRequest
  <1> QED BY <1>4, <1>5, <1>6

\* The pass resumes: the stream it waited for is served, or forgotten.
LEMMA ReRequestEndsKeeps ==
    ASSUME Inductive, ReRequestEnds
    PROVE  Inductive'
  <1> USE DEF Inductive, IInv
  <1>1. /\ at' = None /\ asking' = "none" /\ stale' = stale \ {at}
        /\ UNCHANGED <<pc, key, openLock, passing, rerun, todo, pending, session, old, missed, losses>>
    BY DEF ReRequestEnds, calls
  <1>2. /\ Opening' = Opening /\ Settling' = Settling
        /\ {d \in Opening' : pc'[d] # "failed"} = {d \in Opening : pc[d] # "failed"}
        /\ Opening \in SUBSET Caller /\ at \notin Opening /\ None \notin Caller
    BY <1>1, Apart DEF Opening, Settling
  <1>3. CASE /\ asking = "answered"
             /\ leaked' = leaked \cup ((held \cap {at}) \ Registered)
             /\ held' = held \ ({at} \ Registered)
             /\ UNCHANGED <<ids, entries, index>>
    <2>1. Registered' = Registered /\ at # None /\ at \in Caller /\ key[at] \in Live /\ pc[at] = "done"
      BY <1>3 DEF Registered, PassInOrder, TypeOK, OpenedOnce
    <2>2. TypeOK' /\ PassInOrder'
      BY <1>1, <1>3, <2>1 DEF TypeOK, PassInOrder
    <2>3. OneStreamPerKey' /\ CapsHold' /\ LockIsHeld'
      BY <1>1, <1>2, <1>3, <2>1 DEF OneStreamPerKey, CapsHold, LockIsHeld
    <2>4. OpenedOnce'
      BY <1>1, <1>2, <1>3, <2>1 DEF OpenedOnce
    <2>5. SeenTo'
      <3>1. \A c \in Settling \cup {d \in Caller : pc[d] = "answered"} : c # at
        BY <1>2 DEF Settling, Opening
      <3> QED BY <1>1, <1>2, <1>3, <2>1, <3>1 DEF SeenTo
    <2>6. LeaksOnlyByReRequest'
      BY <1>1, <1>2, <1>3, <2>1 DEF LeaksOnlyByReRequest
    <2> QED BY <2>2, <2>3, <2>4, <2>5, <2>6
  <1>4. CASE /\ asking \in {"asked", "failed"}
             /\ Forget({at} \cap Registered)
             /\ UNCHANGED <<held, leaked>>
    <2> DEFINE S == {at} \cap Registered
    <2>1. /\ Registered' = Registered \ S
          /\ ids' \in Nat /\ entries' \in [Registered' -> 1..ids']
          /\ index' \in [Key -> Caller \cup {None}]
          /\ \A k \in Key : index'[k] # None => index'[k] \in Registered' /\ key[index'[k]] = k
          /\ \A c \in Registered' : index'[key[c]] = c
          /\ \A k \in Key : index[k] = None => index'[k] = None
          /\ IsInjective(entries')
      BY <1>1, <1>4, ForgetTables
    <2>2. at \notin held /\ Registered' = Registered \ {at}
      BY <1>4, <2>1 DEF PassInOrder
    <2>3. TypeOK' /\ PassInOrder'
      BY <1>1, <1>4, <2>1 DEF TypeOK, PassInOrder
    <2>4. OneStreamPerKey'
      <3>1. \A c \in Opening : key[c] \in Key /\ index[key[c]] = None
        BY DEF OneStreamPerKey, OpenedOnce, Opening
      <3> QED BY <1>1, <1>2, <2>1, <3>1 DEF OneStreamPerKey
    <2>5. CapsHold'
      BY <1>1, <1>2, <2>1, CapsShrink
    <2>6. LockIsHeld' /\ OpenedOnce'
      BY <1>1, <1>2, <1>4, <2>2 DEF LockIsHeld, OpenedOnce
    <2>7. SeenTo'
      BY <1>1, <1>2, <1>4, <2>2 DEF SeenTo
    <2>8. LeaksOnlyByReRequest'
      BY <1>1, <1>2, <1>4, <2>2 DEF LeaksOnlyByReRequest
    <2> QED BY <2>3, <2>4, <2>5, <2>6, <2>7, <2>8
  <1> QED BY <1>3, <1>4 DEF ReRequestEnds

\* The session drops: every request is gone.
LEMMA DropKeeps ==
    ASSUME Inductive, Drop
    PROVE  Inductive'
  <1> USE DEF Inductive, IInv
  <1>1. /\ session' = "down" /\ losses < MaxLosses /\ losses' = losses + 1
        /\ stale' = stale \cup Registered /\ held' = {} /\ leaked' = {}
        /\ old' = old \cup ((Registered \cup Settling) \ {at}) \cup Answered
        /\ pc' = [c \in Caller |-> IF pc[c] = "asked" /\ key[c] \in Live THEN "failed" ELSE pc[c]]
        /\ asking' = IF asking = "asked" THEN "failed" ELSE asking
        /\ UNCHANGED <<key, openLock, ids, entries, index, passing, rerun, todo, at, pending, missed>>
    BY DEF Drop
  <1>2. /\ pc \in [Caller -> {"idle", "queued", "waiting", "settling", "asked", "answered",
                              "failed", "done"}]
        /\ Opening' = Opening /\ Settling' = Settling /\ Registered' = Registered
        /\ Registered \cup Settling \cup Answered \subseteq Caller
    <2>1. asking = "answered" => at \in Caller
      BY DEF PassInOrder, TypeOK
    <2> QED BY <1>1, <2>1 DEF TypeOK, Opening, Settling, Registered, Answered
  <1>3. TypeOK'
    <2>1. losses' \in 0..MaxLosses
      BY <1>1, RegistryAssumption DEF TypeOK
    <2> QED BY <1>1, <1>2, <2>1 DEF TypeOK
  <1>4. OneStreamPerKey' /\ CapsHold' /\ LockIsHeld'
    BY <1>1, <1>2 DEF OneStreamPerKey, CapsHold, LockIsHeld
  <1>5. OpenedOnce'
    BY <1>1, <1>2 DEF OpenedOnce, TypeOK
  <1>6. PassInOrder' /\ SeenTo' /\ LeaksOnlyByReRequest'
    BY <1>1, <1>2 DEF PassInOrder, SeenTo, LeaksOnlyByReRequest, TypeOK
  <1> QED BY <1>3, <1>4, <1>5, <1>6

\* The session is set up, and IBKR may lose what it streamed: a pass is to come.
LEMMA SessionKeeps ==
    ASSUME Inductive, SetUpBegins \/ SetUpEnds \/ DataLost
    PROVE  Inductive'
  <1> USE DEF Inductive, IInv
  <1>1. /\ UNCHANGED <<pc, key, openLock, ids, entries, index, stale, passing, rerun, todo, at,
                       asking, old>>
        /\ Opening' = Opening /\ Settling' = Settling /\ Registered' = Registered
        /\ {d \in Opening' : pc'[d] # "failed"} = {d \in Opening : pc[d] # "failed"}
    BY DEF SetUpBegins, SetUpEnds, DataLost, calls, registry, pass, ibkr, Opening, Settling, Registered
  <1>2. OneStreamPerKey' /\ CapsHold' /\ LockIsHeld'
    BY <1>1 DEF OneStreamPerKey, CapsHold, LockIsHeld
  <1>3. CASE SetUpBegins
    <2>1. /\ session = "down" /\ session' = "setup" /\ Settling \cup Answered = {}
          /\ UNCHANGED <<pending, held, leaked, missed, losses>>
      BY <1>3 DEF SetUpBegins, ibkr
    <2>2. /\ {c \in Caller : pc[c] = "answered"} = {} /\ asking # "answered"
      BY <2>1 DEF Answered
    <2>3. TypeOK' /\ OpenedOnce' /\ PassInOrder' /\ LeaksOnlyByReRequest'
      BY <1>1, <2>1 DEF TypeOK, OpenedOnce, PassInOrder, LeaksOnlyByReRequest
    <2>4. SeenTo'
      BY <1>1, <2>1, <2>2 DEF SeenTo
    <2> QED BY <1>2, <2>3, <2>4
  <1>4. CASE SetUpEnds
    <2>1. /\ session = "setup" /\ session' = "up" /\ pending' = pending + 1
          /\ UNCHANGED <<held, leaked, missed, losses>>
      BY <1>4 DEF SetUpEnds, ibkr
    <2>2. pending' \in Nat /\ pending' > 0
      BY <2>1 DEF TypeOK
    <2>3. TypeOK' /\ OpenedOnce' /\ PassInOrder' /\ LeaksOnlyByReRequest'
      BY <1>1, <2>1, <2>2 DEF TypeOK, OpenedOnce, PassInOrder, LeaksOnlyByReRequest
    <2>4. SeenTo'
      BY <1>1, <2>1, <2>2 DEF SeenTo
    <2> QED BY <1>2, <2>3, <2>4
  <1>5. CASE DataLost
    <2>1. /\ session # "down" /\ session' = session /\ losses < MaxLosses /\ losses' = losses + 1
          /\ held' = {} /\ leaked' = {} /\ pending' = pending + 1
          /\ missed' = missed \cup Settling \cup {c \in Caller : pc[c] = "answered"}
      BY <1>5 DEF DataLost
    <2>2. pending' \in Nat /\ pending' > 0 /\ losses' \in 0..MaxLosses /\ Settling \in SUBSET Caller
      BY <2>1, RegistryAssumption DEF TypeOK, Settling
    <2>3. TypeOK' /\ OpenedOnce' /\ PassInOrder' /\ LeaksOnlyByReRequest'
      BY <1>1, <2>1, <2>2 DEF TypeOK, OpenedOnce, PassInOrder, LeaksOnlyByReRequest
    <2>4. SeenTo'
      BY <1>1, <2>1, <2>2 DEF SeenTo
    <2> QED BY <1>2, <2>3, <2>4
  <1> QED BY <1>3, <1>4, <1>5

\* Nothing changes.
LEMMA StutterKeeps ==
    ASSUME Inductive, UNCHANGED vars
    PROVE  Inductive'
  <1>1. UNCHANGED <<pc, key, openLock, ids, entries, index, stale, passing, rerun, todo, at, asking,
                    pending, session, held, old, leaked, missed, losses>>
    BY DEF vars, calls, registry, pass, ibkr
  <1>2. /\ Opening' = Opening /\ Settling' = Settling /\ Registered' = Registered
        /\ {d \in Opening' : pc'[d] # "failed"} = {d \in Opening : pc[d] # "failed"}
    BY <1>1 DEF Opening, Settling, Registered
  <1> QED BY <1>1, <1>2 DEF Inductive, IInv, TypeOK, OneStreamPerKey, CapsHold, LockIsHeld,
             OpenedOnce, PassInOrder, SeenTo, LeaksOnlyByReRequest

\* Together: the invariant holds of every behaviour.
LEMMA InductiveHolds == Spec => []Inductive
  <1>1. Inductive /\ [Next]_vars => Inductive'
    <2> SUFFICES ASSUME Inductive, [Next]_vars PROVE Inductive'
      OBVIOUS
    <2>1. ASSUME NEW c \in Caller,
                 \/ \E k \in Key : CallSubscribe(c, k)
                 \/ Step(c) \/ OpenAnswered(c) \/ GivesUp(c)
          PROVE  Inductive'
      BY <2>1, CallSubscribeKeeps, WaitingKeeps, AcquireKeeps, OpenAnsweredKeeps, OpenedKeeps,
         OpenFailsKeeps DEF Step
    <2>2. ASSUME NEW S \in SUBSET Caller, Unsubscribe(S) PROVE Inductive'
      BY <2>2, UnsubscribeKeeps
    <2>3. CASE Pass \/ ReRequestAnswered
      BY <2>3, PassKeeps, ReRequestAnsweredKeeps, ReRequestEndsKeeps DEF Pass
    <2>4. CASE Drop \/ SetUpBegins \/ SetUpEnds \/ DataLost
      BY <2>4, DropKeeps, SessionKeeps
    <2> QED BY <2>1, <2>2, <2>3, <2>4, StutterKeeps DEF Next
  <1> QED BY <1>1, InitInductive, PTL DEF Spec

-----------------------------------------------------------------------------
(* The theorems *)

\* For any number of calls that subscribe, give up, time out and unsubscribe, through
\* drops, losses and passes (add, _register, _forget): a key has at most one stream, the
\* two caps hold, and the open lock is only held by an open that has a time limit.
THEOREM RegistryInvariant == Spec => []IInv
  <1>1. Inductive => IInv
    BY DEF Inductive
  <1> QED BY <1>1, InductiveHolds, PTL

\* Once the passes are over, a subscription that does not say it is stale is served
\* (resubscribe_all), except one that was overtaken while it was being opened, or by the
\* late cancel of other bars.
THEOREM SettledIsServed == Spec => []FrozenOnlyIfOvertaken
  <1>1. Inductive => FrozenOnlyIfOvertaken
    <2> SUFFICES ASSUME Inductive, Settled
                 PROVE  stale \cap Registered = {} /\ Registered \ held \subseteq missed
      BY DEF FrozenOnlyIfOvertaken
    <2>1. /\ session = "up" /\ pending = 0 /\ ~rerun /\ todo = {} /\ at = None
          /\ None \notin Registered
      BY RegistryAssumption DEF Settled, Inductive, IInv, PassInOrder, TypeOK
    <2>2. \A c \in Registered : c \in (held \cup missed) \ stale
      BY <2>1 DEF Inductive, IInv, SeenTo
    <2> QED BY <2>2
  <1> QED BY <1>1, InductiveHolds, PTL

\* A stream at IBKR is a subscription's, or an open's that is under way, or left by a
\* re-request (_open, remove, _resubscribe_pass): no failed open leaves one running.
THEOREM OnlyReRequestsLeak == Spec => []LeaksOnlyByReRequest
  <1>1. Inductive => LeaksOnlyByReRequest
    BY DEF Inductive
  <1> QED BY <1>1, InductiveHolds, PTL
=============================================================================
