------------------------- MODULE PreviewStoreProofs -------------------------
(***************************************************************************)
(* Proofs about PreviewStore, for every set of tokens and previews, every  *)
(* TTL, cap and clock.  The argument: Bury only ever takes entries out and *)
(* puts tombstones in for what it took out (Shrinks), so an entry that is  *)
(* still pending is the one that was issued, and nobody has ended it.      *)
(* That the tables stay within their caps is counted by serial numbers: no *)
(* two entries, and no two tombstones, have the same (SerialsApart).       *)
(* And every token issued is accounted for (Accounts): pending, or buried  *)
(* until two TTLs after it was issued, or forgotten behind a full store.   *)
(***************************************************************************)
EXTENDS PreviewStore, FiniteSetTheorems, TLAPS

\* The tables of a store have the right shape.
IsStore(s) ==
    /\ s = [entries |-> s.entries, tombs |-> s.tombs, burials |-> s.burials]
    /\ DOMAIN s.entries \subseteq Token /\ s.entries \in [DOMAIN s.entries -> Entry]
    /\ DOMAIN s.tombs \subseteq Token /\ s.tombs \in [DOMAIN s.tombs -> Tomb]
    /\ s.burials \in Nat

\* r is s after some pending previews were buried and some tombstones dropped.
Shrinks(s, r) ==
    /\ DOMAIN r.entries \subseteq DOMAIN s.entries
    /\ \A t \in DOMAIN r.entries : r.entries[t] = s.entries[t]
    /\ DOMAIN r.tombs \subseteq DOMAIN s.tombs \cup (DOMAIN s.entries \ DOMAIN r.entries)

\* Sets of tokens can be counted.
LEMMA TokenSubsetFinite ==
    ASSUME NEW S \in SUBSET Token
    PROVE  IsFiniteSet(S) /\ Cardinality(S) \in Nat
  BY StoreAssumption, FS_Subset, FS_CardinalityType

\* Burying some of the pending tokens takes exactly those out of the entries.
LEMMA BuryStore ==
    ASSUME NEW s, IsStore(s), NEW dead \in SUBSET DOMAIN s.entries, NEW r \in Reason
    PROVE  /\ IsStore(Bury(s, dead, r))
           /\ Shrinks(s, Bury(s, dead, r))
           /\ DOMAIN Bury(s, dead, r).entries = DOMAIN s.entries \ dead
  <1> DEFINE rank(t) == Cardinality({u \in dead : s.entries[u].serial <= s.entries[t].serial})
             all == [t \in DOMAIN s.tombs \cup dead |->
                       IF t \in dead
                       THEN [reason |-> r, forget |-> s.entries[t].expires + Ttl,
                             serial |-> s.burials + rank(t)]
                       ELSE s.tombs[t]]
             kept == Newest(all, MaxEntries)
             b == Bury(s, dead, r)
  <1>1. b = [entries |-> Restrict(s.entries, DOMAIN s.entries \ dead),
             tombs |-> Restrict(all, kept), burials |-> s.burials + Cardinality(dead)]
    BY DEF Bury
  <1>2. \A t \in dead : rank(t) \in Nat
    <2> TAKE t \in dead
    <2> {u \in dead : s.entries[u].serial <= s.entries[t].serial} \in SUBSET Token
      BY DEF IsStore
    <2> QED BY TokenSubsetFinite
  <1>3. Cardinality(dead) \in Nat
    BY TokenSubsetFinite DEF IsStore
  <1>4. /\ DOMAIN all = DOMAIN s.tombs \cup dead
        /\ \A t \in DOMAIN all : all[t] \in Tomb
    <2>1. \A t \in dead : all[t] = [reason |-> r, forget |-> s.entries[t].expires + Ttl,
                                   serial |-> s.burials + rank(t)]
      OBVIOUS
    <2>2. \A t \in dead : s.entries[t].expires + Ttl \in Int
      BY StoreAssumption DEF IsStore, Entry
    <2> HIDE DEF rank
    <2>3. \A t \in dead : s.burials + rank(t) \in Nat
      BY <1>2 DEF IsStore
    <2>4. \A t \in dead : all[t] \in Tomb
      BY <2>1, <2>2, <2>3 DEF Tomb
    <2>5. \A t \in DOMAIN s.tombs \ dead : all[t] \in Tomb
      BY DEF IsStore
    <2> QED BY <2>4, <2>5
  <1> HIDE DEF all
  <1>5. kept \subseteq DOMAIN all
    BY DEF Newest
  <1>6. b.entries = [t \in DOMAIN s.entries \ dead |-> s.entries[t]]
    BY <1>1 DEF Restrict
  <1>7. b.tombs = [t \in kept |-> all[t]]
    BY <1>1 DEF Restrict
  <1>8. b.burials = s.burials + Cardinality(dead)
    BY <1>1
  <1>9. b = [entries |-> b.entries, tombs |-> b.tombs, burials |-> b.burials]
    BY <1>1
  <1> HIDE DEF b, kept
  <1>10. IsStore(b)
    BY <1>3, <1>4, <1>5, <1>6, <1>7, <1>8, <1>9 DEF IsStore
  <1>11. Shrinks(s, b) /\ DOMAIN b.entries = DOMAIN s.entries \ dead
    BY <1>4, <1>5, <1>6, <1>7 DEF Shrinks
  <1> QED BY <1>10, <1>11 DEF b

\* Shrinking twice is shrinking.
LEMMA ShrinksTrans ==
    ASSUME NEW s, NEW r, NEW q, Shrinks(s, r), Shrinks(r, q)
    PROVE  Shrinks(s, q)
  BY DEF Shrinks

\* Purging leaves no expired entry, and adds none.
LEMMA PurgeStore ==
    ASSUME NEW s, IsStore(s)
    PROVE  /\ IsStore(Purge(s))
           /\ Shrinks(s, Purge(s))
           /\ \A t \in DOMAIN Purge(s).entries : ~(s.entries[t].expires <= now)
  <1> DEFINE dead == {t \in DOMAIN s.entries : s.entries[t].expires <= now}
             b == Bury(s, dead, "expired")
             kept == Unforgotten(b.tombs)
  <1>1. /\ IsStore(b) /\ Shrinks(s, b)
        /\ DOMAIN b.entries = DOMAIN s.entries \ dead
    BY BuryStore DEF Reason
  <1>2. Purge(s) = [b EXCEPT !.tombs = Restrict(b.tombs, kept)]
    BY DEF Purge
  <1>3. kept \subseteq DOMAIN b.tombs
    BY DEF Unforgotten
  <1>4. \A t \in DOMAIN b.entries : ~(s.entries[t].expires <= now)
    BY <1>1
  <1> HIDE DEF b, kept
  <1>5. Purge(s) = [entries |-> b.entries, tombs |-> [t \in kept |-> b.tombs[t]],
                    burials |-> b.burials]
    BY <1>1, <1>2 DEF IsStore, Restrict
  <1>6. IsStore(Purge(s))
    BY <1>1, <1>3, <1>5 DEF IsStore
  <1>7. Shrinks(b, Purge(s))
    BY <1>3, <1>5 DEF Shrinks
  <1> QED BY <1>1, <1>4, <1>5, <1>6, <1>7, ShrinksTrans

\* Making room only takes entries away.
LEMMA MakeRoomStore ==
    ASSUME NEW s, IsStore(s)
    PROVE  IsStore(MakeRoom(s)) /\ Shrinks(s, MakeRoom(s))
  BY BuryStore DEF MakeRoom, Reason

\* A lookup that meets a broken digest only takes that entry away.
LEMMA VerifiedStore ==
    ASSUME NEW s, IsStore(s), NEW t \in Token
    PROVE  IsStore(Verified(s, t)) /\ Shrinks(s, Verified(s, t))
  <1>1. CASE t \in DOMAIN s.entries /\ ~Intact(s, t)
    BY <1>1, BuryStore, {t} \in SUBSET DOMAIN s.entries DEF Verified, Reason
  <1>2. CASE ~(t \in DOMAIN s.entries /\ ~Intact(s, t))
    BY <1>2 DEF Verified, Shrinks
  <1> QED BY <1>1, <1>2

-----------------------------------------------------------------------------
(* Every step preserves the inductive invariant IInv. *)

\* An empty store has the invariant.
LEMMA InitIInv == Init => IInv
  <1> SUFFICES ASSUME Init PROVE IInv
    OBVIOUS
  <1>1. TypeOK
    BY DEF Init, TypeOK
  <1> QED
    BY <1>1 DEF Init, IInv, PendingIsIssued, BuriedIsGone, FreshIsUntouched, SingleUse,
                HandsOutWhatWasPreviewed, AcceptsOnlyFresh

\* The purge every public method starts with.
LEMMA PurgedStore ==
    ASSUME IInv
    PROVE  /\ IsStore(Store)
           /\ IsStore(Purged)
           /\ Shrinks(Store, Purged)
           /\ \A t \in DOMAIN Purged.entries :
                 t \in DOMAIN entries /\ ~(entries[t].expires <= now)
  <1>1. IsStore(Store)
    BY DEF IsStore, Store, IInv, TypeOK
  <1>2. Store.entries = entries
    BY DEF Store
  <1> QED BY <1>1, <1>2, PurgeStore DEF Purged, Shrinks

\* What adopting a shrunk store does to the two tables.
LEMMA AdoptShrunk ==
    ASSUME IInv, NEW r, IsStore(r), Shrinks(Store, r), Adopt(r)
    PROVE  /\ DOMAIN entries' \subseteq Token /\ entries' \in [DOMAIN entries' -> Entry]
           /\ DOMAIN tombs' \subseteq Token /\ tombs' \in [DOMAIN tombs' -> Tomb]
           /\ burials' \in Nat
           /\ \A t \in DOMAIN entries' : t \in DOMAIN entries /\ entries'[t] = entries[t]
           /\ \A t \in DOMAIN tombs' : t \in DOMAIN issued /\ t \notin DOMAIN entries'
           /\ DOMAIN entries' = DOMAIN r.entries
  <1>1. Store.entries = entries /\ Store.tombs = tombs
    BY DEF Store
  <1>2. entries' = r.entries /\ tombs' = r.tombs /\ burials' = r.burials
    BY DEF Adopt
  <1>3. \A t \in DOMAIN tombs' : t \in DOMAIN issued /\ t \notin DOMAIN entries'
    BY <1>1, <1>2 DEF Shrinks, IInv, BuriedIsGone, PendingIsIssued
  <1> QED BY <1>1, <1>2, <1>3 DEF IsStore, Shrinks

\* The answer to a lookup: in range, and "ok" only for a fresh, intact entry.
LEMMA LookupAnswer ==
    ASSUME IInv, NEW t \in Token, Answered(t)
    PROVE  /\ reply' \in Reply
           /\ reply'.token = t /\ reply'.answer = Answer(Purged, t)
           /\ Answer(Purged, t) = "ok" =>
                 /\ t \in DOMAIN Purged.entries /\ t \in DOMAIN entries
                 /\ Purged.entries[t] = entries[t]
                 /\ entries[t].preview = issued[t].preview
                 /\ reply'.preview = issued[t].preview
                 /\ now < issued[t].at + Ttl
  <1>1. /\ IsStore(Purged) /\ Shrinks(Store, Purged) /\ Store.entries = entries
        /\ \A u \in DOMAIN Purged.entries :
             u \in DOMAIN entries /\ ~(entries[u].expires <= now)
    BY PurgedStore DEF Store
  <1>2. /\ reply'.token = t /\ reply'.answer = Answer(Purged, t)
        /\ reply'.preview = IF Answer(Purged, t) = "ok"
                            THEN Purged.entries[t].preview ELSE None
        /\ reply' = [token |-> t, answer |-> Answer(Purged, t), preview |-> reply'.preview]
    BY DEF Answered
  <1>3. Answer(Purged, t) \in Reason \cup {"ok", "unknown"}
    BY <1>1 DEF Answer, IsStore, Tomb, Reason
  <1>4. Answer(Purged, t) = "ok" =>
            t \in DOMAIN Purged.entries /\ Intact(Purged, t)
    BY <1>1 DEF Answer, IsStore, Tomb, Reason
  <1>5. ASSUME Answer(Purged, t) = "ok"
        PROVE  /\ t \in DOMAIN Purged.entries /\ t \in DOMAIN entries
               /\ Purged.entries[t] = entries[t]
               /\ entries[t].preview = issued[t].preview
               /\ reply'.preview = issued[t].preview
               /\ now < issued[t].at + Ttl
               /\ issued[t].preview \in Preview
    <2>1. t \in DOMAIN Purged.entries /\ t \in DOMAIN entries /\ Purged.entries[t] = entries[t]
      BY <1>1, <1>4, <1>5 DEF Shrinks
    <2>2. entries[t].preview = entries[t].sealed
      BY <1>4, <1>5, <2>1 DEF Intact
    <2>3. entries[t].sealed = issued[t].preview /\ entries[t].expires = issued[t].at + Ttl
          /\ t \in DOMAIN issued
      BY <2>1 DEF IInv, PendingIsIssued
    <2>4. entries[t].expires \in Int /\ now \in Int /\ issued[t].preview \in Preview
      BY <2>1, <2>3 DEF IInv, TypeOK, Entry
    <2>5. now < issued[t].at + Ttl
      BY <1>1, <2>1, <2>3, <2>4
    <2> QED BY <1>2, <1>5, <2>1, <2>2, <2>3, <2>4, <2>5
  <1>6. reply' \in Reply
    BY <1>2, <1>3, <1>5 DEF Reply
  <1> QED BY <1>2, <1>5, <1>6

\* A lookup that adopts a shrunk store in which t stays pending only if the
\* lookup did not end it: Peek, Consume and Discard.
LEMMA LookupPreserves ==
    ASSUME IInv, NEW t \in Token, Answered(t),
           NEW r, IsStore(r), Shrinks(Store, r), Adopt(r),
           UNCHANGED <<now, latest, issued>>,
           \/ UNCHANGED <<uses, discards, granted>>
           \/ /\ Answer(Purged, t) = "ok" /\ t \notin DOMAIN r.entries
              /\ \/ /\ uses' = [uses EXCEPT ![t] = @ + 1]
                    /\ granted' = [granted EXCEPT ![t] = Purged.entries[t].preview]
                    /\ UNCHANGED discards
                 \/ /\ discards' = [discards EXCEPT ![t] = @ + 1]
                    /\ UNCHANGED <<uses, granted>>
    PROVE  IInv'
  <1> USE DEF IInv
  <1>1. /\ DOMAIN entries' \subseteq Token /\ entries' \in [DOMAIN entries' -> Entry]
        /\ DOMAIN tombs' \subseteq Token /\ tombs' \in [DOMAIN tombs' -> Tomb]
        /\ burials' \in Nat
        /\ \A u \in DOMAIN entries' : u \in DOMAIN entries /\ entries'[u] = entries[u]
        /\ BuriedIsGone'
        /\ DOMAIN entries' = DOMAIN r.entries
    BY AdoptShrunk DEF BuriedIsGone
  <1>2. /\ reply' \in Reply /\ reply'.token = t /\ reply'.answer = Answer(Purged, t)
        /\ Answer(Purged, t) = "ok" =>
              /\ t \in DOMAIN entries /\ Purged.entries[t] = entries[t]
              /\ entries[t].preview = issued[t].preview
              /\ reply'.preview = issued[t].preview
              /\ now < issued[t].at + Ttl
    BY LookupAnswer
  <1>3. Answer(Purged, t) = "ok" =>
            /\ t \in DOMAIN issued /\ uses[t] = 0 /\ discards[t] = 0
            /\ issued[t].preview \in Preview
    BY <1>2 DEF PendingIsIssued, TypeOK
  <1>4. TypeOK'
    <2>1. uses' \in [Token -> Nat] /\ discards' \in [Token -> Nat]
          /\ granted' \in [Token -> Preview \cup {None}]
      BY <1>2, <1>3 DEF TypeOK
    <2> QED BY <1>1, <1>2, <2>1 DEF TypeOK
  <1>5. PendingIsIssued'
    BY <1>1, <1>2 DEF PendingIsIssued, TypeOK
  <1>6. FreshIsUntouched'
    BY <1>3 DEF FreshIsUntouched, TypeOK
  <1>7. SingleUse'
    <2> SUFFICES ASSUME NEW u \in Token PROVE uses'[u] + discards'[u] <= 1
      BY DEF SingleUse
    <2>1. uses \in [Token -> Nat] /\ discards \in [Token -> Nat] /\ uses[u] + discards[u] <= 1
      BY DEF TypeOK, SingleUse
    <2>2. CASE u = t
      BY <1>3, <2>1, <2>2
    <2>3. CASE u # t
      BY <2>1, <2>3
    <2> QED BY <2>2, <2>3
  <1>8. HandsOutWhatWasPreviewed'
    BY <1>2, <1>3 DEF HandsOutWhatWasPreviewed, TypeOK
  <1>9. AcceptsOnlyFresh'
    BY <1>2, <1>3 DEF AcceptsOnlyFresh
  <1> QED BY <1>1, <1>4, <1>5, <1>6, <1>7, <1>8, <1>9

\* Issuing adds one entry, for a token never seen before.
LEMMA IssuePreserves ==
    ASSUME IInv, NEW t \in Token, NEW p \in Preview, Issue(t, p)
    PROVE  IInv'
  <1> USE DEF IInv
  <1> DEFINE s == MakeRoom(Purged)
             entry == [preview |-> p, sealed |-> p, expires |-> now + Ttl,
                       serial |-> NextSerial]
  <1>1. IsStore(s) /\ Shrinks(Store, s)
    BY PurgedStore, MakeRoomStore, ShrinksTrans
  <1>2. Store.entries = entries /\ Store.tombs = tombs
    BY DEF Store
  <1>3. NextSerial \in Nat
    BY TokenSubsetFinite DEF NextSerial, TypeOK
  <1>4. entry \in Entry
    BY <1>3, StoreAssumption DEF Entry, TypeOK
  <1>5. /\ t \notin DOMAIN issued
        /\ entries' = Insert(s.entries, t, entry)
        /\ tombs' = s.tombs /\ burials' = s.burials
        /\ issued' = Insert(issued, t, [preview |-> p, at |-> now, serial |-> NextSerial])
        /\ reply' = None
        /\ UNCHANGED <<now, latest, uses, discards, granted>>
    <2> HIDE DEF s, entry
    <2>1. [s EXCEPT !.entries = Insert(s.entries, t, entry)]
            = [entries |-> Insert(s.entries, t, entry), tombs |-> s.tombs,
               burials |-> s.burials]
      BY <1>1 DEF IsStore
    <2> QED BY <2>1 DEF Issue, Adopt, s, entry
  <1> HIDE DEF s, entry
  <1>6. t \notin DOMAIN s.entries /\ t \notin DOMAIN s.tombs
    BY <1>1, <1>2, <1>5 DEF Shrinks, PendingIsIssued, BuriedIsGone
  <1>7. /\ DOMAIN entries' = DOMAIN s.entries \cup {t}
        /\ entries'[t] = entry
        /\ \A u \in DOMAIN s.entries : u \in DOMAIN entries /\ entries'[u] = entries[u]
        /\ DOMAIN issued' = DOMAIN issued \cup {t}
        /\ issued'[t] = [preview |-> p, at |-> now, serial |-> NextSerial]
        /\ \A u \in DOMAIN issued : issued'[u] = issued[u]
    BY <1>1, <1>2, <1>5, <1>6 DEF Insert, Shrinks
  <1>8. TypeOK'
    <2>1. DOMAIN entries' \subseteq Token /\ entries' \in [DOMAIN entries' -> Entry]
      BY <1>1, <1>4, <1>5, <1>7 DEF IsStore, Insert
    <2>2. DOMAIN issued' \subseteq Token
          /\ issued' \in [DOMAIN issued' -> [preview : Preview, at : Int, serial : Nat]]
      BY <1>3, <1>5, <1>7 DEF TypeOK, Insert
    <2> QED BY <1>1, <1>5, <2>1, <2>2 DEF TypeOK, IsStore
  <1>9. PendingIsIssued'
    BY <1>5, <1>7 DEF PendingIsIssued, FreshIsUntouched, entry
  <1>10. BuriedIsGone'
    BY <1>1, <1>2, <1>5, <1>6, <1>7 DEF BuriedIsGone, PendingIsIssued, Shrinks
  <1>11. FreshIsUntouched' /\ SingleUse'
    BY <1>5, <1>7 DEF FreshIsUntouched, SingleUse
  <1>12. HandsOutWhatWasPreviewed'
    BY <1>5, <1>7 DEF HandsOutWhatWasPreviewed
  <1>13. AcceptsOnlyFresh'
    BY <1>5 DEF AcceptsOnlyFresh
  <1> QED BY <1>8, <1>9, <1>10, <1>11, <1>12, <1>13

\* A consume that succeeds takes the entry out and counts one use.
LEMMA ConsumePreserves ==
    ASSUME IInv, NEW t \in Token, Consume(t)
    PROVE  IInv'
  <1>1. IsStore(Purged) /\ Shrinks(Store, Purged)
    BY PurgedStore
  <1>2. CASE Answer(Purged, t) = "ok"
    <2> DEFINE r == Bury(Purged, {t}, "used")
    <2>1. t \in DOMAIN Purged.entries
      BY <1>2, LookupAnswer DEF Consume
    <2>2. /\ IsStore(r) /\ Shrinks(Purged, r)
          /\ DOMAIN r.entries = DOMAIN Purged.entries \ {t}
      BY <1>1, <2>1, BuryStore, {t} \in SUBSET DOMAIN Purged.entries DEF Reason
    <2>3. Shrinks(Store, r)
      BY <1>1, <2>2, ShrinksTrans
    <2> HIDE DEF r
    <2>4. Adopt(r)
      BY <1>2 DEF Consume, r
    <2> QED BY <1>2, <2>2, <2>3, <2>4, LookupPreserves DEF Consume
  <1>3. CASE Answer(Purged, t) # "ok"
    <2> DEFINE r == Verified(Purged, t)
    <2>1. IsStore(r) /\ Shrinks(Store, r)
      BY <1>1, VerifiedStore, ShrinksTrans
    <2> HIDE DEF r
    <2>2. Adopt(r)
      BY <1>3 DEF Consume, r
    <2> QED BY <1>3, <2>1, <2>2, LookupPreserves DEF Consume
  <1> QED BY <1>2, <1>3

\* A discard that succeeds takes the entry out and counts one discard.
LEMMA DiscardPreserves ==
    ASSUME IInv, NEW t \in Token, Discard(t)
    PROVE  IInv'
  <1>1. IsStore(Purged) /\ Shrinks(Store, Purged)
    BY PurgedStore
  <1>2. CASE Answer(Purged, t) = "ok"
    <2> DEFINE r == Bury(Purged, {t}, "discarded")
    <2>1. t \in DOMAIN Purged.entries
      BY <1>2, LookupAnswer DEF Discard
    <2>2. /\ IsStore(r) /\ Shrinks(Purged, r)
          /\ DOMAIN r.entries = DOMAIN Purged.entries \ {t}
      BY <1>1, <2>1, BuryStore, {t} \in SUBSET DOMAIN Purged.entries DEF Reason
    <2>3. Shrinks(Store, r)
      BY <1>1, <2>2, ShrinksTrans
    <2> HIDE DEF r
    <2>4. Adopt(r)
      BY <1>2 DEF Discard, r
    <2> QED BY <1>2, <2>2, <2>3, <2>4, LookupPreserves DEF Discard
  <1>3. CASE Answer(Purged, t) # "ok"
    <2> DEFINE r == Verified(Purged, t)
    <2>1. IsStore(r) /\ Shrinks(Store, r)
      BY <1>1, VerifiedStore, ShrinksTrans
    <2> HIDE DEF r
    <2>2. Adopt(r)
      BY <1>3 DEF Discard, r
    <2> QED BY <1>3, <2>1, <2>2, LookupPreserves DEF Discard
  <1> QED BY <1>2, <1>3

\* Looking at a preview ends none.
LEMMA PeekPreserves ==
    ASSUME IInv, NEW t \in Token, Peek(t)
    PROVE  IInv'
  <1> DEFINE r == Verified(Purged, t)
  <1>1. IsStore(r) /\ Shrinks(Store, r)
    BY PurgedStore, VerifiedStore, ShrinksTrans
  <1> HIDE DEF r
  <1>2. Adopt(r)
    BY DEF Peek, r
  <1> QED BY <1>1, <1>2, LookupPreserves DEF Peek

\* Nor does purging at a moment of its own.
LEMMA PurgeExpiredPreserves ==
    ASSUME IInv, PurgeExpired
    PROVE  IInv'
  <1> USE DEF IInv
  <1>1. /\ Adopt(Purged) /\ reply' = None
        /\ UNCHANGED <<now, latest, issued, uses, discards, granted>>
    BY DEF PurgeExpired
  <1>2. /\ DOMAIN entries' \subseteq Token /\ entries' \in [DOMAIN entries' -> Entry]
        /\ DOMAIN tombs' \subseteq Token /\ tombs' \in [DOMAIN tombs' -> Tomb]
        /\ burials' \in Nat
        /\ \A u \in DOMAIN entries' : u \in DOMAIN entries /\ entries'[u] = entries[u]
        /\ BuriedIsGone'
    BY <1>1, PurgedStore, AdoptShrunk DEF BuriedIsGone
  <1>3. TypeOK'
    BY <1>1, <1>2 DEF TypeOK
  <1> QED BY <1>1, <1>2, <1>3 DEF PendingIsIssued, FreshIsUntouched, SingleUse,
             HandsOutWhatWasPreviewed, AcceptsOnlyFresh

\* The clock, and content altered behind the store, leave the tables consistent.
LEMMA OthersPreserve ==
    ASSUME IInv, \/ \E t \in Token : Mutate(t)
                 \/ \E d \in ClockSteps : Tick(d)
                 \/ UNCHANGED vars
    PROVE  IInv'
  <1> USE DEF IInv
  <1>1. ASSUME NEW t \in Token, Mutate(t) PROVE IInv'
    <2>1. /\ DOMAIN entries' = DOMAIN entries
          /\ \A u \in DOMAIN entries : /\ entries'[u].sealed = entries[u].sealed
                                       /\ entries'[u].expires = entries[u].expires
          /\ entries' \in [DOMAIN entries -> Entry]
      BY <1>1 DEF Mutate, TypeOK, Entry
    <2>2. /\ reply' = None
          /\ UNCHANGED <<now, tombs, burials, issued, uses, discards, granted, latest>>
      BY <1>1 DEF Mutate
    <2>3. TypeOK'
      BY <2>1, <2>2 DEF TypeOK
    <2> QED BY <2>1, <2>2, <2>3 DEF PendingIsIssued, BuriedIsGone, FreshIsUntouched,
               SingleUse, HandsOutWhatWasPreviewed, AcceptsOnlyFresh
  <1>2. ASSUME NEW d \in ClockSteps, Tick(d) PROVE IInv'
    <2>1. /\ now' \in Int /\ latest' \in Int /\ reply' = None
          /\ UNCHANGED <<entries, tombs, burials, issued, uses, discards, granted>>
      BY <1>2, StoreAssumption DEF Tick, TypeOK
    <2>2. TypeOK'
      BY <2>1 DEF TypeOK
    <2> QED BY <2>1, <2>2 DEF PendingIsIssued, BuriedIsGone, FreshIsUntouched,
               SingleUse, HandsOutWhatWasPreviewed, AcceptsOnlyFresh
  <1>3. CASE UNCHANGED vars
    BY <1>3 DEF vars, tables, TypeOK, PendingIsIssued, BuriedIsGone, FreshIsUntouched,
                SingleUse, HandsOutWhatWasPreviewed, AcceptsOnlyFresh
  <1> QED BY <1>1, <1>2, <1>3

\* The invariant holds whatever the callers do: the state of the store's two
\* tables agrees at every step with what was issued and what was ended.
THEOREM StoreInvariant == Spec => []IInv
  <1>1. IInv /\ [Next]_vars => IInv'
    BY IssuePreserves, PeekPreserves, ConsumePreserves, DiscardPreserves,
       PurgeExpiredPreserves, OthersPreserve DEF Next
  <1> QED BY <1>1, InitIInv, PTL DEF Spec

\* The tables and the ghosts keep their types.
THEOREM TypeCorrect == Spec => []TypeOK
  <1>1. IInv => TypeOK
    BY DEF IInv
  <1> QED BY <1>1, StoreInvariant, PTL

\* A token is consumed or discarded at most once in all, over any sequence of
\* issue, peek, consume, discard and purge, at any clock: the promise submit
\* rests on ("each token submits exactly once").
THEOREM TokensAreSingleUse == Spec => []SingleUse
  <1>1. IInv => SingleUse
    BY DEF IInv
  <1> QED BY <1>1, StoreInvariant, PTL

\* Consuming returns what was previewed, even if the stored entry was altered.
THEOREM ConsumeIsFaithful == Spec => []HandsOutWhatWasPreviewed
  <1>1. IInv => HandsOutWhatWasPreviewed
    BY DEF IInv
  <1> QED BY <1>1, StoreInvariant, PTL

\* A lookup succeeds only before the TTL has passed on the clock it reads.
THEOREM OnlyFreshAccepted == Spec => []AcceptsOnlyFresh
  <1>1. IInv => AcceptsOnlyFresh
    BY DEF IInv
  <1> QED BY <1>1, StoreInvariant, PTL

-----------------------------------------------------------------------------
(* The store implements TokenBook. *)

\* What every lookup and purge does to the tables, whatever it answers.
LEMMA LookupShrinks ==
    ASSUME IInv, NEW t \in Token, Peek(t) \/ Consume(t) \/ Discard(t) \/ PurgeExpired
    PROVE  DOMAIN entries' \subseteq DOMAIN entries /\ UNCHANGED issued
  <1>1. IsStore(Purged) /\ Shrinks(Store, Purged) /\ Store.entries = entries
    BY PurgedStore DEF Store
  <1>2. CASE Peek(t) \/ (Consume(t) /\ Answer(Purged, t) # "ok")
             \/ (Discard(t) /\ Answer(Purged, t) # "ok")
    BY <1>1, <1>2, VerifiedStore DEF Peek, Consume, Discard, Adopt, Shrinks
  <1>3. CASE PurgeExpired
    BY <1>1, <1>3 DEF PurgeExpired, Adopt, Shrinks
  <1>4. CASE (Consume(t) \/ Discard(t)) /\ Answer(Purged, t) = "ok"
    <2>1. {t} \in SUBSET DOMAIN Purged.entries
      BY <1>4, LookupAnswer DEF Consume, Discard
    <2>2. \A why \in Reason : Shrinks(Purged, Bury(Purged, {t}, why))
      BY <1>1, <2>1, BuryStore
    <2>3. \E why \in Reason : Adopt(Bury(Purged, {t}, why))
      BY <1>4 DEF Consume, Discard, Reason
    <2>4. UNCHANGED issued
      BY <1>4 DEF Consume, Discard
    <2> QED BY <1>1, <2>2, <2>3, <2>4 DEF Adopt, Shrinks
  <1> QED BY <1>2, <1>3, <1>4

\* What the book calls pending is what the store has entries for.
LEMMA PendingTokens ==
    ASSUME IInv
    PROVE  Book!Pending = DOMAIN entries
  BY DEF Book!Pending, BookStatus, IInv, TypeOK, PendingIsIssued

\* A step that only loses pending tokens, and grants nothing, is a Lapse.
LEMMA LosingIsLapsing ==
    ASSUME IInv, DOMAIN entries' \subseteq DOMAIN entries,
           UNCHANGED <<issued, uses, granted>>
    PROVE  Book!BookNext
  <1> DEFINE lost == DOMAIN entries \ DOMAIN entries'
  <1>1. lost \in SUBSET Book!Pending
    BY PendingTokens
  <1>2. BookStatus' = [u \in Token |-> IF u \in lost THEN "lapsed" ELSE BookStatus[u]]
    BY DEF BookStatus, IInv, TypeOK, PendingIsIssued
  <1>3. BookBound' = BookBound
    BY DEF BookBound
  <1>4. Book!Lapse(lost)
    BY <1>2, <1>3 DEF Book!Lapse
  <1> QED BY <1>1, <1>4 DEF Book!BookNext

\* A consume that succeeds redeems its token; what it purged lapses.
LEMMA ConsumingIsRedeeming ==
    ASSUME IInv, NEW t \in Token, Consume(t), Answer(Purged, t) = "ok"
    PROVE  Book!BookNext
  <1> DEFINE lost == DOMAIN entries \ (DOMAIN entries' \cup {t})
  <1>1. /\ t \in DOMAIN entries /\ t \in DOMAIN issued /\ uses[t] = 0
        /\ Purged.entries[t].preview = issued[t].preview
    BY LookupAnswer DEF Consume, IInv, PendingIsIssued
  <1>2. DOMAIN entries' \subseteq DOMAIN entries /\ UNCHANGED issued
    BY LookupShrinks
  <1>3. t \notin DOMAIN entries'
    <2>1. IsStore(Purged) /\ {t} \in SUBSET DOMAIN Purged.entries
      BY PurgedStore, LookupAnswer DEF Consume
    <2>2. DOMAIN Bury(Purged, {t}, "used").entries = DOMAIN Purged.entries \ {t}
      BY <2>1, BuryStore DEF Reason
    <2> QED BY <2>2 DEF Consume, Adopt
  <1>4. /\ uses' = [uses EXCEPT ![t] = @ + 1]
        /\ granted' = [granted EXCEPT ![t] = issued[t].preview]
    BY <1>1 DEF Consume
  <1>5. lost \in SUBSET Book!Pending /\ t \in Book!Pending \ lost
    BY <1>1, PendingTokens
  <1>6. uses \in [Token -> Nat] /\ uses' \in [Token -> Nat] /\ uses'[t] = 1
    BY <1>1, <1>4 DEF IInv, TypeOK
  <1>7. BookStatus' = [u \in Token |-> IF u = t THEN "redeemed"
                                       ELSE IF u \in lost THEN "lapsed" ELSE BookStatus[u]]
    BY <1>1, <1>2, <1>3, <1>4, <1>6 DEF BookStatus, IInv, TypeOK, PendingIsIssued
  <1>8. BookBound' = BookBound /\ BookBound[t] = issued[t].preview
    BY <1>1, <1>2 DEF BookBound
  <1>9. Book!Redeem(lost, t)
    BY <1>4, <1>5, <1>7, <1>8 DEF Book!Redeem, Book!Move
  <1> QED BY <1>5, <1>9 DEF Book!BookNext

\* Issuing is the book's Issue; what it purged or evicted lapses.
LEMMA IssuingIsIssuing ==
    ASSUME IInv, NEW t \in Token, NEW p \in Preview, Issue(t, p)
    PROVE  Book!BookNext
  <1> DEFINE s == MakeRoom(Purged)
             lost == DOMAIN entries \ DOMAIN entries'
             new == [preview |-> p, at |-> now, serial |-> NextSerial]
  <1>1. IsStore(s) /\ Shrinks(Store, s) /\ Store.entries = entries
    BY PurgedStore, MakeRoomStore, ShrinksTrans DEF Store
  <1>2. /\ t \notin DOMAIN issued /\ issued' = Insert(issued, t, new)
        /\ UNCHANGED <<uses, granted>>
        /\ DOMAIN entries' = DOMAIN s.entries \cup {t}
    <2> DEFINE e == [preview |-> p, sealed |-> p, expires |-> now + Ttl, serial |-> NextSerial]
    <2> HIDE DEF s, e
    <2>1. [s EXCEPT !.entries = Insert(s.entries, t, e)].entries = Insert(s.entries, t, e)
      BY <1>1 DEF IsStore
    <2> QED BY <2>1 DEF Issue, Adopt, Insert, s, e
  <1> HIDE DEF s
  <1>3. t \notin DOMAIN entries /\ DOMAIN entries' \subseteq DOMAIN entries \cup {t}
        /\ t \in DOMAIN entries'
    BY <1>1, <1>2 DEF Shrinks, IInv, PendingIsIssued
  <1>4. lost \in SUBSET Book!Pending
    BY PendingTokens
  <1>5. DOMAIN issued' = DOMAIN issued \cup {t} /\ issued'[t] = new
        /\ \A u \in DOMAIN issued : issued'[u] = issued[u]
    BY <1>2 DEF Insert
  <1>6. BookStatus[t] = "fresh"
    BY <1>2 DEF BookStatus
  <1>7. BookStatus' = [u \in Token |-> IF u = t THEN "pending"
                                       ELSE IF u \in lost THEN "lapsed" ELSE BookStatus[u]]
    BY <1>2, <1>3, <1>5 DEF BookStatus, IInv, TypeOK, PendingIsIssued
  <1>8. BookBound' = [BookBound EXCEPT ![t] = p]
    <2>1. issued'[t].preview = p
      BY <1>5
    <2>2. \A u \in Token : BookBound'[u] = IF u = t THEN p ELSE BookBound[u]
      BY <1>5, <2>1 DEF BookBound
    <2> QED BY <2>2 DEF BookBound
  <1>9. Book!Issue(lost, t, p)
    BY <1>2, <1>6, <1>7, <1>8 DEF Book!Issue, Book!Move
  <1> QED BY <1>4, <1>9 DEF Book!BookNext

\* Every step of the store is a step of the book, or none.
LEMMA StepIsBookStep ==
    ASSUME IInv, [Next]_vars
    PROVE  [Book!BookNext]_(Book!bookVars)
  <1>1. ASSUME NEW t \in Token, NEW p \in Preview, Issue(t, p) PROVE Book!BookNext
    BY <1>1, IssuingIsIssuing
  <1>2. ASSUME NEW t \in Token, Peek(t) \/ Discard(t) PROVE Book!BookNext
    <2>1. DOMAIN entries' \subseteq DOMAIN entries /\ UNCHANGED issued
      BY <1>2, LookupShrinks
    <2>2. UNCHANGED <<uses, granted>>
      BY <1>2 DEF Peek, Discard
    <2> QED BY <2>1, <2>2, LosingIsLapsing
  <1>3. ASSUME NEW t \in Token, Consume(t) PROVE Book!BookNext
    <2>1. CASE Answer(Purged, t) = "ok"
      BY <1>3, <2>1, ConsumingIsRedeeming
    <2>2. CASE Answer(Purged, t) # "ok"
      <3>1. DOMAIN entries' \subseteq DOMAIN entries /\ UNCHANGED issued
        BY <1>3, LookupShrinks
      <3>2. UNCHANGED <<uses, granted>>
        BY <1>3, <2>2 DEF Consume
      <3> QED BY <3>1, <3>2, LosingIsLapsing
    <2> QED BY <2>1, <2>2
  <1>4. CASE PurgeExpired
    <2>1. DOMAIN entries' \subseteq DOMAIN entries
      BY <1>4, PurgedStore DEF PurgeExpired, Adopt
    <2>2. UNCHANGED <<issued, uses, granted>>
      BY <1>4 DEF PurgeExpired
    <2> QED BY <2>1, <2>2, LosingIsLapsing
  <1>5. ASSUME NEW t \in Token, Mutate(t) PROVE Book!BookNext
    <2>1. DOMAIN entries' = DOMAIN entries /\ UNCHANGED <<issued, uses, granted>>
      BY <1>5 DEF Mutate, IInv, TypeOK
    <2> QED BY <2>1, LosingIsLapsing
  <1>6. ASSUME NEW d \in ClockSteps, Tick(d) PROVE Book!BookNext
    BY <1>6, LosingIsLapsing DEF Tick
  <1>7. CASE UNCHANGED vars
    <2>1. UNCHANGED <<BookStatus, BookBound, granted>>
      BY <1>7 DEF vars, tables, BookStatus, BookBound
    <2> QED BY <2>1 DEF Book!bookVars
  <1> QED BY <1>1, <1>2, <1>3, <1>4, <1>5, <1>6, <1>7 DEF Next

\* The store refines the promise: a token moves one way from fresh to pending
\* to redeemed or lapsed, and redeems as the preview it was issued for.
THEOREM StoreImplementsTokenBook == Spec => ImplementsTokenBook
  <1>1. Init => Book!BookInit
    BY DEF Init, Book!BookInit, BookStatus, BookBound
  <1>2. IInv /\ [Next]_vars => [Book!BookNext]_(Book!bookVars)
    BY StepIsBookStep
  <1> QED BY <1>1, <1>2, StoreInvariant, PTL DEF Spec, ImplementsTokenBook, Book!BookSpec

-----------------------------------------------------------------------------
(* The tables stay within their caps. *)

\* A dict's serial numbers give its keys an order.
SerialsApart(dict) ==
    /\ \A t \in DOMAIN dict : dict[t].serial \in Nat
    /\ \A t, u \in DOMAIN dict : dict[t].serial = dict[u].serial => t = u

\* A store's tables are ordered, and there are not too many tombstones.
InOrder(s) ==
    /\ SerialsApart(s.entries) /\ SerialsApart(s.tombs)
    /\ \A t \in DOMAIN s.tombs : s.tombs[t].serial <= s.burials
    /\ Cardinality(DOMAIN s.tombs) <= MaxEntries

\* A part of a finite set that leaves a member out is smaller.
LEMMA SmallerPart ==
    ASSUME NEW S \in SUBSET Token, NEW T \in SUBSET S, NEW x \in S \ T
    PROVE  Cardinality(T) < Cardinality(S)
  <1>1. IsFiniteSet(S) /\ Cardinality(S) \in Nat /\ Cardinality(T) \in Nat
    BY TokenSubsetFinite
  <1>2. Cardinality(T) <= Cardinality(S) /\ Cardinality(T) # Cardinality(S)
    BY <1>1, FS_Subset
  <1> QED BY <1>1, <1>2

\* The newest n keys of an ordered dict are no more than n: the numbers of keys that
\* come after them are different, and less than n.
LEMMA NewestBounded ==
    ASSUME NEW dict, DOMAIN dict \subseteq Token, SerialsApart(dict), NEW n \in Nat
    PROVE  Cardinality(Newest(dict, n)) <= n
  <1> DEFINE after(t) == {u \in DOMAIN dict : dict[u].serial > dict[t].serial}
             N == Newest(dict, n)
             f == [t \in N |-> Cardinality(after(t))]
  <1>1. N \subseteq DOMAIN dict
    BY DEF Newest
  <1>2. \A t \in N : Cardinality(after(t)) \in 0 .. n - 1
    <2> TAKE t \in N
    <2>1. Cardinality(after(t)) < n
      BY DEF Newest
    <2>2. after(t) \in SUBSET Token
      OBVIOUS
    <2>3. Cardinality(after(t)) \in Nat
      BY <2>2, TokenSubsetFinite
    <2> QED BY <2>1, <2>3
  <1>3. \A t, u \in N : dict[t].serial < dict[u].serial => Cardinality(after(u)) < Cardinality(after(t))
    <2> SUFFICES ASSUME NEW t \in N, NEW u \in N, dict[t].serial < dict[u].serial
                 PROVE  Cardinality(after(u)) < Cardinality(after(t))
      OBVIOUS
    <2>1. /\ dict[t].serial \in Nat /\ dict[u].serial \in Nat
          /\ \A v \in DOMAIN dict : dict[v].serial \in Nat
      BY <1>1 DEF SerialsApart
    <2>2. after(t) \in SUBSET Token /\ after(u) \in SUBSET after(t)
      BY <2>1
    <2>3. u \in after(t) \ after(u)
      BY <1>1, <2>1
    <2> HIDE DEF after
    <2> QED BY <2>2, <2>3, SmallerPart
  <1>4. \A t, u \in N : f[t] = f[u] => t = u
    <2> SUFFICES ASSUME NEW t \in N, NEW u \in N, f[t] = f[u] PROVE t = u
      OBVIOUS
    <2>1. dict[t].serial \in Nat /\ dict[u].serial \in Nat
      BY <1>1 DEF SerialsApart
    <2>2. Cardinality(after(t)) = Cardinality(after(u)) /\ Cardinality(after(t)) \in 0 .. n - 1
      BY <1>2
    <2> HIDE DEF after, f
    <2>3. dict[t].serial = dict[u].serial
      BY <1>3, <2>1, <2>2
    <2> QED BY <1>1, <2>3 DEF SerialsApart
  <1>5. f \in Injection(N, 0 .. n - 1)
    BY <1>2, <1>4 DEF Injection, IsInjective
  <1>6. IsFiniteSet(0 .. n - 1) /\ Cardinality(0 .. n - 1) = n
    BY FS_Interval
  <1> HIDE DEF f, N
  <1>7. Cardinality(N) <= Cardinality(0 .. n - 1)
    BY <1>5, <1>6, FS_Injection
  <1> QED BY <1>6, <1>7 DEF N

\* Taking keys out of an ordered dict leaves it ordered.
LEMMA SerialsKept ==
    ASSUME NEW d, NEW e, SerialsApart(d), DOMAIN e \subseteq DOMAIN d,
           \A t \in DOMAIN e : e[t].serial = d[t].serial
    PROVE  SerialsApart(e)
  BY DEF SerialsApart

\* Burying gives every new tombstone the next serial number, in the order of the
\* entries, and drops the oldest beyond the cap.
LEMMA BuryInOrder ==
    ASSUME NEW s, IsStore(s), InOrder(s), NEW dead \in SUBSET DOMAIN s.entries, NEW r \in Reason
    PROVE  InOrder(Bury(s, dead, r))
  <1> DEFINE upto(t) == {u \in dead : s.entries[u].serial <= s.entries[t].serial}
             rank(t) == Cardinality(upto(t))
             all == [t \in DOMAIN s.tombs \cup dead |->
                       IF t \in dead
                       THEN [reason |-> r, forget |-> s.entries[t].expires + Ttl,
                             serial |-> s.burials + rank(t)]
                       ELSE s.tombs[t]]
             kept == Newest(all, MaxEntries)
             b == Bury(s, dead, r)
  <1>1. b = [entries |-> Restrict(s.entries, DOMAIN s.entries \ dead),
             tombs |-> Restrict(all, kept), burials |-> s.burials + Cardinality(dead)]
    BY DEF Bury
  <1>2. /\ dead \in SUBSET Token /\ Cardinality(dead) \in Nat /\ s.burials \in Nat
        /\ \A t \in dead : s.entries[t].serial \in Nat
    BY TokenSubsetFinite DEF IsStore, InOrder, SerialsApart
  <1>3. \A t \in dead : /\ upto(t) \in SUBSET dead /\ t \in upto(t)
                        /\ rank(t) \in Nat /\ rank(t) >= 1 /\ rank(t) <= Cardinality(dead)
    <2> TAKE t \in dead
    <2>1. upto(t) \in SUBSET dead /\ t \in upto(t)
      BY <1>2
    <2>2. IsFiniteSet(upto(t)) /\ IsFiniteSet(dead) /\ rank(t) \in Nat
      BY <1>2, <2>1, TokenSubsetFinite
    <2> HIDE DEF upto
    <2>3. Cardinality(upto(t)) <= Cardinality(dead)
      BY <2>1, <2>2, FS_Subset
    <2>4. Cardinality({}) < Cardinality(upto(t))
      BY <1>2, <2>1, SmallerPart
    <2>5. Cardinality({}) = 0
      BY FS_EmptySet
    <2> QED BY <2>1, <2>2, <2>3, <2>4, <2>5
  <1>4. \A t, u \in dead : rank(t) = rank(u) => t = u
    <2>1. \A t, u \in dead : s.entries[t].serial < s.entries[u].serial => rank(t) < rank(u)
      <3> SUFFICES ASSUME NEW t \in dead, NEW u \in dead, s.entries[t].serial < s.entries[u].serial
                   PROVE  rank(t) < rank(u)
        OBVIOUS
      <3>1. upto(u) \in SUBSET Token /\ upto(t) \in SUBSET upto(u) /\ u \in upto(u) \ upto(t)
        BY <1>2
      <3> HIDE DEF upto
      <3> QED BY <3>1, SmallerPart
    <2> HIDE DEF rank
    <2>2. \A t, u \in dead : s.entries[t].serial = s.entries[u].serial => t = u
      BY DEF InOrder, SerialsApart
    <2> QED BY <1>2, <1>3, <2>1, <2>2
  <1> HIDE DEF rank
  <1>5. /\ DOMAIN all = DOMAIN s.tombs \cup dead
        /\ \A t \in dead : all[t].serial = s.burials + rank(t)
        /\ \A t \in DOMAIN s.tombs \ dead : all[t].serial = s.tombs[t].serial
    OBVIOUS
  <1>6. /\ \A t \in DOMAIN s.tombs : s.tombs[t].serial \in Nat /\ s.tombs[t].serial <= s.burials
        /\ \A t, u \in DOMAIN s.tombs : s.tombs[t].serial = s.tombs[u].serial => t = u
    BY DEF InOrder, SerialsApart
  <1> HIDE DEF all
  <1>7. \A t \in DOMAIN all : /\ all[t].serial \in Nat
                              /\ all[t].serial <= s.burials + Cardinality(dead)
    <2> TAKE t \in DOMAIN all
    <2>1. CASE t \in dead
      BY <1>2, <1>3, <1>5, <2>1
    <2>2. CASE t \notin dead
      BY <1>2, <1>5, <1>6, <2>2
    <2> QED BY <2>1, <2>2
  <1>8. \A t, u \in DOMAIN all : all[t].serial = all[u].serial => t = u
    <2> SUFFICES ASSUME NEW t \in DOMAIN all, NEW u \in DOMAIN all, all[t].serial = all[u].serial
                 PROVE  t = u
      OBVIOUS
    <2>1. CASE t \in dead /\ u \in dead
      BY <1>2, <1>3, <1>4, <1>5, <2>1
    <2>2. CASE t \notin dead /\ u \notin dead
      BY <1>5, <1>6, <2>2
    <2>3. CASE t \in dead /\ u \notin dead
      BY <1>2, <1>3, <1>5, <1>6, <2>3
    <2>4. CASE t \notin dead /\ u \in dead
      BY <1>2, <1>3, <1>5, <1>6, <2>4
    <2> QED BY <2>1, <2>2, <2>3, <2>4
  <1>9. SerialsApart(all) /\ DOMAIN all \subseteq Token
    BY <1>2, <1>5, <1>7, <1>8 DEF SerialsApart, IsStore
  <1>10. kept \subseteq DOMAIN all
    BY DEF Newest
  <1>11. Cardinality(kept) <= MaxEntries
    BY <1>9, NewestBounded, StoreAssumption
  <1> HIDE DEF kept
  <1>12. /\ b.entries = [t \in DOMAIN s.entries \ dead |-> s.entries[t]]
         /\ b.tombs = [t \in kept |-> all[t]]
         /\ b.burials = s.burials + Cardinality(dead)
    BY <1>1 DEF Restrict
  <1> HIDE DEF b
  <1>13. SerialsApart(b.entries)
    BY <1>12, SerialsKept DEF InOrder
  <1>14. SerialsApart(b.tombs)
    BY <1>9, <1>10, <1>12, SerialsKept
  <1> QED BY <1>7, <1>10, <1>11, <1>12, <1>13, <1>14 DEF InOrder, b

\* Purging buries in order too, and forgetting leaves the rest as it was.
LEMMA PurgeInOrder ==
    ASSUME NEW s, IsStore(s), InOrder(s)
    PROVE  InOrder(Purge(s))
  <1> DEFINE dead == {t \in DOMAIN s.entries : s.entries[t].expires <= now}
             b == Bury(s, dead, "expired")
             kept == Unforgotten(b.tombs)
  <1>1. IsStore(b) /\ InOrder(b)
    BY BuryStore, BuryInOrder DEF Reason
  <1>2. Purge(s) = [b EXCEPT !.tombs = Restrict(b.tombs, kept)]
    BY DEF Purge
  <1>3. kept \subseteq DOMAIN b.tombs
    BY DEF Unforgotten
  <1> HIDE DEF b, kept
  <1>4. Purge(s) = [entries |-> b.entries, tombs |-> [t \in kept |-> b.tombs[t]],
                    burials |-> b.burials]
    BY <1>1, <1>2 DEF IsStore, Restrict
  <1> DEFINE p == Purge(s)
  <1>5. /\ p.entries = b.entries /\ p.burials = b.burials /\ DOMAIN p.tombs = kept
        /\ \A t \in kept : p.tombs[t] = b.tombs[t]
    BY <1>4
  <1> HIDE DEF p
  <1>6. SerialsApart(p.tombs)
    BY <1>1, <1>3, <1>5, SerialsKept DEF InOrder
  <1>7. Cardinality(kept) <= MaxEntries
    <2>1. IsFiniteSet(DOMAIN b.tombs) /\ Cardinality(DOMAIN b.tombs) \in Nat
          /\ Cardinality(kept) \in Nat
      BY <1>1, <1>3, TokenSubsetFinite DEF IsStore
    <2>2. Cardinality(kept) <= Cardinality(DOMAIN b.tombs)
      BY <1>3, <2>1, FS_Subset
    <2> QED BY <1>1, <2>1, <2>2, StoreAssumption DEF InOrder
  <1> QED BY <1>1, <1>3, <1>5, <1>6, <1>7 DEF InOrder, p

\* Making room leaves a place for one more.
LEMMA MakeRoomInOrder ==
    ASSUME NEW s, IsStore(s), InOrder(s)
    PROVE  /\ InOrder(MakeRoom(s))
           /\ Cardinality(DOMAIN MakeRoom(s).entries) <= MaxEntries - 1
  <1> DEFINE newest == Newest(s.entries, MaxEntries - 1)
             old == DOMAIN s.entries \ newest
  <1>1. InOrder(MakeRoom(s)) /\ DOMAIN MakeRoom(s).entries = DOMAIN s.entries \ old
    BY BuryStore, BuryInOrder DEF MakeRoom, Reason
  <1>2. newest \subseteq DOMAIN s.entries
    BY DEF Newest
  <1>3. Cardinality(newest) <= MaxEntries - 1
    BY NewestBounded, StoreAssumption DEF IsStore, InOrder
  <1>4. DOMAIN MakeRoom(s).entries = newest
    BY <1>1, <1>2
  <1> QED BY <1>1, <1>3, <1>4

\* A lookup takes out at most what it was asked for.
LEMMA VerifiedInOrder ==
    ASSUME NEW s, IsStore(s), InOrder(s), NEW t \in Token
    PROVE  InOrder(Verified(s, t))
  <1>1. CASE t \in DOMAIN s.entries /\ ~Intact(s, t)
    BY <1>1, BuryInOrder, {t} \in SUBSET DOMAIN s.entries DEF Verified, Reason
  <1>2. CASE ~(t \in DOMAIN s.entries /\ ~Intact(s, t))
    BY <1>2 DEF Verified
  <1> QED BY <1>1, <1>2

\* The store's tables are ordered and within their caps, and its serial numbers come
\* from the count of what was issued.
Counted ==
    /\ InOrder(Store)
    /\ Cardinality(DOMAIN entries) <= MaxEntries
    /\ \A t \in DOMAIN entries : entries[t].serial <= Cardinality(DOMAIN issued)

\* The purge every public method starts with keeps the order.
LEMMA PurgedInOrder ==
    ASSUME IInv, Counted
    PROVE  IsStore(Purged) /\ InOrder(Purged) /\ Shrinks(Store, Purged) /\ Store.entries = entries
  BY PurgedStore, PurgeInOrder DEF Purged, Counted, Store

\* What only takes entries out, in order, stays within the caps.
LEMMA ShrinkingCounts ==
    ASSUME IInv, Counted, NEW r, IsStore(r), InOrder(r), Shrinks(Store, r), Adopt(r),
           UNCHANGED issued
    PROVE  Counted'
  <1>1. Store' = r
    BY DEF Store, Adopt, IsStore
  <1>2. DOMAIN entries' \subseteq DOMAIN entries /\ \A t \in DOMAIN entries' : entries'[t] = entries[t]
    BY DEF Adopt, Shrinks, Store
  <1>3. DOMAIN entries \in SUBSET Token
    BY DEF IInv, TypeOK
  <1>4. Cardinality(DOMAIN entries') <= MaxEntries
    <2>1. /\ IsFiniteSet(DOMAIN entries) /\ Cardinality(DOMAIN entries) \in Nat
          /\ Cardinality(DOMAIN entries') \in Nat
      BY <1>2, <1>3, TokenSubsetFinite
    <2>2. Cardinality(DOMAIN entries') <= Cardinality(DOMAIN entries)
      BY <1>2, <2>1, FS_Subset
    <2> QED BY <2>1, <2>2, StoreAssumption DEF Counted
  <1> QED BY <1>1, <1>2, <1>4 DEF Counted

\* Peek, consume, discard and purge_expired.
LEMMA LookupCounts ==
    ASSUME IInv, Counted, NEW t \in Token, Peek(t) \/ Consume(t) \/ Discard(t) \/ PurgeExpired
    PROVE  Counted'
  <1>1. IsStore(Purged) /\ InOrder(Purged) /\ Shrinks(Store, Purged)
    BY PurgedInOrder
  <1>2. UNCHANGED issued
    BY DEF Peek, Consume, Discard, PurgeExpired
  <1>3. CASE Adopt(Purged)
    BY <1>1, <1>2, <1>3, ShrinkingCounts
  <1>4. CASE Adopt(Verified(Purged, t))
    <2>1. /\ IsStore(Verified(Purged, t)) /\ InOrder(Verified(Purged, t))
          /\ Shrinks(Store, Verified(Purged, t))
      BY <1>1, VerifiedStore, VerifiedInOrder, ShrinksTrans
    <2> QED BY <1>2, <1>4, <2>1, ShrinkingCounts
  <1>5. ASSUME NEW why \in Reason, Answered(t), Answer(Purged, t) = "ok",
               Adopt(Bury(Purged, {t}, why))
        PROVE  Counted'
    <2>1. {t} \in SUBSET DOMAIN Purged.entries
      BY <1>5, LookupAnswer
    <2>2. /\ IsStore(Bury(Purged, {t}, why)) /\ InOrder(Bury(Purged, {t}, why))
          /\ Shrinks(Store, Bury(Purged, {t}, why))
      BY <1>1, <2>1, BuryStore, BuryInOrder, ShrinksTrans
    <2> QED BY <1>2, <1>5, <2>2, ShrinkingCounts
  <1> QED BY <1>3, <1>4, <1>5 DEF Peek, Consume, Discard, PurgeExpired, Reason

\* Issuing makes room first, and takes a serial number nothing has.
LEMMA IssueCounts ==
    ASSUME IInv, Counted, NEW t \in Token, NEW p \in Preview, Issue(t, p)
    PROVE  Counted'
  <1> DEFINE s == MakeRoom(Purged)
             entry == [preview |-> p, sealed |-> p, expires |-> now + Ttl,
                       serial |-> NextSerial]
             count == Cardinality(DOMAIN issued)
  <1>1. /\ IsStore(s) /\ InOrder(s) /\ Shrinks(Store, s) /\ Store.entries = entries
        /\ Cardinality(DOMAIN s.entries) <= MaxEntries - 1
    BY PurgedInOrder, MakeRoomStore, MakeRoomInOrder, ShrinksTrans
  <1>2. /\ t \notin DOMAIN issued
        /\ entries' = Insert(s.entries, t, entry)
        /\ tombs' = s.tombs /\ burials' = s.burials
        /\ DOMAIN issued' = DOMAIN issued \cup {t}
    <2> HIDE DEF s, entry
    <2>1. [s EXCEPT !.entries = Insert(s.entries, t, entry)]
            = [entries |-> Insert(s.entries, t, entry), tombs |-> s.tombs,
               burials |-> s.burials]
      BY <1>1 DEF IsStore
    <2> QED BY <2>1 DEF Issue, Adopt, Insert, s, entry
  <1>3. /\ count \in Nat /\ NextSerial = count + 1 /\ IsFiniteSet(DOMAIN issued)
    BY TokenSubsetFinite DEF NextSerial, IInv, TypeOK
  <1>4. Cardinality(DOMAIN issued') = count + 1
    BY <1>2, <1>3, FS_AddElement
  <1> HIDE DEF s, count
  <1>5. t \notin DOMAIN s.entries
    BY <1>1, <1>2 DEF Shrinks, IInv, PendingIsIssued
  <1>6. /\ DOMAIN entries' = DOMAIN s.entries \cup {t}
        /\ entries'[t].serial = count + 1
        /\ \A u \in DOMAIN s.entries : entries'[u] = s.entries[u]
    BY <1>2, <1>3, <1>5 DEF Insert
  <1>7. \A u \in DOMAIN s.entries : s.entries[u].serial \in Nat /\ s.entries[u].serial <= count
    BY <1>1 DEF Shrinks, Counted, count, InOrder, SerialsApart
  <1>8. SerialsApart(entries')
    <2>1. \A u \in DOMAIN entries' : entries'[u].serial \in Nat
      BY <1>3, <1>6, <1>7
    <2>2. \A u, v \in DOMAIN s.entries : s.entries[u].serial = s.entries[v].serial => u = v
      BY <1>1 DEF InOrder, SerialsApart
    <2>3. \A u, v \in DOMAIN entries' : entries'[u].serial = entries'[v].serial => u = v
      BY <1>3, <1>6, <1>7, <2>2
    <2> QED BY <2>1, <2>3 DEF SerialsApart
  <1>9. Cardinality(DOMAIN entries') <= MaxEntries
    <2>1. IsFiniteSet(DOMAIN s.entries) /\ Cardinality(DOMAIN s.entries) \in Nat
      BY <1>1, TokenSubsetFinite DEF IsStore
    <2>2. Cardinality(DOMAIN entries') = Cardinality(DOMAIN s.entries) + 1
      BY <1>5, <1>6, <2>1, FS_AddElement
    <2> QED BY <1>1, <2>1, <2>2, StoreAssumption
  <1>10. InOrder(Store)'
    <2>1. Store'.entries = entries' /\ Store'.tombs = s.tombs /\ Store'.burials = s.burials
      BY <1>2 DEF Store
    <2> QED BY <1>1, <1>8, <2>1 DEF InOrder
  <1>11. \A u \in DOMAIN entries' : entries'[u].serial <= Cardinality(DOMAIN issued')
    BY <1>3, <1>4, <1>6, <1>7
  <1> QED BY <1>9, <1>10, <1>11 DEF Counted

\* The store never holds more than max_entries previews, nor tombstones, and no token
\* is in both tables, whatever is issued, looked up and purged at any clock (_make_room,
\* _bury).
THEOREM TablesStayBounded == Spec => []TablesBounded
  <1>1. Init => Counted
    <2> SUFFICES ASSUME Init PROVE Counted
      OBVIOUS
    <2>1. DOMAIN entries = {} /\ DOMAIN tombs = {} /\ Store.entries = entries /\ Store.tombs = tombs
      BY DEF Init, Store
    <2> QED BY <2>1, FS_EmptySet, StoreAssumption DEF Counted, InOrder, SerialsApart
  <1>2. IInv /\ Counted /\ [Next]_vars => Counted'
    <2> SUFFICES ASSUME IInv, Counted, [Next]_vars PROVE Counted'
      OBVIOUS
    <2>1. ASSUME NEW t \in Token, NEW p \in Preview, Issue(t, p) PROVE Counted'
      BY <2>1, IssueCounts
    <2>2. ASSUME NEW t \in Token, Peek(t) \/ Consume(t) \/ Discard(t) PROVE Counted'
      BY <2>2, LookupCounts
    <2>3. CASE PurgeExpired
      <3>1. /\ IsStore(Purged) /\ InOrder(Purged) /\ Shrinks(Store, Purged)
        BY PurgedInOrder
      <3> QED BY <2>3, <3>1, ShrinkingCounts DEF PurgeExpired
    <2>4. ASSUME NEW t \in Token, Mutate(t) PROVE Counted'
      <3>1. /\ DOMAIN entries' = DOMAIN entries
            /\ \A u \in DOMAIN entries : entries'[u].serial = entries[u].serial
            /\ UNCHANGED <<tombs, burials, issued>>
        BY <2>4 DEF Mutate, IInv, TypeOK, Entry
      <3>2. Store'.entries = entries' /\ Store'.tombs = tombs /\ Store'.burials = burials
            /\ Store.entries = entries /\ Store.tombs = tombs /\ Store.burials = burials
        BY <3>1 DEF Store
      <3> QED BY <3>1, <3>2 DEF Counted, InOrder, SerialsApart
    <2>5. CASE (\E d \in ClockSteps : Tick(d)) \/ UNCHANGED vars
      <3>1. UNCHANGED <<entries, tombs, burials, issued>>
        BY <2>5 DEF Tick, vars, tables
      <3> QED BY <3>1 DEF Counted, InOrder, SerialsApart, Store
    <2> QED BY <2>1, <2>2, <2>3, <2>4, <2>5 DEF Next
  <1>3. IInv /\ Counted => TablesBounded
    BY DEF IInv, BuriedIsGone, Counted, InOrder, Store, TablesBounded
  <1> QED BY <1>1, <1>2, <1>3, StoreInvariant, PTL DEF Spec

-----------------------------------------------------------------------------
(* The reasons given are true. *)

\* What a tombstone's reason says of its token.
TrueReason(why, t) ==
    /\ t \in DOMAIN issued
    /\ why = "used" => uses[t] = 1
    /\ why = "discarded" => discards[t] = 1
    /\ why \in {"expired", "evicted", "invalidated"} => uses[t] = 0 /\ discards[t] = 0
    /\ why = "expired" => issued[t].at + Ttl <= latest
    /\ why = "evicted" => Cardinality(NewerThan(t)) >= MaxEntries

TombsTrue(s) == \A t \in DOMAIN s.tombs : TrueReason(s.tombs[t].reason, t)

\* Entries bear the serial numbers their tokens were issued with, and no clock was
\* read that is later than the latest.
Recorded ==
    /\ now <= latest
    /\ \A t \in DOMAIN entries : entries[t].serial = issued[t].serial
    /\ \A t \in DOMAIN issued : issued[t].serial <= Cardinality(DOMAIN issued)

\* A tombstone is an old one, or one of what was just buried, for the reason given.
LEMMA BuryReasons ==
    ASSUME NEW s, NEW dead \in SUBSET DOMAIN s.entries, NEW r
    PROVE  \A t \in DOMAIN Bury(s, dead, r).tombs :
               \/ t \in dead /\ Bury(s, dead, r).tombs[t].reason = r
               \/ t \in DOMAIN s.tombs /\ Bury(s, dead, r).tombs[t] = s.tombs[t]
  <1> DEFINE rank(t) == Cardinality({u \in dead : s.entries[u].serial <= s.entries[t].serial})
             all == [t \in DOMAIN s.tombs \cup dead |->
                       IF t \in dead
                       THEN [reason |-> r, forget |-> s.entries[t].expires + Ttl,
                             serial |-> s.burials + rank(t)]
                       ELSE s.tombs[t]]
             kept == Newest(all, MaxEntries)
             b == Bury(s, dead, r)
  <1>1. b = [entries |-> Restrict(s.entries, DOMAIN s.entries \ dead),
             tombs |-> Restrict(all, kept), burials |-> s.burials + Cardinality(dead)]
    BY DEF Bury
  <1> HIDE DEF rank
  <1>2. /\ DOMAIN all = DOMAIN s.tombs \cup dead
        /\ \A t \in dead : all[t].reason = r
        /\ \A t \in DOMAIN all \ dead : all[t] = s.tombs[t]
    OBVIOUS
  <1> HIDE DEF all
  <1>3. kept \subseteq DOMAIN all
    BY DEF Newest
  <1> HIDE DEF kept
  <1>4. b.tombs = [t \in kept |-> all[t]]
    BY <1>1 DEF Restrict
  <1> QED BY <1>2, <1>3, <1>4

\* Burying tokens for a reason that is true of them keeps the tombstones true.
LEMMA BuryTrue ==
    ASSUME NEW s, TombsTrue(s), NEW dead \in SUBSET DOMAIN s.entries, NEW r,
           \A t \in dead : TrueReason(r, t)
    PROVE  TombsTrue(Bury(s, dead, r))
  BY BuryReasons DEF TombsTrue

\* What is pending has neither been used nor discarded.
LEMMA PendingReasons ==
    ASSUME IInv, Recorded, NEW t \in DOMAIN entries
    PROVE  /\ TrueReason("invalidated", t)
           /\ entries[t].expires <= now => TrueReason("expired", t)
  <1>1. /\ t \in DOMAIN issued /\ uses[t] = 0 /\ discards[t] = 0
        /\ entries[t].expires = issued[t].at + Ttl
    BY DEF IInv, PendingIsIssued
  <1>2. issued[t].at \in Int /\ now \in Int /\ latest \in Int /\ Ttl \in Int
    BY <1>1, StoreAssumption DEF IInv, TypeOK
  <1> QED BY <1>1, <1>2 DEF TrueReason, Recorded

\* After the purge that every public method starts with, all reasons are true.
LEMMA PurgedTrue ==
    ASSUME IInv, Recorded, TombsTrue(Store)
    PROVE  TombsTrue(Purged)
  <1> DEFINE dead == {t \in DOMAIN Store.entries : Store.entries[t].expires <= now}
             b == Bury(Store, dead, "expired")
             kept == Unforgotten(b.tombs)
  <1>1. IsStore(Store) /\ Store.entries = entries
    BY PurgedStore DEF Store
  <1>2. TombsTrue(b)
    BY <1>1, BuryTrue, PendingReasons
  <1>3. IsStore(b)
    BY <1>1, BuryStore DEF Reason
  <1>4. Purged = [b EXCEPT !.tombs = Restrict(b.tombs, kept)]
    BY DEF Purged, Purge
  <1>5. kept \subseteq DOMAIN b.tombs
    BY DEF Unforgotten
  <1> HIDE DEF b, kept
  <1>6. Purged.tombs = [t \in kept |-> b.tombs[t]]
    BY <1>3, <1>4 DEF IsStore, Restrict
  <1> QED BY <1>2, <1>5, <1>6 DEF TombsTrue

\* The answer to a lookup, as what it says of the token before the lookup.
LEMMA AnswerTrue ==
    ASSUME IInv, Recorded, TombsTrue(Store), NEW t \in Token
    PROVE  Answer(Purged, t) \in {"ok", "unknown"} \/ TrueReason(Answer(Purged, t), t)
  <1>1. /\ TombsTrue(Purged)
        /\ \A u \in DOMAIN Purged.entries : u \in DOMAIN entries
    BY PurgedStore, PurgedTrue
  <1>2. CASE t \in DOMAIN Purged.entries
    BY <1>1, <1>2, PendingReasons DEF Answer
  <1>3. CASE t \notin DOMAIN Purged.entries
    BY <1>1, <1>3 DEF Answer, TombsTrue
  <1> QED BY <1>2, <1>3

\* A step that forgets no issue, use or discard, and whose clock readings only grow,
\* keeps a reason true.
LEMMA ReasonsKept ==
    ASSUME IInv, TypeOK', NEW t \in Token, NEW why, TrueReason(why, t),
           uses'[t] = uses[t], discards'[t] = discards[t], latest <= latest',
           DOMAIN issued \subseteq DOMAIN issued',
           \A u \in DOMAIN issued : issued'[u] = issued[u]
    PROVE  TrueReason(why, t)'
  <1>1. t \in DOMAIN issued'
    BY DEF TrueReason
  <1>2. NewerThan(t) \subseteq NewerThan(t)' /\ NewerThan(t)' \in SUBSET Token
    BY <1>1 DEF TrueReason, NewerThan, TypeOK
  <1>3. Cardinality(NewerThan(t)) <= Cardinality(NewerThan(t)')
    BY <1>2, TokenSubsetFinite, FS_Subset
  <1>4. Cardinality(NewerThan(t)) \in Nat /\ Cardinality(NewerThan(t)') \in Nat
    BY <1>2, TokenSubsetFinite
  <1>5. /\ issued[t].at \in Int /\ latest \in Int /\ latest' \in Int
        /\ Ttl \in Int /\ MaxEntries \in Int
    BY StoreAssumption DEF TrueReason, IInv, TypeOK
  <1> HIDE DEF NewerThan
  <1>6. why = "evicted" => Cardinality(NewerThan(t)') >= MaxEntries
    BY <1>3, <1>4, <1>5 DEF TrueReason
  <1>7. why = "expired" => issued'[t].at + Ttl <= latest'
    BY <1>5 DEF TrueReason
  <1>8. (Cardinality(NewerThan(t)))' = Cardinality(NewerThan(t)')
    OBVIOUS
  <1> QED BY <1>1, <1>6, <1>7, <1>8 DEF TrueReason

\* With the recorded order, tombstones and answers stay true.
Truthful == Recorded /\ TombsTrue(Store) /\ ExplainsTruthfully

\* Taking entries out keeps what is recorded of the others.
LEMMA ShrinkingRecords ==
    ASSUME Recorded, NEW r, Shrinks(Store, r), Adopt(r), UNCHANGED <<now, latest, issued>>
    PROVE  Recorded' /\ Store'.tombs = r.tombs
  BY DEF Recorded, Shrinks, Adopt, Store

\* Adopting a store whose tombstones are true, when no reason became false.
LEMMA AdoptedTrue ==
    ASSUME NEW r, Adopt(r),
           \A u \in DOMAIN r.tombs : \A why : why = r.tombs[u].reason => TrueReason(why, u)'
    PROVE  TombsTrue(Store)'
  <1>1. Store'.tombs = r.tombs
    BY DEF Adopt, Store
  <1> QED BY <1>1 DEF TombsTrue, TrueReason

\* A lookup that ends nothing: Peek, what is refused, and purge_expired.
LEMMA UnendedTrue ==
    ASSUME IInv, IInv', Truthful, NEW r, IsStore(r), Shrinks(Store, r), TombsTrue(r), Adopt(r),
           UNCHANGED <<now, latest, issued, uses, discards>>
    PROVE  Recorded' /\ TombsTrue(Store)'
  <1>1. \A u \in DOMAIN r.tombs : \A why : why = r.tombs[u].reason => TrueReason(why, u)'
    <2> SUFFICES ASSUME NEW u \in DOMAIN r.tombs, NEW why, why = r.tombs[u].reason
                 PROVE  TrueReason(why, u)'
      OBVIOUS
    <2>1. u \in Token /\ TrueReason(why, u)
      BY DEF IsStore, TombsTrue
    <2>2. TypeOK' /\ latest <= latest'
      BY DEF IInv, TypeOK
    <2> QED BY <2>1, <2>2, ReasonsKept
  <1> QED BY <1>1, AdoptedTrue, ShrinkingRecords DEF Truthful

\* The answer of a lookup that ends nothing is true after it.
LEMMA RefusalsTrue ==
    ASSUME IInv, IInv', Truthful, NEW t \in Token, Answered(t),
           Adopt(Verified(Purged, t)), UNCHANGED <<now, latest, issued, uses, discards>>
    PROVE  Truthful'
  <1> DEFINE r == Verified(Purged, t)
  <1>1. IsStore(Purged) /\ Shrinks(Store, Purged) /\ TombsTrue(Purged) /\ Store.entries = entries
    BY PurgedStore, PurgedTrue DEF Truthful, Store
  <1>2. IsStore(r) /\ Shrinks(Store, r)
    BY <1>1, VerifiedStore, ShrinksTrans
  <1>3. TombsTrue(r)
    <2>1. CASE t \in DOMAIN Purged.entries /\ ~Intact(Purged, t)
      <3>1. TrueReason("invalidated", t)
        BY <1>1, <2>1, PendingReasons DEF Truthful, Shrinks
      <3> QED BY <1>1, <2>1, <3>1, BuryTrue, {t} \in SUBSET DOMAIN Purged.entries DEF Verified
    <2>2. CASE ~(t \in DOMAIN Purged.entries /\ ~Intact(Purged, t))
      BY <1>1, <2>2 DEF Verified
    <2> QED BY <2>1, <2>2
  <1>4. Recorded' /\ TombsTrue(Store)'
    BY <1>2, <1>3, UnendedTrue
  <1>5. ExplainsTruthfully'
    <2>1. reply'.token = t /\ reply'.answer = Answer(Purged, t)
      BY LookupAnswer
    <2>2. PICK why : why = Answer(Purged, t)
      OBVIOUS
    <2>3. why \in {"ok", "unknown"} \/ TrueReason(why, t)
      BY <2>2, AnswerTrue DEF Truthful
    <2>4. TypeOK' /\ latest <= latest'
      BY DEF IInv, TypeOK
    <2>5. why \in {"ok", "unknown"} \/ TrueReason(why, t)'
      BY <2>3, <2>4, ReasonsKept
    <2> QED BY <2>1, <2>2, <2>5 DEF ExplainsTruthfully, TrueReason
  <1> QED BY <1>4, <1>5 DEF Truthful

\* A consume or discard that succeeds: its own tombstone, if it is kept, says so.
LEMMA EndingsTrue ==
    ASSUME IInv, IInv', Truthful, NEW t \in Token, Answered(t), Answer(Purged, t) = "ok",
           NEW why \in {"used", "discarded"}, Adopt(Bury(Purged, {t}, why)),
           UNCHANGED <<now, latest, issued>>,
           \/ /\ why = "used" /\ uses' = [uses EXCEPT ![t] = @ + 1] /\ UNCHANGED discards
           \/ /\ why = "discarded" /\ discards' = [discards EXCEPT ![t] = @ + 1]
              /\ UNCHANGED uses
    PROVE  Truthful'
  <1> DEFINE r == Bury(Purged, {t}, why)
  <1>1. IsStore(Purged) /\ Shrinks(Store, Purged) /\ TombsTrue(Purged)
        /\ Store.entries = entries /\ Store.tombs = tombs
    BY PurgedStore, PurgedTrue DEF Truthful, Store
  <1>2. /\ t \in DOMAIN Purged.entries /\ t \in DOMAIN entries
        /\ reply'.answer = "ok"
    BY LookupAnswer
  <1>3. {t} \in SUBSET DOMAIN Purged.entries
    BY <1>2
  <1>4. IsStore(r) /\ Shrinks(Store, r)
    BY <1>1, <1>3, BuryStore, ShrinksTrans DEF Reason
  <1>5. /\ t \in DOMAIN issued /\ uses[t] = 0 /\ discards[t] = 0
        /\ uses \in [Token -> Nat] /\ discards \in [Token -> Nat]
        /\ t \notin DOMAIN tombs
    BY <1>2 DEF IInv, TypeOK, PendingIsIssued, BuriedIsGone
  <1>6. t \notin DOMAIN Purged.tombs
    BY <1>1, <1>2, <1>5 DEF Shrinks
  <1>7. \A u \in DOMAIN r.tombs : \/ u = t /\ r.tombs[u].reason = why
                                  \/ u # t /\ u \in DOMAIN Purged.tombs /\ r.tombs[u] = Purged.tombs[u]
    BY <1>3, <1>6, BuryReasons
  <1> HIDE DEF r
  <1>8. \A u \in DOMAIN r.tombs : \A w : w = r.tombs[u].reason => TrueReason(w, u)'
    <2> SUFFICES ASSUME NEW u \in DOMAIN r.tombs, NEW w, w = r.tombs[u].reason
                 PROVE  TrueReason(w, u)'
      OBVIOUS
    <2>1. CASE u = t
      <3>1. w = why
        BY <1>7, <2>1
      <3> QED BY <1>5, <2>1, <3>1 DEF TrueReason
    <2>2. CASE u # t
      <3>1. u \in Token /\ TrueReason(w, u)
        BY <1>1, <1>4, <1>7, <2>2 DEF IsStore, TombsTrue
      <3>2. uses'[u] = uses[u] /\ discards'[u] = discards[u]
        BY <1>5, <2>2, <3>1
      <3>3. TypeOK' /\ latest <= latest'
        BY DEF IInv, TypeOK
      <3> QED BY <3>1, <3>2, <3>3, ReasonsKept
    <2> QED BY <2>1, <2>2
  <1>9. Recorded' /\ TombsTrue(Store)'
    BY <1>4, <1>8, AdoptedTrue, ShrinkingRecords DEF Truthful, r
  <1>10. ExplainsTruthfully'
    BY <1>2 DEF ExplainsTruthfully
  <1> QED BY <1>9, <1>10 DEF Truthful

\* Issuing: what it evicts has enough newer previews, the new one among them.
LEMMA IssueTrue ==
    ASSUME IInv, IInv', Truthful, NEW t \in Token, NEW p \in Preview, Issue(t, p)
    PROVE  Truthful'
  <1> DEFINE s == MakeRoom(Purged)
             old == DOMAIN Purged.entries \ Newest(Purged.entries, MaxEntries - 1)
             entry == [preview |-> p, sealed |-> p, expires |-> now + Ttl,
                       serial |-> NextSerial]
             count == Cardinality(DOMAIN issued)
  <1>1. /\ IsStore(Purged) /\ Shrinks(Store, Purged) /\ TombsTrue(Purged)
        /\ Store.entries = entries
        /\ IsStore(s) /\ Shrinks(Purged, s) /\ Shrinks(Store, s)
    BY PurgedStore, PurgedTrue, MakeRoomStore, ShrinksTrans DEF Truthful, Store
  <1>2. s = Bury(Purged, old, "evicted")
    BY DEF MakeRoom
  <1>3. /\ t \notin DOMAIN issued
        /\ entries' = Insert(s.entries, t, entry) /\ tombs' = s.tombs
        /\ issued' = Insert(issued, t, [preview |-> p, at |-> now, serial |-> NextSerial])
        /\ reply' = None
        /\ UNCHANGED <<now, latest, uses, discards>>
    <2> HIDE DEF s, entry
    <2>1. [s EXCEPT !.entries = Insert(s.entries, t, entry)]
            = [entries |-> Insert(s.entries, t, entry), tombs |-> s.tombs,
               burials |-> s.burials]
      BY <1>1 DEF IsStore
    <2> QED BY <2>1 DEF Issue, Adopt, s, entry
  <1>4. /\ count \in Nat /\ NextSerial = count + 1 /\ IsFiniteSet(DOMAIN issued)
    BY TokenSubsetFinite DEF NextSerial, IInv, TypeOK
  <1>5. /\ DOMAIN issued' = DOMAIN issued \cup {t} /\ issued'[t].serial = count + 1
        /\ \A u \in DOMAIN issued : issued'[u] = issued[u]
    BY <1>3, <1>4 DEF Insert
  <1>6. Cardinality(DOMAIN issued') = count + 1
    BY <1>3, <1>4, <1>5, FS_AddElement
  <1>7. /\ \A u \in DOMAIN issued : issued[u].serial \in Nat /\ issued[u].serial <= count
        /\ \A u \in DOMAIN entries : u \in DOMAIN issued /\ entries[u].serial = issued[u].serial
    BY DEF Truthful, Recorded, IInv, TypeOK, PendingIsIssued
  <1> HIDE DEF s, count
  <1>8. Recorded'
    <2>1. t \notin DOMAIN s.entries
      BY <1>1, <1>3, <1>7 DEF Shrinks
    <2>2. /\ DOMAIN entries' = DOMAIN s.entries \cup {t} /\ entries'[t].serial = count + 1
          /\ \A u \in DOMAIN s.entries : entries'[u] = entries[u] /\ u \in DOMAIN entries
      BY <1>1, <1>3, <1>4, <2>1 DEF Insert, Shrinks
    <2>3. \A u \in DOMAIN entries' : entries'[u].serial = issued'[u].serial
      BY <1>5, <1>7, <2>2
    <2>4. \A u \in DOMAIN issued' : issued'[u].serial <= Cardinality(DOMAIN issued')
      BY <1>4, <1>5, <1>6, <1>7
    <2>5. now' <= latest'
      BY <1>3 DEF Truthful, Recorded
    <2> QED BY <2>3, <2>4, <2>5 DEF Recorded
  <1>9. ASSUME NEW u \in old PROVE Cardinality(NewerThan(u)') >= MaxEntries
    <2> DEFINE newer == {v \in DOMAIN Purged.entries : Purged.entries[v].serial > Purged.entries[u].serial}
    <2>1. /\ u \in DOMAIN issued
          /\ \A v \in DOMAIN Purged.entries : /\ v \in DOMAIN issued
                                              /\ Purged.entries[v].serial = issued[v].serial
      BY <1>1, <1>7 DEF Shrinks
    <2>2. newer \in SUBSET DOMAIN issued /\ t \notin newer
      BY <1>3, <2>1
    <2>3. newer \in SUBSET Token /\ NewerThan(u)' \in SUBSET Token
      BY <2>2 DEF IInv, TypeOK, NewerThan
    <2>4. IsFiniteSet(newer) /\ Cardinality(newer) \in Nat /\ ~(Cardinality(newer) < MaxEntries - 1)
      BY <2>3, TokenSubsetFinite DEF Newest
    <2>5. newer \cup {t} \in SUBSET (NewerThan(u)')
      BY <1>4, <1>5, <1>7, <2>1 DEF NewerThan
    <2> HIDE DEF newer
    <2>6. Cardinality(newer \cup {t}) = Cardinality(newer) + 1
      BY <2>2, <2>4, FS_AddElement
    <2>7. Cardinality(newer \cup {t}) <= Cardinality(NewerThan(u)')
          /\ Cardinality(NewerThan(u)') \in Nat
      BY <2>3, <2>5, TokenSubsetFinite, FS_Subset
    <2> QED BY <2>4, <2>6, <2>7, StoreAssumption
  <1>10. \A u \in DOMAIN s.tombs : \A why : why = s.tombs[u].reason => TrueReason(why, u)'
    <2> SUFFICES ASSUME NEW u \in DOMAIN s.tombs, NEW why, why = s.tombs[u].reason
                 PROVE  TrueReason(why, u)'
      OBVIOUS
    <2>1. \/ u \in old /\ why = "evicted"
          \/ u \in DOMAIN Purged.tombs /\ why = Purged.tombs[u].reason
      BY <1>2, BuryReasons
    <2>2. CASE u \in old /\ why = "evicted"
      <3>1. u \in DOMAIN issued /\ uses[u] = 0 /\ discards[u] = 0
        BY <1>1, <2>2 DEF Shrinks, IInv, PendingIsIssued
      <3>2. Cardinality(NewerThan(u)') >= MaxEntries
        BY <1>9, <2>2
      <3> QED BY <1>3, <1>5, <2>2, <3>1, <3>2 DEF TrueReason
    <2>3. CASE u \in DOMAIN Purged.tombs /\ why = Purged.tombs[u].reason
      <3>1. u \in Token /\ TrueReason(why, u)
        BY <1>1, <2>3 DEF IsStore, TombsTrue
      <3>2. TypeOK' /\ latest <= latest'
        BY <1>3 DEF IInv, TypeOK
      <3> QED BY <1>3, <1>5, <3>1, <3>2, ReasonsKept
    <2> QED BY <2>1, <2>2, <2>3
  <1>11. TombsTrue(Store)'
    <2>1. Store'.tombs = s.tombs
      BY <1>3 DEF Store
    <2> QED BY <1>10, <2>1 DEF TombsTrue, TrueReason
  <1>12. ExplainsTruthfully'
    BY <1>3 DEF ExplainsTruthfully
  <1> QED BY <1>8, <1>11, <1>12 DEF Truthful

\* The clock, and content altered behind the store, make no reason false.
LEMMA OthersTrue ==
    ASSUME IInv, IInv', Truthful, \/ \E t \in Token : Mutate(t)
                                  \/ \E d \in ClockSteps : Tick(d)
    PROVE  Truthful'
  <1>1. /\ DOMAIN entries' = DOMAIN entries
        /\ \A u \in DOMAIN entries : entries'[u].serial = entries[u].serial
        /\ now' <= latest' /\ latest <= latest' /\ reply' = None
        /\ UNCHANGED <<tombs, issued, uses, discards>>
    <2>1. ASSUME NEW t \in Token, Mutate(t)
          PROVE  /\ DOMAIN entries' = DOMAIN entries
                 /\ \A u \in DOMAIN entries : entries'[u].serial = entries[u].serial
                 /\ now' <= latest' /\ latest <= latest' /\ reply' = None
                 /\ UNCHANGED <<tombs, issued, uses, discards>>
      BY <2>1 DEF Mutate, Truthful, Recorded, IInv, TypeOK, Entry
    <2>2. ASSUME NEW d \in ClockSteps, Tick(d)
          PROVE  /\ now' <= latest' /\ latest <= latest' /\ reply' = None
                 /\ UNCHANGED <<entries, tombs, issued, uses, discards>>
      BY <2>2, StoreAssumption DEF Tick, Truthful, Recorded, IInv, TypeOK
    <2> QED BY <2>1, <2>2
  <1>2. Recorded'
    BY <1>1 DEF Truthful, Recorded
  <1>3. \A u \in DOMAIN tombs : \A why : why = tombs[u].reason => TrueReason(why, u)'
    <2> SUFFICES ASSUME NEW u \in DOMAIN tombs, NEW why, why = tombs[u].reason
                 PROVE  TrueReason(why, u)'
      OBVIOUS
    <2>1. u \in Token /\ TrueReason(why, u)
      BY DEF Truthful, TombsTrue, Store, IInv, TypeOK
    <2>2. TypeOK'
      BY DEF IInv
    <2> QED BY <1>1, <2>1, <2>2, ReasonsKept
  <1>4. TombsTrue(Store)'
    <2>1. Store'.tombs = tombs
      BY <1>1 DEF Store
    <2> QED BY <1>3, <2>1 DEF TombsTrue, TrueReason
  <1>5. ExplainsTruthfully'
    BY <1>1 DEF ExplainsTruthfully
  <1> QED BY <1>2, <1>4, <1>5 DEF Truthful

\* Whatever a caller is told has become of a token is what became of it: a token called
\* used was used, one called expired had outlived its TTL, one called evicted was
\* followed by as many previews as fit (_gone_error, _bury), however the clock jumps.
THEOREM ExplanationsAreTrue == Spec => []ExplainsTruthfully
  <1>1. Init => Truthful
    <2> SUFFICES ASSUME Init PROVE Truthful
      OBVIOUS
    <2>1. DOMAIN entries = {} /\ DOMAIN Store.tombs = {} /\ DOMAIN issued = {} /\ reply = None
          /\ now = 0 /\ latest = 0
      BY DEF Init, Store
    <2> QED BY <2>1 DEF Truthful, Recorded, TombsTrue, ExplainsTruthfully
  <1>2. IInv /\ IInv' /\ Truthful /\ [Next]_vars => Truthful'
    <2> SUFFICES ASSUME IInv, IInv', Truthful, [Next]_vars PROVE Truthful'
      OBVIOUS
    <2>1. ASSUME NEW t \in Token, NEW p \in Preview, Issue(t, p) PROVE Truthful'
      BY <2>1, IssueTrue
    <2>2. ASSUME NEW t \in Token, Peek(t) PROVE Truthful'
      BY <2>2, RefusalsTrue DEF Peek
    <2>3. ASSUME NEW t \in Token, Consume(t) PROVE Truthful'
      <3>1. CASE Answer(Purged, t) = "ok"
        BY <2>3, <3>1, EndingsTrue DEF Consume
      <3>2. CASE Answer(Purged, t) # "ok"
        BY <2>3, <3>2, RefusalsTrue DEF Consume
      <3> QED BY <3>1, <3>2
    <2>4. ASSUME NEW t \in Token, Discard(t) PROVE Truthful'
      <3>1. CASE Answer(Purged, t) = "ok"
        BY <2>4, <3>1, EndingsTrue DEF Discard
      <3>2. CASE Answer(Purged, t) # "ok"
        BY <2>4, <3>2, RefusalsTrue DEF Discard
      <3> QED BY <3>1, <3>2
    <2>5. CASE PurgeExpired
      <3>1. IsStore(Purged) /\ Shrinks(Store, Purged) /\ TombsTrue(Purged)
        BY PurgedStore, PurgedTrue DEF Truthful
      <3>2. /\ Adopt(Purged) /\ reply' = None
            /\ UNCHANGED <<now, latest, issued, uses, discards>>
        BY <2>5 DEF PurgeExpired
      <3>3. Recorded' /\ TombsTrue(Store)'
        BY <3>1, <3>2, UnendedTrue
      <3> QED BY <3>2, <3>3 DEF Truthful, ExplainsTruthfully
    <2>6. CASE (\E t \in Token : Mutate(t)) \/ (\E d \in ClockSteps : Tick(d))
      BY <2>6, OthersTrue
    <2>7. CASE UNCHANGED vars
      <3>1. /\ UNCHANGED <<now, latest, entries, tombs, burials, issued, uses, discards, reply>>
            /\ Store' = Store
        BY <2>7 DEF vars, tables, Store
      <3>2. \A t \in DOMAIN issued : NewerThan(t)' = NewerThan(t)
        BY <3>1 DEF NewerThan
      <3> QED BY <3>1, <3>2 DEF Truthful, Recorded, TombsTrue, TrueReason, ExplainsTruthfully, NewerThan
    <2> QED BY <2>1, <2>2, <2>3, <2>4, <2>5, <2>6, <2>7 DEF Next
  <1>3. Truthful => ExplainsTruthfully
    BY DEF Truthful
  <1> QED BY <1>1, <1>2, <1>3, StoreInvariant, PTL DEF Spec

-----------------------------------------------------------------------------
(* What is forgotten is forgotten late. *)

\* Why a store may no longer know a token: it is two TTLs old, or as many others
\* as there is room for are gone too.
GoneLongAgo(s, t) ==
    \/ issued[t].at + 2 * Ttl <= latest
    \/ Cardinality(DOMAIN issued \ (DOMAIN s.entries \cup {t})) >= MaxEntries

\* A store accounts for every token issued: it is pending, or buried until two TTLs
\* after it was issued, or rightly forgotten.
Accounts(s) ==
    /\ IsStore(s)
    /\ DOMAIN s.entries \cup DOMAIN s.tombs \subseteq DOMAIN issued
    /\ DOMAIN s.entries \cap DOMAIN s.tombs = {}
    /\ \A t \in DOMAIN s.entries : s.entries[t].expires = issued[t].at + Ttl
    /\ \A t \in DOMAIN s.tombs : s.tombs[t].forget = issued[t].at + 2 * Ttl
    /\ \A t \in DOMAIN issued \ (DOMAIN s.entries \cup DOMAIN s.tombs) : GoneLongAgo(s, t)

\* With fewer entries, what was gone long ago still is.
LEMMA StaysGone ==
    ASSUME IInv, NEW s, NEW r, DOMAIN r.entries \subseteq DOMAIN s.entries,
           NEW t, GoneLongAgo(s, t)
    PROVE  GoneLongAgo(r, t)
  <1> DEFINE before == DOMAIN issued \ (DOMAIN s.entries \cup {t})
             after == DOMAIN issued \ (DOMAIN r.entries \cup {t})
  <1>1. before \subseteq after /\ before \in SUBSET Token /\ after \in SUBSET Token
    BY DEF IInv, TypeOK
  <1> HIDE DEF before, after
  <1>2. /\ IsFiniteSet(after) /\ Cardinality(before) \in Nat /\ Cardinality(after) \in Nat
        /\ Cardinality(before) <= Cardinality(after)
    BY <1>1, TokenSubsetFinite, FS_Subset
  <1>3. Cardinality(before) >= MaxEntries => Cardinality(after) >= MaxEntries
    BY <1>2, StoreAssumption
  <1> QED BY <1>3 DEF GoneLongAgo, before, after

\* Burying accounts for what it drops: a tombstone beyond the cap has as many newer
\* ones as the cap, and none of those is pending.
LEMMA BuryAccounts ==
    ASSUME IInv, NEW s, Accounts(s), NEW dead \in SUBSET DOMAIN s.entries, NEW why \in Reason
    PROVE  Accounts(Bury(s, dead, why))
  <1> DEFINE rank(t) == Cardinality({u \in dead : s.entries[u].serial <= s.entries[t].serial})
             all == [t \in DOMAIN s.tombs \cup dead |->
                       IF t \in dead
                       THEN [reason |-> why, forget |-> s.entries[t].expires + Ttl,
                             serial |-> s.burials + rank(t)]
                       ELSE s.tombs[t]]
             kept == Newest(all, MaxEntries)
             b == Bury(s, dead, why)
  <1>1. /\ IsStore(s) /\ IsStore(b) /\ Shrinks(s, b)
        /\ DOMAIN b.entries = DOMAIN s.entries \ dead
    BY BuryStore DEF Accounts
  <1>2. b = [entries |-> Restrict(s.entries, DOMAIN s.entries \ dead),
             tombs |-> Restrict(all, kept), burials |-> s.burials + Cardinality(dead)]
    BY DEF Bury
  <1> HIDE DEF rank
  <1>3. /\ DOMAIN all = DOMAIN s.tombs \cup dead
        /\ \A t \in dead : all[t].forget = s.entries[t].expires + Ttl
        /\ \A t \in DOMAIN all \ dead : all[t] = s.tombs[t]
    OBVIOUS
  <1> HIDE DEF all
  <1>4. kept \subseteq DOMAIN all
    BY DEF Newest
  <1>5. \A t \in DOMAIN all \ kept :
            ~(Cardinality({u \in DOMAIN all : all[u].serial > all[t].serial}) < MaxEntries)
    BY DEF Newest
  <1> HIDE DEF kept
  <1>6. b.tombs = [t \in kept |-> all[t]]
    BY <1>2 DEF Restrict
  <1> HIDE DEF b
  <1>7. /\ DOMAIN s.entries \cup DOMAIN s.tombs \subseteq DOMAIN issued
        /\ DOMAIN s.entries \cap DOMAIN s.tombs = {}
        /\ \A t \in DOMAIN s.entries : s.entries[t].expires = issued[t].at + Ttl
        /\ \A t \in DOMAIN s.tombs : s.tombs[t].forget = issued[t].at + 2 * Ttl
    BY DEF Accounts
  <1>8. \A t \in DOMAIN b.tombs : b.tombs[t].forget = issued[t].at + 2 * Ttl
    <2> SUFFICES ASSUME NEW t \in kept PROVE all[t].forget = issued[t].at + 2 * Ttl
      BY <1>6
    <2>1. CASE t \in dead
      <3>1. t \in DOMAIN s.entries /\ t \in DOMAIN issued /\ all[t].forget = s.entries[t].expires + Ttl
        BY <1>3, <1>7, <2>1
      <3>2. issued[t].at \in Int /\ Ttl \in Int
        BY <3>1, StoreAssumption DEF IInv, TypeOK
      <3>3. all[t].forget = (issued[t].at + Ttl) + Ttl
        BY <1>7, <3>1
      <3> QED BY <3>2, <3>3
    <2>2. CASE t \notin dead
      BY <1>3, <1>4, <1>7, <2>2
    <2> QED BY <2>1, <2>2
  <1>9. \A t \in DOMAIN issued \ (DOMAIN b.entries \cup DOMAIN b.tombs) : GoneLongAgo(b, t)
    <2> SUFFICES ASSUME NEW t \in DOMAIN issued, t \notin DOMAIN b.entries, t \notin kept
                 PROVE  GoneLongAgo(b, t)
      BY <1>6
    <2>1. CASE t \in DOMAIN all
      <3> DEFINE newer == {u \in DOMAIN all : all[u].serial > all[t].serial}
                 others == DOMAIN issued \ (DOMAIN b.entries \cup {t})
      <3>1. newer \subseteq others /\ newer \in SUBSET Token /\ others \in SUBSET Token
        <4>1. DOMAIN all \cap DOMAIN b.entries = {} /\ DOMAIN all \subseteq DOMAIN issued
          BY <1>1, <1>3, <1>7
        <4>2. t \notin newer
          <5>1. all[t].serial \in Int
            <6>1. CASE t \in dead
              <7>1. all[t].serial = s.burials + rank(t)
                BY <2>1, <6>1 DEF all
              <7>2. {u \in dead : s.entries[u].serial <= s.entries[t].serial} \in SUBSET Token
                BY <1>1 DEF IsStore
              <7>3. rank(t) \in Nat
                BY <7>2, TokenSubsetFinite DEF rank
              <7> QED BY <1>1, <7>1, <7>3 DEF IsStore
            <6>2. CASE t \notin dead
              BY <1>1, <1>3, <2>1, <6>2 DEF IsStore, Tomb
            <6> QED BY <6>1, <6>2
          <5> QED BY <5>1
        <4>3. DOMAIN issued \subseteq Token
          BY DEF IInv, TypeOK
        <4> QED BY <4>1, <4>2, <4>3
      <3>2. ~(Cardinality(newer) < MaxEntries)
        BY <1>5, <2>1
      <3> HIDE DEF newer, others
      <3>3. /\ IsFiniteSet(others) /\ Cardinality(newer) \in Nat /\ Cardinality(others) \in Nat
            /\ Cardinality(newer) <= Cardinality(others)
        BY <3>1, TokenSubsetFinite, FS_Subset
      <3>4. Cardinality(others) >= MaxEntries
        BY <3>2, <3>3, StoreAssumption
      <3> QED BY <3>4 DEF GoneLongAgo, others
    <2>2. CASE t \notin DOMAIN all
      <3>1. t \notin DOMAIN s.entries /\ t \notin DOMAIN s.tombs
        BY <1>1, <1>3, <2>2
      <3>2. GoneLongAgo(s, t)
        BY <3>1 DEF Accounts
      <3> QED BY <1>1, <3>2, StaysGone
    <2> QED BY <2>1, <2>2
  <1>10. /\ DOMAIN b.entries \cup DOMAIN b.tombs \subseteq DOMAIN issued
         /\ DOMAIN b.entries \cap DOMAIN b.tombs = {}
         /\ \A t \in DOMAIN b.entries : b.entries[t].expires = issued[t].at + Ttl
    <2>1. DOMAIN b.tombs = kept
      BY <1>6
    <2> QED BY <1>1, <1>3, <1>4, <1>7, <2>1 DEF Shrinks
  <1>11. Accounts(b)
    BY <1>1, <1>8, <1>9, <1>10 DEF Accounts
  <1> QED BY <1>11 DEF b

\* The purge forgets a tombstone only two TTLs after its token was issued.
LEMMA PurgedAccounts ==
    ASSUME IInv, now <= latest, Accounts(Store)
    PROVE  Accounts(Purged)
  <1> DEFINE dead == {t \in DOMAIN Store.entries : Store.entries[t].expires <= now}
             b == Bury(Store, dead, "expired")
             kept == Unforgotten(b.tombs)
             p == Purged
  <1>1. Accounts(b)
    BY BuryAccounts DEF Reason
  <1>2. p = [b EXCEPT !.tombs = Restrict(b.tombs, kept)] /\ IsStore(p)
    BY PurgedStore DEF Purged, Purge
  <1>3. kept \subseteq DOMAIN b.tombs /\ \A t \in DOMAIN b.tombs \ kept : ~(b.tombs[t].forget > now)
    BY DEF Unforgotten
  <1> HIDE DEF b, kept
  <1>4. p.entries = b.entries /\ p.tombs = [t \in kept |-> b.tombs[t]]
    BY <1>1, <1>2 DEF Accounts, IsStore, Restrict
  <1> HIDE DEF p
  <1>5. ASSUME NEW t \in DOMAIN issued \ (DOMAIN p.entries \cup DOMAIN p.tombs)
        PROVE  GoneLongAgo(p, t)
    <2>1. CASE t \in DOMAIN b.tombs
      <3>1. b.tombs[t].forget = issued[t].at + 2 * Ttl /\ ~(b.tombs[t].forget > now)
        BY <1>1, <1>3, <1>4, <1>5, <2>1 DEF Accounts
      <3>2. issued[t].at \in Int /\ Ttl \in Int /\ now \in Int /\ latest \in Int
        BY StoreAssumption DEF IInv, TypeOK
      <3>3. issued[t].at + 2 * Ttl <= latest
        BY <3>1, <3>2
      <3> QED BY <3>3 DEF GoneLongAgo
    <2>2. CASE t \notin DOMAIN b.tombs
      <3>1. GoneLongAgo(b, t)
        BY <1>1, <1>4, <1>5, <2>2 DEF Accounts
      <3> QED BY <1>4, <3>1 DEF GoneLongAgo
    <2> QED BY <2>1, <2>2
  <1>6. Accounts(p)
    BY <1>1, <1>2, <1>3, <1>4, <1>5 DEF Accounts
  <1> QED BY <1>6 DEF p

\* A lookup accounts for an entry it invalidates.
LEMMA VerifiedAccounts ==
    ASSUME IInv, NEW s, Accounts(s), NEW t \in Token
    PROVE  Accounts(Verified(s, t))
  <1>1. CASE t \in DOMAIN s.entries /\ ~Intact(s, t)
    BY <1>1, BuryAccounts, {t} \in SUBSET DOMAIN s.entries DEF Verified, Reason
  <1>2. CASE ~(t \in DOMAIN s.entries /\ ~Intact(s, t))
    BY <1>2 DEF Verified
  <1> QED BY <1>1, <1>2

\* The store accounts for every token, by a clock that was read before.
Remembering == now <= latest /\ Accounts(Store) /\ ForgetsOnlyLate

\* Adopting a store that accounts for every token.
LEMMA AdoptedAccounts ==
    ASSUME NEW r, Accounts(r), Adopt(r), UNCHANGED <<issued, latest>>
    PROVE  Accounts(Store)'
  <1>1. Store' = r
    BY DEF Store, Adopt, Accounts, IsStore
  <1> QED BY <1>1 DEF Accounts, IsStore, GoneLongAgo

\* An answer "unknown" about a token that was issued comes late: Peek, Consume, Discard.
LEMMA LookupRemembers ==
    ASSUME IInv, Remembering, NEW t \in Token, Peek(t) \/ Consume(t) \/ Discard(t)
    PROVE  Remembering'
  <1>1. Accounts(Purged)
    BY PurgedAccounts DEF Remembering
  <1>2. /\ Answered(t) /\ UNCHANGED <<now, latest, issued>>
        /\ \/ Adopt(Verified(Purged, t))
           \/ /\ Answer(Purged, t) = "ok"
              /\ \E why \in Reason : Adopt(Bury(Purged, {t}, why))
    BY DEF Peek, Consume, Discard, Reason
  <1>3. Accounts(Store)'
    <2>1. CASE Adopt(Verified(Purged, t))
      BY <1>1, <1>2, <2>1, VerifiedAccounts, AdoptedAccounts
    <2>2. ASSUME NEW why \in Reason, Answer(Purged, t) = "ok", Adopt(Bury(Purged, {t}, why))
          PROVE  Accounts(Store)'
      <3>1. {t} \in SUBSET DOMAIN Purged.entries
        BY <1>2, <2>2, LookupAnswer
      <3>2. Accounts(Bury(Purged, {t}, why))
        BY <1>1, <3>1, BuryAccounts
      <3> QED BY <1>2, <2>2, <3>2, AdoptedAccounts
    <2> QED BY <1>2, <2>1, <2>2
  <1>4. ForgetsOnlyLate'
    <2>1. reply'.token = t /\ reply'.answer = Answer(Purged, t)
      BY <1>2, LookupAnswer
    <2> SUFFICES ASSUME Answer(Purged, t) = "unknown", t \in DOMAIN issued
                 PROVE  GoneLongAgo(Store, t)'
      BY <1>2, <2>1 DEF ForgetsOnlyLate, GoneLongAgo, Store
    <2>2. t \notin DOMAIN Purged.entries /\ t \notin DOMAIN Purged.tombs
      BY <1>1 DEF Answer, Accounts, IsStore, Tomb, Reason
    <2>3. GoneLongAgo(Purged, t)
      BY <1>1, <2>2 DEF Accounts
    <2>4. Adopt(Purged)
      BY <1>2, <2>2 DEF Verified
    <2>5. Store'.entries = Purged.entries
      BY <2>4 DEF Adopt, Store
    <2> QED BY <1>2, <2>3, <2>5 DEF GoneLongAgo
  <1>5. (now <= latest)'
    BY <1>2 DEF Remembering
  <1> QED BY <1>3, <1>4, <1>5 DEF Remembering

\* A token just issued is pending, and changes nothing for the others.
LEMMA IssueRemembers ==
    ASSUME IInv, IInv', Remembering, NEW t \in Token, NEW p \in Preview, Issue(t, p)
    PROVE  Remembering'
  <1> DEFINE s == MakeRoom(Purged)
             entry == [preview |-> p, sealed |-> p, expires |-> now + Ttl,
                       serial |-> NextSerial]
             record == [preview |-> p, at |-> now, serial |-> NextSerial]
  <1>1. Accounts(s) /\ IsStore(s)
    <2>1. Accounts(Purged)
      BY PurgedAccounts DEF Remembering
    <2> QED BY <2>1, BuryAccounts DEF MakeRoom, Reason, Accounts
  <1>2. /\ t \notin DOMAIN issued
        /\ entries' = Insert(s.entries, t, entry) /\ tombs' = s.tombs
        /\ issued' = Insert(issued, t, record)
        /\ reply' = None /\ UNCHANGED <<now, latest>>
    <2> HIDE DEF s, entry
    <2>1. [s EXCEPT !.entries = Insert(s.entries, t, entry)]
            = [entries |-> Insert(s.entries, t, entry), tombs |-> s.tombs,
               burials |-> s.burials]
      BY <1>1 DEF IsStore
    <2> QED BY <2>1 DEF Issue, Adopt, s, entry
  <1> HIDE DEF s
  <1>3. t \notin DOMAIN s.entries /\ t \notin DOMAIN s.tombs
    BY <1>1, <1>2 DEF Accounts
  <1>4. /\ DOMAIN entries' = DOMAIN s.entries \cup {t} /\ entries'[t].expires = now + Ttl
        /\ \A u \in DOMAIN s.entries : entries'[u] = s.entries[u]
        /\ DOMAIN issued' = DOMAIN issued \cup {t} /\ issued'[t].at = now
        /\ \A u \in DOMAIN issued : issued'[u] = issued[u]
    BY <1>2, <1>3 DEF Insert
  <1>5. Store'.entries = entries' /\ Store'.tombs = tombs'
    BY DEF Store
  <1>6. \A u \in DOMAIN issued' \ (DOMAIN entries' \cup DOMAIN tombs') : GoneLongAgo(Store, u)'
    <2> SUFFICES ASSUME NEW u \in DOMAIN issued' \ (DOMAIN entries' \cup DOMAIN tombs')
                 PROVE  GoneLongAgo(Store, u)'
      OBVIOUS
    <2>1. u \in DOMAIN issued /\ u # t /\ GoneLongAgo(s, u)
      BY <1>1, <1>2, <1>4 DEF Accounts
    <2>2. DOMAIN issued' \ (DOMAIN entries' \cup {u}) = DOMAIN issued \ (DOMAIN s.entries \cup {u})
      BY <1>2, <1>4, <2>1
    <2> QED BY <1>2, <1>4, <1>5, <2>1, <2>2 DEF GoneLongAgo
  <1>7. IsStore(Store)'
    BY PurgedStore DEF IInv, TypeOK, IsStore, Store
  <1>8. Accounts(Store)'
    <2>1. DOMAIN entries' \cup DOMAIN tombs' \subseteq DOMAIN issued'
      BY <1>1, <1>2, <1>4 DEF Accounts
    <2>2. DOMAIN entries' \cap DOMAIN tombs' = {}
      BY <1>1, <1>2, <1>3, <1>4 DEF Accounts
    <2>3. \A u \in DOMAIN entries' : entries'[u].expires = issued'[u].at + Ttl
      BY <1>1, <1>4 DEF Accounts
    <2>4. \A u \in DOMAIN tombs' : tombs'[u].forget = issued'[u].at + 2 * Ttl
      BY <1>1, <1>2, <1>4 DEF Accounts
    <2> QED BY <1>5, <1>6, <1>7, <2>1, <2>2, <2>3, <2>4 DEF Accounts
  <1>9. ForgetsOnlyLate' /\ (now <= latest)'
    BY <1>2 DEF ForgetsOnlyLate, Remembering
  <1> QED BY <1>8, <1>9 DEF Remembering

\* The clock, a purge, and content altered behind the store, forget nothing early.
LEMMA OthersRemember ==
    ASSUME IInv, IInv', Remembering,
           \/ PurgeExpired \/ (\E t \in Token : Mutate(t))
           \/ (\E d \in ClockSteps : Tick(d)) \/ UNCHANGED vars
    PROVE  Remembering'
  <1>1. CASE PurgeExpired
    <2>1. Adopt(Purged) /\ reply' = None /\ UNCHANGED <<now, latest, issued>>
      BY <1>1 DEF PurgeExpired
    <2>2. Accounts(Store)'
      BY <2>1, PurgedAccounts, AdoptedAccounts DEF Remembering
    <2> QED BY <2>1, <2>2 DEF Remembering, ForgetsOnlyLate
  <1>2. ASSUME /\ DOMAIN entries' = DOMAIN entries
               /\ \A u \in DOMAIN entries : entries'[u].expires = entries[u].expires
               /\ now' <= latest' /\ latest <= latest'
               /\ UNCHANGED <<tombs, issued>>
        PROVE  Accounts(Store)'
    <2>1. /\ Store'.entries = entries' /\ Store'.tombs = tombs
          /\ Store.entries = entries /\ Store.tombs = tombs
      BY <1>2 DEF Store
    <2>2. IsStore(Store)'
      BY DEF IInv, TypeOK, IsStore, Store
    <2>3. \A u \in DOMAIN issued : GoneLongAgo(Store, u) => GoneLongAgo(Store, u)'
      <3> TAKE u \in DOMAIN issued
      <3>1. /\ issued[u].at \in Int /\ Ttl \in Int /\ latest \in Int /\ latest' \in Int
        BY StoreAssumption DEF IInv, TypeOK
      <3>2. issued[u].at + 2 * Ttl <= latest => issued'[u].at + 2 * Ttl <= latest'
        BY <1>2, <3>1
      <3> QED BY <1>2, <2>1, <3>2 DEF GoneLongAgo
    <2>4. /\ Accounts(Store) /\ DOMAIN issued' = DOMAIN issued
      BY <1>2 DEF Remembering
    <2>5. \A u \in DOMAIN issued' \ (DOMAIN entries' \cup DOMAIN tombs') : GoneLongAgo(Store, u)'
      BY <1>2, <2>1, <2>3, <2>4 DEF Accounts
    <2> QED BY <1>2, <2>1, <2>2, <2>4, <2>5 DEF Accounts
  <1>3. ASSUME NEW t \in Token, Mutate(t) PROVE Remembering'
    <2>1. /\ DOMAIN entries' = DOMAIN entries
          /\ \A u \in DOMAIN entries : entries'[u].expires = entries[u].expires
          /\ reply' = None /\ UNCHANGED <<now, latest, tombs, issued>>
          /\ latest \in Int
      BY <1>3 DEF Mutate, IInv, TypeOK, Entry
    <2>2. now' <= latest' /\ latest <= latest'
      BY <2>1 DEF Remembering
    <2> QED BY <1>2, <2>1, <2>2 DEF Remembering, ForgetsOnlyLate
  <1>4. ASSUME NEW d \in ClockSteps, Tick(d) PROVE Remembering'
    <2>1. /\ now' <= latest' /\ latest <= latest' /\ reply' = None
          /\ UNCHANGED <<entries, tombs, issued>>
      BY <1>4, StoreAssumption DEF Tick, IInv, TypeOK
    <2> QED BY <1>2, <2>1 DEF Remembering, ForgetsOnlyLate
  <1>5. CASE UNCHANGED vars
    <2>1. UNCHANGED <<now, latest, entries, tombs, issued, reply>>
      BY <1>5 DEF vars, tables
    <2>2. now' <= latest' /\ latest <= latest'
      BY <2>1 DEF Remembering, IInv, TypeOK
    <2>3. ForgetsOnlyLate'
      BY <2>1 DEF Remembering, ForgetsOnlyLate
    <2> QED BY <1>2, <2>1, <2>2, <2>3 DEF Remembering
  <1> QED BY <1>1, <1>3, <1>4, <1>5

\* A caller is told that a token is unknown only when nobody ever issued it, two TTLs
\* after it was issued, or once as many others are gone as the store has room for
\* (_bury, _purge): a tombstone is dropped for age only after its double lifetime, and
\* for room only behind MaxEntries newer ones.
THEOREM ForgettingIsLate == Spec => []ForgetsOnlyLate
  <1>1. Init => Remembering
    <2> SUFFICES ASSUME Init PROVE Remembering
      OBVIOUS
    <2>1. /\ DOMAIN entries = {} /\ DOMAIN tombs = {} /\ DOMAIN issued = {} /\ reply = None
          /\ now = 0 /\ latest = 0 /\ Store.entries = entries /\ Store.tombs = tombs
      BY DEF Init, Store
    <2>2. IsStore(Store)
      BY InitIInv DEF IsStore, Store, IInv, TypeOK
    <2> QED BY <2>1, <2>2 DEF Remembering, Accounts, ForgetsOnlyLate
  <1>2. IInv /\ IInv' /\ Remembering /\ [Next]_vars => Remembering'
    BY LookupRemembers, IssueRemembers, OthersRemember DEF Next
  <1>3. Remembering => ForgetsOnlyLate
    BY DEF Remembering
  <1> QED BY <1>1, <1>2, <1>3, StoreInvariant, PTL DEF Spec
=============================================================================
