---------------------------- MODULE PreviewStore ----------------------------
(***************************************************************************)
(* safety/tokens.py: the in-memory, single-use store of previewed orders.  *)
(*                                                                         *)
(* Every public method takes the store's lock, reads the wall clock once   *)
(* and purges first, so each is one action.  The two insertion-ordered     *)
(* dicts are functions whose entries carry a serial number: the order the  *)
(* dict would iterate in.  A token is 24 random bytes, so a token once     *)
(* issued is never issued again.  A preview stands for what the digest     *)
(* covers: kind, account, payload and expiry.                              *)
(***************************************************************************)
EXTENDS Integers, FiniteSets, Functions

CONSTANTS Token,        \* tokens issue() may draw, and callers may name
          Preview,      \* what a token can be issued for
          None,         \* no preview, no reply yet
          Ttl,          \* seconds a token stays valid
          MaxEntries,   \* cap of pending previews, and of tombstones
          ClockSteps,   \* how far the wall clock may move between two calls
          MaxNow        \* bound of the clock

ASSUME StoreAssumption ==
    /\ IsFiniteSet(Token)
    /\ None \notin Preview
    /\ Ttl \in Nat \ {0}
    /\ MaxEntries \in Nat \ {0}
    /\ ClockSteps \subseteq Int
    /\ MaxNow \in Nat

VARIABLES now,        \* the wall clock (time.time)
          entries,    \* _entries: pending previews
          tombs,      \* _tombstones: why recent tokens are gone
          burials,    \* how many tombstones were ever made (their order)
          \* What the callers saw; the store does not keep these.
          issued,     \* every token issued: for what, when, as the how-many-th
          uses,       \* how often each token was consumed
          discards,   \* how often each token was discarded
          granted,    \* what consuming a token returned
          latest,     \* the latest reading of the clock so far
          reply       \* the answer, right after a lookup; else None

tables == <<entries, tombs, burials>>
vars == <<now, entries, tombs, burials, issued, uses, discards, granted,
          latest, reply>>

Reason == {"used", "discarded", "expired", "evicted", "invalidated"}
Entry == [preview : Preview \cup {None}, sealed : Preview, expires : Int, serial : Nat]
Tomb == [reason : Reason, forget : Int, serial : Nat]
Reply == [token : Token, answer : Reason \cup {"ok", "unknown"},
          preview : Preview \cup {None}]

TypeOK ==
    /\ now \in Int /\ latest \in Int
    /\ DOMAIN entries \subseteq Token /\ entries \in [DOMAIN entries -> Entry]
    /\ DOMAIN tombs \subseteq Token /\ tombs \in [DOMAIN tombs -> Tomb]
    /\ burials \in Nat
    /\ DOMAIN issued \subseteq Token
    /\ issued \in [DOMAIN issued -> [preview : Preview, at : Int, serial : Nat]]
    /\ uses \in [Token -> Nat] /\ discards \in [Token -> Nat]
    /\ granted \in [Token -> Preview \cup {None}]
    /\ reply \in Reply \cup {None}

-----------------------------------------------------------------------------
(* The internals, as functions of a store s = [entries, tombs, burials]. *)

\* Slip: keeps one key too many.
NewestAndOne(dict, n) ==
    {t \in DOMAIN dict :
        Cardinality({u \in DOMAIN dict : dict[u].serial > dict[t].serial}) <= n}

\* The n most recently inserted keys of a dict.
Newest(dict, n) ==
    {t \in DOMAIN dict :
        Cardinality({u \in DOMAIN dict : dict[u].serial > dict[t].serial}) < n}

\* Pop the tokens of dead, oldest first, and bury each; tombstones beyond the
\* cap are dropped, oldest first.
Bury(s, dead, reason) ==
    LET rank(t) == Cardinality({u \in dead : s.entries[u].serial <= s.entries[t].serial})
        all == [t \in DOMAIN s.tombs \cup dead |->
                   IF t \in dead
                   THEN [reason |-> reason, forget |-> s.entries[t].expires + Ttl,
                         serial |-> s.burials + rank(t)]
                   ELSE s.tombs[t]]
    IN  [entries |-> Restrict(s.entries, DOMAIN s.entries \ dead),
         tombs   |-> Restrict(all, Newest(all, MaxEntries)),
         burials |-> s.burials + Cardinality(dead)]

\* Slip: tombstones live as long as their tokens would have.
UnforgottenToExpiry(dict) == {t \in DOMAIN dict : dict[t].forget > now + Ttl}

Unforgotten(dict) == {t \in DOMAIN dict : dict[t].forget > now}

\* Slip: a preview is still good in the second it expires.
PurgeLate(s) ==
    LET b == Bury(s, {t \in DOMAIN s.entries : s.entries[t].expires < now}, "expired")
    IN  [b EXCEPT !.tombs = Restrict(b.tombs, Unforgotten(b.tombs))]

\* _purge: bury what has expired, then forget old tombstones, in one pass.
Purge(s) ==
    LET b == Bury(s, {t \in DOMAIN s.entries : s.entries[t].expires <= now}, "expired")
    IN  [b EXCEPT !.tombs = Restrict(b.tombs, Unforgotten(b.tombs))]

\* _make_room: evict the oldest until one more preview fits.
MakeRoom(s) == Bury(s, DOMAIN s.entries \ Newest(s.entries, MaxEntries - 1), "evicted")

\* Slip: the digest is not compared.
IntactUnchecked(s, t) == TRUE

Intact(s, t) == s.entries[t].preview = s.entries[t].sealed

\* _verified and _gone_error: the answer to a lookup of t.
Answer(s, t) ==
    CASE t \in DOMAIN s.entries /\ Intact(s, t)  -> "ok"
      [] t \in DOMAIN s.entries /\ ~Intact(s, t) -> "invalidated"
      [] t \notin DOMAIN s.entries /\ t \in DOMAIN s.tombs -> s.tombs[t].reason
      [] OTHER -> "unknown"

\* An entry that fails its digest is discarded by the lookup.
Verified(s, t) ==
    IF t \in DOMAIN s.entries /\ ~Intact(s, t) THEN Bury(s, {t}, "invalidated") ELSE s

Store == [entries |-> entries, tombs |-> tombs, burials |-> burials]
Purged == Purge(Store)

Adopt(s) == /\ entries' = s.entries
            /\ tombs' = s.tombs
            /\ burials' = s.burials

Answered(t) ==
    reply' = [token |-> t, answer |-> Answer(Purged, t),
              preview |-> IF Answer(Purged, t) = "ok"
                          THEN Purged.entries[t].preview ELSE None]

-----------------------------------------------------------------------------
Init ==
    /\ now = 0 /\ latest = 0
    /\ entries = [t \in {} |-> None]
    /\ tombs = [t \in {} |-> None]
    /\ burials = 0
    /\ issued = [t \in {} |-> None]
    /\ uses = [t \in Token |-> 0] /\ discards = [t \in Token |-> 0]
    /\ granted = [t \in Token |-> None]
    /\ reply = None

NextSerial == Cardinality(DOMAIN issued) + 1

\* A dict with one more key, inserted last.
Insert(dict, t, entry) ==
    [u \in DOMAIN dict \cup {t} |-> IF u = t THEN entry ELSE dict[u]]

Issue(t, p) ==
    /\ t \notin DOMAIN issued
    /\ LET s == MakeRoom(Purged)
       IN  Adopt([s EXCEPT !.entries =
               Insert(s.entries, t, [preview |-> p, sealed |-> p, expires |-> now + Ttl,
                                     serial |-> NextSerial])])
    /\ issued' = Insert(issued, t, [preview |-> p, at |-> now, serial |-> NextSerial])
    /\ reply' = None
    /\ UNCHANGED <<now, latest, uses, discards, granted>>

\* Slip: looking at a preview renews it.
PeekRenews(t) ==
    LET s == Verified(Purged, t)
    IN  /\ Adopt([s EXCEPT !.entries = [u \in DOMAIN s.entries |->
                    IF u = t THEN [s.entries[u] EXCEPT !.expires = now + Ttl]
                    ELSE s.entries[u]]])
        /\ Answered(t)
        /\ UNCHANGED <<now, latest, issued, uses, discards, granted>>

Peek(t) ==
    /\ Adopt(Verified(Purged, t))
    /\ Answered(t)
    /\ UNCHANGED <<now, latest, issued, uses, discards, granted>>

\* Slip: hands the preview out without popping it.
ConsumeKeeps(t) ==
    /\ Answered(t) /\ Answer(Purged, t) = "ok"
    /\ Adopt(Purged)
    /\ uses' = [uses EXCEPT ![t] = @ + 1]
    /\ granted' = [granted EXCEPT ![t] = Purged.entries[t].preview]
    /\ UNCHANGED <<now, latest, issued, discards>>

Consume(t) ==
    /\ Answered(t)
    /\ \/ /\ Answer(Purged, t) = "ok"
          /\ Adopt(Bury(Purged, {t}, "used"))
          /\ uses' = [uses EXCEPT ![t] = @ + 1]
          /\ granted' = [granted EXCEPT ![t] = Purged.entries[t].preview]
       \/ /\ Answer(Purged, t) # "ok"
          /\ Adopt(Verified(Purged, t))
          /\ UNCHANGED <<uses, granted>>
    /\ UNCHANGED <<now, latest, issued, discards>>

\* Slip: a declined token is buried as a used one.
DiscardAsUsed(t) ==
    /\ Answered(t) /\ Answer(Purged, t) = "ok"
    /\ Adopt(Bury(Purged, {t}, "used"))
    /\ discards' = [discards EXCEPT ![t] = @ + 1]
    /\ UNCHANGED <<now, latest, issued, uses, granted>>

Discard(t) ==
    /\ Answered(t)
    /\ \/ /\ Answer(Purged, t) = "ok"
          /\ Adopt(Bury(Purged, {t}, "discarded"))
          /\ discards' = [discards EXCEPT ![t] = @ + 1]
       \/ /\ Answer(Purged, t) # "ok"
          /\ Adopt(Verified(Purged, t))
          /\ UNCHANGED discards
    /\ UNCHANGED <<now, latest, issued, uses, granted>>

PurgeExpired ==
    /\ Adopt(Purged)
    /\ reply' = None
    /\ UNCHANGED <<now, latest, issued, uses, discards, granted>>

\* What the digest is there for: a stored entry altered behind the store's
\* back.  None stands for content that nobody previewed.
Mutate(t) ==
    /\ t \in DOMAIN entries
    /\ entries' = [entries EXCEPT ![t].preview = None]
    /\ reply' = None
    /\ UNCHANGED <<now, tombs, burials, issued, uses, discards, granted, latest>>

Tick(d) ==
    /\ now + d \in 0 .. MaxNow
    /\ now' = now + d
    /\ latest' = IF now + d > latest THEN now + d ELSE latest
    /\ reply' = None
    /\ UNCHANGED <<entries, tombs, burials, issued, uses, discards, granted>>

Next ==
    \/ \E t \in Token, p \in Preview : Issue(t, p)
    \/ \E t \in Token : Peek(t)
    \/ \E t \in Token : Consume(t)
    \/ \E t \in Token : Discard(t)
    \/ PurgeExpired
    \/ \E t \in Token : Mutate(t)
    \/ \E d \in ClockSteps : Tick(d)

Spec == Init /\ [][Next]_vars

-----------------------------------------------------------------------------
(* Properties *)

\* A token ends once: over any sequence of calls it is consumed or discarded
\* at most one time in all, whatever was purged, evicted or forgotten between.
SingleUse == \A t \in Token : uses[t] + discards[t] <= 1

\* consume_record returns the preview the token was issued for, even when the
\* stored entry was altered in between (the digest check of _verified).
HandsOutWhatWasPreviewed ==
    \A t \in Token : uses[t] > 0 =>
        t \in DOMAIN issued /\ granted[t] = issued[t].preview

\* peek, consume and discard accept a token only before its TTL has passed on
\* the clock they read, and describe exactly what was previewed.
AcceptsOnlyFresh ==
    reply # None /\ reply.answer = "ok" =>
        /\ reply.token \in DOMAIN issued
        /\ now < issued[reply.token].at + Ttl
        /\ reply.preview = issued[reply.token].preview

NewerThan(t) == {u \in DOMAIN issued : issued[u].serial > issued[t].serial}

\* What _gone_error tells the caller is what happened: a token reported used
\* was used, one reported discarded was discarded, one reported expired has
\* outlived its TTL, and one reported evicted was followed by enough previews.
\* (A caller who is told "expired" for a used token would submit again.)
ExplainsTruthfully ==
    reply # None => LET t == reply.token IN
        /\ reply.answer = "used" => uses[t] = 1
        /\ reply.answer = "discarded" => discards[t] = 1
        /\ reply.answer \in {"expired", "evicted", "invalidated"} =>
               t \in DOMAIN issued /\ uses[t] = 0 /\ discards[t] = 0
        /\ reply.answer = "expired" => issued[t].at + Ttl <= latest
        /\ reply.answer = "evicted" => Cardinality(NewerThan(t)) >= MaxEntries

\* A token that was issued is called unknown only after two TTLs, or once
\* MaxEntries other tokens have gone too (_bury, _purge).
ForgetsOnlyLate ==
    reply # None /\ reply.answer = "unknown" /\ reply.token \in DOMAIN issued =>
        \/ issued[reply.token].at + 2 * Ttl <= latest
        \/ Cardinality(DOMAIN issued \ (DOMAIN entries \cup {reply.token})) >= MaxEntries

\* Neither table outgrows its cap, and a token is never pending and buried.
TablesBounded ==
    /\ Cardinality(DOMAIN entries) <= MaxEntries
    /\ Cardinality(DOMAIN tombs) <= MaxEntries
    /\ DOMAIN entries \cap DOMAIN tombs = {}

\* What is pending is what was issued, and nobody has ended it.
PendingIsIssued ==
    \A t \in DOMAIN entries :
        /\ t \in DOMAIN issued
        /\ uses[t] = 0 /\ discards[t] = 0
        /\ entries[t].sealed = issued[t].preview
        /\ entries[t].expires = issued[t].at + Ttl

BuriedIsGone ==
    \A t \in DOMAIN tombs : t \in DOMAIN issued /\ t \notin DOMAIN entries

FreshIsUntouched ==
    \A t \in Token \ DOMAIN issued :
        uses[t] = 0 /\ discards[t] = 0 /\ granted[t] = None

\* The three above, with the properties they carry: preserved by every step
\* (PreviewStoreProofs), because a token that is still pending has never ended.
IInv == /\ TypeOK
        /\ PendingIsIssued
        /\ BuriedIsGone
        /\ FreshIsUntouched
        /\ SingleUse
        /\ HandsOutWhatWasPreviewed
        /\ AcceptsOnlyFresh

\* The store keeps the promise of TokenBook: each token goes from fresh to
\* pending to redeemed or lapsed, one way, and redeems as what it was issued.
BookStatus == [t \in Token |-> IF t \notin DOMAIN issued THEN "fresh"
                               ELSE IF t \in DOMAIN entries THEN "pending"
                               ELSE IF uses[t] > 0 THEN "redeemed" ELSE "lapsed"]
BookBound == [t \in Token |-> IF t \in DOMAIN issued THEN issued[t].preview ELSE None]

Book == INSTANCE TokenBook WITH status <- BookStatus, bound <- BookBound

ImplementsTokenBook == Book!BookSpec
=============================================================================
