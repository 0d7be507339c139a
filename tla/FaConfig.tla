------------------------------- MODULE FaConfig -------------------------------
(***************************************************************************)
(* The FA groups of a login: calls that preview and apply a replacement,   *)
(* calls that read the groups or the aliases, and somebody else who        *)
(* changes the groups meanwhile.                                           *)
(*                                                                         *)
(* ib_async keys every requestFA by one string and gives up on it after    *)
(* 4 s while IBKR still works on it, so the answer to an old request may   *)
(* be taken for that to a newer one.  A document is the groups it defines, *)
(* or None for the aliases: their roots differ.  Tokens (PreviewStore) and *)
(* the human's confirmation (SubmitFlow) are left out.                     *)
(***************************************************************************)
EXTENDS Naturals, Sequences

CONSTANTS Advisor,    \* calls that preview a replacement and apply it
          Reader,     \* calls that read the aliases, one after another
          None, First, Other,    \* groups: none, as they were, changed elsewhere
          MaxReads    \* bounds the reads

FaAssumption ==
    /\ Advisor \cap Reader = {} /\ MaxReads \in Nat
    /\ First # None /\ Other \notin {None, First}
    /\ {None, First, Other} \cap (Advisor \cup Reader) = {}

VARIABLES doing,     \* what each call is at
          attempt,   \* of _fetch_fa_xml: 0 or 1
          got,       \* the document a call received
          basis,     \* groups the preview was made against: current_digest
          requestLock, replaceLock,   \* the requestFA and replaceFA locks
          awaited,   \* whose requestFA future ib_async holds
          pendingAnswer,    \* _fa_answer_pending
          asked,     \* requestFA calls IBKR has not answered: who, for what
          answers,   \* answers on the way, with the groups as they were
          groups,    \* the groups at IBKR
          replacing, \* replaceFA calls IBKR has not taken
          reads,
          overtaken, \* history: the groups changed after a call's answer left
          lost       \* history: replacements that overwrote unseen changes

fetching == <<attempt, got, requestLock, awaited, pendingAnswer>>
server == <<asked, answers, groups, replacing>>
fvars == <<doing, fetching, basis, replaceLock, server, reads, overtaken, lost>>

Calls == Advisor \cup Reader
Groups == Advisor \cup {First, Other}

TypeOK ==
    /\ doing \in [Calls -> {"idle", "queued", "asking", "answered", "previewed", "locking",
                            "replacing", "done", "refused"}]
    /\ attempt \in [Calls -> 0..1]
    /\ got \in [Calls -> Groups \cup {None}]
    /\ basis \in [Advisor -> Groups \cup {None}]
    /\ {requestLock, awaited} \subseteq Calls \cup {None}
    /\ replaceLock \in Advisor \cup {None}
    /\ pendingAnswer \in BOOLEAN
    /\ asked \in Seq([by : Calls, aliases : BOOLEAN])
    /\ answers \in Seq([to : Calls, doc : Groups \cup {None}])
    /\ groups \in Groups
    /\ replacing \subseteq Advisor
    /\ reads \in 0..MaxReads
    /\ overtaken \subseteq Advisor /\ lost \subseteq Advisor

Init ==
    /\ doing = [c \in Calls |-> "idle"] /\ attempt = [c \in Calls |-> 0]
    /\ got = [c \in Calls |-> None] /\ basis = [c \in Advisor |-> None]
    /\ requestLock = None /\ replaceLock = None /\ awaited = None
    /\ pendingAnswer = FALSE
    /\ asked = <<>> /\ answers = <<>> /\ groups = First /\ replacing = {}
    /\ reads = 0 /\ overtaken = {} /\ lost = {}

-----------------------------------------------------------------------------
(* _fetch_fa_xml *)

Fetch(c) ==
    /\ doing' = [doing EXCEPT ![c] = "queued"]
    /\ attempt' = [attempt EXCEPT ![c] = 0]

Ask(c) ==
    /\ doing[c] = "queued" /\ requestLock = None
    /\ doing' = [doing EXCEPT ![c] = "asking"]
    /\ requestLock' = c /\ awaited' = c
    /\ asked' = Append(asked, [by |-> c, aliases |-> c \in Reader])
    /\ UNCHANGED <<attempt, got, pendingAnswer, basis, replaceLock, answers, groups, replacing,
                   reads, overtaken, lost>>

\* The answer of the right kind, by its root element.
RootFits(c) == (got[c] = None) = (c \in Reader)

Fails(c) ==
    /\ doing' = [doing EXCEPT ![c] = IF c \in Reader THEN "idle" ELSE "refused"]
    /\ replaceLock' = IF replaceLock = c THEN None ELSE replaceLock

\* ib_async's 4 s are over: the request stays open at IBKR.
GivesUp(c) ==
    /\ doing[c] = "asking"
    /\ requestLock' = None /\ awaited' = None
    /\ pendingAnswer' = TRUE
    /\ Fails(c)
    /\ UNCHANGED <<attempt, got, basis, server, reads, overtaken, lost>>

\* The time limit of the whole call, its wait for the lock included, is over.
TimesOut(c) ==
    /\ doing[c] \in {"queued", "asking"}
    /\ requestLock' = IF requestLock = c THEN None ELSE requestLock
    /\ awaited' = IF awaited = c THEN None ELSE awaited
    /\ Fails(c)
    /\ UNCHANGED <<attempt, got, pendingAnswer, basis, server, reads, overtaken, lost>>

\* After a timeout, an answer of the other kind is dropped, and the request
\* is sent once more.
Drops(c) == pendingAnswer /\ attempt[c] = 0 /\ ~RootFits(c)

DropLate(c) ==
    /\ doing[c] = "answered" /\ Drops(c)
    /\ pendingAnswer' = FALSE
    /\ requestLock' = None
    /\ attempt' = [attempt EXCEPT ![c] = 1]
    /\ doing' = [doing EXCEPT ![c] = "queued"]
    /\ UNCHANGED <<got, awaited, basis, replaceLock, server, reads, overtaken, lost>>

\* Slip: the groups are not compared with those of the preview.
UnchangedSince(c) == TRUE

SameGroups(c) == got[c] = basis[c]

\* The answer is taken; the parsers refuse one of the wrong kind.  A preview
\* keeps the groups it saw; an apply compares them with the preview's and
\* sends the replacement.
Take(c) ==
    /\ doing[c] = "answered" /\ ~Drops(c)
    /\ pendingAnswer' = FALSE
    /\ requestLock' = None
    /\ \/ /\ \/ c \in Reader
             \/ ~RootFits(c)
             \/ replaceLock = c /\ ~SameGroups(c)
          /\ Fails(c)
          /\ UNCHANGED <<basis, replacing>>
       \/ /\ c \in Advisor /\ RootFits(c) /\ replaceLock # c
          /\ doing' = [doing EXCEPT ![c] = "previewed"]
          /\ basis' = [basis EXCEPT ![c] = got[c]]
          /\ UNCHANGED <<replaceLock, replacing>>
       \/ /\ c \in Advisor /\ RootFits(c) /\ replaceLock = c /\ SameGroups(c)
          /\ doing' = [doing EXCEPT ![c] = "replacing"]
          /\ replacing' = replacing \cup {c}
          /\ UNCHANGED <<basis, replaceLock>>
    /\ UNCHANGED <<attempt, got, awaited, asked, answers, groups, reads, overtaken, lost>>

-----------------------------------------------------------------------------
(* The calls *)

Read(c) ==
    /\ c \in Reader /\ doing[c] = "idle" /\ reads < MaxReads
    /\ reads' = reads + 1
    /\ Fetch(c)
    /\ UNCHANGED <<got, requestLock, awaited, pendingAnswer, basis, replaceLock, server,
                   overtaken, lost>>

Preview(c) ==
    /\ c \in Advisor /\ doing[c] = "idle"
    /\ Fetch(c)
    /\ UNCHANGED <<got, requestLock, awaited, pendingAnswer, basis, replaceLock, server, reads, overtaken, lost>>

\* apply_fa_config: one at a time, and the groups are read again.
Apply(c) ==
    /\ c \in Advisor /\ doing[c] = "previewed" /\ replaceLock = None
    /\ replaceLock' = c
    /\ Fetch(c)
    /\ overtaken' = overtaken \ {c}
    /\ UNCHANGED <<got, requestLock, awaited, pendingAnswer, basis, server, reads, lost>>

\* replaceFAEnd, or the time is over and nobody knows.
Replaced(c) ==
    /\ doing[c] = "replacing"
    /\ doing' = [doing EXCEPT ![c] = "done"]
    /\ replaceLock' = None
    /\ UNCHANGED <<fetching, basis, server, reads, overtaken, lost>>

-----------------------------------------------------------------------------
(* IBKR *)

IbkrAnswers ==
    /\ asked # <<>>
    /\ asked' = Tail(asked)
    /\ answers' = Append(answers, [to |-> Head(asked).by,
                                   doc |-> IF Head(asked).aliases THEN None ELSE groups])
    /\ UNCHANGED <<doing, fetching, basis, replaceLock, groups, replacing, reads,
                   overtaken, lost>>

\* An answer ends whichever request ib_async holds a future for.
Deliver ==
    /\ answers # <<>>
    /\ answers' = Tail(answers)
    /\ awaited' = None
    /\ IF awaited = None
       THEN UNCHANGED <<doing, got, overtaken>>
       ELSE /\ got' = [got EXCEPT ![awaited] = Head(answers).doc]
            /\ doing' = [doing EXCEPT ![awaited] = "answered"]
            /\ overtaken' = IF Head(answers).doc \notin {None, groups}
                            THEN overtaken \cup ({awaited} \cap Advisor) ELSE overtaken
    /\ UNCHANGED <<attempt, requestLock, pendingAnswer, basis, replaceLock, asked, groups,
                   replacing, reads, lost>>

Changes(to) ==
    /\ groups' = to
    /\ overtaken' = overtaken \cup
         {c \in Advisor \ {to} : doing[c] \in {"answered", "replacing"} \/ c \in replacing}

\* IBKR takes a replacement; what it overwrites should be what was previewed.
IbkrReplaces(c) ==
    /\ c \in replacing
    /\ replacing' = replacing \ {c}
    /\ Changes(c)
    /\ lost' = IF groups # basis[c] THEN lost \cup {c} ELSE lost
    /\ UNCHANGED <<doing, fetching, basis, replaceLock, asked, answers, reads>>

ChangedElsewhere ==
    /\ groups # Other
    /\ Changes(Other)
    /\ UNCHANGED <<doing, fetching, basis, replaceLock, asked, answers, replacing, reads,
                   lost>>

Next ==
    \/ \E c \in Calls : \/ Read(c) \/ Preview(c) \/ Apply(c) \/ Ask(c) \/ GivesUp(c)
                        \/ TimesOut(c) \/ DropLate(c) \/ Take(c) \/ Replaced(c)
                        \/ IbkrReplaces(c)
    \/ IbkrAnswers \/ Deliver \/ ChangedElsewhere

Spec == Init /\ [][Next]_fvars

-----------------------------------------------------------------------------
(* Properties *)

\* A replacement overwrites the groups its preview showed, unless they changed
\* after IBKR had sent the answer the apply compared them with.
OverwritesWhatWasShown == lost \subseteq overtaken

\* One requestFA is awaited at a time: the future ib_async holds is that of
\* the call that has the lock.
OneRequestAwaited ==
    /\ awaited # None => awaited = requestLock /\ doing[awaited] = "asking"
    /\ \A c \in Calls : doing[c] \in {"asking", "answered"} <=> requestLock = c

\* What a call has compared, or will compare, are IBKR's groups, or it is overtaken.
Compared ==
    /\ \A c \in Advisor : doing[c] = "answered" => got[c] \in {None, groups} \/ c \in overtaken
    /\ \A c \in replacing : basis[c] = groups \/ c \in overtaken
    /\ \A c \in replacing \cup lost : doing[c] \in {"replacing", "done"}

IInv == TypeOK /\ OneRequestAwaited /\ Compared
=============================================================================
