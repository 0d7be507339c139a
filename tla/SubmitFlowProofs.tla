-------------------------- MODULE SubmitFlowProofs --------------------------
(***************************************************************************)
(* However many calls, tokens, humans and logins there are: one submit per *)
(* token, no live order without its own human's yes, none after a no that  *)
(* was heard, orders only to the account they were previewed for, and      *)
(* never more rate slots than the limit.                                   *)
(***************************************************************************)
EXTENDS SubmitFlow, TLAPS

USE FlowAssumption, ThresholdAssumption

\* The breaker stays one, whatever a result feeds it.
LEMMA BreakerTypes ==
    ASSUME NEW b \in Breaker
    PROVE  Armed \in Breaker /\ Succeeded(b) \in Breaker /\ Rejected(b) \in Breaker
  BY DEF Breaker, Armed, Succeeded, Rejected

\* A job of any kind takes a number of slots and sends at least one message.
LEMMA SlotsNat == ASSUME NEW j \in Jobs PROVE Slots(j) \in Nat /\ Messages(j) \in Nat \ {0}
  BY DEF Slots, Messages, Kind

\* A change of one call that sends nothing and spends nothing, with the tokens,
\* the login and the slots as they are.
LEMMA QuietCallKeeps ==
    ASSUME IInv, NEW c \in Call, NEW r \in CallState,
           call' = [call EXCEPT ![c] = r],
           UNCHANGED <<login, taken, book>>,
           breaker' \in Breaker, resets' \in Nat, logins' \in Nat,
           r.spent = call[c].spent, r.sent = call[c].sent, r.reached = call[c].reached,
           r.token = call[c].token \/ ~call[c].spent,
           r.answer = call[c].answer \/ ~call[c].spent,
           r.pc # "idle" => r.token \in Token,
           r.pc # "looking",
           r.pc = "waiting" => r.spent,
           r.spent => r.pc \in {"waiting", "done"},
           r.pc \in {"idle", "asking"} => r.answer = None,
           r.pc = "asking" \/ r.answer \in {"accepted", "declined", "unheard"} =>
               /\ status[r.token] # "fresh" /\ LiveConfirm
               /\ bound[r.token].account = "live",
           r.answer = "declined" /\ r.pc # "body" => status[r.token] \in {"lapsed", "redeemed"}
    PROVE  IInv'
  <1> USE DEF IInv, book
  <1>1. TypeOK'
    BY DEF TypeOK
  <1>2. /\ \A d \in Call : d # c => call'[d] = call[d]
        /\ call'[c] = r
    BY DEF TypeOK
  <1>3. CallsConsistent'
    BY <1>2 DEF CallsConsistent, Job, LiveAllowed, ReachesLive
  <1>4. TokensConsistent' /\ AnswersConsistent'
    BY <1>2 DEF TokensConsistent, AnswersConsistent, Job
  <1>5. /\ \A d \in Call : call'[d].spent = call[d].spent
        /\ \A d \in Call : call'[d].sent = call[d].sent
        /\ \A d \in Call : call[d].spent => call'[d].token = call[d].token
        /\ \A d \in Call : call[d].spent => call'[d].answer = call[d].answer
        /\ \A d \in Call : call'[d].reached = call[d].reached
    BY <1>2
  <1>6. OneSubmitPerToken'
    BY <1>5 DEF OneSubmitPerToken
  <1>7. LiveNeedsAHuman' /\ RightAccount'
    BY <1>5 DEF LiveNeedsAHuman, RightAccount, CallsConsistent, Job
  <1>8. RateHolds'
    BY DEF RateHolds
  <1> QED BY <1>1, <1>3, <1>4, <1>6, <1>7, <1>8

\* The parts a send touches: what call c, which may send its job now, becomes.
LEMMA SendKeeps ==
    ASSUME IInv, NEW c \in Call, Send(c),
           call[c].token \in Token, Job(c) \in Jobs,
           login = Job(c).account,
           LiveAllowed(Job(c), call[c].answer = "accepted")
    PROVE  /\ call' \in [Call -> CallState]
           /\ \A d \in Call : d # c => call'[d] = call[d]
           /\ call'[c].token = call[c].token
           /\ call'[c].answer = call[c].answer
           /\ call'[c].spent
           /\ call'[c].pc \in {"waiting", "done"}
           /\ call'[c].reached \in {"none", Job(c).account}
           /\ call'[c].reached = "live" =>
                  AllowLive /\ (LiveConfirm => call[c].answer = "accepted")
  <1> USE DEF IInv, TypeOK
  <1>1. PICK n \in 0 .. Messages(Job(c)) :
           call' = [call EXCEPT
                    ![c].spent = TRUE,
                    ![c].sent = n,
                    ![c].reached = IF n > 0 THEN login ELSE "none",
                    ![c].pc = IF n = Messages(Job(c)) THEN "waiting" ELSE "done"]
    BY DEF Send
  <1>2. n \in Nat /\ login \in Account
    BY SlotsNat
  <1>3. /\ call' \in [Call -> CallState]
        /\ \A d \in Call : d # c => call'[d] = call[d]
        /\ call'[c].token = call[c].token
        /\ call'[c].answer = call[c].answer
        /\ call'[c].spent
        /\ call'[c].pc \in {"waiting", "done"}
        /\ call'[c].reached \in {"none", login}
    <2> DEFINE reached == IF n > 0 THEN login ELSE "none"
               pc == IF n = Messages(Job(c)) THEN "waiting" ELSE "done"
               r == [call[c] EXCEPT !.spent = TRUE, !.sent = n, !.reached = reached, !.pc = pc]
    <2>1. /\ reached \in {"none", login} /\ reached \in {"none"} \cup Account
          /\ pc \in {"waiting", "done"}
          /\ call[c] \in CallState
      BY <1>2
    <2>2. call' = [call EXCEPT ![c] = r]
      BY <1>1
    <2> HIDE DEF reached, pc
    <2>3. /\ r \in CallState
          /\ r.token = call[c].token /\ r.answer = call[c].answer
          /\ r.spent /\ r.pc = pc /\ r.reached = reached
      BY <1>2, <2>1 DEF CallState
    <2> HIDE DEF r
    <2> QED BY <2>1, <2>2, <2>3
  <1>4. login = "live" => AllowLive /\ (LiveConfirm => call[c].answer = "accepted")
    BY DEF LiveAllowed, ReachesLive
  <1> QED BY <1>3, <1>4

\* Calling the tool: refused, asked about, or on to the body.
LEMMA CallSubmitKeeps ==
    ASSUME IInv, NEW c \in Call, NEW t \in Token, CallSubmit(c, t)
    PROVE  IInv'
  <1> DEFINE done == [call[c] EXCEPT !.token = t, !.pc = "done"]
             body(a) == [call[c] EXCEPT !.token = t, !.pc = "body", !.answer = a]
             asking == [call[c] EXCEPT !.token = t, !.pc = "asking"]
  <1>1. /\ call[c].pc = "idle" /\ ~call[c].spent
        /\ call[c] \in CallState
        /\ breaker \in Breaker /\ resets \in Nat /\ logins \in Nat
    BY DEF CallSubmit, IInv, TypeOK, CallsConsistent
  <1>2. PICK r \in {done, asking, body("not_required"), body("unavailable")} :
           call' = [call EXCEPT ![c] = r]
    BY <1>1 DEF CallSubmit, IInv, TypeOK
  <1>3. /\ r \in CallState
        /\ r.spent = call[c].spent /\ r.sent = call[c].sent
        /\ r.reached = call[c].reached
        /\ r.token = t
        /\ r.pc \in {"done", "asking", "body"}
    <2>1. CASE r = done
      BY <1>1, <2>1 DEF CallState
    <2>2. CASE r = asking
      BY <1>1, <2>2 DEF CallState
    <2>3. CASE r = body("not_required")
      BY <1>1, <2>3 DEF CallState
    <2>4. CASE r = body("unavailable")
      BY <1>1, <2>4 DEF CallState
    <2> QED BY <1>2, <2>1, <2>2, <2>3, <2>4
  <1>4. UNCHANGED <<login, breaker, taken, book, resets, logins>>
    BY DEF CallSubmit
  <1>5. r.pc = "asking" => LiveConfirm /\ status[t] = "pending" /\ bound[t].account = "live"
    <2>1. r.pc = "asking" => Described(t) /\ AsksHuman(t)
      BY <1>1, <1>2, <1>3 DEF CallSubmit, CallState, IInv, TypeOK
    <2> QED BY <2>1 DEF Described, Gate, CheckSubmit, AsksHuman, ReachesLive
  <1>6. /\ r.answer \notin {"accepted", "declined", "unheard"}
        /\ r.pc = "asking" => r.answer = None
    <2>1. call[c].answer = None
      BY <1>1 DEF IInv, AnswersConsistent
    <2> QED BY <1>1, <1>2, <2>1 DEF CallState
  <1> HIDE DEF done, body, asking
  <1> QED BY <1>1, <1>2, <1>3, <1>4, <1>5, <1>6, QuietCallKeeps

\* A human answers; the call still holds nothing.
LEMMA HumanAnswersKeeps ==
    ASSUME IInv, NEW c \in Call, NEW a \in {"accepted", "declined"}, HumanAnswers(c, a)
    PROVE  IInv'
  <1> DEFINE done == [call[c] EXCEPT !.pc = "done", !.answer = Unheard(a)]
             body == [call[c] EXCEPT !.pc = "body", !.answer = a]
  <1>1. /\ call[c].pc = "asking" /\ ~call[c].spent
        /\ call[c].token \in Token
        /\ call[c] \in CallState
        /\ breaker \in Breaker /\ resets \in Nat /\ logins \in Nat
    BY DEF HumanAnswers, IInv, TypeOK, CallsConsistent
  <1>2. PICK r \in {done, body} :
           call' = [call EXCEPT ![c] = r]
    BY <1>1 DEF HumanAnswers, IInv, TypeOK
  <1>3. /\ r \in CallState
        /\ r.spent = call[c].spent /\ r.sent = call[c].sent
        /\ r.reached = call[c].reached /\ r.token = call[c].token
        /\ r.pc \in {"done", "body"}
        /\ r.pc = "done" => r.answer # "declined"
    <2>1. CASE r = done
      BY <1>1, <2>1 DEF CallState, Unheard
    <2>2. CASE r = body
      BY <1>1, <2>2 DEF CallState
    <2> QED BY <1>2, <2>1, <2>2
  <1>4. UNCHANGED <<login, breaker, taken, book, resets, logins>>
    BY DEF HumanAnswers
  <1>5. /\ status[call[c].token] # "fresh" /\ LiveConfirm
        /\ bound[call[c].token].account = "live"
    BY <1>1 DEF IInv, AnswersConsistent, Job
  <1> HIDE DEF done, body
  <1> QED BY <1>1, <1>2, <1>3, <1>4, <1>5, QuietCallKeeps

\* A refused submit ends with its token as it was.
LEMMA RefuseSubmitKeeps ==
    ASSUME IInv, NEW c \in Call, RefuseSubmit(c)
    PROVE  IInv'
  <1> DEFINE r == [call[c] EXCEPT !.pc = "done", !.answer = Unheard(call[c].answer)]
  <1>1. /\ call[c].pc = "body" /\ ~call[c].spent
        /\ call[c].token \in Token
        /\ call[c] \in CallState
        /\ breaker \in Breaker /\ resets \in Nat /\ logins \in Nat
    BY DEF RefuseSubmit, IInv, TypeOK, CallsConsistent
  <1>2. call' = [call EXCEPT ![c] = r]
    BY <1>1 DEF RefuseSubmit, IInv, TypeOK
  <1>3. /\ r \in CallState
        /\ r.spent = call[c].spent /\ r.sent = call[c].sent
        /\ r.reached = call[c].reached /\ r.token = call[c].token
        /\ r.pc = "done"
        /\ r.answer # "declined"
        /\ r.answer \in {"accepted", "declined", "unheard"}
              => call[c].answer \in {"accepted", "declined", "unheard"}
    BY <1>1 DEF CallState, Unheard
  <1>4. UNCHANGED <<login, breaker, taken, book, resets, logins>>
    BY DEF RefuseSubmit
  <1>5. r.answer \in {"accepted", "declined", "unheard"} =>
           /\ status[r.token] # "fresh" /\ LiveConfirm
           /\ bound[r.token].account = "live"
    BY <1>1, <1>3 DEF IInv, AnswersConsistent, Job
  <1> HIDE DEF r
  <1> QED BY <1>1, <1>2, <1>3, <1>4, <1>5, QuietCallKeeps

\* The wait ends; only the breaker learns something.
LEMMA ReturnResultKeeps ==
    ASSUME IInv, NEW c \in Call, ReturnResult(c)
    PROVE  IInv'
  <1> DEFINE r == [call[c] EXCEPT !.pc = "done"]
  <1>1. /\ call[c].pc = "waiting"
        /\ call[c].token \in Token
        /\ call[c] \in CallState
        /\ breaker \in Breaker /\ resets \in Nat /\ logins \in Nat
    BY DEF ReturnResult, IInv, TypeOK, CallsConsistent
  <1>2. call' = [call EXCEPT ![c] = r]
    BY <1>1 DEF ReturnResult, IInv, TypeOK
  <1>3. /\ r \in CallState
        /\ r.spent = call[c].spent /\ r.sent = call[c].sent
        /\ r.reached = call[c].reached /\ r.token = call[c].token
        /\ r.answer = call[c].answer
        /\ r.pc = "done"
    BY <1>1 DEF CallState
  <1>4. UNCHANGED <<login, taken, book, resets, logins>>
    BY DEF ReturnResult
  <1>5. breaker' \in Breaker
    BY <1>1, BreakerTypes DEF ReturnResult, Fed
  <1>6. /\ r.answer \in {"accepted", "declined", "unheard"} =>
              /\ status[r.token] # "fresh" /\ LiveConfirm
              /\ bound[r.token].account = "live"
        /\ r.answer = "declined" => status[r.token] \in {"lapsed", "redeemed"}
    BY <1>1, <1>3 DEF IInv, AnswersConsistent, Job
  <1> HIDE DEF r
  <1> QED BY <1>1, <1>2, <1>3, <1>4, <1>5, <1>6, QuietCallKeeps

\* IBKR's verdict changes nothing but the fate of what was sent.
LEMMA VerdictKeeps ==
    ASSUME IInv, NEW c \in Call, NEW fate \in {"working", "rejected"}, Verdict(c, fate)
    PROVE  IInv'
  <1>1. /\ call \in [Call -> CallState] /\ call' = [call EXCEPT ![c].fate = fate]
        /\ UNCHANGED <<login, breaker, taken, book, resets, logins>>
    BY DEF Verdict, IInv, TypeOK
  <1>2. /\ call' \in [Call -> CallState]
        /\ \A d \in Call : /\ call'[d].pc = call[d].pc
                           /\ call'[d].token = call[d].token
                           /\ call'[d].answer = call[d].answer
                           /\ call'[d].spent = call[d].spent
                           /\ call'[d].sent = call[d].sent
                           /\ call'[d].reached = call[d].reached
    BY <1>1 DEF CallState
  <1> USE DEF IInv, book
  <1>3. TypeOK'
    BY <1>1, <1>2 DEF TypeOK
  <1>4. CallsConsistent' /\ TokensConsistent'
    BY <1>1, <1>2 DEF CallsConsistent, TokensConsistent, Job, LiveAllowed, ReachesLive
  <1>5. OneSubmitPerToken' /\ RateHolds'
    BY <1>1, <1>2 DEF OneSubmitPerToken, RateHolds
  <1>6. LiveNeedsAHuman' /\ AnswersConsistent' /\ RightAccount'
    BY <1>1, <1>2 DEF LiveNeedsAHuman, AnswersConsistent, RightAccount, Job
  <1> QED BY <1>3, <1>4, <1>5, <1>6

\* A decline, or no way to ask, lapses the token.
LEMMA DiscardTokenKeeps ==
    ASSUME IInv, NEW c \in Call, DiscardToken(c)
    PROVE  IInv'
  <1> DEFINE r == [call[c] EXCEPT !.pc = "done"]
             t == call[c].token
  <1>1. /\ call[c].pc = "body" /\ ~call[c].spent
        /\ t \in Token
        /\ call[c] \in CallState
        /\ breaker \in Breaker /\ resets \in Nat /\ logins \in Nat
    BY DEF DiscardToken, IInv, TypeOK, CallsConsistent
  <1>2. call' = [call EXCEPT ![c] = r] /\ UNCHANGED <<login, breaker, taken, resets, logins>>
    BY <1>1 DEF DiscardToken, IInv, TypeOK
  <1>3. /\ r \in CallState
        /\ r.spent = call[c].spent /\ r.sent = call[c].sent
        /\ r.reached = call[c].reached /\ r.token = call[c].token
        /\ r.answer = call[c].answer
        /\ r.pc = "done"
    BY <1>1 DEF CallState
  <1>4. CASE status[t] # "pending"
    <2>1. UNCHANGED book
      BY <1>4 DEF DiscardToken, Book!Lapse
    <2>2. /\ r.answer \in {"accepted", "declined", "unheard"} =>
                /\ status[r.token] # "fresh" /\ LiveConfirm
                /\ bound[r.token].account = "live"
          /\ r.answer = "declined" => status[r.token] \in {"lapsed", "redeemed"}
      BY <1>1, <1>3, <1>4 DEF IInv, TypeOK, AnswersConsistent, Job
    <2> HIDE DEF r
    <2> QED BY <1>1, <1>2, <1>3, <2>1, <2>2, QuietCallKeeps
  <1>5. CASE status[t] = "pending"
    <2>1. /\ status' = [status EXCEPT ![t] = "lapsed"]
          /\ UNCHANGED <<bound, granted>>
      BY <1>1, <1>5 DEF DiscardToken, Book!Lapse, IInv, TypeOK
    <2>2. /\ call' \in [Call -> CallState]
          /\ \A d \in Call : /\ call'[d].token = call[d].token
                             /\ call'[d].answer = call[d].answer
                             /\ call'[d].spent = call[d].spent
                             /\ call'[d].sent = call[d].sent
                             /\ call'[d].reached = call[d].reached
                             /\ d # c => call'[d] = call[d]
          /\ call'[c].pc = "done"
      BY <1>1, <1>2, <1>3 DEF IInv, TypeOK
    <2> HIDE DEF r, t
    <2> USE DEF IInv
    <2>4. TypeOK'
      BY <1>1, <1>2, <2>1, <2>2 DEF TypeOK
    <2>5. CallsConsistent'
      BY <1>1, <1>2, <2>1, <2>2
         DEF CallsConsistent, TypeOK, Job, LiveAllowed, ReachesLive
    <2>6. TokensConsistent'
      BY <1>1, <1>5, <2>1 DEF TokensConsistent, TypeOK
    <2>7. OneSubmitPerToken'
      BY <1>1, <1>5, <2>1, <2>2 DEF OneSubmitPerToken, TypeOK
    <2>8. LiveNeedsAHuman' /\ RightAccount' /\ RateHolds'
      BY <1>2, <2>1, <2>2 DEF LiveNeedsAHuman, RightAccount, RateHolds, Job
    <2>9. AnswersConsistent'
      BY <1>1, <1>2, <1>5, <2>1, <2>2 DEF AnswersConsistent, TypeOK, CallsConsistent, Job, t
    <2> QED BY <2>4, <2>5, <2>6, <2>7, <2>8, <2>9
  <1> QED BY <1>4, <1>5

\* The step that consumes the token, takes the slots, and sends or looks up.
LEMMA SubmitKeeps ==
    ASSUME IInv, NEW c \in Call, Submit(c)
    PROVE  IInv'
  <1> DEFINE t == call[c].token
  <1>1. /\ call[c].pc = "body" /\ ~call[c].spent
        /\ t \in Token
        /\ call[c] \in CallState
        /\ status[t] = "pending" /\ bound[t] \in Jobs
        /\ CheckSubmit(Job(c), call[c].answer = "accepted")
    BY DEF Submit, Passes, IInv, TypeOK, CallsConsistent, TokensConsistent
  <1>2. /\ Job(c) \in Jobs /\ login = Job(c).account
        /\ LiveAllowed(Job(c), call[c].answer = "accepted")
        /\ taken + Slots(Job(c)) <= MaxSlots
    BY <1>1, SlotsNat DEF CheckSubmit, Job, IInv, TypeOK, RateHolds
  <1>3. /\ status' = [status EXCEPT ![t] = "redeemed"]
        /\ granted' = [granted EXCEPT ![t] = bound[t]]
        /\ taken' = taken + Slots(Job(c))
        /\ UNCHANGED <<login, breaker, bound, resets, logins>>
    BY <1>1 DEF Submit, Book!Redeem, Book!Move, IInv, TypeOK
  <1>4. /\ call' \in [Call -> CallState]
        /\ \A d \in Call : d # c => call'[d] = call[d]
        /\ call'[c].token = t
        /\ call'[c].answer = call[c].answer
        /\ call'[c].spent
        /\ call'[c].pc \in {"looking", "waiting", "done"}
        /\ call'[c].reached \in {"none", Job(c).account}
        /\ call'[c].reached = "live" =>
               AllowLive /\ (LiveConfirm => call[c].answer = "accepted")
        /\ call'[c].pc = "looking" => LooksUp(Job(c))
    <2>1. CASE Send(c)
      BY <1>1, <1>2, <2>1, SendKeeps
    <2>2. CASE /\ LooksUp(Job(c))
               /\ call' = [call EXCEPT ![c].pc = "looking", ![c].spent = TRUE]
      <3>1. call[c].reached = "none"
        BY <1>1 DEF IInv, CallsConsistent
      <3> QED BY <1>1, <2>2, <3>1 DEF IInv, TypeOK, CallState
    <2> QED BY <2>1, <2>2 DEF Submit
  <1>5. \A d \in Call : call[d].spent => call[d].token # t
    BY <1>1 DEF IInv, OneSubmitPerToken
  <1> HIDE DEF t
  <1> USE DEF IInv
  <1>6. TypeOK'
    BY <1>1, <1>2, <1>3, <1>4, SlotsNat DEF TypeOK
  <1>7. Job(c) = bound[t] /\ Job(c)' = bound[t]
    BY <1>3, <1>4 DEF Job, t
  <1>8. CallsConsistent'
    <2> SUFFICES ASSUME NEW d \in Call
                 PROVE  CallsConsistent!(d)'
      BY DEF CallsConsistent
    <2>1. CASE d = c
      BY <1>1, <1>2, <1>3, <1>4, <1>7, <2>1
         DEF CallsConsistent, LooksUp, LiveAllowed, ReachesLive
    <2>2. CASE d # c
      BY <1>3, <1>4, <2>2 DEF CallsConsistent, Job, LiveAllowed, ReachesLive
    <2> QED BY <2>1, <2>2
  <1>9. TokensConsistent'
    BY <1>1, <1>3 DEF TokensConsistent, TypeOK
  <1>10. OneSubmitPerToken'
    <2>1. \A d \in Call : call'[d].sent > 0 => call'[d].spent
      BY <1>4 DEF OneSubmitPerToken
    <2>2. ASSUME NEW d \in Call, NEW e \in Call, call'[d].spent, call'[e].spent,
                 call'[d].token = call'[e].token
          PROVE  d = e
      BY <1>4, <1>5, <2>2 DEF OneSubmitPerToken
    <2>3. ASSUME NEW u \in Token
          PROVE  status'[u] = "redeemed"
                     <=> \E d \in Call : call'[d].spent /\ call'[d].token = u
      <3>1. CASE u = t
        BY <1>1, <1>3, <1>4, <3>1 DEF TypeOK
      <3>2. CASE u # t
        <4>1. status'[u] = status[u]
          BY <1>1, <1>3, <3>2 DEF TypeOK
        <4>2. \A d \in Call : (call'[d].spent /\ call'[d].token = u)
                                <=> (call[d].spent /\ call[d].token = u)
          BY <1>1, <1>4, <3>2 DEF t
        <4> QED BY <4>1, <4>2 DEF OneSubmitPerToken
      <3> QED BY <3>1, <3>2
    <2> QED BY <2>1, <2>2, <2>3 DEF OneSubmitPerToken
  <1>11. LiveNeedsAHuman' /\ RightAccount'
    BY <1>3, <1>4, <1>7 DEF LiveNeedsAHuman, RightAccount, Job
  <1>12. AnswersConsistent'
    <2>1. call[c].answer # "declined"
      BY DEF Submit, Confirmed
    <2>2. \A u \in Token : status'[u] = IF u = t THEN "redeemed" ELSE status[u]
      BY <1>1, <1>3 DEF TypeOK
    <2> SUFFICES ASSUME NEW d \in Call PROVE AnswersConsistent!(d)'
      BY DEF AnswersConsistent
    <2>3. AnswersConsistent!(d)
      BY DEF AnswersConsistent
    <2>4. /\ call'[d].token = call[d].token /\ call'[d].answer = call[d].answer
          /\ d # c => call'[d] = call[d]
      BY <1>4 DEF t
    <2>5. Job(d)' = Job(d)
      BY <1>3, <2>4 DEF Job
    <2>6. call[d].pc # "idle" => call[d].token \in Token
      BY DEF CallsConsistent
    <2>7. CASE d = c
      BY <1>1, <1>4, <2>1, <2>2, <2>3, <2>4, <2>5, <2>7
    <2>8. CASE d # c
      <3>1. CASE call[d].pc = "idle"
        <4>1. call'[d].pc = "idle" /\ call'[d].answer = None
          BY <2>3, <2>4, <2>8, <3>1
        <4> QED BY <4>1
      <3>2. CASE call[d].pc # "idle"
        BY <2>2, <2>3, <2>4, <2>5, <2>6, <2>8, <3>2
      <3> QED BY <3>1, <3>2
    <2> QED BY <2>7, <2>8
  <1>13. RateHolds'
    BY <1>2, <1>3 DEF RateHolds
  <1> QED BY <1>6, <1>8, <1>9, <1>10, <1>11, <1>12, <1>13

\* The looked-up order is modified or cancelled, or not.
LEMMA LookupEndsKeeps ==
    ASSUME IInv, NEW c \in Call, LookupEnds(c)
    PROVE  IInv'
  <1> USE DEF IInv, book
  <1>1. /\ call[c].pc = "looking" /\ call[c].spent
        /\ call[c].token \in Token
        /\ login = Job(c).account
        /\ LiveAllowed(Job(c), call[c].answer = "accepted")
        /\ Send(c)
        /\ UNCHANGED <<login, breaker, taken, book, resets, logins>>
    BY DEF LookupEnds, CallsConsistent
  <1>2. Job(c) \in Jobs
    BY <1>1 DEF Job, OneSubmitPerToken, TokensConsistent
  <1>3. /\ call' \in [Call -> CallState]
        /\ \A d \in Call : d # c => call'[d] = call[d]
        /\ call'[c].token = call[c].token
        /\ call'[c].answer = call[c].answer
        /\ call'[c].spent
        /\ call'[c].pc \in {"waiting", "done"}
        /\ call'[c].reached \in {"none", Job(c).account}
        /\ call'[c].reached = "live" =>
               AllowLive /\ (LiveConfirm => call[c].answer = "accepted")
    BY <1>1, <1>2, SendKeeps
  <1>4. TypeOK'
    BY <1>1, <1>3 DEF TypeOK
  <1>5. CallsConsistent' /\ TokensConsistent'
    BY <1>1, <1>3 DEF CallsConsistent, TokensConsistent, Job, LiveAllowed, ReachesLive
  <1>6. OneSubmitPerToken' /\ RateHolds'
    BY <1>1, <1>3 DEF OneSubmitPerToken, RateHolds
  <1>7. LiveNeedsAHuman' /\ RightAccount'
    BY <1>1, <1>3 DEF LiveNeedsAHuman, RightAccount, Job
  <1>8. AnswersConsistent'
    BY <1>1, <1>3 DEF AnswersConsistent, Job
  <1> QED BY <1>4, <1>5, <1>6, <1>7, <1>8

\* What happens around the calls keeps the invariant.
LEMMA WorldKeeps ==
    ASSUME IInv,
           \/ \E t \in Token, j \in Jobs : IssueToken(t, j)
           \/ \E t \in Token : TokenLapses(t)
           \/ SlotsFree
           \/ HumanResets
           \/ \E l \in Account : Connect(l)
    PROVE  IInv'
  <1> USE DEF IInv, book
  <1>1. ASSUME NEW t \in Token, NEW j \in Jobs, IssueToken(t, j) PROVE IInv'
    <2>1. /\ status[t] = "fresh"
          /\ status' = [status EXCEPT ![t] = "pending"]
          /\ bound' = [bound EXCEPT ![t] = j]
          /\ UNCHANGED <<login, breaker, taken, granted, call, resets, logins>>
      BY <1>1 DEF IssueToken, Book!Issue, Book!Move, TypeOK
    <2>2. \A d \in Call : call[d].spent => call[d].token \in Token /\ call[d].token # t
      BY <2>1 DEF OneSubmitPerToken, CallsConsistent
    <2>3. \A d \in Call : call[d].spent => Job(d)' = Job(d)
      BY <2>1, <2>2 DEF Job, TypeOK
    <2>4. TypeOK'
      BY <2>1 DEF TypeOK
    <2>5. CallsConsistent'
      BY <2>1, <2>3 DEF CallsConsistent, LiveAllowed, ReachesLive
    <2>6. TokensConsistent'
      BY <2>1 DEF TokensConsistent, TypeOK
    <2>7. OneSubmitPerToken'
      BY <2>1 DEF OneSubmitPerToken, TypeOK
    <2>8. LiveNeedsAHuman' /\ RateHolds'
      BY <2>1 DEF LiveNeedsAHuman, RateHolds
    <2>9. RightAccount'
      BY <2>1, <2>3 DEF RightAccount, CallsConsistent
    <2>10. AnswersConsistent'
      BY <2>1 DEF AnswersConsistent, TypeOK, CallsConsistent, Job
    <2> QED BY <2>4, <2>5, <2>6, <2>7, <2>8, <2>9, <2>10
  <1>2. ASSUME NEW t \in Token, TokenLapses(t) PROVE IInv'
    <2>1. /\ status[t] = "pending"
          /\ status' = [status EXCEPT ![t] = "lapsed"]
          /\ UNCHANGED <<login, breaker, taken, bound, granted, call, resets, logins>>
      BY <1>2 DEF TokenLapses, Book!Lapse, TypeOK
    <2>2. TypeOK' /\ TokensConsistent'
      BY <2>1 DEF TypeOK, TokensConsistent
    <2>3. CallsConsistent' /\ RightAccount'
      BY <2>1 DEF CallsConsistent, RightAccount, Job, LiveAllowed, ReachesLive
    <2>4. OneSubmitPerToken'
      BY <2>1 DEF OneSubmitPerToken, TypeOK
    <2>5. LiveNeedsAHuman' /\ AnswersConsistent' /\ RateHolds'
      BY <2>1 DEF LiveNeedsAHuman, AnswersConsistent, TypeOK, CallsConsistent, Job, RateHolds
    <2> QED BY <2>2, <2>3, <2>4, <2>5
  <1>3. CASE SlotsFree \/ HumanResets \/ \E l \in Account : Connect(l)
    <2>1. /\ UNCHANGED <<book, call>>
          /\ taken' \in Nat /\ taken' <= MaxSlots
          /\ breaker' \in Breaker /\ resets' \in Nat /\ logins' \in Nat
          /\ login' \in {"none"} \cup Account
          /\ login' = login \/ login = "none"
      BY <1>3, BreakerTypes DEF SlotsFree, HumanResets, Connect, TypeOK, RateHolds
    <2>2. TypeOK' /\ TokensConsistent'
      BY <2>1 DEF TypeOK, TokensConsistent
    <2>3. \A d \in Call : call[d].pc = "looking" => login # "none"
      <3>1. ASSUME NEW d \in Call, call[d].pc = "looking" PROVE Job(d).account \in Account
        BY <3>1 DEF Job, OneSubmitPerToken, TokensConsistent, CallsConsistent
      <3> QED BY <3>1 DEF CallsConsistent, Account
    <2>4. \A d \in Call : call[d].pc = "looking" => login' = login
      BY <2>1, <2>3
    <2>5. CallsConsistent'
      BY <2>1, <2>4 DEF CallsConsistent, Job, LiveAllowed, ReachesLive
    <2>6. RightAccount' /\ OneSubmitPerToken'
      BY <2>1 DEF RightAccount, OneSubmitPerToken, Job
    <2>7. LiveNeedsAHuman' /\ AnswersConsistent' /\ RateHolds'
      BY <2>1 DEF LiveNeedsAHuman, AnswersConsistent, RateHolds, Job
    <2> QED BY <2>2, <2>5, <2>6, <2>7
  <1> QED BY <1>1, <1>2, <1>3

\* The session drops: every lookup fails, every other call goes on.
LEMMA DisconnectKeeps ==
    ASSUME IInv, Disconnect
    PROVE  IInv'
  <1> USE DEF IInv, book
  <1>1. /\ call \in [Call -> CallState]
        /\ call' = [c \in Call |-> IF call[c].pc = "looking"
                                   THEN [call[c] EXCEPT !.pc = "done"] ELSE call[c]]
        /\ login' = "none"
        /\ UNCHANGED <<breaker, taken, book, resets, logins>>
    BY DEF Disconnect, TypeOK
  <1>2. ASSUME NEW d \in Call
        PROVE  /\ call'[d] \in CallState
               /\ call'[d].pc = IF call[d].pc = "looking" THEN "done" ELSE call[d].pc
               /\ call'[d].token = call[d].token
               /\ call'[d].answer = call[d].answer
               /\ call'[d].spent = call[d].spent
               /\ call'[d].sent = call[d].sent
               /\ call'[d].reached = call[d].reached
    <2>1. CASE call[d].pc = "looking"
      BY <1>1, <2>1 DEF CallState
    <2>2. CASE call[d].pc # "looking"
      BY <1>1, <2>2
    <2> QED BY <2>1, <2>2
  <1>3. TypeOK'
    BY <1>1, <1>2 DEF TypeOK
  <1>4. CallsConsistent'
    BY <1>1, <1>2 DEF CallsConsistent
  <1>5. TokensConsistent' /\ RateHolds'
    BY <1>1 DEF TokensConsistent, RateHolds
  <1>6. OneSubmitPerToken'
    BY <1>1, <1>2 DEF OneSubmitPerToken
  <1>7. LiveNeedsAHuman' /\ AnswersConsistent' /\ RightAccount'
    BY <1>1, <1>2 DEF LiveNeedsAHuman, AnswersConsistent, RightAccount, Job
  <1> QED BY <1>3, <1>4, <1>5, <1>6, <1>7

\* A call gets to spend its token in one way only.
LEMMA OnlySubmitExecutes ==
    ASSUME IInv, Next, NEW c \in Call, call'[c].spent, ~call[c].spent
    PROVE  Submit(c)
  <1>1. call \in [Call -> CallState]
    BY DEF IInv, TypeOK
  <1>2. ASSUME NEW d \in Call,
               \/ \E t \in Token : CallSubmit(d, t)
               \/ \E a \in {"accepted", "declined"} : HumanAnswers(d, a)
               \/ DiscardToken(d) \/ RefuseSubmit(d) \/ ReturnResult(d)
               \/ \E fate \in {"working", "rejected"} : Verdict(d, fate)
        PROVE  FALSE
    <2>1. CASE \E t \in Token : CallSubmit(d, t)
      BY <1>1, <2>1 DEF CallSubmit, CallState
    <2>2. CASE \E a \in {"accepted", "declined"} : HumanAnswers(d, a)
      BY <1>1, <2>2 DEF HumanAnswers, CallState
    <2>3. CASE DiscardToken(d) \/ RefuseSubmit(d) \/ ReturnResult(d)
      BY <1>1, <2>3 DEF DiscardToken, RefuseSubmit, ReturnResult, CallState
    <2>4. CASE \E fate \in {"working", "rejected"} : Verdict(d, fate)
      BY <1>1, <2>4 DEF Verdict, CallState
    <2> QED BY <1>2, <2>1, <2>2, <2>3, <2>4
  <1>3. ASSUME NEW d \in Call, Submit(d), d # c PROVE FALSE
    BY <1>1, <1>3 DEF Submit, Send
  <1>4. ASSUME NEW d \in Call, LookupEnds(d) PROVE FALSE
    BY <1>1, <1>4 DEF LookupEnds, Send, IInv, CallsConsistent
  <1>5. CASE Disconnect
    BY <1>1, <1>5 DEF Disconnect, CallState
  <1>6. call' # call
    OBVIOUS
  <1> QED BY <1>2, <1>3, <1>4, <1>5, <1>6
          DEF Next, Body, IssueToken, TokenLapses, SlotsFree, HumanResets, Connect

\* The invariant of the submit flow (submit_order, OrdersService.submit).
THEOREM FlowInvariant == Spec => []IInv
  <1>1. Init => IInv
    <2> SUFFICES ASSUME Init PROVE IInv
      OBVIOUS
    <2>1. TypeOK
      <3>1. NewCall \in CallState
        BY DEF NewCall, CallState
      <3>2. Armed \in Breaker
        BY DEF Armed, Breaker
      <3> QED BY <3>1, <3>2 DEF Init, TypeOK, Book!BookInit
    <2>2. \A c \in Call : call[c] = NewCall
      BY DEF Init
    <2>3. CallsConsistent /\ OneSubmitPerToken /\ LiveNeedsAHuman /\ RightAccount
      BY <2>2 DEF CallsConsistent, OneSubmitPerToken, LiveNeedsAHuman, RightAccount, NewCall,
                  Init, Book!BookInit
    <2>4. TokensConsistent /\ AnswersConsistent /\ RateHolds
      BY <2>2 DEF Init, Book!BookInit, TokensConsistent, AnswersConsistent, NewCall, RateHolds
    <2> QED BY <2>1, <2>3, <2>4 DEF IInv
  <1>2. IInv /\ [Next]_vars => IInv'
    <2> SUFFICES ASSUME IInv, [Next]_vars PROVE IInv'
      OBVIOUS
    <2>1. CASE UNCHANGED vars
      BY <2>1 DEF vars, book, IInv, TypeOK, CallsConsistent, TokensConsistent,
                  OneSubmitPerToken, LiveNeedsAHuman, AnswersConsistent, RightAccount,
                  RateHolds, Job, LiveAllowed, ReachesLive
    <2>2. CASE Next
      BY <2>2, CallSubmitKeeps, HumanAnswersKeeps, DiscardTokenKeeps, RefuseSubmitKeeps,
         SubmitKeeps, LookupEndsKeeps, VerdictKeeps, ReturnResultKeeps, WorldKeeps,
         DisconnectKeeps
         DEF Next, Body
    <2> QED BY <2>1, <2>2
  <1> QED BY <1>1, <1>2, PTL DEF Spec

\* Type correctness of the submit flow.
THEOREM FlowTypeCorrect == Spec => []TypeOK
  <1>1. IInv => TypeOK
    BY DEF IInv
  <1> QED BY <1>1, FlowInvariant, PTL

\* One submit per token, for any number of concurrent calls.
THEOREM TokensAreSubmittedOnce == Spec => []OneSubmitPerToken
  <1>1. IInv => OneSubmitPerToken
    BY DEF IInv
  <1> QED BY <1>1, FlowInvariant, PTL

\* Nothing reaches a live login without the human who was asked for it.
THEOREM LiveIsConfirmed == Spec => []LiveNeedsAHuman
  <1>1. IInv => LiveNeedsAHuman
    BY DEF IInv
  <1> QED BY <1>1, FlowInvariant, PTL

\* What a human turned down is executed only on another call's own human's yes, and
\* only if the no was refused on its way to the tool's body, or is still on it.
THEOREM NoMeansNo == Spec => DeclinedIsFinal
  <1> DEFINE A == \A c, d \in Call : Executes(c) /\ TurnedDown(d, call[c].token) =>
                     /\ call[c].answer = "accepted"
                     /\ call[d].answer = "unheard" \/ call[d].pc = "body"
  <1>1. IInv /\ Next => A
    <2> SUFFICES ASSUME IInv, Next, NEW c \in Call, NEW d \in Call,
                        Executes(c), TurnedDown(d, call[c].token)
                 PROVE  /\ call[c].answer = "accepted"
                        /\ call[d].answer = "unheard" \/ call[d].pc = "body"
      OBVIOUS
    <2>1. Submit(c)
      BY OnlySubmitExecutes DEF Executes
    <2>2. /\ status[call[c].token] = "pending"
          /\ CheckSubmit(Job(c), call[c].answer = "accepted")
      BY <2>1 DEF Submit, Passes
    <2>3. LiveConfirm /\ Job(d).account = "live" /\ Job(d) = Job(c)
      BY DEF TurnedDown, IInv, AnswersConsistent, Job
    <2>4. call[c].answer = "accepted"
      BY <2>2, <2>3 DEF CheckSubmit, LiveAllowed, ReachesLive
    <2>5. call[d].answer = "unheard" \/ call[d].pc = "body"
      BY <2>2 DEF TurnedDown, IInv, AnswersConsistent
    <2> QED BY <2>4, <2>5
  <1>2. UNCHANGED vars => A
    BY DEF vars, Executes
  <1> QED BY <1>1, <1>2, FlowInvariant, PTL DEF Spec, DeclinedIsFinal

\* Orders only reach the account they were previewed for.
THEOREM AccountsAreKept == Spec => []RightAccount
  <1>1. IInv => RightAccount
    BY DEF IInv
  <1> QED BY <1>1, FlowInvariant, PTL

\* Concurrent submits never exceed the rate limit.
THEOREM RateIsKept == Spec => []RateHolds
  <1>1. IInv => RateHolds
    BY DEF IInv
  <1> QED BY <1>1, FlowInvariant, PTL

\* No order or exercise is placed while the breaker is open.
THEOREM OrdersHalt == Spec => NewOrdersHaltWhileOpen
  <1> DEFINE A == \A c \in Call : Reaches(c) /\ Job(c).kind \in {"order", "exercise"} =>
                      ~breaker.open
  <1>1. IInv /\ Next => A
    <2> SUFFICES ASSUME IInv, Next, NEW c \in Call, Reaches(c), breaker.open,
                        Job(c).kind \in {"order", "exercise"}
                 PROVE  FALSE
      OBVIOUS
    <2>1. call \in [Call -> CallState]
      BY DEF IInv, TypeOK
    <2>2. ASSUME NEW d \in Call, Submit(d) PROVE FALSE
      <3>1. d = c
        BY <2>1, <2>2 DEF Submit, Send, Reaches
      <3>2. ~(Slots(Job(c)) > 0)
        BY <2>2, <3>1 DEF Submit, Passes, CheckSubmit
      <3> QED BY <3>2 DEF Slots
    <2>3. ASSUME NEW d \in Call, LookupEnds(d) PROVE FALSE
      <3>1. d = c
        BY <2>1, <2>3 DEF LookupEnds, Send, Reaches
      <3> QED BY <2>3, <3>1 DEF LookupEnds, LooksUp, IInv, CallsConsistent
    <2>4. ASSUME NEW d \in Call,
                 \/ \E t \in Token : CallSubmit(d, t)
                 \/ \E a \in {"accepted", "declined"} : HumanAnswers(d, a)
                 \/ DiscardToken(d) \/ RefuseSubmit(d) \/ ReturnResult(d)
                 \/ \E fate \in {"working", "rejected"} : Verdict(d, fate)
          PROVE  FALSE
      <3>1. CASE \E t \in Token : CallSubmit(d, t)
        BY <2>1, <3>1 DEF CallSubmit, Reaches, CallState
      <3>2. CASE \E a \in {"accepted", "declined"} : HumanAnswers(d, a)
        BY <2>1, <3>2 DEF HumanAnswers, Reaches, CallState
      <3>3. CASE DiscardToken(d) \/ RefuseSubmit(d) \/ ReturnResult(d)
        BY <2>1, <3>3 DEF DiscardToken, RefuseSubmit, ReturnResult, Reaches, CallState
      <3>4. CASE \E fate \in {"working", "rejected"} : Verdict(d, fate)
        BY <2>1, <3>4 DEF Verdict, Reaches, CallState
      <3> QED BY <2>4, <3>1, <3>2, <3>3, <3>4
    <2>5. CASE Disconnect
      BY <2>1, <2>5 DEF Disconnect, Reaches, CallState
    <2>6. ASSUME call' = call PROVE FALSE
      BY <2>6 DEF Reaches
    <2> QED BY <2>2, <2>3, <2>4, <2>5, <2>6
            DEF Next, Body, IssueToken, TokenLapses, SlotsFree, HumanResets, Connect
  <1>2. UNCHANGED vars => A
    BY DEF vars, Reaches
  <1> QED BY <1>1, <1>2, FlowInvariant, PTL DEF Spec, NewOrdersHaltWhileOpen
=============================================================================
