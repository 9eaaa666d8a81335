--------------------------- MODULE SessionProofs ---------------------------
(***************************************************************************)
(* Theorems about CheckoutSession, for any number of keys, requests, units *)
(* and mishaps.                                                            *)
(***************************************************************************)
EXTENDS CheckoutSession, TLAPS

LEMMA UnusedTyped == Unused \in Request
BY DEF Unused, Request, LinkStatus, Result, Waiting

LEMMA NewAttemptTyped == NewAttempt \in Attempt
BY DEF NewAttempt, Attempt

LEMMA ResultTyped == ASSUME NEW a PROVE ResultOf(a) \in Result
BY DEF ResultOf, Result

-----------------------------------------------------------------------------
(* Types *)

\* A request that has begun has a key of the tab's.
Keyed == \A r \in Requests : request[r].step # "unused" => request[r].key \in Keys

TypeInv == TypeOK /\ Keyed

\* A mishap keeps the count in its bound.
LEMMA TroubleTyped == TypeOK /\ Trouble => trouble' \in 0..MaxTrouble
BY SessionAssumption DEF TypeOK, Trouble

\* A request that becomes another one with its key keeps the types.
LEMMA RowTyped ==
  ASSUME TypeInv, NEW r \in Requests, NEW q \in Request,
         q.step # "unused" => q.key \in Keys,
         request' = [request EXCEPT ![r] = q]
  PROVE  request' \in [Requests -> Request] /\ Keyed'
BY DEF TypeInv, TypeOK, Keyed

LEMMA RequestTyped ==
  ASSUME TypeInv, NEW r \in Requests
  PROVE  /\ request[r] \in Request
         /\ request[r].step # "unused" =>
              request[r].key \in Keys /\ KeyOf(r) \in Keys
BY DEF TypeInv, TypeOK, Keyed, KeyOf

LEMMA AttemptTyped ==
  ASSUME TypeInv, NEW k \in Keys
  PROVE  /\ attempt[k] \in Attempt
         /\ \A a \in Attempt :
              attempt' = [attempt EXCEPT ![k] = a] => attempt' \in [Keys -> Attempt]
BY DEF TypeInv, TypeOK

\* So do the ways in which a request goes on.
LEMMA MovesTyped ==
  ASSUME TypeInv, NEW r \in Requests, request[r].step # "unused"
  PROVE  /\ \A step \in Waiting : Turn(r, step) =>
              request' \in [Requests -> Request] /\ Keyed'
         /\ Leave(r) =>
              request' \in [Requests -> Request] /\ Keyed'
         /\ \A result \in Result : Answer(r, result) =>
              request' \in [Requests -> Request] /\ Keyed'
         /\ Saving(r) =>
              request' \in [Requests -> Request] /\ Keyed'
<1>1. request[r] \in Request /\ request[r].key \in Keys
  BY DEF TypeInv, TypeOK, Keyed
<1>2. ASSUME NEW step \in Waiting, Turn(r, step)
      PROVE  request' \in [Requests -> Request] /\ Keyed'
  <2> DEFINE q == [request[r] EXCEPT !.step = step]
  <2>1. q \in Request /\ q.key \in Keys
    BY <1>1 DEF Request
  <2>2. request' = [request EXCEPT ![r] = q]
    BY <1>2 DEF Turn
  <2> QED
    BY <2>1, <2>2, RowTyped
<1>3. ASSUME Leave(r)
      PROVE  request' \in [Requests -> Request] /\ Keyed'
  <2> DEFINE q == [Unused EXCEPT !.step = "done", !.key = KeyOf(r)]
  <2>1. q \in Request /\ q.key \in Keys
    BY <1>1 DEF Unused, Request, KeyOf, LinkStatus, Result
  <2>2. request' = [request EXCEPT ![r] = q]
    BY <1>3 DEF Leave
  <2> QED
    BY <2>1, <2>2, RowTyped
<1>4. ASSUME NEW result \in Result, Answer(r, result)
      PROVE  request' \in [Requests -> Request] /\ Keyed'
  <2> DEFINE q == [request[r] EXCEPT !.step = "answer", !.result = result]
  <2>1. q \in Request /\ q.key \in Keys
    BY <1>1 DEF Request, Waiting
  <2>2. request' = [request EXCEPT ![r] = q]
    BY <1>4 DEF Answer
  <2> QED
    BY <2>1, <2>2, RowTyped
<1>5. ASSUME Saving(r)
      PROVE  request' \in [Requests -> Request] /\ Keyed'
  <2> DEFINE q == [request[r] EXCEPT !.step = "save", !.status = link[KeyOf(r)]]
  <2>1. q \in Request /\ q.key \in Keys
    BY <1>1 DEF Request, Waiting, KeyOf, TypeInv, TypeOK
  <2>2. request' = [request EXCEPT ![r] = q]
    BY <1>5 DEF Saving
  <2> QED
    BY <2>1, <2>2, RowTyped
<1> QED
  BY <1>2, <1>3, <1>4, <1>5

LEMMA TypeInit == Init => TypeInv
BY SessionAssumption, UnusedTyped, NewAttemptTyped
DEF Init, TypeInv, TypeOK, Keyed, LinkStatus, Unused

\* What a handler does to its own request and to the attempt it works on.
LEMMA HandlerTypes ==
  ASSUME TypeInv, NEW r \in Requests, Handler(r)
  PROVE  TypeInv'
<1>1. CASE Find(r)
  <2> DEFINE q == [request[r] EXCEPT !.step = "lease", !.first = TRUE]
  <2>1. q \in Request /\ (request[r].step # "unused" => q.key \in Keys)
    BY RequestTyped DEF Request, Waiting
  <2>2. request' \in [Requests -> Request] /\ Keyed'
    <3>1. CASE request' = [request EXCEPT ![r] = q]
      BY <1>1, <2>1, <3>1, RowTyped DEF At, Find
    <3>2. CASE Turn(r, "validate")
      BY <1>1, <3>2, MovesTyped DEF At, Find, Waiting
    <3>3. CASE Answer(r, ResultOf(AttemptOf(r)))
      BY <1>1, <3>3, MovesTyped, ResultTyped DEF At, Find
    <3> QED
      BY <1>1, <3>1, <3>2, <3>3 DEF Find
  <2> QED
    BY <1>1, <2>2 DEF TypeInv, TypeOK, Find
<1>2. CASE Validate(r) \/ ReserveReplayed(r) \/ ReserveRefused(r)
  <2>1. request' \in [Requests -> Request] /\ Keyed'
    BY <1>2, MovesTyped, ResultTyped
    DEF At, Validate, ReserveReplayed, ReserveRefused, Waiting, Result
  <2> QED
    BY <1>2, <2>1 DEF TypeInv, TypeOK, Validate, ReserveReplayed, ReserveRefused
<1>3. CASE Reserve(r)
  <2> DEFINE q == [request[r] EXCEPT !.step = "lease", !.mine = TRUE]
  <2>1. q \in Request /\ (request[r].step # "unused" => q.key \in Keys)
    BY RequestTyped DEF Request, Waiting
  <2>2. request' \in [Requests -> Request] /\ Keyed'
    BY <1>3, <2>1, RowTyped DEF At, Reserve
  <2>3. [NewAttempt EXCEPT !.by = r] \in Attempt
    BY NewAttemptTyped DEF Attempt
  <2> QED
    BY <1>3, <2>2, <2>3 DEF TypeInv, TypeOK, Reserve
<1>4. CASE AcquireLease(r)
  <2>1. request' \in [Requests -> Request] /\ Keyed'
    BY <1>4, MovesTyped DEF At, AcquireLease, Waiting, Result
  <2> DEFINE a == [attempt[KeyOf(r)] EXCEPT !.token = r, !.leased = TRUE]
  <2>2. KeyOf(r) \in Keys
    BY <1>4, RequestTyped DEF AcquireLease, At
  <2>3. a \in Attempt
    BY <2>2, AttemptTyped DEF Attempt
  <2>4. UNCHANGED attempt \/ attempt' = [attempt EXCEPT ![KeyOf(r)] = a]
    BY <1>4 DEF AcquireLease
  <2>5. attempt' \in [Keys -> Attempt]
    BY <2>2, <2>3, <2>4, AttemptTyped DEF TypeInv, TypeOK
  <2> QED
    BY <1>4, <2>1, <2>5 DEF TypeInv, TypeOK, AcquireLease
<1>5. CASE LeaseFails(r)
  <2>1. request' \in [Requests -> Request] /\ Keyed'
    BY <1>5, MovesTyped DEF At, LeaseFails, Waiting, Result
  <2> QED
    BY <1>5, <2>1, TroubleTyped DEF TypeInv, TypeOK, LeaseFails
<1>6. CASE LookUp(r)
  <2>1. request' \in [Requests -> Request] /\ Keyed'
    BY <1>6, MovesTyped DEF At, LookUp, Waiting, Result
  <2> QED
    BY <1>6, <2>1 DEF TypeInv, TypeOK, LookUp
<1>7. CASE Create(r)
  <2> DEFINE q == [request[r] EXCEPT !.step = "save", !.status = "PENDING"]
  <2>1. q \in Request /\ (request[r].step # "unused" => q.key \in Keys)
    BY RequestTyped DEF Request, Waiting, LinkStatus
  <2>2. request' \in [Requests -> Request] /\ Keyed'
    <3>1. CASE request' = [request EXCEPT ![r] = q]
      BY <1>7, <2>1, <3>1, RowTyped DEF At, Create
    <3>2. CASE Failed(r)
      BY <1>7, <3>2, MovesTyped DEF At, Create, Failed, Waiting, Result
    <3> QED
      BY <1>7, <3>1, <3>2 DEF Create
  <2>3. link' \in [Keys -> LinkStatus]
    BY <1>7 DEF TypeInv, TypeOK, Create, LinkStatus
  <2>4. late' \subseteq Keys
    BY <1>7, RequestTyped DEF TypeInv, TypeOK, Create, Makes, At
  <2> QED
    BY <1>7, <2>2, <2>3, <2>4 DEF TypeInv, TypeOK, Create
<1>8. CASE Save(r)
  <2>1. request' \in [Requests -> Request] /\ Keyed'
    BY <1>8, MovesTyped DEF At, Save, SaveRefused, Waiting, Result
  <2> DEFINE a == [attempt[KeyOf(r)] EXCEPT !.bound = TRUE, !.token = Nobody,
                                            !.leased = FALSE]
  <2>2. KeyOf(r) \in Keys
    BY <1>8, RequestTyped DEF Save, At
  <2>3. a \in Attempt
    BY <2>2, AttemptTyped DEF Attempt
  <2>4. UNCHANGED attempt \/ attempt' = [attempt EXCEPT ![KeyOf(r)] = a]
    BY <1>8 DEF Save
  <2>5. attempt' \in [Keys -> Attempt]
    BY <2>2, <2>3, <2>4, AttemptTyped DEF TypeInv, TypeOK
  <2> QED
    BY <1>8, <2>1, <2>5, TroubleTyped DEF TypeInv, TypeOK, Save
<1>9. CASE Reread(r)
  <2>1. request' \in [Requests -> Request] /\ Keyed'
    BY <1>9, MovesTyped, ResultTyped DEF At, Reread, Waiting, Result
  <2> QED
    BY <1>9, <2>1 DEF TypeInv, TypeOK, Reread
<1>10. CASE Die(r)
  <2>1. request' \in [Requests -> Request] /\ Keyed'
    BY <1>10, MovesTyped DEF At, Die, Waiting, Result
  <2> QED
    BY <1>10, <2>1, TroubleTyped DEF TypeInv, TypeOK, Die
<1> QED
  BY <1>1, <1>2, <1>3, <1>4, <1>5, <1>6, <1>7, <1>8, <1>9, <1>10 DEF Handler

\* What everybody else does to attempts, reservations and links.
LEMMA ElsewhereTypes ==
  ASSUME TypeInv, Elsewhere
  PROVE  TypeInv'
<1>1. PICK k \in Keys : LeaseEnds(k) \/ CreateLands(k) \/ Pay(k) \/ LinkEnds(k)
                         \/ Observe(k) \/ Release(k) \/ Lapse(k)
  BY DEF Elsewhere
<1>2. CASE LeaseEnds(k)
  <2> DEFINE a == [attempt[k] EXCEPT !.leased = FALSE]
  <2>1. a \in Attempt
    BY AttemptTyped DEF Attempt
  <2>2. attempt' \in [Keys -> Attempt]
    BY <1>2, <2>1, AttemptTyped DEF LeaseEnds
  <2> QED
    BY <1>2, <2>2, TroubleTyped DEF TypeInv, TypeOK, LeaseEnds, Keyed
<1>3. CASE CreateLands(k)
  BY <1>3 DEF TypeInv, TypeOK, CreateLands, LinkStatus, Keyed
<1>4. CASE Pay(k) \/ LinkEnds(k)
  BY <1>4 DEF TypeInv, TypeOK, Pay, LinkEnds, LinkStatus, Keyed
<1>5. CASE Observe(k)
  <2> DEFINE order == Sells(k) \/ attempt[k].order
             pay == IF link[k] = "PENDING" THEN attempt[k].pay ELSE link[k]
             a == [attempt[k] EXCEPT !.bound = TRUE, !.order = order, !.pay = pay]
  <2>1. order \in BOOLEAN
    BY DEF Sells
  <2>2. pay \in {"PENDING", "PAID", "CANCELLED"}
    BY <1>5, AttemptTyped DEF TypeInv, TypeOK, Observe, Attempt, LinkStatus
  <2>3. a \in Attempt
    <3> HIDE DEF order, pay
    <3> QED
      BY <2>1, <2>2, AttemptTyped DEF Attempt
  <2>4. attempt' = [attempt EXCEPT ![k] = a]
    BY <1>5 DEF Observe
  <2>5. attempt' \in [Keys -> Attempt]
    BY <2>3, <2>4, AttemptTyped
  <2>6. hold' \in [Requests -> {"NONE", "PENDING", "RELEASED", "CONSUMED"}]
    BY <1>5 DEF TypeInv, TypeOK, Observe
  <2> QED
    BY <1>5, <2>5, <2>6 DEF TypeInv, TypeOK, Observe, Keyed
<1>6. CASE Release(k)
  BY <1>6 DEF TypeInv, TypeOK, Release, Keyed
<1>7. CASE Lapse(k)
  <2> DEFINE a == [attempt[k] EXCEPT !.expired = TRUE]
  <2>1. a \in Attempt
    BY AttemptTyped DEF Attempt
  <2>2. attempt' \in [Keys -> Attempt]
    BY <1>7, <2>1, AttemptTyped DEF Lapse
  <2> QED
    BY <1>7, <2>2 DEF TypeInv, TypeOK, Lapse, Keyed
<1> QED
  BY <1>1, <1>2, <1>3, <1>4, <1>5, <1>6, <1>7

LEMMA TypeStep == TypeInv /\ [Next]_vars => TypeInv'
<1> SUFFICES ASSUME TypeInv, [Next]_vars PROVE TypeInv'
  OBVIOUS
<1>1. ASSUME NEW r \in Requests, NEW k \in Keys, Submit(r, k) PROVE TypeInv'
  <2> DEFINE kept == IF k = page.key THEN page.token ELSE Nobody
             q == [Unused EXCEPT !.step = "find", !.key = k, !.kept = kept]
  <2>1. q \in Request /\ q.key \in Keys
    <3>1. page.token \in Requests \cup {Nobody}
      BY DEF TypeInv, TypeOK
    <3> QED
      BY <3>1 DEF Unused, Request, Waiting, LinkStatus, Result
  <2>2. request' = [request EXCEPT ![r] = q]
    BY <1>1 DEF Submit
  <2>3. request' \in [Requests -> Request] /\ Keyed'
    BY <2>1, <2>2, RowTyped
  <2>4. page' = [page EXCEPT !.key = k, !.token = kept, !.wait = r]
    BY <1>1 DEF Submit
  <2> QED
    BY <1>1, <2>3, <2>4 DEF TypeInv, TypeOK, Submit
<1>2. CASE Reload
  BY <1>2 DEF TypeInv, TypeOK, Reload, Keyed
<1>3. ASSUME NEW r \in Requests, Receive(r) PROVE TypeInv'
  <2>1. request' \in [Requests -> Request] /\ Keyed'
    BY <1>3, MovesTyped DEF At, Receive, Waiting, Result
  <2>2. request[r] \in Request
    BY RequestTyped
  <2>3. TokenFor(r) \in Requests \cup {Nobody}
    BY <2>2 DEF TypeInv, TypeOK, TokenFor, Request
  <2>4. KeyOf(r) \in Keys
    BY <1>3, RequestTyped DEF At, Receive
  <2> DEFINE shown == IF request[r].result = "READY" THEN page.shown \cup {KeyOf(r)}
                      ELSE page.shown
             forget == [page EXCEPT !.wait = Nobody, !.key = NoKey, !.token = Nobody]
             keep == [page EXCEPT !.wait = Nobody, !.token = TokenFor(r), !.shown = shown]
  <2>5. page' = page \/ page' = forget \/ page' = keep
    BY <1>3 DEF Receive
  <2>6. shown \in SUBSET Keys
    BY <2>4 DEF TypeInv, TypeOK
  <2> QED
    BY <1>3, <2>1, <2>3, <2>5, <2>6 DEF TypeInv, TypeOK, Receive
<1>4. ASSUME NEW k \in Keys, Complete(k) PROVE TypeInv'
  BY <1>4 DEF TypeInv, TypeOK, Complete, Keyed
<1>5. ASSUME NEW r \in Requests, Handler(r) PROVE TypeInv'
  BY <1>5, HandlerTypes
<1>6. CASE UNCHANGED vars
  BY <1>6 DEF TypeInv, TypeOK, vars, Keyed
<1> QED
  BY <1>1, <1>2, <1>3, <1>4, <1>5, ElsewhereTypes, <1>6 DEF Next, Tab

\* Every variable keeps its type, so a handler at work has a key of the tab's.
THEOREM TypeCorrect == Spec => []TypeOK
<1>1. TypeInv /\ [Next]_vars => TypeInv'
  BY TypeStep
<1>2. TypeInv => TypeOK
  BY DEF TypeInv
<1> QED
  BY TypeInit, <1>1, <1>2, PTL DEF Spec

-----------------------------------------------------------------------------
(* The invariant *)

\* The steps at which a request works on an attempt it has found or made.
Linking == {"lease", "lookup", "create", "recheck", "recreate", "save", "reread"}

\* What a request made, was given or may do next follows from the attempt under
\* its key.
RequestOK(r) ==
  LET q == request[r] IN
    /\ q.step = "unused" => hold[r] = "NONE" /\ ~q.mine /\ q.kept = Nobody
    /\ q.mine \/ hold[r] # "NONE" => attempt[q.key].by = r
    /\ q.kept # Nobody => attempt[q.key].by = q.kept
    /\ q.step \in Linking => attempt[q.key].by # Nobody
    /\ q.step = "save" => link[q.key] # "NONE"
    /\ q.step = "answer" /\ q.result = "READY" => attempt[q.key].bound

\* A link is bound only once it exists, and to an attempt somebody made.
AttemptOK(k) ==
  attempt[k].bound => attempt[k].by # Nobody /\ link[k] # "NONE"

PageOK ==
  /\ page.wait # Nobody =>
       request[page.wait].step # "unused" /\ request[page.wait].key = page.key
  /\ page.token # Nobody =>
       page.key \in Keys /\ attempt[page.key].by = page.token
  /\ \A k \in page.shown : attempt[k].bound

SessionInv ==
  /\ TypeInv
  /\ \A r \in Requests : RequestOK(r)
  /\ \A k \in Keys : AttemptOK(k)
  /\ PageOK

\* An attempt keeps who made it and its link, and a link is never unmade.
Grows ==
  \A k \in Keys :
    /\ attempt[k].by # Nobody => attempt'[k].by = attempt[k].by
    /\ attempt[k].bound => attempt'[k].bound
    /\ link[k] # "NONE" => link'[k] # "NONE"

LEMMA InvInit == Init => SessionInv
<1> SUFFICES ASSUME Init PROVE SessionInv
  OBVIOUS
<1>1. \A r \in Requests : RequestOK(r)
  BY DEF Init, RequestOK, Unused, Linking
<1>2. \A k \in Keys : AttemptOK(k)
  BY DEF Init, AttemptOK, NewAttempt
<1>3. PageOK
  BY DEF Init, PageOK
<1> QED
  BY <1>1, <1>2, <1>3, TypeInit DEF SessionInv

\* What is true of a request stays true while others make attempts grow.
LEMMA OthersKeep ==
  ASSUME SessionInv, Grows, NEW r \in Requests, request'[r] = request[r],
         hold[r] = "NONE" => hold'[r] = "NONE"
  PROVE  RequestOK(r)'
<1>1. RequestOK(r) /\ Nobody \notin Requests
  BY SessionAssumption DEF SessionInv
<1>2. CASE request[r].step = "unused"
  BY <1>1, <1>2 DEF RequestOK, Linking
<1>3. CASE request[r].step # "unused"
  <2>1. request[r].key \in Keys
    BY <1>3, RequestTyped DEF SessionInv
  <2> QED
    BY <1>1, <1>3, <2>1 DEF RequestOK, Grows
<1> QED
  BY <1>2, <1>3

\* So does what is true of the page while its request keeps its key.
LEMMA PageKeeps ==
  ASSUME SessionInv, Grows, UNCHANGED page,
         \A r \in Requests : request[r].step # "unused" =>
           request'[r].step # "unused" /\ request'[r].key = request[r].key
  PROVE  PageOK'
<1>1. PageOK /\ page.wait \in Requests \cup {Nobody} /\ page.shown \subseteq Keys
  BY DEF SessionInv, TypeInv, TypeOK
<1> QED
  BY <1>1 DEF PageOK, Grows

\* Request r becomes q, of the same key.
Becomes(r, q) ==
  /\ request[r].step # "unused" /\ q.step # "unused"
  /\ q.key = request[r].key
  /\ request' = [request EXCEPT ![r] = q]

\* A handler's step: its request moves, attempts grow, the page waits.
LEMMA HandlerKeeps ==
  ASSUME SessionInv, TypeInv', Grows, \A k \in Keys : AttemptOK(k)',
         NEW r \in Requests, NEW q \in Request, Becomes(r, q), RequestOK(r)',
         \A s \in Requests \ {r} : hold[s] = "NONE" => hold'[s] = "NONE",
         UNCHANGED page
  PROVE  SessionInv'
<1>1. request \in [Requests -> Request]
  BY DEF SessionInv, TypeInv, TypeOK
<1>2. \A s \in Requests : RequestOK(s)'
  <2> SUFFICES ASSUME NEW s \in Requests, s # r PROVE RequestOK(s)'
    OBVIOUS
  <2>1. request'[s] = request[s]
    BY <1>1 DEF Becomes
  <2> QED
    BY <2>1, OthersKeep
<1>3. PageOK'
  <2>1. \A s \in Requests : request[s].step # "unused" =>
           request'[s].step # "unused" /\ request'[s].key = request[s].key
    BY <1>1 DEF Becomes
  <2> QED
    BY <2>1, PageKeeps
<1> QED
  BY <1>2, <1>3 DEF SessionInv

\* A step of somebody else: no request moves.
LEMMA ElsewhereKeeps ==
  ASSUME SessionInv, TypeInv', Grows, \A k \in Keys : AttemptOK(k)',
         \A s \in Requests : hold[s] = "NONE" => hold'[s] = "NONE",
         UNCHANGED <<page, request>>
  PROVE  SessionInv'
<1>1. \A s \in Requests : RequestOK(s)'
  BY OthersKeep
<1>2. PageOK'
  BY PageKeeps
<1> QED
  BY <1>1, <1>2 DEF SessionInv

\* A request that moves on keeps what it made and was given; the rest of its
\* invariant is about the step it moves to.
LEMMA MoveKeeps ==
  ASSUME SessionInv, Grows, NEW r \in Requests, NEW q \in Request, Becomes(r, q),
         q.mine => request[r].mine,
         q.kept = request[r].kept \/ q.kept = Nobody,
         hold'[r] = hold[r],
         q.step \in Linking => attempt'[q.key].by # Nobody,
         q.step = "save" => link'[q.key] # "NONE",
         q.step = "answer" /\ q.result = "READY" => attempt'[q.key].bound
  PROVE  RequestOK(r)'
<1>1. RequestOK(r) /\ request[r].key \in Keys /\ Nobody \notin Requests
  BY RequestTyped, SessionAssumption DEF SessionInv, Becomes
<1>2. request'[r] = q
  BY DEF Becomes, SessionInv, TypeInv, TypeOK
<1>3. attempt[q.key].by # Nobody => attempt'[q.key].by = attempt[q.key].by
  BY <1>1 DEF Grows, Becomes
<1>4. q.mine \/ hold'[r] # "NONE" => attempt'[q.key].by = r
  BY <1>1, <1>3 DEF RequestOK, Becomes
<1>5. q.kept # Nobody => attempt'[q.key].by = q.kept
  BY <1>1, <1>3 DEF RequestOK, Becomes
<1> QED
  BY <1>2, <1>4, <1>5 DEF RequestOK, Becomes

\* A step of a handler that makes attempts grow and leaves the page and the
\* reservations alone.
LEMMA OwnMove ==
  ASSUME SessionInv, TypeInv', Grows, \A k \in Keys : AttemptOK(k)',
         UNCHANGED <<page, hold>>,
         NEW r \in Requests, NEW q \in Request, Becomes(r, q),
         q.mine => request[r].mine,
         q.kept = request[r].kept \/ q.kept = Nobody,
         q.step \in Linking => attempt'[q.key].by # Nobody,
         q.step = "save" => link'[q.key] # "NONE",
         q.step = "answer" /\ q.result = "READY" => attempt'[q.key].bound
  PROVE  SessionInv'
<1>1. RequestOK(r)'
  BY MoveKeeps
<1> QED
  BY <1>1, HandlerKeeps

\* Attempts and links that do not change grow.
LEMMA Still ==
  SessionInv /\ UNCHANGED <<attempt, link>> => Grows /\ \A k \in Keys : AttemptOK(k)'
BY DEF Grows, SessionInv, AttemptOK

\* An answer that says READY is about a bound attempt.
LEMMA ReadyIsBound == \A k \in Keys : ResultOf(attempt[k]) = "READY" => attempt[k].bound
BY DEF ResultOf

\* Turning, leaving, answering and saving, while attempts may grow.
LEMMA PlainMoves ==
  ASSUME SessionInv, TypeInv', Grows, \A k \in Keys : AttemptOK(k)',
         UNCHANGED <<page, hold>>,
         NEW r \in Requests, request[r].step # "unused"
  PROVE  /\ \A step \in Waiting :
              Turn(r, step) /\ step \notin {"save", "answer"}
              /\ (step \in Linking => attempt'[KeyOf(r)].by # Nobody) => SessionInv'
         /\ Leave(r) => SessionInv'
         /\ \A result \in Result :
              /\ Answer(r, result)
              /\ result = "READY" => attempt'[KeyOf(r)].bound
              => SessionInv'
         /\ \A status \in LinkStatus :
              /\ request' = [request EXCEPT ![r].step = "save", ![r].status = status]
              /\ attempt'[KeyOf(r)].by # Nobody /\ link'[KeyOf(r)] # "NONE"
              => SessionInv'
<1>1. request[r] \in Request /\ KeyOf(r) = request[r].key
  BY RequestTyped DEF SessionInv, KeyOf
<1>2. ASSUME NEW step \in Waiting, Turn(r, step), step \notin {"save", "answer"},
             step \in Linking => attempt'[KeyOf(r)].by # Nobody
      PROVE  SessionInv'
  <2> DEFINE q == [request[r] EXCEPT !.step = step]
  <2>1. q \in Request
    BY <1>1 DEF Request
  <2>2. q.step = step /\ q.key = request[r].key /\ q.mine = request[r].mine
        /\ q.kept = request[r].kept
    BY <1>1 DEF Request
  <2>3. Becomes(r, q)
    BY <1>2, <2>2 DEF Turn, Becomes, Waiting
  <2> HIDE DEF q
  <2> QED
    BY <1>1, <1>2, <2>1, <2>2, <2>3, OwnMove
<1>3. ASSUME Leave(r) PROVE SessionInv'
  <2> DEFINE q == [Unused EXCEPT !.step = "done", !.key = KeyOf(r)]
  <2>1. q \in Request
    BY <1>1 DEF Unused, Request, LinkStatus, Result
  <2>2. q.step = "done" /\ q.key = request[r].key /\ ~q.mine /\ q.kept = Nobody
    BY <1>1 DEF Unused
  <2>3. Becomes(r, q)
    BY <1>3, <2>2 DEF Leave, Becomes
  <2> HIDE DEF q
  <2> QED
    BY <2>1, <2>2, <2>3, OwnMove DEF Linking
<1>4. ASSUME NEW result \in Result, Answer(r, result),
             result = "READY" => attempt'[KeyOf(r)].bound
      PROVE  SessionInv'
  <2> DEFINE q == [request[r] EXCEPT !.step = "answer", !.result = result]
  <2>1. q \in Request
    BY <1>1 DEF Request, Waiting
  <2>2. q.step = "answer" /\ q.key = request[r].key /\ q.mine = request[r].mine
        /\ q.kept = request[r].kept /\ q.result = result
    BY <1>1 DEF Request
  <2>3. Becomes(r, q)
    BY <1>4, <2>2 DEF Answer, Becomes
  <2> HIDE DEF q
  <2> QED
    BY <1>1, <1>4, <2>1, <2>2, <2>3, OwnMove DEF Linking
<1>5. ASSUME NEW status \in LinkStatus,
             request' = [request EXCEPT ![r].step = "save", ![r].status = status],
             attempt'[KeyOf(r)].by # Nobody, link'[KeyOf(r)] # "NONE"
      PROVE  SessionInv'
  <2> DEFINE q == [request[r] EXCEPT !.step = "save", !.status = status]
  <2>1. q \in Request
    BY <1>1 DEF Request, Waiting
  <2>2. q.step = "save" /\ q.key = request[r].key /\ q.mine = request[r].mine
        /\ q.kept = request[r].kept
    BY <1>1 DEF Request
  <2>3. Becomes(r, q)
    BY <1>5, <2>2 DEF Becomes
  <2> HIDE DEF q
  <2> QED
    BY <1>1, <1>5, <2>1, <2>2, <2>3, OwnMove
<1> QED
  BY <1>2, <1>3, <1>4, <1>5

\* A request at work on an attempt has a key somebody claimed.
LEMMA AtWork ==
  ASSUME SessionInv, NEW r \in Requests
  PROVE  /\ request[r].step # "unused" => KeyOf(r) \in Keys
         /\ request[r].step \in Linking => attempt[KeyOf(r)].by # Nobody
         /\ request[r].step = "save" => link[KeyOf(r)] # "NONE"
BY RequestTyped DEF SessionInv, RequestOK, KeyOf

\* A reservation gives its key an attempt where none was.
LEMMA ReserveStep ==
  ASSUME SessionInv, TypeInv', NEW r \in Requests, Reserve(r)
  PROVE  SessionInv'
<1> DEFINE k == KeyOf(r)
           q == [request[r] EXCEPT !.step = "lease", !.mine = TRUE]
<1>1. /\ request[r] \in Request /\ k = request[r].key /\ k \in Keys
      /\ request[r].step = "reserve" /\ attempt[k].by = Nobody
  BY RequestTyped DEF Reserve, SessionInv, KeyOf, At, Claimed
<1>2. q \in Request /\ q.step = "lease" /\ q.key = k /\ q.mine
      /\ q.kept = request[r].kept
  BY <1>1 DEF Request, Waiting
<1>3. Becomes(r, q)
  BY <1>1, <1>2 DEF Reserve, Becomes
<1>4. Nobody \notin Requests /\ ~attempt[k].bound
  BY <1>1, SessionAssumption DEF SessionInv, AttemptOK
<1>5. /\ attempt' = [attempt EXCEPT ![k] = [NewAttempt EXCEPT !.by = r]]
      /\ hold' = [hold EXCEPT ![r] = "PENDING"] /\ UNCHANGED <<page, link>>
  BY DEF Reserve
<1>6. [NewAttempt EXCEPT !.by = r].by = r /\ ~[NewAttempt EXCEPT !.by = r].bound
  BY DEF NewAttempt
<1>7. /\ \A c \in Keys \ {k} : attempt'[c] = attempt[c]
      /\ attempt'[k].by = r /\ ~attempt'[k].bound
  BY <1>1, <1>5, <1>6 DEF SessionInv, TypeInv, TypeOK
<1>8. Grows
  BY <1>1, <1>4, <1>5, <1>7 DEF Grows
<1>9. \A c \in Keys : AttemptOK(c)'
  BY <1>1, <1>5, <1>7 DEF SessionInv, AttemptOK
<1>10. RequestOK(r)'
  <2>1. request'[r] = q
    BY <1>3 DEF Becomes, SessionInv, TypeInv, TypeOK
  <2>2. request[r].kept = Nobody
    BY <1>1 DEF SessionInv, RequestOK
  <2> HIDE DEF q, k
  <2> QED
    BY <1>2, <1>4, <1>7, <2>1, <2>2 DEF RequestOK, Linking
<1>11. \A s \in Requests \ {r} : hold[s] = "NONE" => hold'[s] = "NONE"
  BY <1>5 DEF SessionInv, TypeInv, TypeOK
<1> HIDE DEF q, k
<1> QED
  BY <1>2, <1>3, <1>5, <1>8, <1>9, <1>10, <1>11, HandlerKeeps

\* The steps of a handler, each with what it decides.
LEMMA HandlerStep ==
  ASSUME SessionInv, TypeInv', NEW r \in Requests, Handler(r)
  PROVE  SessionInv'
<1>1. CASE Find(r)
  <2>1. request[r].step = "find" /\ KeyOf(r) \in Keys
    BY <1>1, AtWork DEF Find, At
  <2>2. /\ Grows /\ \A k \in Keys : AttemptOK(k)'
        /\ UNCHANGED <<page, attempt, hold, link>>
    BY <1>1, Still DEF Find
  <2>3. CASE ~Claimed(KeyOf(r))
    BY <1>1, <2>1, <2>2, <2>3, PlainMoves DEF Find, Waiting, Linking
  <2>4. CASE Claimed(KeyOf(r)) /\ ResultOf(AttemptOf(r)) # "CREATING"
    BY <1>1, <2>1, <2>2, <2>4, PlainMoves, ResultTyped, ReadyIsBound DEF Find, AttemptOf
  <2>5. CASE Claimed(KeyOf(r)) /\ ResultOf(AttemptOf(r)) = "CREATING"
    <3> DEFINE q == [request[r] EXCEPT !.step = "lease", !.first = TRUE]
    <3>1. request[r] \in Request /\ KeyOf(r) = request[r].key
      BY RequestTyped DEF SessionInv, KeyOf
    <3>2. q \in Request /\ q.step = "lease" /\ q.key = request[r].key
          /\ q.mine = request[r].mine /\ q.kept = request[r].kept
      BY <3>1 DEF Request, Waiting
    <3>3. Becomes(r, q)
      BY <1>1, <2>1, <2>5, <3>2 DEF Find, Becomes
    <3>4. attempt'[q.key].by # Nobody
      BY <2>2, <2>5, <3>1, <3>2 DEF Claimed
    <3> HIDE DEF q
    <3> QED
      BY <2>2, <3>2, <3>3, <3>4, OwnMove
  <2> QED
    BY <2>3, <2>4, <2>5
<1>2. CASE Validate(r)
  <2>1. Grows /\ (\A k \in Keys : AttemptOK(k)') /\ UNCHANGED <<page, hold>>
    BY <1>2, Still DEF Validate
  <2> QED
    BY <1>2, <2>1, PlainMoves DEF Validate, At, Waiting, Linking, Result
<1>3. CASE ReserveReplayed(r)
  <2>1. Grows /\ (\A k \in Keys : AttemptOK(k)') /\ UNCHANGED <<page, attempt, hold>>
    BY <1>3, Still DEF ReserveReplayed
  <2>2. KeyOf(r) \in Keys
    BY <1>3, AtWork DEF ReserveReplayed, At
  <2> QED
    BY <1>3, <2>1, <2>2, PlainMoves, ResultTyped, ReadyIsBound
    DEF ReserveReplayed, At, AttemptOf
<1>4. CASE ReserveRefused(r)
  <2>1. Grows /\ (\A k \in Keys : AttemptOK(k)') /\ UNCHANGED <<page, hold>>
    BY <1>4, Still DEF ReserveRefused
  <2> QED
    BY <1>4, <2>1, PlainMoves DEF ReserveRefused, At, Result
<1>5. CASE Reserve(r)
  BY <1>5, ReserveStep
<1>6. CASE AcquireLease(r)
  <2>1. request[r].step = "lease" /\ KeyOf(r) \in Keys /\ attempt[KeyOf(r)].by # Nobody
    BY <1>6, AtWork DEF AcquireLease, At, Linking
  <2>2. \A k \in Keys : /\ attempt'[k].by = attempt[k].by
                         /\ attempt'[k].bound = attempt[k].bound
    BY <1>6, <2>1, AttemptTyped DEF AcquireLease, SessionInv, TypeInv, TypeOK, Attempt
  <2>3. Grows /\ (\A k \in Keys : AttemptOK(k)') /\ UNCHANGED <<page, hold>>
    BY <1>6, <2>2 DEF AcquireLease, Grows, AttemptOK, SessionInv
  <2> QED
    BY <1>6, <2>1, <2>2, <2>3, PlainMoves DEF AcquireLease, Waiting, Result
<1>7. CASE LeaseFails(r)
  <2>1. Grows /\ (\A k \in Keys : AttemptOK(k)') /\ UNCHANGED <<page, hold>>
    BY <1>7, Still DEF LeaseFails
  <2> QED
    BY <1>7, <2>1, PlainMoves DEF LeaseFails, At, Result
<1>8. CASE LookUp(r)
  <2>1. /\ request[r].step \in {"lookup", "recheck"} /\ KeyOf(r) \in Keys
        /\ attempt[KeyOf(r)].by # Nobody /\ link[KeyOf(r)] \in LinkStatus
    BY <1>8, AtWork DEF LookUp, At, Linking, SessionInv, TypeInv, TypeOK
  <2>2. /\ Grows /\ \A k \in Keys : AttemptOK(k)'
        /\ UNCHANGED <<page, attempt, hold, link>>
    BY <1>8, Still DEF LookUp
  <2> QED
    BY <1>8, <2>1, <2>2, PlainMoves DEF LookUp, Saving, Waiting, Result
<1>9. CASE Create(r)
  <2>1. /\ request[r].step \in {"create", "recreate"} /\ KeyOf(r) \in Keys
        /\ attempt[KeyOf(r)].by # Nobody
    BY <1>9, AtWork DEF Create, At, Linking
  <2>2. link \in [Keys -> LinkStatus] /\ UNCHANGED <<page, attempt, hold>>
    BY <1>9 DEF Create, SessionInv, TypeInv, TypeOK
  <2>3. \A k \in Keys : link[k] # "NONE" => link'[k] # "NONE"
    BY <1>9, <2>2 DEF Create
  <2>4. Grows /\ (\A k \in Keys : AttemptOK(k)')
    BY <2>2, <2>3 DEF Grows, AttemptOK, SessionInv
  <2>5. CASE /\ link' = [link EXCEPT ![KeyOf(r)] = "PENDING"]
             /\ request' = [request EXCEPT ![r].step = "save", ![r].status = "PENDING"]
    <3>1. link'[KeyOf(r)] # "NONE" /\ "PENDING" \in LinkStatus
      BY <2>1, <2>2, <2>5 DEF LinkStatus
    <3> QED
      BY <2>1, <2>2, <2>4, <2>5, <3>1, PlainMoves
  <2>6. CASE Failed(r)
    BY <2>1, <2>2, <2>4, <2>6, PlainMoves DEF Failed, Waiting, Result
  <2> QED
    BY <1>9, <2>5, <2>6 DEF Create
<1>10. CASE Save(r)
  <2>1. /\ request[r].step = "save" /\ KeyOf(r) \in Keys
        /\ attempt[KeyOf(r)].by # Nobody /\ link[KeyOf(r)] # "NONE"
    BY <1>10, AtWork DEF Save, At, Linking
  <2>2. UNCHANGED <<page, hold, link>>
    BY <1>10 DEF Save
  <2>3. CASE UNCHANGED attempt /\ SaveRefused(r)
    <3>1. Grows /\ (\A k \in Keys : AttemptOK(k)')
      BY <2>2, <2>3, Still
    <3> QED
      BY <2>1, <2>2, <2>3, <3>1, PlainMoves DEF SaveRefused, Waiting
  <2>4. CASE /\ attempt' = [attempt EXCEPT ![KeyOf(r)].bound = TRUE,
                         ![KeyOf(r)].token = Nobody, ![KeyOf(r)].leased = FALSE]
             /\ Answer(r, IF request[r].status = "PENDING" THEN "READY" ELSE "CLOSED")
    <3>1. \A k \in Keys : attempt'[k].by = attempt[k].by
                           /\ (attempt'[k].bound <=> attempt[k].bound \/ k = KeyOf(r))
      BY <2>1, <2>4, AttemptTyped DEF SessionInv, TypeInv, TypeOK, Attempt
    <3>2. Grows /\ (\A k \in Keys : AttemptOK(k)')
      BY <2>1, <2>2, <3>1 DEF Grows, AttemptOK, SessionInv
    <3> QED
      BY <2>1, <2>2, <2>4, <3>1, <3>2, PlainMoves DEF Result
  <2> QED
    BY <1>10, <2>3, <2>4 DEF Save
<1>11. CASE Reread(r)
  <2>1. Grows /\ (\A k \in Keys : AttemptOK(k)') /\ UNCHANGED <<page, attempt, hold>>
    BY <1>11, Still DEF Reread
  <2>2. KeyOf(r) \in Keys /\ request[r].step # "unused"
    BY <1>11, AtWork DEF Reread, At
  <2> QED
    BY <1>11, <2>1, <2>2, PlainMoves, ResultTyped, ReadyIsBound
    DEF Reread, AttemptOf, Result
<1>12. CASE Die(r)
  <2>1. Grows /\ (\A k \in Keys : AttemptOK(k)') /\ UNCHANGED <<page, hold>>
    BY <1>12, Still DEF Die
  <2> QED
    BY <1>12, <2>1, PlainMoves DEF Die, Waiting
<1> QED
  BY <1>1, <1>2, <1>3, <1>4, <1>5, <1>6, <1>7, <1>8, <1>9, <1>10, <1>11, <1>12
  DEF Handler

\* The steps at PayOS, of the tasks and of time.
LEMMA ElsewhereStep ==
  ASSUME SessionInv, TypeInv', Elsewhere
  PROVE  SessionInv'
<1>1. PICK k \in Keys : LeaseEnds(k) \/ CreateLands(k) \/ Pay(k) \/ LinkEnds(k)
                         \/ Observe(k) \/ Release(k) \/ Lapse(k)
  BY DEF Elsewhere
<1>2. /\ attempt \in [Keys -> Attempt] /\ link \in [Keys -> LinkStatus]
      /\ hold \in [Requests -> {"NONE", "PENDING", "RELEASED", "CONSUMED"}]
      /\ \A c \in Keys : AttemptOK(c)
  BY DEF SessionInv, TypeInv, TypeOK
<1>3. CASE LeaseEnds(k) \/ Lapse(k)
  <2>1. UNCHANGED <<page, request, hold, link>>
    BY <1>3 DEF LeaseEnds, Lapse
  <2>2. \A c \in Keys : /\ attempt'[c].by = attempt[c].by
                         /\ attempt'[c].bound = attempt[c].bound
    BY <1>2, <1>3 DEF LeaseEnds, Lapse, Attempt
  <2> QED
    BY <1>2, <2>1, <2>2, ElsewhereKeeps DEF Grows, AttemptOK
<1>4. CASE CreateLands(k) \/ Pay(k) \/ LinkEnds(k)
  <2>1. UNCHANGED <<page, request, attempt, hold>>
    BY <1>4 DEF CreateLands, Pay, LinkEnds
  <2>2. \A c \in Keys : link[c] # "NONE" => link'[c] # "NONE"
    BY <1>2, <1>4 DEF CreateLands, Pay, LinkEnds
  <2> QED
    BY <1>2, <2>1, <2>2, ElsewhereKeeps DEF Grows, AttemptOK
<1>5. CASE Observe(k)
  <2>1. UNCHANGED <<page, request, link>> /\ attempt[k].by # Nobody /\ link[k] # "NONE"
    BY <1>5 DEF Observe, Claimed
  <2>2. \A c \in Keys : attempt'[c].by = attempt[c].by
                         /\ (attempt'[c].bound <=> attempt[c].bound \/ c = k)
    BY <1>2, <1>5 DEF Observe, Attempt
  <2>3. \A s \in Requests : hold[s] = "NONE" => hold'[s] = "NONE"
    <3>1. CASE Sells(k)
      BY <1>2, <1>5, <3>1 DEF Observe, Sells
    <3>2. CASE ~Sells(k)
      BY <1>2, <1>5, <3>2 DEF Observe
    <3> QED
      BY <3>1, <3>2
  <2> QED
    BY <1>2, <2>1, <2>2, <2>3, ElsewhereKeeps DEF Grows, AttemptOK
<1>6. CASE Release(k)
  <2>1. UNCHANGED <<page, request, attempt, link>>
    BY <1>6 DEF Release
  <2>2. \A s \in Requests : hold[s] = "NONE" => hold'[s] = "NONE"
    BY <1>2, <1>6 DEF Release
  <2> QED
    BY <2>1, <2>2, Still, ElsewhereKeeps
<1> QED
  BY <1>1, <1>3, <1>4, <1>5, <1>6

\* The steps of the tab, which the page and at most one request take.
LEMMA TabStep ==
  ASSUME SessionInv, TypeInv', Tab
  PROVE  SessionInv'
<1>1. /\ Nobody \notin Requests /\ NoKey \notin Keys
      /\ page.wait \in Requests \cup {Nobody} /\ page.shown \subseteq Keys
      /\ page \in [guest : BOOLEAN, key : Keys \cup {NoKey},
                   token : Requests \cup {Nobody},
                   wait : Requests \cup {Nobody}, shown : SUBSET Keys]
      /\ request \in [Requests -> Request]
      /\ (\A s \in Requests : RequestOK(s)) /\ PageOK
  BY SessionAssumption DEF SessionInv, TypeInv, TypeOK
<1>2. ASSUME NEW r \in Requests, NEW k \in Keys, Submit(r, k) PROVE SessionInv'
  <2> DEFINE kept == IF k = page.key THEN page.token ELSE Nobody
             q == [Unused EXCEPT !.step = "find", !.key = k, !.kept = kept]
  <2>1. /\ request' = [request EXCEPT ![r] = q]
        /\ page' = [page EXCEPT !.key = k, !.token = kept, !.wait = r]
        /\ request[r].step = "unused" /\ page.wait = Nobody
        /\ UNCHANGED <<attempt, hold, link>>
    BY <1>2 DEF Submit, At
  <2>2. q.step = "find" /\ q.key = k /\ q.kept = kept /\ ~q.mine
    BY DEF Unused
  <2>3. kept # Nobody => attempt[k].by = kept
    BY <1>1 DEF PageOK
  <2> HIDE DEF q, kept
  <2>4. Grows /\ \A c \in Keys : AttemptOK(c)'
    BY <2>1, Still
  <2>5. \A s \in Requests : RequestOK(s)'
    <3>1. request'[r] = q /\ hold'[r] = "NONE"
      BY <1>1, <2>1 DEF RequestOK
    <3>2. RequestOK(r)'
      BY <2>1, <2>2, <2>3, <3>1 DEF RequestOK, Linking
    <3>3. ASSUME NEW s \in Requests, s # r PROVE RequestOK(s)'
      BY <1>1, <2>1, <2>4, <3>3, OthersKeep
    <3> QED
      BY <3>2, <3>3
  <2>6. PageOK'
    <3>1. /\ page'.wait = r /\ page'.key = k /\ page'.token = kept
          /\ page'.shown = page.shown /\ request'[r] = q
      BY <1>1, <2>1
    <3> QED
      BY <1>1, <2>1, <2>2, <2>3, <3>1 DEF PageOK
  <2> QED
    BY <2>4, <2>5, <2>6 DEF SessionInv
<1>3. CASE Reload
  <2>1. /\ page' = [page EXCEPT !.wait = Nobody]
        /\ UNCHANGED <<request, attempt, hold, link>>
    BY <1>3 DEF Reload
  <2>2. PageOK'
    BY <1>1, <2>1 DEF PageOK
  <2> QED
    BY <1>1, <2>1, <2>2, Still, OthersKeep DEF SessionInv
<1>4. ASSUME NEW r \in Requests, Receive(r) PROVE SessionInv'
  <2>1. /\ Leave(r) /\ request[r].step = "answer" /\ KeyOf(r) = request[r].key
        /\ KeyOf(r) \in Keys /\ UNCHANGED <<attempt, hold, link>>
    BY <1>4, AtWork DEF Receive, At, KeyOf
  <2>2. Grows /\ \A c \in Keys : AttemptOK(c)'
    BY <2>1, Still
  <2> DEFINE q == [Unused EXCEPT !.step = "done", !.key = KeyOf(r)]
  <2>3. /\ request'[r] = q /\ q.step = "done" /\ q.key = request[r].key
        /\ ~q.mine /\ q.kept = Nobody
        /\ \A s \in Requests \ {r} : request'[s] = request[s]
    BY <1>1, <2>1 DEF Leave, Unused
  <2> HIDE DEF q
  <2>4. \A s \in Requests : RequestOK(s)'
    <3>1. RequestOK(r)'
      BY <1>1, <2>1, <2>3 DEF RequestOK, Linking
    <3>2. ASSUME NEW s \in Requests, s # r PROVE RequestOK(s)'
      BY <2>1, <2>2, <2>3, <3>2, OthersKeep
    <3> QED
      BY <3>1, <3>2
  <2>5. CASE page.wait # r
    <3>1. UNCHANGED page
      BY <1>4, <2>5 DEF Receive
    <3>2. PageOK'
      BY <1>1, <2>1, <2>3, <2>5, <3>1 DEF PageOK
    <3> QED
      BY <2>2, <2>4, <3>2 DEF SessionInv
  <2>6. CASE page.wait = r /\ request[r].result = "REFUSED"
    <3>1. page' = [page EXCEPT !.wait = Nobody, !.key = NoKey, !.token = Nobody]
      BY <1>4, <2>6 DEF Receive
    <3>2. PageOK'
      BY <1>1, <2>1, <3>1 DEF PageOK
    <3> QED
      BY <2>2, <2>4, <3>2 DEF SessionInv
  <2>7. CASE page.wait = r /\ request[r].result # "REFUSED"
    <3> DEFINE token == TokenFor(r)
               shown == IF request[r].result = "READY" THEN page.shown \cup {KeyOf(r)}
                        ELSE page.shown
    <3>1. page' = [page EXCEPT !.wait = Nobody, !.token = token, !.shown = shown]
      BY <1>4, <2>7 DEF Receive
    <3>2. token # Nobody => attempt[KeyOf(r)].by = token
      BY <1>1, <2>1 DEF TokenFor, RequestOK
    <3>3. page.key = KeyOf(r)
      BY <1>1, <2>1, <2>7 DEF PageOK
    <3>4. \A k \in shown : attempt[k].bound
      BY <1>1, <2>1 DEF PageOK, RequestOK
    <3> HIDE DEF token, shown
    <3>5. PageOK'
      BY <1>1, <2>1, <3>1, <3>2, <3>3, <3>4 DEF PageOK
    <3> QED
      BY <2>2, <2>4, <3>5 DEF SessionInv
  <2> QED
    BY <2>5, <2>6, <2>7
<1>5. ASSUME NEW k \in Keys, Complete(k) PROVE SessionInv'
  <2>1. /\ page' = [page EXCEPT !.key = NoKey, !.token = Nobody]
        /\ page.wait = Nobody /\ UNCHANGED <<request, attempt, hold, link>>
    BY <1>5 DEF Complete
  <2>2. PageOK'
    BY <1>1, <2>1 DEF PageOK
  <2> QED
    BY <1>1, <2>1, <2>2, Still, OthersKeep DEF SessionInv
<1> QED
  BY <1>2, <1>3, <1>4, <1>5 DEF Tab

LEMMA InvStep == SessionInv /\ [Next]_vars => SessionInv'
<1> SUFFICES ASSUME SessionInv, [Next]_vars PROVE SessionInv'
  OBVIOUS
<1>1. TypeInv'
  BY TypeStep DEF SessionInv
<1>2. CASE UNCHANGED vars
  BY <1>1, <1>2, Still, ElsewhereKeeps DEF vars
<1> QED
  BY <1>1, <1>2, TabStep, HandlerStep, ElsewhereStep DEF Next

LEMMA Invariant == Spec => []SessionInv
BY InvInit, InvStep, PTL DEF Spec

-----------------------------------------------------------------------------
(* Theorems *)

\* However requests with one key race, die and are sent again, one of them makes
\* the reservation, and the attempt under the key is the one of that reservation.
THEOREM KeyHoldsOnce == Spec => []OneHoldPerKey
<1>1. SessionInv => OneHoldPerKey
  BY DEF SessionInv, RequestOK, OneHoldPerKey, AttemptOf, KeyOf
<1> QED
  BY Invariant, <1>1, PTL

\* The token a guest's tab keeps is the one stored with the reservation under
\* the tab's key.
THEOREM TokenOpens == Spec => []TokenOpensOrder
<1>1. SessionInv => TokenOpensOrder
  BY DEF SessionInv, PageOK, TokenOpensOrder
<1> QED
  BY Invariant, <1>1, PTL

\* A customer is sent to a link only after the attempt is bound to it.
THEOREM ShownIsSaved == Spec => []ShownLinkSaved
<1>1. SessionInv => ShownLinkSaved
  BY DEF SessionInv, TypeInv, TypeOK, PageOK, AttemptOK, ShownLinkSaved
<1> QED
  BY Invariant, <1>1, PTL

=============================================================================
