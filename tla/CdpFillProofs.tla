----------------------------- MODULE CdpFillProofs -----------------------------
(***************************************************************************)
(* Proofs about CdpFill, for every number of calls, every set of hosts and  *)
(* elements, every time-out and every number of navigations.                *)
(***************************************************************************)
EXTENDS CdpFill, TLAPS

\* What follows a request that does not end the conversation is a request.
LEMMA FollowingIsRequest ==
    ASSUME NEW f \in Fills, request[f] \in Requests \ {"insert"}
    PROVE  Following(f) \in Requests \ {"attach"}
BY DEF Following, Requests

\* The state of the calls and of the page keeps its types.
THEOREM FillTypeCorrect == Spec => []TypeOK
<1>1. Init => TypeOK
  BY CdpAssumptions DEF Init, TypeOK, Pages, Sights, Deeds, Navs
<1>2. TypeOK /\ [Next]_vars => TypeOK'
  <2> SUFFICES ASSUME TypeOK, [Next]_vars PROVE TypeOK'
    OBVIOUS
  <2> USE CdpAssumptions
  <2>1. CASE UNCHANGED vars
    BY <2>1 DEF vars, conversation, TypeOK
  <2>2. ASSUME NEW f \in Fills, NEW r \in Requests, Ask(f, r) PROVE TypeOK'
    BY <2>2 DEF Ask, TypeOK
  <2>3. ASSUME NEW f \in Fills, NEW r \in {"success", "refused", "failed"}, Return(f, r)
        PROVE  TypeOK'
    BY <2>3 DEF Return, TypeOK
  <2>4. ASSUME NEW f \in Fills, Call(f) PROVE TypeOK'
    <3>1. CASE Connect(f)
      BY <2>2, <3>1 DEF Connect, Requests
    <3>2. CASE Break(f) \/ Succeed(f) \/ Refuse(f) \/ GiveUp(f) \/ Expire(f)
      BY <2>3, <3>2 DEF Break, Succeed, Refuse, GiveUp, Expire
    <3>3. CASE Proceed(f)
      <4>1. request[f] \in Requests \ {"insert"}
        BY <3>3 DEF Proceed, Ready, Waiting, TypeOK
      <4> QED
        BY <2>2, <3>3, <4>1, FollowingIsRequest DEF Proceed
    <3>4. CASE SkipEvent(f)
      BY <3>4 DEF SkipEvent, TypeOK
    <3> QED
      BY <2>4, <3>1, <3>2, <3>3, <3>4 DEF Call
  <2>5. ASSUME NEW f \in Fills, Tick(f) PROVE TypeOK'
    BY <2>5 DEF Tick, TypeOK
  <2>6. ASSUME NEW f \in Fills, Decline(f) \/ Emit(f) PROVE TypeOK'
    BY <2>6 DEF Decline, Answer, Emit, TypeOK
  <2>7. ASSUME NEW f \in Fills, Look(f) PROVE TypeOK'
    <3>1. wire' \in [Fills -> {"none", "sent", "answered", "empty", "error"}]
      BY <2>7 DEF Look, Answer, TypeOK
    <3>2. seen' \in [Fills -> Sights]
      <4>1. \/ seen' = seen
            \/ seen' = [seen EXCEPT ![f].host = page.host, ![f].checked = page.nav]
            \/ seen' = [seen EXCEPT ![f].doc = page.nav]
        BY <2>7 DEF Look
      <4>2. page.nav \in Navs /\ page.host \in Hosts \cup {NoHost}
        BY DEF TypeOK, Pages
      <4>3. seen[f] \in Sights
        BY DEF TypeOK
      <4>4. [seen[f] EXCEPT !.host = page.host, !.checked = page.nav] \in Sights
        BY <4>2, <4>3 DEF Sights
      <4>5. [seen[f] EXCEPT !.doc = page.nav] \in Sights
        BY <4>2, <4>3 DEF Sights
      <4> QED
        BY <4>1, <4>4, <4>5 DEF TypeOK
    <3> QED
      BY <2>7, <3>1, <3>2 DEF Look, Answer, TypeOK
  <2>8. ASSUME NEW f \in Fills, Clear(f) \/ Focus(f) \/ Insert(f) PROVE TypeOK'
    <3>1. args[f].selector \in Elements /\ page \in Pages /\ deed[f] \in Deeds
      BY DEF TypeOK, Args
    <3>2. page' \in Pages
      <4>1. CASE Clear(f)
        <5>1. PICK e \in Elements \cup {NoElement} :
                page' = [page EXCEPT !.focus = e,
                                     !.filled = @ \ ({args[f].selector} \cap Inputs)]
          BY <4>1 DEF Clear
        <5> QED
          BY <3>1, <5>1 DEF Pages
      <4>2. CASE Focus(f)
        BY <3>1, <4>2 DEF Focus, Pages
      <4>3. CASE Insert(f)
        BY <3>1, <4>3 DEF Insert, Pages
      <4> QED
        BY <2>8, <4>1, <4>2, <4>3
    <3>3. deed' \in [Fills -> Deeds]
      <4>1. CASE Clear(f) \/ Focus(f)
        <5>1. deed' = [deed EXCEPT ![f].effect = Touched(f)]
          BY <4>1 DEF Clear, Focus
        <5>2. Touched(f) \in {"none", "touched", "typed"}
          BY <3>1 DEF Touched, Deeds
        <5>3. [deed[f] EXCEPT !.effect = Touched(f)] \in Deeds
          BY <3>1, <5>2 DEF Deeds
        <5> QED
          BY <5>1, <5>3 DEF TypeOK
      <4>2. CASE Insert(f)
        BY <3>1, <4>2 DEF Insert, Deeds, Pages, TypeOK
      <4> QED
        BY <2>8, <4>1, <4>2
    <3>4. calm' \in [Fills -> BOOLEAN]
      BY <2>8 DEF Clear, Focus, Insert, Disturb, TypeOK
    <3> QED
      BY <2>8, <3>2, <3>3, <3>4 DEF Clear, Focus, Insert, Answer, TypeOK
  <2>9. CASE Navigate \/ MoveFocus
    <3>1. page \in Pages
      BY DEF TypeOK
    <3>2. page' \in Pages
      BY <2>9, <3>1 DEF Navigate, MoveFocus, Pages, Navs
    <3>3. calm' \in [Fills -> BOOLEAN]
      BY <2>9 DEF Navigate, MoveFocus, Everybody, TypeOK
    <3> QED
      BY <2>9, <3>2, <3>3 DEF Navigate, MoveFocus, conversation, TypeOK
  <2> QED
    BY <2>1, <2>4, <2>5, <2>6, <2>7, <2>8, <2>9 DEF Next, Browser
<1> QED
  BY <1>1, <1>2, PTL DEF Spec

(***************************************************************************)
(* What holds of a call by how far its conversation has come                *)
(***************************************************************************)

Written == {"root", "find", "resolve", "clear", "focus", "insert"}

\* The conversation alone: the requests are sent in their order, and what has been
\* done to the page is what the requests executed so far do.
Protocol(f) ==
    /\ wire[f] = "none" <=> request[f] = "none"
    /\ wire[f] = "empty" => request[f] \in {"attach", "root", "find", "resolve"}
    /\ wire[f] = "empty" /\ request[f] = "resolve" => args[f].selector \notin Inputs
    /\ request[f] \in Written => Allowed(f, seen[f].host)
    /\ request[f] \notin {"clear", "focus", "insert"} => deed[f].effect = "none"
    /\ request[f] = "clear" /\ wire[f] = "sent" => deed[f].effect = "none"
    /\ request[f] \in {"clear", "focus"} => deed[f].effect \in {"none", "touched"}
    /\ request[f] = "focus" /\ wire[f] = "answered" => deed[f].effect = "touched"
    /\ request[f] = "insert" =>
          deed[f].effect = IF wire[f] = "answered" THEN "typed" ELSE "touched"
    /\ result[f] = "refused" => request[f] = "locate" /\ wire[f] # "sent"
    /\ result[f] = "success" => request[f] = "insert" /\ wire[f] = "answered"

\* The URL has been read.
Located(f) ==
    \/ request[f] \in Written
    \/ request[f] = "locate" /\ wire[f] = "answered"

\* The guard and the page: the page has the host the guard has seen, or has been
\* opened since.
Guarded(f) ==
    /\ seen[f].checked <= page.nav
    /\ Located(f) => page.nav > seen[f].checked \/ page.host = seen[f].host
    /\ deed[f].effect = "typed" =>
          Allowed(f, deed[f].host) \/ deed[f].nav > seen[f].checked

\* What UndisturbedFillIsExact asks of a success.
Exact(f) ==
    /\ deed[f].element = args[f].selector
    /\ Allowed(f, deed[f].host)
    /\ args[f].clear /\ args[f].selector \in Inputs => ~deed[f].onto

\* A page nobody else touches stays as the call has made it.
Undisturbed(f) ==
    /\ calm[f] /\ result[f] = "none" /\ request[f] # "none" =>
          /\ Located(f) => page.host = seen[f].host
          /\ \/ request[f] = "focus" /\ wire[f] = "answered"
             \/ request[f] = "insert" /\ wire[f] = "sent"
             => page.focus = args[f].selector
          /\ /\ args[f].clear /\ args[f].selector \in Inputs
             /\ \/ request[f] = "clear" /\ wire[f] = "answered"
                \/ request[f] = "focus"
                \/ request[f] = "insert" /\ wire[f] = "sent"
             => args[f].selector \notin page.filled
          /\ request[f] = "insert" /\ wire[f] = "answered" => Exact(f)
    /\ calm[f] /\ result[f] = "success" => Exact(f)

Good(f) == Protocol(f) /\ Guarded(f) /\ Undisturbed(f)

FillInv == \A f \in Fills : Good(f)

\* What others leave of a call's own state alone.
Frame(f) ==
    /\ args'[f] = args[f] /\ request'[f] = request[f] /\ wire'[f] = wire[f]
    /\ seen'[f] = seen[f] /\ result'[f] = result[f] /\ deed'[f] = deed[f]

\* Another actor's step: it may change the page, but then the call is not calm.
LEMMA OthersKeepFillInv ==
    ASSUME NEW f \in Fills, TypeOK,
           Good(f), Frame(f),
           \/ page' = page /\ calm'[f] = calm[f]
           \/ calm'[f] = (calm[f] /\ ~Waiting(f)),
           \/ page'.nav = page.nav /\ page'.host = page.host
           \/ page'.nav = page.nav + 1
    PROVE  Good(f)'
<1>1. Protocol(f)'
  BY DEF Good, Protocol, Frame, Allowed, Written
<1>2. page.nav \in Nat /\ seen[f].checked \in Nat
  BY CdpAssumptions DEF TypeOK, Pages, Sights, Navs
<1>3. Guarded(f)'
  BY <1>2 DEF Good, Guarded, Frame, Allowed, Located, Written
<1>4. Undisturbed(f)'
  BY DEF Good, Undisturbed, Frame, Allowed, Located, Written, Exact, Waiting
<1> QED
  BY <1>1, <1>3, <1>4 DEF Good

\* A request of the call's own.
LEMMA ProceedKeepsFillInv ==
    ASSUME NEW f \in Fills, TypeOK, Good(f), Connect(f) \/ Proceed(f)
    PROVE  Good(f)'
<1>1. PICK r \in Requests : Ask(f, r) /\ r = IF request[f] = "none" THEN "attach" ELSE Following(f)
  <2>1. CASE Connect(f)
    BY <2>1 DEF Connect, Requests
  <2>2. CASE Proceed(f)
    <3>1. request[f] \in Requests \ {"insert"}
      BY <2>2 DEF Proceed, Ready, Waiting, TypeOK
    <3> QED
      BY <2>2, <3>1, FollowingIsRequest DEF Proceed, Requests
  <2> QED
    BY <2>1, <2>2
<1>2. /\ args' = args /\ seen' = seen /\ result' = result
      /\ page' = page /\ deed' = deed /\ calm' = calm
      /\ request'[f] = r /\ wire'[f] = "sent"
  BY <1>1 DEF Ask, TypeOK
<1>3. CASE Connect(f)
  <2>1. r = "attach" /\ request[f] = "none" /\ result[f] = "none"
    BY <1>1, <1>3 DEF Connect
  <2> QED
    BY <1>2, <2>1 DEF Good, Protocol, Guarded, Undisturbed, Located, Written, Allowed, Exact
<1>4. CASE Proceed(f)
  <2>1. /\ r = Following(f) /\ request[f] \in Requests \ {"insert"}
        /\ wire[f] \in {"answered", "empty"} /\ result[f] = "none"
        /\ request[f] = "locate" => Allowed(f, seen[f].host)
        /\ wire[f] = "empty" => request[f] = "resolve"
    BY <1>1, <1>4 DEF Proceed, Ready, Waiting, Unusable, Foreign, TypeOK, Good, Protocol
  <2>2. Protocol(f)'
    BY <1>2, <2>1 DEF Good, Protocol, Following, Requests, Allowed, Written
  <2>3. Guarded(f)'
    BY <1>2, <2>1 DEF Good, Guarded, Protocol, Following, Requests, Allowed, Located, Written
  <2>4. Undisturbed(f)'
    BY <1>2, <2>1 DEF Good, Undisturbed, Protocol, Following, Requests, Located, Written, Exact, Allowed
  <2> QED
    BY <2>2, <2>3, <2>4 DEF Good
<1> QED
  BY <1>3, <1>4

\* The call returns, drops a message or waits.
LEMMA ReturnKeepsFillInv ==
    ASSUME NEW f \in Fills, TypeOK, Good(f),
           \/ Break(f) \/ Succeed(f) \/ Refuse(f) \/ GiveUp(f) \/ Expire(f)
           \/ SkipEvent(f) \/ Tick(f) \/ Emit(f)
    PROVE  Good(f)'
<1>1. CASE SkipEvent(f) \/ Tick(f) \/ Emit(f)
  BY <1>1 DEF SkipEvent, Tick, Emit, Good, Protocol, Guarded, Undisturbed, Located,
              Written, Allowed, Exact
<1>2. CASE \/ Break(f) \/ Succeed(f) \/ Refuse(f) \/ GiveUp(f) \/ Expire(f)
  <2>1. PICK r \in {"failed", "success", "refused"} :
          /\ Return(f, r)
          /\ result[f] = "none"
          /\ r = "success" => request[f] = "insert" /\ wire[f] = "answered"
          /\ r = "refused" => request[f] = "locate" /\ wire[f] # "sent"
    BY <1>2 DEF Break, Succeed, Refuse, GiveUp, Expire, Ready, Waiting, Unusable, Foreign,
                Good, Protocol, TypeOK
  <2>2. result'[f] = r
    BY <2>1 DEF Return, TypeOK
  <2> QED
    BY <2>1, <2>2 DEF Return, Good, Protocol, Guarded, Undisturbed, Located, Written,
                      Allowed, Exact
<1> QED
  BY <1>1, <1>2

\* The browser declines a request or looks at the page for the call.
LEMMA LookKeepsFillInv ==
    ASSUME NEW f \in Fills, TypeOK, Good(f), Decline(f) \/ Look(f)
    PROVE  Good(f)'
<1>1. page.nav \in Nat /\ seen[f] \in Sights /\ seen[f].checked \in Nat
  BY CdpAssumptions DEF TypeOK, Pages, Sights, Navs
<1>2. /\ args' = args /\ request' = request /\ result' = result
      /\ page' = page /\ deed' = deed /\ calm' = calm
      /\ wire[f] = "sent"
  BY DEF Decline, Look, Answer
<1>3. CASE Decline(f)
  <2>1. wire'[f] = "error" /\ seen' = seen
    BY <1>3 DEF Decline, Answer, TypeOK
  <2> QED
    BY <1>2, <2>1 DEF Good, Protocol, Guarded, Undisturbed, Located, Written, Allowed, Exact
<1>4. CASE Look(f)
  <2>1. \/ /\ request[f] \in {"attach", "root", "find"}
           /\ wire'[f] \in {"answered", "empty"}
           /\ seen'[f].host = seen[f].host /\ seen'[f].checked = seen[f].checked
        \/ /\ request[f] = "locate" /\ wire'[f] = "answered"
           /\ seen'[f].host = page.host /\ seen'[f].checked = page.nav
        \/ /\ request[f] = "resolve"
           /\ \/ wire'[f] = "answered"
              \/ wire'[f] = "empty" /\ args[f].selector \notin Inputs
           /\ seen' = seen
    <3>1. CASE \E a \in {"answered", "empty"} : Answer(f, "attach", a) /\ seen' = seen
      BY <3>1 DEF Answer, TypeOK
    <3>2. CASE /\ Answer(f, "locate", "answered")
               /\ seen' = [seen EXCEPT ![f].host = page.host, ![f].checked = page.nav]
      BY <3>2, <1>1 DEF Answer, TypeOK, Sights
    <3>3. CASE \E a \in {"answered", "empty"} :
                  Answer(f, "root", a) /\ seen' = [seen EXCEPT ![f].doc = page.nav]
      BY <3>3, <1>1 DEF Answer, TypeOK, Sights
    <3>4. CASE \E a \in {"answered", "empty"} :
                  Current(f) /\ Answer(f, "find", a) /\ seen' = seen
      BY <3>4 DEF Answer, TypeOK
    <3>5. CASE Current(f) /\ Answer(f, "resolve", "answered") /\ seen' = seen
      BY <3>5 DEF Answer, TypeOK
    <3>6. CASE /\ Current(f) /\ args[f].selector \notin Inputs
               /\ Answer(f, "resolve", "empty") /\ seen' = seen
      BY <3>6 DEF Answer, TypeOK
    <3> QED
      BY <1>4, <3>1, <3>2, <3>3, <3>4, <3>5, <3>6 DEF Look
  <2>2. Protocol(f)'
    BY <1>2, <2>1 DEF Good, Protocol, Written, Allowed
  <2>3. deed[f].effect = "none" /\ result[f] # "success"
    BY <1>2, <2>1 DEF Good, Protocol
  <2>4. Guarded(f)'
    BY <1>1, <1>2, <2>1, <2>3 DEF Good, Guarded, Located, Written
  <2>5. Undisturbed(f)'
    BY <1>2, <2>1, <2>3 DEF Good, Undisturbed, Located, Written
  <2> QED
    BY <2>2, <2>4, <2>5 DEF Good
<1> QED
  BY <1>3, <1>4

\* The browser changes the page for the call.
LEMMA DeedKeepsFillInv ==
    ASSUME NEW f \in Fills, TypeOK, Good(f), Clear(f) \/ Focus(f) \/ Insert(f)
    PROVE  Good(f)'
<1>1. page \in Pages /\ page.nav \in Nat /\ deed[f] \in Deeds
  BY CdpAssumptions DEF TypeOK, Pages, Navs
<1>2. /\ args' = args /\ request' = request /\ result' = result /\ seen' = seen
      /\ wire[f] = "sent" /\ wire'[f] = "answered" /\ calm'[f] = calm[f]
  BY DEF Clear, Focus, Insert, Answer, Disturb, TypeOK
<1>3. CASE Clear(f)
  <2>1. /\ request[f] = "clear"
        /\ page'.nav = page.nav /\ page'.host = page.host
        /\ args[f].selector \in Inputs => args[f].selector \notin page'.filled
    BY <1>1, <1>3 DEF Clear, Answer, Pages
  <2>2. deed'[f].effect = "touched"
    BY <1>1, <1>2, <1>3, <2>1 DEF Clear, Touched, Good, Protocol, TypeOK, Deeds
  <2>3. Protocol(f)'
    BY <1>2, <2>1, <2>2 DEF Good, Protocol, Written, Allowed
  <2>4. Guarded(f)'
    BY <1>2, <2>1, <2>2 DEF Good, Guarded, Located, Written
  <2>5. Undisturbed(f)'
    BY <1>2, <2>1, <2>2 DEF Good, Protocol, Undisturbed, Located, Written
  <2> QED
    BY <2>3, <2>4, <2>5 DEF Good
<1>4. CASE Focus(f)
  <2>1. /\ request[f] = "focus"
        /\ page'.nav = page.nav /\ page'.host = page.host /\ page'.filled = page.filled
        /\ page'.focus = args[f].selector
    BY <1>1, <1>4 DEF Focus, Answer, Pages
  <2>2. deed'[f].effect = "touched"
    BY <1>1, <1>2, <1>4, <2>1 DEF Focus, Touched, Good, Protocol, TypeOK, Deeds
  <2>3. Protocol(f)'
    BY <1>2, <2>1, <2>2 DEF Good, Protocol, Written, Allowed
  <2>4. Guarded(f)'
    BY <1>2, <2>1, <2>2 DEF Good, Guarded, Located, Written
  <2>5. Undisturbed(f)'
    BY <1>2, <2>1, <2>2 DEF Good, Protocol, Undisturbed, Located, Written
  <2> QED
    BY <2>3, <2>4, <2>5 DEF Good
<1>5. CASE Insert(f)
  <2>1. /\ request[f] = "insert"
        /\ page'.nav = page.nav /\ page'.host = page.host
    BY <1>1, <1>5 DEF Insert, Answer, Pages
  <2>2. deed'[f] = [effect |-> "typed", nav |-> page.nav, host |-> page.host,
                    element |-> page.focus, onto |-> page.focus \in page.filled]
    BY <1>5 DEF Insert, TypeOK
  <2>3. Protocol(f)'
    BY <1>2, <2>1, <2>2 DEF Good, Protocol, Written, Allowed
  <2>4. Allowed(f, seen[f].host)
    BY <2>1 DEF Good, Protocol, Written
  <2>5. Guarded(f)'
    BY <1>2, <2>1, <2>2, <2>4 DEF Good, Guarded, Located, Written, Allowed
  <2>6. ASSUME calm[f], result[f] = "none" PROVE Exact(f)'
    <3>1. /\ page.host = seen[f].host
          /\ page.focus = args[f].selector
          /\ args[f].clear /\ args[f].selector \in Inputs => args[f].selector \notin page.filled
      BY <1>2, <2>1, <2>6 DEF Good, Undisturbed, Located, Written
    <3>2. args[f].clear /\ args[f].selector \in Inputs => ~deed'[f].onto
      <4>1. deed'[f].onto = (page.focus \in page.filled)
        BY <2>2
      <4> QED
        BY <3>1, <4>1, Zenon
    <3>3. deed'[f].element = args[f].selector /\ deed'[f].host = seen[f].host
      BY <2>2, <3>1
    <3> QED
      BY <1>2, <2>4, <3>2, <3>3 DEF Exact, Allowed
  <2>7. Undisturbed(f)'
    <3>1. Located(f) /\ result[f] # "success"
      BY <1>2, <2>1 DEF Good, Protocol, Located, Written
    <3>2. calm[f] /\ result[f] = "none" => page'.host = seen[f].host
      BY <2>1, <3>1, <1>2 DEF Good, Undisturbed
    <3> QED
      BY <1>2, <2>1, <2>6, <3>1, <3>2 DEF Undisturbed
  <2> QED
    BY <2>3, <2>5, <2>7 DEF Good
<1> QED
  BY <1>3, <1>4, <1>5

(***************************************************************************)
(* The theorems                                                             *)
(***************************************************************************)

\* A conversation begins in order.
LEMMA InitFillInv == Init => FillInv
<1> SUFFICES ASSUME Init, NEW f \in Fills PROVE Good(f)
  BY DEF FillInv
<1>1. /\ request[f] = "none" /\ wire[f] = "none" /\ result[f] = "none"
      /\ deed[f].effect = "none" /\ seen[f].checked = 0 /\ page.nav = 0
  BY DEF Init
<1> QED
  BY <1>1 DEF Good, Protocol, Guarded, Undisturbed, Located, Written

\* Every step, of a call or of the browser, keeps the invariant.
LEMMA NextFillInv == TypeOK /\ FillInv /\ [Next]_vars => FillInv'
<1> SUFFICES ASSUME TypeOK, FillInv, [Next]_vars, NEW f \in Fills PROVE Good(f)'
  BY DEF FillInv
<1>1. Good(f)
  BY DEF FillInv
<1>2. ASSUME NEW g \in Fills, g # f, Call(g) \/ Tick(g) \/ Emit(g) \/ Decline(g) \/ Look(g)
      PROVE  Good(f)'
  <2>1. Frame(f) /\ page' = page /\ calm' = calm
    <3>1. CASE Connect(g) \/ Proceed(g)
      <4>1. PICK r : Ask(g, r)
        BY <3>1 DEF Connect, Proceed
      <4> QED
        BY <1>2, <4>1 DEF Ask, Frame, TypeOK
    <3>2. CASE Break(g) \/ Succeed(g) \/ Refuse(g) \/ GiveUp(g) \/ Expire(g)
      <4>1. PICK r : Return(g, r)
        BY <3>2 DEF Break, Succeed, Refuse, GiveUp, Expire
      <4> QED
        BY <1>2, <4>1 DEF Return, Frame, TypeOK
    <3>3. CASE SkipEvent(g) \/ Tick(g) \/ Emit(g)
      BY <3>3 DEF SkipEvent, Tick, Emit, Frame
    <3>4. CASE Decline(g) \/ Look(g)
      BY <1>2, <3>4 DEF Decline, Look, Answer, Frame, TypeOK
    <3> QED
      BY <1>2, <3>1, <3>2, <3>3, <3>4 DEF Call
  <2> QED
    BY <1>1, <2>1, OthersKeepFillInv
<1>3. ASSUME NEW g \in Fills, g # f, Clear(g) \/ Focus(g) \/ Insert(g)
      PROVE  Good(f)'
  <2>1. Frame(f) /\ calm'[f] = (calm[f] /\ ~Waiting(f))
    BY <1>3 DEF Clear, Focus, Insert, Answer, Disturb, Frame, TypeOK
  <2>2. page'.nav = page.nav /\ page'.host = page.host
    BY <1>3 DEF Clear, Focus, Insert, TypeOK, Pages
  <2> QED
    BY <1>1, <2>1, <2>2, OthersKeepFillInv
<1>4. CASE Navigate \/ MoveFocus
  <2>1. Frame(f) /\ calm'[f] = (calm[f] /\ ~Waiting(f))
    BY <1>4 DEF Navigate, MoveFocus, conversation, Everybody, Frame
  <2>2. \/ page'.nav = page.nav /\ page'.host = page.host
        \/ page'.nav = page.nav + 1
    BY <1>4 DEF Navigate, MoveFocus, TypeOK, Pages
  <2> QED
    BY <1>1, <2>1, <2>2, OthersKeepFillInv
<1>5. CASE Call(f) \/ Tick(f) \/ Emit(f) \/ Decline(f) \/ Look(f)
  BY <1>1, <1>5, ProceedKeepsFillInv, ReturnKeepsFillInv, LookKeepsFillInv DEF Call
<1>6. CASE Clear(f) \/ Focus(f) \/ Insert(f)
  BY <1>1, <1>6, DeedKeepsFillInv
<1>7. CASE UNCHANGED vars
  <2>1. Frame(f) /\ page' = page /\ calm' = calm
    BY <1>7 DEF vars, conversation, Frame
  <2> QED
    BY <1>1, <2>1, OthersKeepFillInv
<1> QED
  BY <1>2, <1>3, <1>4, <1>5, <1>6, <1>7 DEF Next, Browser

\* The inductive invariant of the conversations: the order of the requests, what
\* each call knows of the page, and what it has done to it.
THEOREM FillInvariant == Spec => [](TypeOK /\ FillInv)
<1> QED
  BY InitFillInv, NextFillInv, FillTypeCorrect, PTL DEF Spec

\* How far the origin guard reaches: a value lands on a host the item does not
\* name only when the page has navigated after its URL was read.
THEOREM GuardHolds == Spec => []GuardHoldsUntilNavigation
<1>1. FillInv => GuardHoldsUntilNavigation
  BY DEF FillInv, Good, Guarded, GuardHoldsUntilNavigation
<1> QED
  BY <1>1, FillInvariant, PTL

\* When a success can be believed to the letter.
THEOREM UndisturbedIsExact == Spec => []UndisturbedFillIsExact
<1>1. FillInv => UndisturbedFillIsExact
  BY DEF FillInv, Good, Undisturbed, UndisturbedFillIsExact, Exact
<1> QED
  BY <1>1, FillInvariant, PTL

\* Every step of a conversation is one its callers may rely on, or none.
LEMMA StepKeepsPromise ==
    TypeOK /\ FillInv /\ [Next]_vars => [Promise!PromiseNext]_(Promise!promiseVars)
<1> SUFFICES ASSUME TypeOK, FillInv, [Next]_vars
             PROVE  [Promise!PromiseNext]_(Promise!promiseVars)
  OBVIOUS
<1> DEFINE effect == [f \in Fills |-> deed[f].effect]
<1>1. CASE UNCHANGED <<result, deed>>
  BY <1>1 DEF Promise!promiseVars
<1>2. ASSUME NEW f \in Fills, NEW r \in {"success", "refused", "failed"}, Return(f, r),
             result[f] = "none",
             r = "success" => effect[f] = "typed",
             r = "refused" => effect[f] = "none"
      PROVE  Promise!PromiseNext
  BY <1>2 DEF Return, Promise!PromiseNext, Promise!Succeed, Promise!Refuse,
              Promise!Fail, Promise!Return
<1>3. ASSUME NEW f \in Fills, Call(f) PROVE [Promise!PromiseNext]_(Promise!promiseVars)
  <2>1. Good(f)
    BY DEF FillInv
  <2>2. CASE Break(f) \/ GiveUp(f) \/ Expire(f)
    BY <1>2, <2>2 DEF Break, GiveUp, Expire, Ready, Waiting
  <2>3. CASE Succeed(f)
    <3>1. effect[f] = "typed" /\ result[f] = "none"
      BY <2>1, <2>3 DEF Succeed, Ready, Waiting, Unusable, Good, Protocol, TypeOK
    <3> QED
      BY <1>2, <2>3, <3>1 DEF Succeed
  <2>4. CASE Refuse(f)
    <3>1. effect[f] = "none" /\ result[f] = "none"
      BY <2>1, <2>4 DEF Refuse, Foreign, Ready, Waiting, Good, Protocol
    <3> QED
      BY <1>2, <2>4, <3>1 DEF Refuse
  <2>5. CASE Connect(f) \/ Proceed(f) \/ SkipEvent(f)
    BY <1>1, <2>5 DEF Connect, Proceed, SkipEvent, Ask
  <2> QED
    BY <1>3, <2>2, <2>3, <2>4, <2>5 DEF Call
<1>4. CASE Navigate \/ MoveFocus \/ \E f \in Fills : Tick(f) \/ Emit(f) \/ Decline(f) \/ Look(f)
  BY <1>1, <1>4 DEF Navigate, MoveFocus, conversation, Tick, Emit, Decline, Look, Answer
<1>5. ASSUME NEW f \in Fills, Clear(f) \/ Focus(f) \/ Insert(f)
      PROVE  [Promise!PromiseNext]_(Promise!promiseVars)
  <2>1. Good(f) /\ result' = result /\ wire[f] = "sent" /\ deed[f] \in Deeds
    BY <1>5 DEF FillInv, Clear, Focus, Insert, Answer, TypeOK
  <2>2. result[f] \in {"none", "failed"}
    BY <1>5, <2>1 DEF Clear, Focus, Insert, Answer, Good, Protocol, TypeOK
  <2>3. CASE Clear(f) \/ Focus(f)
    <3>1. effect[f] \in {"none", "touched"}
      BY <2>1, <2>3 DEF Clear, Focus, Answer, Good, Protocol
    <3>2. effect' = [effect EXCEPT ![f] = "touched"]
      BY <2>1, <2>3, <3>1 DEF Clear, Focus, Touched, TypeOK, Deeds
    <3>3. CASE effect[f] = "none"
      BY <2>1, <2>2, <3>2, <3>3 DEF Promise!PromiseNext, Promise!Touch
    <3>4. CASE effect[f] = "touched"
      <4>1. effect' = effect
        BY <3>2, <3>4
      <4> QED
        BY <2>1, <4>1 DEF Promise!promiseVars
    <3> QED
      BY <3>1, <3>3, <3>4
  <2>4. CASE Insert(f)
    <3>1. effect[f] = "touched"
      BY <2>1, <2>4 DEF Insert, Answer, Good, Protocol
    <3>2. effect' = [effect EXCEPT ![f] = "typed"]
      BY <2>4 DEF Insert, TypeOK
    <3> QED
      BY <2>1, <2>2, <3>1, <3>2 DEF Promise!PromiseNext, Promise!Type
  <2> QED
    BY <1>5, <2>3, <2>4
<1> QED
  BY <1>1, <1>3, <1>4, <1>5 DEF Next, Browser, vars, conversation

\* A success is a value the browser has taken, a refusal leaves the page alone.
THEOREM FillKeepsPromise == Spec => KeepsPromise
<1>1. Init => Promise!PromiseInit
  BY DEF Init, Promise!PromiseInit
<1> QED
  BY <1>1, StepKeepsPromise, FillInvariant, PTL
     DEF Spec, KeepsPromise, Promise!PromiseSpec
=============================================================================
