------------------------------- MODULE CdpFill -------------------------------
(***************************************************************************)
(* _run_fill_with_origin_guard of vaultwarden_secret_source/browser_fill.py:*)
(* calls of the fill tool that each hold one CDP conversation with the same *)
(* page.  A conversation is a sequence of requests, one outstanding at a    *)
(* time, each with a deadline of its own: attach, read the URL, check it    *)
(* against the item's URIs, find the element, clear it, focus it and insert *)
(* the text.  Between any two requests the page may navigate, move its      *)
(* focus or send events, the connection may break, and a request may be     *)
(* executed late, even after its call has given up.                         *)
(***************************************************************************)
EXTENDS Naturals

CONSTANTS
    Fills,        \* calls of the tool
    Hosts,        \* host names of pages
    Elements,     \* elements of the page
    Inputs,       \* those that are input or textarea elements
    Timeout,      \* time steps until a request expires
    MaxNavs       \* bound: navigations of the page

ASSUME CdpAssumptions ==
    /\ Inputs \subseteq Elements
    /\ Timeout \in Nat \ {0}
    /\ MaxNavs \in Nat

VARIABLES
    args,         \* what each call was given: hosts of the item's login.uris,
                  \* the element its selector selects, clear_first
    request,      \* the last request of each call
    wire,         \* how far it has come: its answer, once it is executed
    patience,     \* time left before it expires
    event,        \* a message with another id waits in front of the answer
    seen,         \* what the call has learnt: the host of the URL, the document
    result,       \* what the call has returned
    page,         \* the page: its navigation, host, focus and elements with text
    deed,         \* history: what the call has done to the page
    calm          \* history: nobody else touched the page during the call

conversation == <<args, request, wire, patience, event, seen, result>>
vars == <<conversation, page, deed, calm>>

NoHost == "no host"
NoElement == "no element"

Args == [uris : SUBSET Hosts, selector : Elements, clear : BOOLEAN]
Requests == {"attach", "locate", "root", "find", "resolve", "clear", "focus", "insert"}
Navs == 0..MaxNavs
Pages == [nav : Navs, host : Hosts \cup {NoHost},
          focus : Elements \cup {NoElement}, filled : SUBSET Elements]
Sights == [host : Hosts \cup {NoHost}, checked : Navs, doc : Navs]
Deeds == [effect : {"none", "touched", "typed"}, nav : Navs,
          host : Hosts \cup {NoHost}, element : Elements \cup {NoElement},
          onto : BOOLEAN]

TypeOK ==
    /\ args \in [Fills -> Args]
    /\ request \in [Fills -> Requests \cup {"none"}]
    /\ wire \in [Fills -> {"none", "sent", "answered", "empty", "error"}]
    /\ patience \in [Fills -> 0..Timeout]
    /\ event \in [Fills -> BOOLEAN]
    /\ seen \in [Fills -> Sights]
    /\ result \in [Fills -> {"none", "success", "refused", "failed"}]
    /\ page \in Pages
    /\ deed \in [Fills -> Deeds]
    /\ calm \in [Fills -> BOOLEAN]

Init ==
    /\ args \in [Fills -> Args]
    /\ request = [f \in Fills |-> "none"]
    /\ wire = [f \in Fills |-> "none"]
    /\ patience = [f \in Fills |-> Timeout]
    /\ event = [f \in Fills |-> FALSE]
    /\ seen = [f \in Fills |-> [host |-> NoHost, checked |-> 0, doc |-> 0]]
    /\ result = [f \in Fills |-> "none"]
    /\ page \in [nav : {0}, host : Hosts \cup {NoHost}, focus : {NoElement},
                 filled : {Elements}]
    /\ deed = [f \in Fills |-> [effect |-> "none", nav |-> 0, host |-> NoHost,
                                element |-> NoElement, onto |-> FALSE]]
    /\ calm = [f \in Fills |-> TRUE]

(***************************************************************************)
(* The call                                                                 *)
(***************************************************************************)

\* Variant: a step more than the time-out is allowed.
AskLonger(f, r) ==
    /\ request' = [request EXCEPT ![f] = r]
    /\ wire' = [wire EXCEPT ![f] = "sent"]
    /\ patience' = [patience EXCEPT ![f] = Timeout + 1]
    /\ UNCHANGED <<args, event, seen, result, page, deed, calm>>

\* send: request r leaves, with a deadline of its own.
Ask(f, r) ==
    /\ request' = [request EXCEPT ![f] = r]
    /\ wire' = [wire EXCEPT ![f] = "sent"]
    /\ patience' = [patience EXCEPT ![f] = Timeout]
    /\ UNCHANGED <<args, event, seen, result, page, deed, calm>>

\* The call returns r.  A request still outstanding may yet be executed.
Return(f, r) ==
    /\ result' = [result EXCEPT ![f] = r]
    /\ UNCHANGED <<args, request, wire, patience, event, seen, page, deed, calm>>

Waiting(f) == request[f] # "none" /\ result[f] = "none"

Connect(f) ==
    /\ request[f] = "none" /\ result[f] = "none"
    /\ Ask(f, "attach")

\* The connection is refused or breaks, or a message is not JSON.
Break(f) == result[f] = "none" /\ Return(f, "failed")

\* _origin_allowed: an item without URIs skips the check, and a page without a
\* host matches no URI.
Allowed(f, host) == args[f].uris = {} \/ host \in args[f].uris

\* Variant: the element is focused before it is cleared.
FollowingFocusFirst(f) ==
    CASE request[f] = "attach" -> "locate"
      [] request[f] = "locate" -> "root"
      [] request[f] = "root" -> "find"
      [] request[f] = "find" -> "focus"
      [] request[f] = "focus" -> IF args[f].clear THEN "resolve" ELSE "insert"
      [] request[f] = "resolve" -> IF wire[f] = "empty" THEN "insert" ELSE "clear"
      [] request[f] = "clear" -> "insert"

\* The request that follows the present one.
Following(f) ==
    CASE request[f] = "attach" -> "locate"
      [] request[f] = "locate" -> "root"
      [] request[f] = "root" -> "find"
      [] request[f] = "find" -> IF args[f].clear THEN "resolve" ELSE "focus"
      [] request[f] = "resolve" -> IF wire[f] = "empty" THEN "focus" ELSE "clear"
      [] request[f] = "clear" -> "focus"
      [] request[f] = "focus" -> "insert"

\* Variant: any message counts as the answer.
ReadyAnyMessage(f) ==
    Waiting(f) /\ patience[f] > 0 /\ (event[f] \/ wire[f] # "sent")

\* recv returns the message with the request's id, before its deadline.
Ready(f) == Waiting(f) /\ patience[f] > 0 /\ ~event[f] /\ wire[f] # "sent"

\* The answer is an error, or lacks the session, the root node or the node.
Unusable(f) ==
    \/ wire[f] = "error"
    \/ wire[f] = "empty" /\ request[f] \in {"attach", "root", "find"}

\* Variant: only a page without a host is refused.
ForeignWithoutHost(f) ==
    request[f] = "locate" /\ args[f].uris # {} /\ seen[f].host = NoHost

Foreign(f) == request[f] = "locate" /\ ~Allowed(f, seen[f].host)

Proceed(f) ==
    /\ Ready(f) /\ ~Unusable(f) /\ ~Foreign(f) /\ request[f] # "insert"
    /\ Ask(f, Following(f))

Succeed(f) ==
    /\ Ready(f) /\ ~Unusable(f) /\ request[f] = "insert"
    /\ Return(f, "success")

Refuse(f) == Ready(f) /\ ~Unusable(f) /\ Foreign(f) /\ Return(f, "refused")

GiveUp(f) == Ready(f) /\ Unusable(f) /\ Return(f, "failed")

\* Variant: each message starts the time-out anew.
SkipEventAnew(f) ==
    /\ Waiting(f) /\ patience[f] > 0 /\ event[f]
    /\ event' = [event EXCEPT ![f] = FALSE]
    /\ patience' = [patience EXCEPT ![f] = Timeout]
    /\ UNCHANGED <<args, request, wire, seen, result, page, deed, calm>>

\* A message with another id is dropped; the deadline stays.
SkipEvent(f) ==
    /\ Waiting(f) /\ patience[f] > 0 /\ event[f]
    /\ event' = [event EXCEPT ![f] = FALSE]
    /\ UNCHANGED <<args, request, wire, patience, seen, result, page, deed, calm>>

Expire(f) == Waiting(f) /\ patience[f] = 0 /\ Return(f, "failed")

Call(f) ==
    \/ Connect(f) \/ Break(f)
    \/ Proceed(f) \/ Succeed(f) \/ Refuse(f) \/ GiveUp(f)
    \/ SkipEvent(f) \/ Expire(f)

Tick(f) ==
    /\ Waiting(f) /\ patience[f] > 0
    /\ patience' = [patience EXCEPT ![f] = @ - 1]
    /\ UNCHANGED <<args, request, wire, event, seen, result, page, deed, calm>>

(***************************************************************************)
(* The browser and the page                                                 *)
(***************************************************************************)

\* The request of f is executed, and answered with a.
Answer(f, r, a) ==
    /\ request[f] = r /\ wire[f] = "sent"
    /\ wire' = [wire EXCEPT ![f] = a]
    /\ UNCHANGED <<args, request, patience, event, result>>

\* A protocol error: the request has no effect.
Decline(f) ==
    /\ Answer(f, request[f], "error")
    /\ UNCHANGED <<seen, page, deed, calm>>

\* The page is as f found it: its node ids are those of this document.
Current(f) == seen[f].doc = page.nav

\* Requests that only look.
Look(f) ==
    /\ \/ \E a \in {"answered", "empty"} : Answer(f, "attach", a) /\ seen' = seen
       \/ /\ Answer(f, "locate", "answered")
          /\ seen' = [seen EXCEPT ![f].host = page.host, ![f].checked = page.nav]
       \/ \E a \in {"answered", "empty"} :
            Answer(f, "root", a) /\ seen' = [seen EXCEPT ![f].doc = page.nav]
       \/ \E a \in {"answered", "empty"} :
            Current(f) /\ Answer(f, "find", a) /\ seen' = seen
       \/ Current(f) /\ Answer(f, "resolve", "answered") /\ seen' = seen
       \/ /\ Current(f) /\ args[f].selector \notin Inputs
          /\ Answer(f, "resolve", "empty") /\ seen' = seen
    /\ UNCHANGED <<page, deed, calm>>

\* The page changes under the other conversations.
Disturb(f) == calm' = [g \in Fills |-> calm[g] /\ (g = f \/ ~Waiting(g))]

Touched(f) == IF deed[f].effect = "none" THEN "touched" ELSE deed[f].effect

\* The value is cleared if the element has one, and the page's listeners may
\* move the focus.
Clear(f) ==
    /\ Current(f) /\ Answer(f, "clear", "answered")
    /\ \E e \in Elements \cup {NoElement} :
          page' = [page EXCEPT !.focus = e, !.filled = @ \ ({args[f].selector} \cap Inputs)]
    /\ deed' = [deed EXCEPT ![f].effect = Touched(f)]
    /\ Disturb(f)
    /\ UNCHANGED seen

Focus(f) ==
    /\ Current(f) /\ Answer(f, "focus", "answered")
    /\ page' = [page EXCEPT !.focus = args[f].selector]
    /\ deed' = [deed EXCEPT ![f].effect = Touched(f)]
    /\ Disturb(f)
    /\ UNCHANGED seen

\* The text goes to whatever has the focus.
Insert(f) ==
    /\ Answer(f, "insert", "answered")
    /\ page' = [page EXCEPT !.filled = @ \cup ({page.focus} \cap Elements)]
    /\ deed' = [deed EXCEPT ![f] =
          [effect |-> "typed", nav |-> page.nav, host |-> page.host,
           element |-> page.focus, onto |-> page.focus \in page.filled]]
    /\ Disturb(f)
    /\ UNCHANGED seen

Everybody == [g \in Fills |-> calm[g] /\ ~Waiting(g)]

Navigate ==
    /\ page.nav < MaxNavs
    /\ \E h \in Hosts \cup {NoHost}, e \in Elements \cup {NoElement} :
          page' = [nav |-> page.nav + 1, host |-> h, focus |-> e, filled |-> Elements]
    /\ calm' = Everybody
    /\ UNCHANGED <<conversation, deed>>

\* A script or the user moves the focus.
MoveFocus ==
    /\ \E e \in Elements \cup {NoElement} : page' = [page EXCEPT !.focus = e]
    /\ calm' = Everybody
    /\ UNCHANGED <<conversation, deed>>

Emit(f) ==
    /\ Waiting(f) /\ ~event[f]
    /\ event' = [event EXCEPT ![f] = TRUE]
    /\ UNCHANGED <<args, request, wire, patience, seen, result, page, deed, calm>>

Browser ==
    \/ Navigate \/ MoveFocus
    \/ \E f \in Fills :
          Decline(f) \/ Look(f) \/ Clear(f) \/ Focus(f) \/ Insert(f) \/ Emit(f)

Next == Browser \/ \E f \in Fills : Call(f) \/ Tick(f)

Spec == Init /\ [][Next]_vars

\* The calls run and their time passes; nothing is assumed of the browser.
FairSpec ==
    Spec /\ \A f \in Fills : WF_vars(Call(f)) /\ WF_vars(Tick(f))

(***************************************************************************)
(* Properties                                                               *)
(***************************************************************************)

\* The origin guard can be missed only by a navigation after the URL was read:
\* a value that reaches a page of another host reaches a page the browser
\* opened later.
GuardHoldsUntilNavigation ==
    \A f \in Fills : deed[f].effect = "typed" =>
        Allowed(f, deed[f].host) \/ deed[f].nav > seen[f].checked

\* When nobody else touches the page during a call, a success means that the
\* value is in the selected element, alone if it was to be cleared first: the
\* listeners that clearing sets off do not lead it elsewhere.
UndisturbedFillIsExact ==
    \A f \in Fills : result[f] = "success" /\ calm[f] =>
        /\ deed[f].element = args[f].selector
        /\ Allowed(f, deed[f].host)
        /\ args[f].clear /\ args[f].selector \in Inputs => ~deed[f].onto

\* Answers are matched with requests, and a refusal comes before anything is
\* written: the conversation keeps the promise its callers rely on.
Promise == INSTANCE FillPromise WITH effect <- [f \in Fills |-> deed[f].effect]
KeepsPromise == Promise!PromiseSpec

\* Every conversation ends, although a page may send events for ever and the
\* browser may answer nothing.
FillEnds == \A f \in Fills : <>(result[f] # "none")
=============================================================================
