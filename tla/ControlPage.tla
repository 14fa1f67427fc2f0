------------------------------ MODULE ControlPage ------------------------------
(***************************************************************************)
(* The pad of the control page (src/frontend/src/pages/ControlPage.tsx),    *)
(* on top of what the page knows (PageTeam): the control socket, the        *)
(* buttons a user holds and the edges they send, the commits of React that  *)
(* enable and disable them, and the effect that follows a commit.           *)
(***************************************************************************)
EXTENDS PageTeam

CONSTANT Buttons   \* the held inputs; Troubles may have "close", too

VARIABLES
  socket,    \* the control socket: "connecting", "open" or "closed"
  rendered,  \* isMyTurn of the last commit: the fieldset is enabled
  held,      \* heldRef
  far        \* buttons whose last edge sent on the open socket is a press

vars == <<pageVars, socket, rendered, held, far>>

\* The page has just asked for its socket.
Init ==
  /\ PageInit
  /\ socket = "connecting"
  /\ rendered = FALSE
  /\ held = {}
  /\ far = {}

-----------------------------------------------------------------------------
IsMyTurn == team # NoTeam /\ shown # NoTeam /\ team = shown

\* Variant used as a mutant: a release goes out only while it is my turn.
LeftAfterReleaseOnTurn(set) == IF IsMyTurn THEN far \ set ELSE far

\* What release() of a set of buttons leaves pressed at the backend.
LeftAfterRelease(set) == IF socket = "open" THEN far \ set ELSE far

\* Variant used as a mutant: send() does not look at readyState.
PressOnAnySocket(b) ==
  /\ rendered
  /\ b \notin held
  /\ held' = held \cup {b}
  /\ far' = far \cup {b}
  /\ UNCHANGED <<pageVars, socket, rendered>>

\* press(): a pointer goes down on an enabled button.
Press(b) ==
  /\ rendered
  /\ b \notin held
  /\ held' = held \cup {b}
  /\ far' = IF socket = "open" THEN far \cup {b} ELSE far
  /\ UNCHANGED <<pageVars, socket, rendered>>

\* release(): the pointer goes up, is cancelled, or its capture is lost.
Release(b) ==
  /\ b \in held
  /\ held' = held \ {b}
  /\ far' = LeftAfterRelease({b})
  /\ UNCHANGED <<pageVars, socket, rendered>>

\* React commits a new isMyTurn, once the effects of the last commit have run.
Commit ==
  /\ rendered # IsMyTurn
  /\ rendered \/ held = {}
  /\ rendered' = IsMyTurn
  /\ UNCHANGED <<pageVars, socket, held, far>>

\* Variant used as a mutant: the effect lets go when the turn comes.
ReleaseAllOnTurn ==
  /\ rendered /\ held # {}
  /\ held' = {}
  /\ far' = LeftAfterRelease(held)
  /\ UNCHANGED <<pageVars, socket, rendered>>

\* The effect of a commit without the turn, some time after it: releaseAll().
ReleaseAll ==
  /\ ~rendered /\ held # {}
  /\ held' = {}
  /\ far' = LeftAfterRelease(held)
  /\ UNCHANGED <<pageVars, socket, rendered>>

SocketOpens ==
  /\ socket = "connecting"
  /\ socket' = "open"
  /\ UNCHANGED <<pageVars, rendered, held, far>>

\* The handler on the other side lets go of what it tracked; the page does not
\* connect again.
SocketCloses ==
  /\ Meets("close")
  /\ socket # "closed"
  /\ socket' = "closed"
  /\ far' = {}
  /\ UNCHANGED <<backend, feed, mine, rendered, held>>

\* The cleanup on leaving the page, and its mount on coming back.
Remount ==
  /\ PageRemounts
  /\ socket' = "connecting"
  /\ rendered' = FALSE
  /\ held' = {}
  /\ far' = {}

PadSteps ==
  \/ \E b \in Buttons : Press(b) \/ Release(b)
  \/ Commit \/ ReleaseAll \/ SocketOpens \/ SocketCloses

Next ==
  \/ PageSteps /\ UNCHANGED <<socket, rendered, held, far>>
  \/ PadSteps
  \/ Remount

Spec == Init /\ [][Next]_vars

(* The broadcast loop ticks, the browser hands over messages, a fetch is     *)
(* answered or fails, and React puts off neither a commit nor its effects    *)
(* for ever.                                                                 *)
FairSpec ==
  /\ Spec
  /\ WF_pageVars(Tick) /\ WF_pageVars(MessageArrives) /\ WF_pageVars(FetchSteps)
  /\ SF_vars(Commit) /\ WF_vars(ReleaseAll)

-----------------------------------------------------------------------------
(* Types of the page's knowledge and of the pad; nothing is pressed on a     *)
(* socket that is not open.                                                  *)
TypeOK ==
  /\ PageTypeOK
  /\ socket \in {"connecting", "open", "closed"}
  /\ rendered \in BOOLEAN
  /\ held \subseteq Buttons
  /\ far \subseteq Buttons
  /\ socket # "open" => far = {}

(* No input is stuck: a button the backend last heard pressed on the open    *)
(* socket is one the page still holds and so will release, whatever becomes  *)
(* of stream, socket, team and turn between a commit and its effect.         *)
NothingStuck == far \subseteq held

HasTurn == online /\ wa.turn # NoTeam /\ wa.turn = team

(* While the stream is up, a hold does not outlive the turn by more than a   *)
(* tick: the page lets go when the turn, as WA has it, is not its team's.    *)
TurnLossLetsGo ==
  (held # {} /\ ~HasTurn /\ stream = "open")
    ~> (held = {} \/ HasTurn \/ stream = "down")
=============================================================================
