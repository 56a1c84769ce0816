---------------------------- MODULE DesktopWindow ----------------------------
(***************************************************************************)
(* Structured turns in the one window of the ChatGPT desktop app: a queue  *)
(* of turns, a deadline per caller that already runs while it queues, and  *)
(* a turn that opens a new chat, makes it temporary, checks what it set,   *)
(* types a prompt, waits for an answer that has stopped growing and asks   *)
(* for a correction once.  The app itself is external.                     *)
(***************************************************************************)
EXTENDS Naturals, Sequences

CONSTANTS Callers,
          Budget,      \* the timeout of a lane
          Quiet,       \* quietMs
          LongestPause,\* how long the app may pause within an answer
          LastTime     \* bound: the last instant

ASSUME WindowAssumption ==
    /\ {Budget, Quiet, LongestPause} \subseteq Nat \ {0}
    /\ LongestPause < 4 * Quiet
    /\ LastTime \in Nat

VARIABLES time,
          queue,    \* the turns that have not ended, the first at the composer
          caller,   \* per caller: its deadline and what it was told
          turn,     \* the first turn: its step, its attempt, what it toggled and read
          chat,     \* the chat that is shown: its mode, the prompt that is being
                    \* answered, how far, and for how long it has stood still
          label     \* the stop control has the label the driver looks for

windowVars == <<time, queue, caller, turn, chat, label>>

NoPrompt == [of |-> "nobody", attempt |-> 0]
Prompts == [of: Callers \cup {"nobody"}, attempt: 0..2]
NewChat(mode) == [temporary |-> mode, prompt |-> NoPrompt, answer |-> "none", still |-> 0]
NoTurn == [step |-> "start", attempt |-> 1, toggled |-> FALSE, outcome |-> "none",
            saw |-> FALSE, read |-> "none", from |-> NoPrompt]

WindowTypeOK ==
    /\ time \in 0..LastTime
    /\ \A i \in DOMAIN queue : queue[i] \in Callers
    /\ caller \in [Callers -> [deadline: 0..(LastTime + Budget),
                               told: {"idle", "waiting", "ok", "invalid", "timeout", "surface"},
                               read: {"none", "part", "whole"}, from: Prompts]]
    /\ turn \in [step: {"start", "open", "mode", "model", "submit", "await", "restore", "judge"},
                 attempt: 1..2, toggled: BOOLEAN, outcome: {"none", "timeout", "surface"},
                 saw: BOOLEAN, read: {"none", "part", "whole"}, from: Prompts]
    /\ chat \in [temporary: BOOLEAN, prompt: Prompts, answer: {"none", "part", "whole"},
                 still: 0..(4 * Quiet)]
    /\ label \in BOOLEAN

WindowInit ==
    /\ time = 0
    /\ queue = <<>>
    /\ caller = [c \in Callers |->
                    [deadline |-> 0, told |-> "idle", read |-> "none", from |-> NoPrompt]]
    /\ turn = NoTurn
    /\ chat \in {NewChat(mode) : mode \in BOOLEAN}
    /\ label \in BOOLEAN

AtStep(step) == queue # <<>> /\ turn.step = step
NextTurn == Head(queue)
Spent == time >= caller[NextTurn].deadline
GoTo(step) == turn' = [turn EXCEPT !.step = step]

\* A caller that was released in the queue hears nothing more.
EndTurn(told) ==
    /\ queue' = Tail(queue)
    /\ turn' = NoTurn
    /\ caller' = [caller EXCEPT
         ![NextTurn] = IF @.told # "waiting" THEN @
                    ELSE [@ EXCEPT !.told = told,
                                   !.read = IF told = "ok" THEN turn.read ELSE "none",
                                   !.from = IF told = "ok" THEN turn.from ELSE NoPrompt]]

-----------------------------------------------------------------------------
(* ChatGptDesktopStructuredAIProvider *)

QueueTurn(c) ==
    /\ caller[c].told = "idle"
    /\ caller' = [caller EXCEPT ![c].told = "waiting", ![c].deadline = time + Budget]
    /\ queue' = Append(queue, c)
    /\ UNCHANGED <<time, turn, chat, label>>

\* releaseWhileQueued: told at its deadline, unless its turn has started.  The
\* turn stays in the queue.
ReleaseWhileQueued(c) ==
    /\ caller[c].told = "waiting" /\ time >= caller[c].deadline
    /\ c # NextTurn \/ turn.step = "start"
    /\ caller' = [caller EXCEPT ![c].told = "timeout"]
    /\ UNCHANGED <<time, queue, turn, chat, label>>

\* At the head of the queue: a spent budget yields the window untouched.
StartTurn ==
    /\ AtStep("start")
    /\ IF Spent THEN EndTurn("timeout") ELSE GoTo("open") /\ UNCHANGED <<queue, caller>>
    /\ UNCHANGED <<time, chat, label>>

\* An answer that does not validate is worth one correction.
Judge ==
    /\ AtStep("judge")
    /\ \/ EndTurn("ok")
       \/ (turn.attempt = 2 \/ Spent) /\ EndTurn("invalid")
       \/ /\ turn.attempt = 1 /\ ~Spent
          /\ turn' = [NoTurn EXCEPT !.step = "open", !.attempt = 2]
          /\ UNCHANGED <<queue, caller>>
    /\ UNCHANGED <<time, chat, label>>

-----------------------------------------------------------------------------
(* askChatGptDesktop *)

\* Mutant: the chat that is shown is good enough.
OpenChatThatIsThere ==
    /\ AtStep("open")
    /\ \/ EndTurn("surface")
       \/ GoTo("mode") /\ UNCHANGED <<queue, caller>>
    /\ UNCHANGED <<time, chat, label>>

\* Attaching to the renderer and clicking New chat.
OpenChat ==
    /\ AtStep("open")
    /\ \/ EndTurn("surface") /\ UNCHANGED chat
       \/ /\ GoTo("mode")
          /\ chat' = NewChat(chat.temporary)
          /\ UNCHANGED <<queue, caller>>
    /\ UNCHANGED <<time, label>>

\* setTemporary: the control may be missing, and a click says nothing of whether
\* the app obeyed.
SetTemporary ==
    /\ AtStep("mode")
    /\ \/ EndTurn("surface") /\ UNCHANGED chat
       \/ /\ chat.temporary
          /\ GoTo("model")
          /\ UNCHANGED <<chat, queue, caller>>
       \/ /\ ~chat.temporary
          /\ turn' = [turn EXCEPT !.step = "model", !.toggled = TRUE]
          /\ chat' \in {chat, [chat EXCEPT !.temporary = TRUE]}
          /\ UNCHANGED <<queue, caller>>
    /\ UNCHANGED <<time, label>>

Fail(outcome) == turn' = [turn EXCEPT !.step = "restore", !.outcome = outcome]

\* Model and effort are selected and read back, and so is the mode.
Confirm ==
    /\ AtStep("model")
    /\ (chat.temporary /\ GoTo("submit")) \/ Fail("surface")
    /\ UNCHANGED <<time, queue, caller, chat, label>>

\* The chat must be empty.  A chat that is still answering goes on with that.
Submit ==
    /\ AtStep("submit")
    /\ CASE chat.answer # "none" -> Fail("surface") /\ UNCHANGED chat
         [] chat.answer = "none" /\ Spent -> Fail("timeout") /\ UNCHANGED chat
         [] OTHER ->
              \/ Fail("surface") /\ UNCHANGED chat
              \/ /\ GoTo("await")
                 /\ chat' = [chat EXCEPT !.still = 0, !.prompt =
                        IF @ = NoPrompt THEN [of |-> NextTurn, attempt |-> turn.attempt] ELSE @]
    /\ UNCHANGED <<time, queue, caller, label>>

\* The only positive sign that the app is at it.
Generating == label /\ chat.prompt # NoPrompt /\ chat.answer # "whole"

SeeGenerating ==
    /\ AtStep("await") /\ ~turn.saw
    /\ Generating
    /\ turn' = [turn EXCEPT !.saw = TRUE]
    /\ UNCHANGED <<time, queue, caller, chat, label>>

\* Without ever having seen the sign, more patience.
Patience == IF turn.saw THEN Quiet ELSE 4 * Quiet

TakeAnswer ==
    /\ AtStep("await") /\ ~Spent
    /\ chat.answer # "none" /\ ~Generating
    /\ chat.still >= Patience
    /\ turn' = [turn EXCEPT !.step = "restore", !.read = chat.answer, !.from = chat.prompt]
    /\ UNCHANGED <<time, queue, caller, chat, label>>

\* Out of time, or the devtools connection failed.
GiveUpWaiting ==
    /\ AtStep("await")
    /\ (Spent /\ Fail("timeout")) \/ Fail("surface")
    /\ UNCHANGED <<time, queue, caller, chat, label>>

\* The mode is given back in a chat of its own, if both clicks work.
Restore ==
    /\ AtStep("restore")
    /\ IF turn.toggled THEN chat' \in {chat} \cup {NewChat(mode) : mode \in {chat.temporary, FALSE}}
                       ELSE UNCHANGED chat
    /\ IF turn.outcome = "none" THEN GoTo("judge") /\ UNCHANGED <<queue, caller>>
                                ELSE EndTurn(turn.outcome)
    /\ UNCHANGED <<time, label>>

-----------------------------------------------------------------------------
(* The app *)

AppWrites ==
    /\ chat.prompt # NoPrompt /\ chat.answer # "whole"
    /\ chat' = [chat EXCEPT !.answer = IF @ = "none" THEN "part" ELSE "whole", !.still = 0]
    /\ UNCHANGED <<time, queue, caller, turn, label>>

WindowTick ==
    /\ time < LastTime
    /\ chat.answer = "part" => chat.still < LongestPause
    /\ ~AtStep("start")
    /\ time' = time + 1
    /\ chat' = [chat EXCEPT !.still = IF chat.answer = "none" \/ @ = 4 * Quiet THEN @ ELSE @ + 1]
    /\ UNCHANGED <<queue, caller, turn, label>>

TurnStep ==
    \/ StartTurn \/ OpenChat \/ SetTemporary \/ Confirm \/ Submit
    \/ SeeGenerating \/ TakeAnswer \/ GiveUpWaiting
    \/ Restore \/ Judge

WindowNext ==
    \/ \E c \in Callers : QueueTurn(c) \/ ReleaseWhileQueued(c)
    \/ TurnStep
    \/ AppWrites
    \/ WindowTick

WindowSpec == WindowInit /\ [][WindowNext]_windowVars

-----------------------------------------------------------------------------

\* What a caller gets is the whole of the answer to its own prompt, though a
\* turn before it was given up while the app was still answering, and though the
\* app pauses within an answer with no sign that it is not done.
AnswersAreOwnAndWhole ==
    \A c \in Callers :
        caller[c].told = "ok" => (caller[c].from.of = c /\ caller[c].read = "whole")

\* A turn that reached the composer is worth more than punctuality: while one is
\* there its caller listens, and one that was released has nothing typed for it.
StartedTurnsAreHeard ==
    (queue # <<>> /\ turn.step # "start") => caller[NextTurn].told = "waiting"

=============================================================================
