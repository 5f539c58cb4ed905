------------------------- MODULE ReservationSandbox -------------------------
(***************************************************************************)
(* The page of the browser sandbox: its handlers run one at a time, but a  *)
(* write to the clipboard is answered some time later, when the message,   *)
(* the result and the status line may be about something else.             *)
(*                                                                         *)
(* A result is named by the message it was computed from, since the parser *)
(* is a function of it.                                                    *)
(***************************************************************************)
EXTENDS Naturals, FiniteSets

CONSTANTS
  Messages,   \* what the message box may hold
  Examples,   \* the examples that can be loaded into it
  Valid,      \* messages that are neither blank nor too long
  None,       \* no result; also a clipboard with something else
  MaxEvents   \* bound on the events of a visit

ASSUME SandboxAssumption ==
  /\ Examples \subseteq Valid /\ Valid \subseteq Messages
  /\ None \notin Messages
  /\ MaxEvents \in Nat

VARIABLES
  message,          \* the message box
  currentJson,      \* the result that Copy and Download would take
  statusRevision,
  page,             \* the result the page shows, or "pending", "invalid"
  enabled,          \* whether Copy and Download are enabled
  status,           \* the status line, and the event that wrote it
  writes,           \* clipboard writes under way
  answers,          \* clipboard writes that are over and will be answered
  clipboard,        \* what is on the clipboard
  available,        \* whether there is a clipboard
  event             \* counts the user's events

vars == <<message, currentJson, statusRevision, page, enabled, status,
          writes, answers, clipboard, available, event>>

Copying == [event : 1..MaxEvents, revision : Nat, json : Valid]

Texts == {"pending", "parsed", "invalid", "unavailable", "copied", "blocked", "downloaded"}

Say(text, of) == status' = [text |-> text, event |-> of]

Happens == event < MaxEvents /\ event' = event + 1

BeginStatusOperation == statusRevision' = statusRevision + 1

RenderResult ==
  /\ currentJson' = message /\ page' = message /\ enabled' = TRUE
  /\ Say("parsed", event')

RenderInputError ==
  /\ currentJson' = None /\ page' = "invalid" /\ enabled' = FALSE
  /\ Say("invalid", event')

RenderPending ==
  /\ page' = "pending" /\ enabled' = FALSE
  /\ Say("pending", event')

(* The page is loaded and its message parsed; event 0.                     *)
Init ==
  /\ message \in Messages
  /\ currentJson = (IF message \in Valid THEN message ELSE None)
  /\ page = (IF message \in Valid THEN message ELSE "invalid")
  /\ enabled = (message \in Valid)
  /\ status = [text |-> IF message \in Valid THEN "parsed" ELSE "invalid", event |-> 0]
  /\ statusRevision = 1
  /\ writes = {} /\ answers = {}
  /\ clipboard = None
  /\ available \in BOOLEAN
  /\ event = 0

-----------------------------------------------------------------------------
LoadExample ==
  /\ Happens /\ BeginStatusOperation
  /\ message' \in Examples
  /\ currentJson' = None
  /\ RenderPending
  /\ UNCHANGED <<writes, answers, clipboard, available>>

(* Mutant of Edit: the result of the old message can still be copied.      *)
EditKeepingJson ==
  /\ Happens /\ BeginStatusOperation
  /\ message' \in Messages
  /\ RenderPending
  /\ UNCHANGED <<currentJson, writes, answers, clipboard, available>>

(* Mutant of Edit: it does not count as an operation.                      *)
EditUncounted ==
  /\ Happens
  /\ message' \in Messages
  /\ currentJson' = None
  /\ RenderPending
  /\ UNCHANGED <<statusRevision, writes, answers, clipboard, available>>

Edit ==
  /\ Happens /\ BeginStatusOperation
  /\ message' \in Messages
  /\ currentJson' = None
  /\ RenderPending
  /\ UNCHANGED <<writes, answers, clipboard, available>>

Submit ==
  /\ Happens /\ BeginStatusOperation
  /\ IF message \in Valid THEN RenderResult ELSE RenderInputError
  /\ UNCHANGED <<message, writes, answers, clipboard, available>>

(* Mutant of Copy: the revision is remembered before it is counted.        *)
CopyRememberingOld ==
  /\ Happens
  /\ currentJson # None
  /\ BeginStatusOperation
  /\ IF available
     THEN /\ writes' = writes \cup
               {[event |-> event', revision |-> statusRevision, json |-> currentJson]}
          /\ UNCHANGED status
     ELSE Say("unavailable", event') /\ UNCHANGED writes
  /\ UNCHANGED <<message, currentJson, page, enabled, answers, clipboard, available>>

Copy ==
  /\ Happens
  /\ currentJson # None
  /\ BeginStatusOperation
  /\ IF available
     THEN /\ writes' = writes \cup
               {[event |-> event', revision |-> statusRevision', json |-> currentJson]}
          /\ UNCHANGED status
     ELSE Say("unavailable", event') /\ UNCHANGED writes
  /\ UNCHANGED <<message, currentJson, page, enabled, answers, clipboard, available>>

Download ==
  /\ Happens
  /\ currentJson # None
  /\ BeginStatusOperation
  /\ Say("downloaded", event')
  /\ UNCHANGED <<message, currentJson, page, enabled, writes, answers, clipboard, available>>

(* The browser puts the texts on the clipboard in the order they were      *)
(* written; it may refuse any of them, at any time.                        *)
WriteLands(w) ==
  /\ \A v \in writes : w.event <= v.event
  /\ clipboard' = w.json
  /\ writes' = writes \ {w}
  /\ answers' = answers \cup {[write |-> w, text |-> "copied"]}
  /\ UNCHANGED <<message, currentJson, statusRevision, page, enabled, status, available, event>>

WriteBlocked(w) ==
  /\ writes' = writes \ {w}
  /\ answers' = answers \cup {[write |-> w, text |-> "blocked"]}
  /\ UNCHANGED <<message, currentJson, statusRevision, page, enabled, status, clipboard,
                 available, event>>

(* Mutant of Answered: whatever happened since.                            *)
AnsweredAnyway(a) ==
  /\ answers' = answers \ {a}
  /\ Say(a.text, a.write.event)
  /\ UNCHANGED <<message, currentJson, statusRevision, page, enabled, writes, clipboard,
                 available, event>>

(* Mutant of Answered: a write that is blocked is not reported.            *)
AnsweredIfCopied(a) ==
  /\ answers' = answers \ {a}
  /\ IF a.write.revision = statusRevision /\ a.text = "copied"
     THEN Say(a.text, a.write.event)
     ELSE UNCHANGED status
  /\ UNCHANGED <<message, currentJson, statusRevision, page, enabled, writes, clipboard,
                 available, event>>

(* The callbacks of writeText.                                             *)
Answered(a) ==
  /\ answers' = answers \ {a}
  /\ IF a.write.revision = statusRevision
     THEN Say(a.text, a.write.event)
     ELSE UNCHANGED status
  /\ UNCHANGED <<message, currentJson, statusRevision, page, enabled, writes, clipboard,
                 available, event>>

Browser ==
  \/ \E w \in writes : WriteLands(w) \/ WriteBlocked(w)
  \/ \E a \in answers : Answered(a)

Next == LoadExample \/ Edit \/ Submit \/ Copy \/ Download \/ Browser

Spec == Init /\ [][Next]_vars

(* The browser carries out or refuses every write, and answers it; the     *)
(* user need not do anything.                                              *)
FairSpec == Spec /\ WF_vars(Browser)

-----------------------------------------------------------------------------
(* Every variable stays in its type.                                       *)
TypeOK ==
  /\ message \in Messages
  /\ currentJson \in Valid \cup {None}
  /\ statusRevision \in Nat
  /\ page \in Valid \cup {"pending", "invalid"}
  /\ enabled \in BOOLEAN
  /\ status \in [text : Texts, event : 0..MaxEvents]
  /\ writes \subseteq Copying
  /\ answers \subseteq [write : Copying, text : {"copied", "blocked"}]
  /\ clipboard \in Valid \cup {None}
  /\ available \in BOOLEAN
  /\ event \in 0..MaxEvents

(* What can be copied or downloaded is what the page shows, and it is the  *)
(* result of the message that is in the box.                               *)
NoStaleResult ==
  /\ enabled <=> currentJson # None
  /\ currentJson # None => currentJson = message /\ page = message

(* `Copied' means that the clipboard has the result the page shows.        *)
CopiedIsOnClipboard ==
  status.text = "copied" => currentJson # None /\ clipboard = currentJson

(* What the user did last is told, or it is a copy that is under way, and  *)
(* whose answer will be told when it comes.                                *)
NothingUntold ==
  status.event = event
    \/ \E w \in writes \cup {a.write : a \in answers} :
         w.event = event /\ w.revision = statusRevision

(* The status line is never set back: what is told of an older event does  *)
(* not replace what is told of a newer one.                                *)
StatusMovesForward == [][status'.event >= status.event]_vars

(* A copy is told of, unless the user has done something else since.       *)
EveryCopyIsTold ==
  \A n \in 1..MaxEvents :
    (\E w \in writes : w.event = n) ~> (status.event >= n \/ event > n)

=============================================================================
