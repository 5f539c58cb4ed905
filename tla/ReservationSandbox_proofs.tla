---------------------- MODULE ReservationSandbox_proofs ----------------------
(***************************************************************************)
(* Theorems about ReservationSandbox, for any messages and visits of any   *)
(* length: a late answer of the clipboard never says what is not so.       *)
(***************************************************************************)
EXTENDS ReservationSandbox, TLAPS

(* A write of the last event is of the result that is still there: every   *)
(* event is an operation, so a revision is that of one event.              *)
Current(w) ==
  /\ w.event <= event /\ w.revision = w.event + 1
  /\ w.event = event => w.json = currentJson

(* When the write of the last event has landed, no older one can overwrite *)
(* it.                                                                     *)
Settled(a) ==
  a.text = "copied" /\ a.write.event = event =>
    clipboard = currentJson /\ \A v \in writes : v.event = event

Order ==
  /\ statusRevision = event + 1
  /\ status.event <= event
  /\ \A w \in writes : Current(w)
  /\ \A a \in answers : Current(a.write) /\ Settled(a)
  /\ status.text = "copied" =>
       /\ currentJson # None /\ clipboard = currentJson
       /\ \A v \in writes : v.json = currentJson

IInv == TypeOK /\ NoStaleResult /\ Order

-----------------------------------------------------------------------------
LEMMA IInvInit == Init => IInv
PROOF
  <1> SUFFICES ASSUME Init
               PROVE  IInv
    OBVIOUS
  <1>1. TypeOK
    BY SandboxAssumption DEF Init, TypeOK, Texts
  <1>2. NoStaleResult
    BY SandboxAssumption DEF Init, NoStaleResult
  <1>3. Order
    BY DEF Init, Order
  <1> QED
    BY <1>1, <1>2, <1>3 DEF IInv

(* An event that writes the status line itself.                            *)
LEMMA EventStep ==
  ASSUME IInv, Happens, BeginStatusOperation, UNCHANGED <<writes, answers, clipboard>>,
         status'.event = event', status'.text # "copied"
  PROVE  Order'
PROOF
  <1> USE DEF IInv
  <1>1. event' = event + 1 /\ event \in Nat /\ event' \in Nat /\ statusRevision' = event' + 1
    BY SandboxAssumption DEF Happens, BeginStatusOperation, Order, TypeOK
  <1>2. \A w \in writes : w.event \in Nat /\ Current(w)'
    BY <1>1, SandboxAssumption DEF Order, Current, TypeOK, Copying
  <1>3. \A a \in answers : Current(a.write)' /\ Settled(a)'
    BY <1>1, SandboxAssumption DEF Order, Current, Settled, TypeOK, Copying
  <1> QED
    BY <1>1, <1>2, <1>3 DEF Order

LEMMA EventTypes ==
  ASSUME IInv, Happens
  PROVE  /\ event' \in 0..MaxEvents /\ event' \in 1..MaxEvents
         /\ BeginStatusOperation => statusRevision' \in Nat
         /\ \A text \in Texts : Say(text, event') =>
              /\ status' \in [text : Texts, event : 0..MaxEvents]
              /\ status'.event = event' /\ status'.text = text
PROOF
  BY SandboxAssumption DEF IInv, TypeOK, Happens, BeginStatusOperation, Say

LEMMA CopyStep ==
  ASSUME IInv, Copy
  PROVE  IInv'
PROOF
  <1> USE DEF IInv
  <1>1. NoStaleResult'
    BY DEF Copy, NoStaleResult
  <1>2. CASE available
    <2> DEFINE new == [event |-> event', revision |-> statusRevision', json |-> currentJson]
    <2>1. /\ writes' = writes \cup {new} /\ event' = event + 1 /\ event \in Nat
          /\ event' \in 1..MaxEvents /\ event' \in 0..MaxEvents
          /\ statusRevision' = event' + 1 /\ currentJson # None
          /\ UNCHANGED <<message, currentJson, page, enabled, status, answers, clipboard, available>>
      BY <1>2, SandboxAssumption DEF Copy, Happens, BeginStatusOperation, Order, TypeOK
    <2>2. new \in Copying
      BY <2>1 DEF Copying, TypeOK
    <2>3. TypeOK'
      BY <2>1, <2>2 DEF TypeOK
    <2>4. \A w \in writes' : Current(w)'
      BY <2>1, SandboxAssumption DEF Order, Current, TypeOK, Copying
    <2>5. \A a \in answers : Current(a.write)' /\ Settled(a)'
      BY <2>1, SandboxAssumption DEF Order, Current, Settled, TypeOK, Copying
    <2>6. status.event <= event'
      BY <2>1 DEF Order, TypeOK
    <2>7. Order'
      BY <2>1, <2>4, <2>5, <2>6 DEF Order
    <2> QED
      BY <1>1, <2>3, <2>7
  <1>3. CASE ~available
    <2>1. /\ Say("unavailable", event') /\ Happens /\ BeginStatusOperation
          /\ UNCHANGED <<message, currentJson, page, enabled, writes, answers, clipboard, available>>
      BY <1>3 DEF Copy
    <2>2. TypeOK' /\ status'.event = event' /\ status'.text # "copied"
      BY <2>1, EventTypes DEF TypeOK, Texts
    <2> QED
      BY <1>1, <2>1, <2>2, EventStep
  <1> QED
    BY <1>2, <1>3

(* The user's other events.                                                *)
LEMMA UserStep ==
  ASSUME IInv, LoadExample \/ Edit \/ Submit \/ Download
  PROVE  IInv'
PROOF
  <1> USE DEF IInv
  <1>1. /\ Happens /\ BeginStatusOperation /\ UNCHANGED <<writes, answers, clipboard, available>>
        /\ \E text \in Texts \ {"copied"} : Say(text, event')
    BY DEF LoadExample, Edit, Submit, Download, RenderPending, RenderResult, RenderInputError,
           Texts
  <1>2. /\ status' \in [text : Texts, event : 0..MaxEvents]
        /\ status'.event = event' /\ status'.text # "copied"
        /\ event' \in 0..MaxEvents /\ statusRevision' \in Nat
    BY <1>1, EventTypes
  <1>3. /\ message' \in Messages /\ currentJson' \in Valid \cup {None}
        /\ page' \in Valid \cup {"pending", "invalid"} /\ enabled' \in BOOLEAN
    BY SandboxAssumption
    DEF LoadExample, Edit, Submit, Download, RenderPending, RenderResult, RenderInputError, TypeOK
  <1>4. TypeOK'
    BY <1>1, <1>2, <1>3 DEF TypeOK
  <1>5. NoStaleResult'
    BY SandboxAssumption
    DEF LoadExample, Edit, Submit, Download, RenderPending, RenderResult, RenderInputError,
        NoStaleResult
  <1> QED
    BY <1>1, <1>2, <1>4, <1>5, EventStep

LEMMA WriteStep ==
  ASSUME IInv, NEW w \in writes, WriteLands(w) \/ WriteBlocked(w)
  PROVE  IInv'
PROOF
  <1> USE DEF IInv
  <1>1. PICK text \in {"copied", "blocked"} :
          /\ answers' = answers \cup {[write |-> w, text |-> text]}
          /\ text = "copied" => clipboard' = w.json /\ \A v \in writes : w.event <= v.event
          /\ text = "blocked" => clipboard' = clipboard
    BY DEF WriteLands, WriteBlocked
  <1>2. /\ writes' = writes \ {w}
        /\ UNCHANGED <<message, currentJson, statusRevision, page, enabled, status, available, event>>
    BY DEF WriteLands, WriteBlocked
  <1>3. w \in Copying /\ w.json \in Valid /\ w.event \in Nat /\ event \in Nat
    BY DEF TypeOK, Copying
  <1>4. TypeOK'
    BY <1>1, <1>2, <1>3 DEF TypeOK
  <1>5. NoStaleResult'
    BY <1>2 DEF NoStaleResult
  <1>6. \A v \in writes : v.event \in Nat /\ v.event <= event /\ (v.event = event => v.json = currentJson)
    BY DEF Order, Current, TypeOK, Copying
  <1>7. (\A v \in writes : v.json = currentJson) => clipboard' \in {clipboard, currentJson}
    BY <1>1
  <1>8. \A a \in answers' : Current(a.write)' /\ Settled(a)'
    <2> SUFFICES ASSUME NEW a \in answers'
                 PROVE  Current(a.write)' /\ Settled(a)'
      OBVIOUS
    <2>1. CASE a \in answers
      <3>1. Current(a.write)'
        BY <1>2, <2>1 DEF Order, Current
      <3>2. ASSUME a.text = "copied", a.write.event = event
            PROVE  clipboard' = currentJson /\ \A v \in writes' : v.event = event
        BY <1>1, <1>2, <1>6, <2>1, <3>2 DEF Order, Settled
      <3> QED
        BY <1>2, <3>1, <3>2 DEF Settled
    <2>2. CASE a = [write |-> w, text |-> text]
      <3>1. Current(a.write)'
        BY <1>2, <2>2 DEF Order, Current
      <3>2. ASSUME text = "copied", w.event = event
            PROVE  clipboard' = currentJson /\ \A v \in writes' : v.event = event
        BY <1>1, <1>2, <1>3, <1>6, <3>2
      <3> QED
        BY <1>2, <2>2, <3>1, <3>2 DEF Settled
    <2> QED
      BY <1>1, <2>1, <2>2
  <1>9. Order'
    BY <1>2, <1>7, <1>8 DEF Order, Current
  <1> QED
    BY <1>4, <1>5, <1>9

LEMMA AnswerStep ==
  ASSUME IInv, NEW a \in answers, Answered(a)
  PROVE  IInv' /\ status'.event >= status.event
PROOF
  <1> USE DEF IInv
  <1>1. /\ answers' = answers \ {a}
        /\ UNCHANGED <<message, currentJson, statusRevision, page, enabled, writes, clipboard,
                       available, event>>
    BY DEF Answered
  <1>2. /\ a.write.event \in 1..MaxEvents /\ a.write.json \in Valid
        /\ a.text \in {"copied", "blocked"} /\ event \in Nat /\ status.event \in Nat
    BY DEF TypeOK, Copying
  <1>3. NoStaleResult'
    BY <1>1 DEF NoStaleResult
  <1>4. /\ \A w \in writes : Current(w)'
        /\ \A b \in answers' : Current(b.write)' /\ Settled(b)'
    BY <1>1 DEF Order, Current, Settled
  <1>5. CASE a.write.revision = statusRevision
    <2>1. status' = [text |-> a.text, event |-> a.write.event] /\ a.write.event = event
      BY <1>2, <1>5 DEF Answered, Say, Order, Current
    <2>2. TypeOK'
      BY <1>1, <1>2, <2>1, SandboxAssumption DEF TypeOK, Texts
    <2>3. a.text = "copied" =>
            /\ currentJson # None /\ clipboard = currentJson
            /\ \A v \in writes : v.json = currentJson
      BY <1>2, <2>1, SandboxAssumption DEF Order, Current, Settled
    <2>4. Order'
      BY <1>1, <1>2, <1>4, <2>1, <2>3 DEF Order
    <2> QED
      BY <1>2, <1>3, <2>1, <2>2, <2>4 DEF Order
  <1>6. CASE a.write.revision # statusRevision
    <2>1. status' = status
      BY <1>6 DEF Answered
    <2> QED
      BY <1>1, <1>2, <1>3, <1>4, <2>1 DEF Order, TypeOK
  <1> QED
    BY <1>5, <1>6

LEMMA IInvStep == IInv /\ [Next]_vars => IInv' /\ status'.event >= status.event
PROOF
  <1> SUFFICES ASSUME IInv, [Next]_vars
               PROVE  IInv' /\ status'.event >= status.event
    OBVIOUS
  <1>0. status.event \in Nat /\ status.event <= event /\ event \in Nat
    BY DEF IInv, TypeOK, Order
  <1>1. CASE LoadExample \/ Edit \/ Submit \/ Download
    <2>1. status'.event = event' /\ event' = event + 1
      BY <1>1 DEF LoadExample, Edit, Submit, Download, RenderPending, RenderResult,
                  RenderInputError, Say, Happens
    <2> QED
      BY <1>0, <1>1, <2>1, UserStep
  <1>2. CASE Copy
    <2>1. status' = status \/ (status'.event = event' /\ event' = event + 1)
      BY <1>2 DEF Copy, Say, Happens
    <2> QED
      BY <1>0, <1>2, <2>1, CopyStep
  <1>3. ASSUME NEW w \in writes, WriteLands(w) \/ WriteBlocked(w)
        PROVE  IInv' /\ status'.event >= status.event
    <2>1. status' = status
      BY <1>3 DEF WriteLands, WriteBlocked
    <2> QED
      BY <1>0, <1>3, <2>1, WriteStep
  <1>4. CASE UNCHANGED vars
    BY <1>0, <1>4 DEF vars, IInv, TypeOK, NoStaleResult, Order, Current, Settled
  <1> QED
    BY <1>1, <1>2, <1>3, <1>4, AnswerStep DEF Next, Browser

(* The invariant is inductive.                                            *)
LEMMA Invariance == Spec => []IInv
PROOF
  BY IInvInit, IInvStep, PTL DEF Spec

(* Every variable stays in its type.                                       *)
THEOREM TypeCorrect == Spec => []TypeOK
PROOF
  <1>1. IInv => TypeOK
    BY DEF IInv
  <1> QED
    BY <1>1, Invariance, PTL

(* What can be copied or downloaded is what the page shows.                *)
THEOREM ResultIsFresh == Spec => []NoStaleResult
PROOF
  <1>1. IInv => NoStaleResult
    BY DEF IInv
  <1> QED
    BY <1>1, Invariance, PTL

(* Who reads `copied' has on the clipboard what the page shows.            *)
THEOREM CopiedIsTrue == Spec => []CopiedIsOnClipboard
PROOF
  <1>1. IInv => CopiedIsOnClipboard
    BY DEF IInv, Order, CopiedIsOnClipboard
  <1> QED
    BY <1>1, Invariance, PTL

(* The status line never goes back to an older event.                      *)
THEOREM StatusIsMonotone == Spec => StatusMovesForward
PROOF
  <1>1. IInv /\ [Next]_vars => [status'.event >= status.event]_vars
    BY IInvStep
  <1> QED
    BY <1>1, Invariance, PTL DEF Spec, StatusMovesForward

(* What the user did last is told, or it is a copy under way whose answer  *)
(* still counts: only the answer takes it out of the two sets, and then it *)
(* is told.                                                                *)
THEOREM LastIsTold == Spec => []NothingUntold
PROOF
  <1>1. Init => NothingUntold
    BY DEF Init, NothingUntold
  <1>2. IInv /\ NothingUntold /\ [Next]_vars => NothingUntold'
    <2> SUFFICES ASSUME IInv, NothingUntold, [Next]_vars
                 PROVE  NothingUntold'
      OBVIOUS
    <2> DEFINE Of(set) == {a.write : a \in set}
    <2>1. CASE LoadExample \/ Edit \/ Submit \/ Download
      <3>1. status'.event = event'
        BY <2>1 DEF LoadExample, Edit, Submit, Download, RenderPending, RenderResult,
                    RenderInputError, Say
      <3> QED
        BY <3>1 DEF NothingUntold
    <2>2. CASE Copy
      <3>1. CASE available
        <4>1. [event |-> event', revision |-> statusRevision', json |-> currentJson] \in writes'
          BY <2>2, <3>1 DEF Copy
        <4> QED
          BY <4>1 DEF NothingUntold
      <3>2. CASE ~available
        <4>1. status'.event = event'
          BY <2>2, <3>2 DEF Copy, Say
        <4> QED
          BY <4>1 DEF NothingUntold
      <3> QED
        BY <3>1, <3>2
    <2>3. ASSUME NEW w \in writes, WriteLands(w) \/ WriteBlocked(w)
          PROVE  NothingUntold'
      <3>1. UNCHANGED <<status, event, statusRevision>> /\ writes' = writes \ {w}
        BY <2>3 DEF WriteLands, WriteBlocked
      <3>2. PICK a : a.write = w /\ answers' = answers \cup {a}
        BY <2>3 DEF WriteLands, WriteBlocked
      <3>3. writes \cup Of(answers) \subseteq writes' \cup Of(answers')
        BY <3>1, <3>2
      <3> QED
        BY <3>1, <3>3 DEF NothingUntold
    <2>4. ASSUME NEW a \in answers, Answered(a)
          PROVE  NothingUntold'
      <3>1. UNCHANGED <<event, statusRevision, writes>> /\ answers' = answers \ {a}
        BY <2>4 DEF Answered
      <3>2. CASE a.write.revision = statusRevision
        <4>1. status'.event = a.write.event
          BY <2>4, <3>2 DEF Answered, Say
        <4>2. a.write.event = event
          <5>1. a.write.event \in Nat /\ event \in Nat
            BY SandboxAssumption DEF IInv, TypeOK, Copying
          <5> QED
            BY <3>2, <5>1 DEF IInv, Order, Current
        <4> QED
          BY <3>1, <4>1, <4>2 DEF NothingUntold
      <3>3. CASE a.write.revision # statusRevision
        <4>1. status' = status
          BY <2>4, <3>3 DEF Answered
        <4>2. \A w \in writes \cup Of(answers) :
                w.revision = statusRevision => w \in writes' \cup Of(answers')
          BY <3>1, <3>3
        <4> QED
          BY <3>1, <4>1, <4>2 DEF NothingUntold
      <3> QED
        BY <3>2, <3>3
    <2>5. CASE UNCHANGED vars
      BY <2>5 DEF vars, NothingUntold
    <2> QED
      BY <2>1, <2>2, <2>3, <2>4, <2>5 DEF Next, Browser
  <1> QED
    BY <1>1, <1>2, Invariance, PTL DEF Spec

=============================================================================
