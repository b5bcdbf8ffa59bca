-------------------------- MODULE TrafficGenerator --------------------------
(***************************************************************************)
(* TrafficGenerator: builds packets for interfaces of the database and     *)
(* hands them to an ISender that may fail to open and may fail any send.   *)
(*                                                                         *)
(* One step is one iteration of a call's loop, so that calls of open and   *)
(* close, and the sender's failures, fall anywhere between sends.  What a  *)
(* packet holds does not matter here, only whether it is empty: an         *)
(* interface with no reference that makes a field.                         *)
(***************************************************************************)
EXTENDS Loops

CONSTANTS
  Interfaces,   \* the interface database in key order: [name, dir, empty]
  UnknownName,  \* a name that is not in it
  Counts,       \* counts passed to sendLoop; 0 = until a send fails
  MaxCalls      \* bound: calls of the public methods

Interface == [name : STRING, dir : {"IN", "OUT"}, empty : BOOLEAN]

ASSUME GeneratorAssumption ==
  /\ Interfaces \in Seq(Interface)
  /\ \A k \in DOMAIN Interfaces : Interfaces[k].name # UnknownName
  /\ Counts \subseteq Nat /\ MaxCalls \in Nat

VARIABLES
  mOpen,
  sender,     \* does the sender hold its resource?
  call,       \* the call in progress: "none", "send", "loop" or "each"
  todo,       \* the interfaces it has yet to visit ("send" and "each")
  iface, i, count,  \* sendLoop's locals
  lastErr,    \* sendAll's and sendFiltered's local
  result,     \* what the last call returned
  calls

\* History: the sends of the current or last call that the sender was asked
\* for, each with its outcome.
VARIABLE log

vars == <<mOpen, sender, call, todo, iface, i, count, lastErr, result, calls, log>>

NoInterface == [name |-> "", dir |-> "IN", empty |-> TRUE]

Init ==
  /\ mOpen = FALSE /\ sender = FALSE /\ call = "none" /\ todo = <<>>
  /\ iface = NoInterface /\ i = 0 /\ count = 0
  /\ lastErr = "SUCCESS" /\ result = "none" /\ calls = 0 /\ log = <<>>

Ready == call = "none" /\ calls < MaxCalls /\ calls' = calls + 1
-----------------------------------------------------------------------------
(* open and close *)

\* mOpen is set by the first success and not reset by a later failure, which
\* leaves the sender without its resource.  (A second open replaces the
\* sender's descriptor without closing the first; descriptors are not counted
\* here.)
Open ==
  /\ Ready
  /\ \/ sender' = TRUE /\ mOpen' = TRUE /\ result' = "SUCCESS"
     \/ sender' = FALSE /\ result' = "NOT_OPEN" /\ UNCHANGED mOpen
  /\ log' = <<>>
  /\ UNCHANGED <<call, todo, iface, i, count, lastErr>>

\* Without effect unless the generator is open.
Close ==
  /\ Ready
  /\ mOpen' = FALSE /\ sender' = (sender /\ ~mOpen)
  /\ UNCHANGED <<call, todo, iface, i, count, lastErr, result, log>>
-----------------------------------------------------------------------------
(* sendOne *)

\* The error codes a call of sendOne(x) may return: the sender succeeds only
\* with its resource, and then it may still fail.
SendOneErr(x) ==
  IF x.empty THEN {"EMPTY_PACKET"}
  ELSE IF sender THEN {"SUCCESS", "SEND_FAILED"} ELSE {"SEND_FAILED"}

\* The sender saw the packet of x, unless there was none.
Logged(x, err) == IF err = "EMPTY_PACKET" THEN log ELSE Append(log, [name |-> x.name, err |-> err])
-----------------------------------------------------------------------------
(* send, sendFiltered, sendAll and sendLoop *)

\* A call that returns without entering its loop.
Return(err) ==
  /\ result' = err /\ log' = <<>>
  /\ UNCHANGED <<mOpen, sender, call, todo, iface, i, count, lastErr>>

Known == {Interfaces[k] : k \in DOMAIN Interfaces}

Lookup(name) == Filter(Interfaces, {x \in Known : x.name = name})

Directed(dirs) == Filter(Interfaces, {x \in Known : x.dir \in dirs})

AnyName == {x.name : x \in Known} \cup {UnknownName}

DirSets == {{"IN"}, {"OUT"}, {"IN", "OUT"}}

Send ==
  /\ Ready
  /\ \E name \in AnyName :
       \/ ~mOpen /\ Return("NOT_OPEN")
       \/ mOpen /\ Lookup(name) = <<>> /\ Return("IFACE_NOT_FOUND")
       \/ /\ mOpen /\ Lookup(name) # <<>>
          /\ call' = "send" /\ todo' = Lookup(name) /\ log' = <<>>
          /\ UNCHANGED <<mOpen, sender, iface, i, count, lastErr, result>>

\* sendAll, and sendFiltered for a direction.
SendEach ==
  /\ Ready
  /\ \E dirs \in DirSets :
       \/ ~mOpen /\ Return("NOT_OPEN")
       \/ /\ mOpen
          /\ call' = "each" /\ todo' = Directed(dirs)
          /\ lastErr' = "SUCCESS" /\ log' = <<>>
          /\ UNCHANGED <<mOpen, sender, iface, i, count, result>>

SendLoop ==
  /\ Ready
  /\ \E name \in AnyName, n \in Counts :
       \/ ~mOpen /\ Return("NOT_OPEN")
       \/ mOpen /\ Lookup(name) = <<>> /\ Return("IFACE_NOT_FOUND")
       \/ /\ mOpen /\ Lookup(name) # <<>>
          /\ call' = "loop" /\ iface' = Head(Lookup(name)) /\ i' = 0 /\ count' = n /\ log' = <<>>
          /\ UNCHANGED <<mOpen, sender, todo, lastErr, result>>

\* send() returns what sendOne returns.
SendStep ==
  /\ call = "send"
  /\ \E err \in SendOneErr(Head(todo)) : result' = err /\ log' = Logged(Head(todo), err)
  /\ call' = "none" /\ todo' = <<>>
  /\ UNCHANGED <<mOpen, sender, iface, i, count, lastErr, calls>>

\* Faulty variant: a later success hides an earlier failure.
NextLastErrOverwritten(err) == err

\* An empty packet is no error, and a success does not reset lastErr.
NextLastErr(err) == IF err \in {"SUCCESS", "EMPTY_PACKET"} THEN lastErr ELSE err

\* One interface of the database, whatever happened to the ones before.
EachStep ==
  /\ call = "each" /\ todo # <<>>
  /\ \E err \in SendOneErr(Head(todo)) :
       /\ lastErr' = NextLastErr(err) /\ todo' = Tail(todo)
       /\ log' = Logged(Head(todo), err)
  /\ UNCHANGED <<mOpen, sender, call, iface, i, count, result, calls>>

EachEnd ==
  /\ call = "each" /\ todo = <<>>
  /\ result' = lastErr /\ call' = "none"
  /\ UNCHANGED <<mOpen, sender, todo, iface, i, count, lastErr, calls, log>>

\* Faulty variant: one iteration too many.
LoopGoesOnTooLong == count = 0 \/ i <= count

LoopGoesOn == count = 0 \/ i < count

\* Faulty variant: the loop counts packets sent, not iterations.
LoopCounterSentOnly(err) == IF err = "SUCCESS" THEN i + 1 ELSE i

LoopCounter(err) == i + 1

LoopReturns(err) == err = "SEND_FAILED"

\* Only SEND_FAILED leaves the loop.  The counter of an endless loop is of no
\* consequence and stays 0.
LoopStep ==
  /\ call = "loop" /\ LoopGoesOn
  /\ \E err \in SendOneErr(iface) :
       /\ log' = IF count = 0 THEN <<>> ELSE Logged(iface, err)
       /\ IF LoopReturns(err) THEN result' = err /\ call' = "none" /\ UNCHANGED i
          ELSE i' = (IF count = 0 THEN 0 ELSE LoopCounter(err)) /\ UNCHANGED <<result, call>>
  /\ UNCHANGED <<mOpen, sender, todo, iface, count, lastErr, calls>>

LoopEnd ==
  /\ call = "loop" /\ ~LoopGoesOn
  /\ result' = "SUCCESS" /\ call' = "none"
  /\ UNCHANGED <<mOpen, sender, todo, iface, i, count, lastErr, calls, log>>

Step == SendStep \/ EachStep \/ EachEnd \/ LoopStep \/ LoopEnd

Next == Open \/ Close \/ Send \/ SendEach \/ SendLoop \/ Step

Spec == Init /\ [][Next]_vars

\* A call runs to its end; the sender's send() returns.
FairSpec == Spec /\ WF_vars(Step)
-----------------------------------------------------------------------------
(* Properties *)

Errs == {"SUCCESS", "NOT_OPEN", "SEND_FAILED", "IFACE_NOT_FOUND", "EMPTY_PACKET"}

\* Every variable has its type; a sendLoop of count iterations stays within
\* them.
TypeOK ==
  /\ mOpen \in BOOLEAN /\ sender \in BOOLEAN
  /\ call \in {"none", "send", "loop", "each"} /\ calls \in 0 .. MaxCalls
  /\ \A k \in DOMAIN todo : todo[k] \in Known
  /\ count \in Counts \cup {0} /\ i \in 0 .. count
  /\ lastErr \in Errs /\ result \in Errs \cup {"none"}

Names(q) == [k \in DOMAIN q |-> q[k].name]

AnyFailed == \E k \in DOMAIN log : log[k].err = "SEND_FAILED"

\* What holds when a call of send, sendAll or sendFiltered returns: failures are
\* reported, and the last two have sent for everything there is to send for.
Reported ==
  call \in {"send", "each"} /\ call' = "none" => (result' = "SEND_FAILED" <=> AnyFailed')

Tried ==
  call = "each" /\ call' = "none" =>
    \E dirs \in DirSets :
      Names(log) = Names(Filter(Interfaces, {x \in Known : x.dir \in dirs /\ ~x.empty}))

\* sendAll and sendFiltered visit every interface once, in order, past failed
\* ones: at their end the sender has seen exactly the non-empty ones.  And a
\* packet the sender refused is reported: the result of these calls, and of
\* send, is SEND_FAILED exactly when one of the sends failed, however many
\* succeeded after it and whatever open() and close() calls came before.
TriedAndReported == [][Reported /\ Tried]_vars

\* sendLoop with a count returns; so do send, sendAll and sendFiltered.
CallsReturn == (call # "none" /\ ~(call = "loop" /\ count = 0)) ~> call = "none"
=============================================================================
