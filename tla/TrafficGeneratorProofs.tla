----------------------- MODULE TrafficGeneratorProofs -----------------------
(***************************************************************************)
(* TrafficGenerator is correct for every interface database, every set of  *)
(* counts and any number of calls: its type invariant, and that sendAll    *)
(* and sendFiltered try every interface and report every failure.          *)
(*                                                                         *)
(* The invariant splits the interfaces that a call of sendAll or           *)
(* sendFiltered has to send for: the names the sender has been asked for,  *)
(* followed by those of the non-empty interfaces still to visit, are the   *)
(* names of the non-empty interfaces of the direction; and lastErr is      *)
(* SEND_FAILED exactly when a send so far has failed.                      *)
(***************************************************************************)
EXTENDS TrafficGenerator, SequenceLemmas

NonEmptyOnes == {x \in Known : ~x.empty}

\* The interfaces that a call for these directions has to send for.
Due(dirs) == Filter(Interfaces, {x \in Known : x.dir \in dirs /\ ~x.empty})

Entry == [name : STRING, err : {"SUCCESS", "SEND_FAILED"}]

Types ==
  /\ mOpen \in BOOLEAN /\ sender \in BOOLEAN /\ calls \in 0 .. MaxCalls
  /\ call \in {"none", "send", "loop", "each"}
  /\ todo \in Seq(Known) /\ (call = "loop" => iface \in Interface)
  /\ count \in Counts \cup {0} /\ i \in 0 .. count
  /\ lastErr \in {"SUCCESS", "SEND_FAILED"} /\ result \in Errs \cup {"none"}
  /\ log \in Seq(Entry)

\* What a call in progress has done and has yet to do.
CallInv ==
  /\ call = "send" => todo # <<>> /\ log = <<>>
  /\ call = "each" =>
       /\ lastErr = "SEND_FAILED" <=> AnyFailed
       /\ \E dirs \in DirSets : Names(log) \o Names(Filter(todo, NonEmptyOnes)) = Names(Due(dirs))

\* The inductive invariant.
IInv == Types /\ CallInv
-----------------------------------------------------------------------------
\* The interfaces of the database are interfaces.
LEMMA KnownInterfaces ==
  /\ Interfaces \in Seq(Known) /\ Known \subseteq Interface
  /\ \A x \in Known : x.name \in STRING /\ x.empty \in BOOLEAN
<1>1. Interfaces \in Seq(Interface)
  BY GeneratorAssumption
<1>2. \A k \in DOMAIN Interfaces : Interfaces[k] \in Known
  BY DEF Known
<1>3. Interfaces \in Seq(Known)
  BY <1>1, <1>2
<1>4. Known \subseteq Interface
  BY <1>1 DEF Known
<1>5. \A x \in Interface : x.name \in STRING /\ x.empty \in BOOLEAN
  BY DEF Interface
<1> QED
  BY <1>3, <1>4, <1>5

\* The names of a sequence are a sequence of names.
LEMMA NamesType ==
  ASSUME NEW R, NEW q \in Seq(R), \A x \in R : x.name \in STRING
  PROVE  Names(q) \in Seq(STRING) /\ Len(Names(q)) = Len(q)
<1>1. DOMAIN q = 1 .. Len(q) /\ Len(q) \in Nat /\ \A k \in 1 .. Len(q) : q[k] \in R
  OBVIOUS
<1>2. Names(q) = [k \in 1 .. Len(q) |-> q[k].name]
  BY <1>1 DEF Names
<1>3. \A k \in 1 .. Len(q) : q[k].name \in STRING
  BY <1>1
<1> QED
  BY <1>1, <1>2, <1>3

\* The names of no elements.
LEMMA NamesEmpty == Names(<<>>) = <<>>
BY DEF Names

\* The names of one element more.
LEMMA NamesAppend ==
  ASSUME NEW R, NEW q \in Seq(R), NEW x \in R, \A y \in R : y.name \in STRING
  PROVE  Names(Append(q, x)) = Append(Names(q), x.name)
<1> DEFINE p == Append(q, x)
           u == Names(p)
           v == Append(Names(q), x.name)
<1>1. p \in Seq(R) /\ Len(p) = Len(q) + 1 /\ Len(q) \in Nat
      /\ DOMAIN p = 1 .. Len(q) + 1 /\ DOMAIN q = 1 .. Len(q)
      /\ p[Len(q) + 1] = x /\ \A k \in 1 .. Len(q) : p[k] = q[k]
  OBVIOUS
<1>2. x.name \in STRING /\ Names(q) \in Seq(STRING) /\ Len(Names(q)) = Len(q)
  BY NamesType
<1> HIDE DEF p
<1>3. u \in Seq(STRING) /\ Len(u) = Len(q) + 1
  BY <1>1, NamesType
<1>4. v \in Seq(STRING) /\ Len(v) = Len(q) + 1
  BY <1>2
<1>5. \A k \in 1 .. Len(q) + 1 : u[k] = v[k]
  <2>1. \A k \in 1 .. Len(q) + 1 : u[k] = p[k].name
    BY <1>1 DEF Names
  <2>2. \A k \in 1 .. Len(q) : Names(q)[k] = q[k].name
    BY <1>1 DEF Names
  <2>3. \A k \in 1 .. Len(q) : v[k] = Names(q)[k]
    BY <1>1, <1>2
  <2>4. v[Len(q) + 1] = x.name
    BY <1>2
  <2> HIDE DEF u, v
  <2> QED
    BY <1>1, <2>1, <2>2, <2>3, <2>4
<1>6. u = v
  <2> HIDE DEF u, v
  <2> QED
    BY <1>1, <1>3, <1>4, <1>5, SeqEqual
<1> QED
  BY <1>6 DEF p

\* The names of an element followed by others.
LEMMA NamesCons ==
  ASSUME NEW R, NEW q \in Seq(R), NEW x \in R, \A y \in R : y.name \in STRING
  PROVE  Names(<<x>> \o q) = <<x.name>> \o Names(q)
<1> DEFINE p == <<x>> \o q
           u == Names(p)
           v == <<x.name>> \o Names(q)
<1>1. p \in Seq(R) /\ Len(p) = Len(q) + 1 /\ Len(q) \in Nat
      /\ DOMAIN p = 1 .. Len(q) + 1 /\ DOMAIN q = 1 .. Len(q)
      /\ p[1] = x /\ \A k \in 2 .. Len(q) + 1 : p[k] = q[k - 1]
  OBVIOUS
<1>2. x.name \in STRING /\ Names(q) \in Seq(STRING) /\ Len(Names(q)) = Len(q)
  BY NamesType
<1> HIDE DEF p
<1>3. u \in Seq(STRING) /\ Len(u) = Len(q) + 1
  BY <1>1, NamesType
<1>4. v \in Seq(STRING) /\ Len(v) = Len(q) + 1
  BY <1>2
<1>5. \A k \in 1 .. Len(q) + 1 : u[k] = v[k]
  <2>1. \A k \in 1 .. Len(q) + 1 : u[k] = p[k].name
    BY <1>1 DEF Names
  <2>2. \A k \in 1 .. Len(q) : Names(q)[k] = q[k].name
    BY <1>1 DEF Names
  <2>3. (\A k \in 2 .. Len(q) + 1 : v[k] = Names(q)[k - 1]) /\ v[1] = x.name
    <3> DEFINE y == x.name
               z == Names(q)
    <3>1. y \in STRING /\ z \in Seq(STRING) /\ Len(z) = Len(q) /\ Len(q) \in Nat
      BY <1>1, <1>2
    <3> HIDE DEF y, z
    <3>2. (<<y>> \o z)[1] = y /\ \A k \in 2 .. Len(z) + 1 : (<<y>> \o z)[k] = z[k - 1]
      BY <3>1
    <3> QED
      BY <3>1, <3>2 DEF y, z
  <2> HIDE DEF u, v
  <2> QED
    <3> TAKE k \in 1 .. Len(q) + 1
    <3>1. CASE k = 1
      BY <1>1, <2>1, <2>3, <3>1
    <3>2. CASE k # 1
      <4>1. k \in 2 .. Len(q) + 1 /\ k - 1 \in 1 .. Len(q)
        BY <1>1, <3>2
      <4> QED
        BY <1>1, <2>1, <2>2, <2>3, <4>1
    <3> QED
      BY <3>1, <3>2
<1>6. u = v
  <2> HIDE DEF u, v
  <2> QED
    BY <1>1, <1>3, <1>4, <1>5, SeqEqual
<1> QED
  BY <1>6 DEF p
-----------------------------------------------------------------------------
\* Of the interfaces of a direction, those not empty are the ones due.
LEMMA DueOfDirected ==
  ASSUME NEW dirs
  PROVE  Filter(Directed(dirs), NonEmptyOnes) = Due(dirs)
<1> DEFINE T == {x \in Known : x.dir \in dirs}
           U == {x \in Known : x.dir \in dirs /\ ~x.empty}
<1>1. T \cap NonEmptyOnes = U
  BY DEF NonEmptyOnes
<1>2. Directed(dirs) = Filter(Interfaces, T) /\ Due(dirs) = Filter(Interfaces, U)
  BY DEF Directed, Due
<1> HIDE DEF T, U
<1>3. Filter(Filter(Interfaces, T), NonEmptyOnes) = Filter(Interfaces, T \cap NonEmptyOnes)
  BY KnownInterfaces, FilterFilter
<1> QED
  BY <1>1, <1>2, <1>3

\* What sendOne returns for an interface, and what it leaves in the log.
LEMMA SendOneTypes ==
  ASSUME Types, NEW x \in Interface, NEW err \in SendOneErr(x)
  PROVE  /\ err \in {"SUCCESS", "SEND_FAILED", "EMPTY_PACKET"}
         /\ err = "EMPTY_PACKET" <=> x.empty
         /\ ~x.empty => [name |-> x.name, err |-> err] \in Entry
         /\ Logged(x, err) \in Seq(Entry)
<1>1. x.name \in STRING /\ x.empty \in BOOLEAN
  BY DEF Interface
<1>2. err \in {"SUCCESS", "SEND_FAILED", "EMPTY_PACKET"} /\ (err = "EMPTY_PACKET" <=> x.empty)
  BY <1>1 DEF SendOneErr
<1>3. ~x.empty => [name |-> x.name, err |-> err] \in Entry
  BY <1>1, <1>2 DEF Entry
<1>4. Logged(x, err) \in Seq(Entry)
  BY <1>2, <1>3 DEF Logged, Types
<1> QED
  BY <1>2, <1>3, <1>4

\* A send more: the log has a failure if it had one or if this one failed.
LEMMA FailedAppend ==
  ASSUME log \in Seq(Entry), NEW e \in Entry, log' = Append(log, e)
  PROVE  AnyFailed' <=> AnyFailed \/ e.err = "SEND_FAILED"
<1>1. /\ DOMAIN log = 1 .. Len(log) /\ Len(log) \in Nat
      /\ DOMAIN log' = 1 .. Len(log) + 1 /\ log'[Len(log) + 1] = e
      /\ \A k \in 1 .. Len(log) : log'[k] = log[k]
  OBVIOUS
<1>2. ASSUME AnyFailed' PROVE AnyFailed \/ e.err = "SEND_FAILED"
  <2>1. PICK k \in 1 .. Len(log) + 1 : log'[k].err = "SEND_FAILED"
    BY <1>1, <1>2 DEF AnyFailed
  <2>2. CASE k = Len(log) + 1
    BY <1>1, <2>1, <2>2
  <2>3. CASE k # Len(log) + 1
    <3>1. k \in 1 .. Len(log)
      BY <1>1, <2>3
    <3> QED
      BY <1>1, <2>1, <3>1 DEF AnyFailed
  <2> QED
    BY <2>2, <2>3
<1>3. ASSUME AnyFailed PROVE AnyFailed'
  <2>1. PICK k \in 1 .. Len(log) : log[k].err = "SEND_FAILED"
    BY <1>1, <1>3 DEF AnyFailed
  <2>2. k \in 1 .. Len(log) + 1 /\ log'[k].err = "SEND_FAILED"
    BY <1>1, <2>1
  <2> QED
    BY <1>1, <2>2 DEF AnyFailed
<1>4. ASSUME e.err = "SEND_FAILED" PROVE AnyFailed'
  <2>1. Len(log) + 1 \in 1 .. Len(log) + 1 /\ log'[Len(log) + 1].err = "SEND_FAILED"
    BY <1>1, <1>4
  <2> QED
    BY <1>1, <2>1 DEF AnyFailed
<1> QED
  BY <1>2, <1>3, <1>4

\* One interface more of sendAll or sendFiltered.
LEMMA EachStepInv ==
  ASSUME IInv, EachStep
  PROVE  IInv'
<1> DEFINE x == Head(todo)
           F == Filter(todo, NonEmptyOnes)
           G == Filter(Tail(todo), NonEmptyOnes)
<1>1. Types /\ CallInv /\ call = "each" /\ todo # <<>>
  BY DEF IInv, EachStep
<1>2. PICK err \in SendOneErr(x) :
        /\ lastErr' = NextLastErr(err) /\ todo' = Tail(todo) /\ log' = Logged(x, err)
  BY DEF EachStep
<1>3. UNCHANGED <<mOpen, sender, call, iface, i, count, result, calls>>
  BY DEF EachStep
<1>4. x \in Known /\ x \in Interface /\ todo \in Seq(Known) /\ Tail(todo) \in Seq(Known)
  BY <1>1, KnownInterfaces DEF Types
<1>5. /\ err \in {"SUCCESS", "SEND_FAILED", "EMPTY_PACKET"}
      /\ err = "EMPTY_PACKET" <=> x.empty
      /\ ~x.empty => [name |-> x.name, err |-> err] \in Entry
      /\ Logged(x, err) \in Seq(Entry)
  BY <1>1, <1>4, SendOneTypes
<1>6. Types'
  <2>1. lastErr' \in {"SUCCESS", "SEND_FAILED"}
    BY <1>1, <1>2, <1>5 DEF Types, NextLastErr
  <2> QED
    BY <1>1, <1>2, <1>3, <1>4, <1>5, <2>1 DEF Types
<1>7. x \in NonEmptyOnes <=> ~x.empty
  BY <1>4 DEF NonEmptyOnes
<1>8. F = IF x \in NonEmptyOnes THEN <<x>> \o G ELSE G
  BY <1>1, <1>4, FilterCons
<1>9. F \in Seq(Known) /\ G \in Seq(Known)
  BY <1>4, FilterType
<1>10. PICK dirs \in DirSets : Names(log) \o Names(F) = Names(Due(dirs))
  BY <1>1 DEF CallInv
<1>11. NonEmptyOnes' = NonEmptyOnes /\ Due(dirs)' = Due(dirs) /\ Filter(todo', NonEmptyOnes) = G
  BY <1>2 DEF NonEmptyOnes, Due
<1> HIDE DEF x, F, G
<1>12. CASE x.empty
  <2>1. log' = log /\ lastErr' = lastErr /\ F = G
    BY <1>2, <1>5, <1>7, <1>8, <1>12 DEF Logged, NextLastErr
  <2>2. AnyFailed' <=> AnyFailed
    BY <2>1 DEF AnyFailed
  <2>3. Names(log') = Names(log)
    BY <2>1
  <2> QED
    BY <1>1, <1>3, <1>6, <1>10, <1>11, <2>1, <2>2, <2>3 DEF CallInv, IInv
<1>13. CASE ~x.empty
  <2> DEFINE e == [name |-> x.name, err |-> err]
  <2>1. e \in Entry /\ e.err = err /\ e.name = x.name /\ log \in Seq(Entry)
    BY <1>1, <1>5, <1>13 DEF Types
  <2>2. log' = Append(log, e) /\ F = <<x>> \o G
    BY <1>2, <1>5, <1>7, <1>8, <1>13 DEF Logged
  <2> HIDE DEF e
  <2>3. AnyFailed' <=> AnyFailed \/ err = "SEND_FAILED"
    BY <2>1, <2>2, FailedAppend
  <2>4. lastErr' = "SEND_FAILED" <=> AnyFailed'
    BY <1>1, <1>2, <1>5, <1>13, <2>3 DEF NextLastErr, CallInv
  <2>5. \A y \in Entry : y.name \in STRING
    BY DEF Entry
  <2>6. Names(log') = Append(Names(log), x.name) /\ Names(log) \in Seq(STRING)
    BY <2>1, <2>2, <2>5, NamesAppend, NamesType
  <2>7. Names(F) = <<x.name>> \o Names(G) /\ Names(G) \in Seq(STRING) /\ x.name \in STRING
    BY <1>4, <1>9, <2>2, KnownInterfaces, NamesCons, NamesType
  <2>8. Names(log) \o Names(F) = Names(log') \o Names(G)
    <3> DEFINE a == Names(log)
               n == x.name
               c == Names(G)
    <3>1. a \in Seq(STRING) /\ n \in STRING /\ c \in Seq(STRING)
      BY <2>6, <2>7
    <3> HIDE DEF a, n, c
    <3>2. a \o (<<n>> \o c) = Append(a, n) \o c
      <4>1. (a \o <<>>) \o (<<n>> \o c) = (a \o <<n>>) \o c
        BY <3>1, EnterFlight
      <4>2. a \o <<>> = a
        BY <3>1, ConcatEmptySeq
      <4>3. Append(a, n) = a \o <<n>>
        BY <3>1, AppendIsConcat
      <4> QED
        BY <4>1, <4>2, <4>3, Zenon
    <3> QED
      BY <2>6, <2>7, <3>2 DEF a, n, c
  <2> QED
    BY <1>1, <1>3, <1>6, <1>10, <1>11, <2>4, <2>8 DEF CallInv, IInv
<1> QED
  BY <1>5, <1>12, <1>13

\* sendAll and sendFiltered start with everything to do.
LEMMA SendEachInv ==
  ASSUME IInv, NEW dirs \in DirSets, call' = "each", todo' = Directed(dirs),
         lastErr' = "SUCCESS", log' = <<>>, calls' \in 0 .. MaxCalls,
         UNCHANGED <<mOpen, sender, iface, i, count, result>>
  PROVE  IInv'
<1>1. Directed(dirs) \in Seq(Known)
  BY KnownInterfaces, FilterType DEF Directed
<1>2. Types'
  BY <1>1 DEF IInv, Types
<1>3. ~AnyFailed'
  BY DEF AnyFailed
<1>4. Names(log') \o Names(Filter(todo', NonEmptyOnes)) = Names(Due(dirs))
  <2>1. Filter(todo', NonEmptyOnes) = Due(dirs)
    BY DueOfDirected
  <2>2. Names(log') = <<>>
    BY NamesEmpty
  <2>3. Names(Due(dirs)) \in Seq(STRING)
    <3>1. Due(dirs) \in Seq(Known)
      BY KnownInterfaces, FilterType DEF Due
    <3> QED
      BY <3>1, KnownInterfaces, NamesType
  <2>4. <<>> \o Names(Due(dirs)) = Names(Due(dirs))
    BY <2>3
  <2> QED
    BY <2>1, <2>2, <2>4
<1>5. NonEmptyOnes' = NonEmptyOnes /\ Due(dirs)' = Due(dirs)
  BY DEF NonEmptyOnes, Due
<1> QED
  BY <1>2, <1>3, <1>4, <1>5 DEF IInv, CallInv

\* The invariant holds initially.
LEMMA InitIInv == Init => IInv
<1> SUFFICES ASSUME Init PROVE IInv
  OBVIOUS
<1>1. 0 \in 0 .. MaxCalls /\ 0 \in 0 .. 0 /\ <<>> \in Seq(Known) /\ <<>> \in Seq(Entry)
  BY GeneratorAssumption
<1>3. Types
  BY <1>1, Zenon DEF Init, Types, Errs
<1> QED
  BY <1>3 DEF Init, IInv, CallInv

\* A call that returns at once leaves nothing in progress.
LEMMA ReturnInv ==
  ASSUME IInv, Ready, NEW err \in Errs, Return(err)
  PROVE  IInv'
<1>1. calls' \in 0 .. MaxCalls /\ call = "none"
  BY GeneratorAssumption DEF IInv, Types, Ready
<1>2. Types'
  BY <1>1 DEF IInv, Types, Return
<1> QED
  BY <1>1, <1>2 DEF IInv, CallInv, Return

\* Every step preserves it.
LEMMA NextIInv == IInv /\ [Next]_vars => IInv'
<1> SUFFICES ASSUME IInv, [Next]_vars PROVE IInv'
  OBVIOUS
<1>0. Types /\ CallInv
  BY DEF IInv
<1>a. Ready => call = "none" /\ calls' \in 0 .. MaxCalls
  BY <1>0, GeneratorAssumption DEF Types, Ready
<1>1. CASE Open
  <2>1. Types'
    <3>1. sender' \in BOOLEAN /\ mOpen' \in BOOLEAN
      BY <1>0, <1>1, Zenon DEF Types, Open
    <3>2. result' \in Errs /\ log' = <<>> /\ UNCHANGED <<call, todo, iface, i, count, lastErr>>
      BY <1>1 DEF Open, Errs
    <3>3. calls' \in 0 .. MaxCalls
      BY <1>1, <1>a DEF Open
    <3> QED
      BY <1>0, <3>1, <3>2, <3>3 DEF Types
  <2> QED
    BY <1>1, <1>a, <2>1 DEF Open, IInv, CallInv
<1>2. CASE Close
  <2>1. Types'
    BY <1>0, <1>2, <1>a DEF Types, Close
  <2> QED
    BY <1>2, <1>a, <2>1 DEF Close, IInv, CallInv
<1>3. CASE Send
  <2>1. PICK name \in AnyName :
          \/ ~mOpen /\ Return("NOT_OPEN")
          \/ mOpen /\ Lookup(name) = <<>> /\ Return("IFACE_NOT_FOUND")
          \/ /\ mOpen /\ Lookup(name) # <<>>
             /\ call' = "send" /\ todo' = Lookup(name) /\ log' = <<>>
             /\ UNCHANGED <<mOpen, sender, iface, i, count, lastErr, result>>
    BY <1>3 DEF Send
  <2>2. ASSUME NEW err \in Errs, Return(err) PROVE IInv'
    BY <1>3, <2>2, ReturnInv DEF Send
  <2>3. ASSUME Lookup(name) # <<>>, call' = "send", todo' = Lookup(name), log' = <<>>,
               UNCHANGED <<mOpen, sender, iface, i, count, lastErr, result>>
        PROVE  IInv'
    <3>1. Lookup(name) \in Seq(Known)
      BY KnownInterfaces, FilterType DEF Lookup
    <3>2. calls' \in 0 .. MaxCalls
      BY <1>3, <1>a DEF Send
    <3>3. Types'
      BY <1>0, <2>3, <3>1, <3>2 DEF Types
    <3> QED
      BY <2>3, <3>3 DEF IInv, CallInv
  <2> QED
    BY <2>1, <2>2, <2>3 DEF Errs
<1>4. CASE SendEach
  <2>1. PICK dirs \in DirSets :
          \/ ~mOpen /\ Return("NOT_OPEN")
          \/ /\ mOpen
             /\ call' = "each" /\ todo' = Directed(dirs)
             /\ lastErr' = "SUCCESS" /\ log' = <<>>
             /\ UNCHANGED <<mOpen, sender, iface, i, count, result>>
    BY <1>4 DEF SendEach
  <2>2. ASSUME NEW err \in Errs, Return(err) PROVE IInv'
    BY <1>4, <2>2, ReturnInv DEF SendEach
  <2>3. calls' \in 0 .. MaxCalls
    BY <1>4, <1>a DEF SendEach
  <2> QED
    BY <2>1, <2>2, <2>3, SendEachInv DEF Errs
<1>5. CASE SendLoop
  <2>1. PICK name \in AnyName, n \in Counts :
          \/ ~mOpen /\ Return("NOT_OPEN")
          \/ mOpen /\ Lookup(name) = <<>> /\ Return("IFACE_NOT_FOUND")
          \/ /\ mOpen /\ Lookup(name) # <<>>
             /\ call' = "loop" /\ iface' = Head(Lookup(name)) /\ i' = 0 /\ count' = n /\ log' = <<>>
             /\ UNCHANGED <<mOpen, sender, todo, lastErr, result>>
    BY <1>5 DEF SendLoop
  <2>2. ASSUME NEW err \in Errs, Return(err) PROVE IInv'
    BY <1>5, <2>2, ReturnInv DEF SendLoop
  <2>3. ASSUME Lookup(name) # <<>>, call' = "loop", iface' = Head(Lookup(name)), i' = 0,
               count' = n, log' = <<>>, UNCHANGED <<mOpen, sender, todo, lastErr, result>>
        PROVE  IInv'
    <3>1. Head(Lookup(name)) \in Interface
      <4>1. Lookup(name) \in Seq(Known)
        BY KnownInterfaces, FilterType DEF Lookup
      <4>2. Head(Lookup(name)) \in Known
        BY <2>3, <4>1
      <4> QED
        BY <4>2, KnownInterfaces
    <3>2. calls' \in 0 .. MaxCalls
      BY <1>5, <1>a DEF SendLoop
    <3>3. Types'
      BY <1>0, <2>3, <3>1, <3>2, GeneratorAssumption DEF Types
    <3> QED
      BY <2>3, <3>3 DEF IInv, CallInv
  <2> QED
    BY <2>1, <2>2, <2>3 DEF Errs
<1>6. CASE SendStep
  <2> DEFINE x == Head(todo)
  <2>1. PICK err \in SendOneErr(x) : result' = err /\ log' = Logged(x, err)
    BY <1>6 DEF SendStep
  <2>2. x \in Interface
    BY <1>0, <1>6, KnownInterfaces DEF SendStep, CallInv, Types
  <2>3. err \in {"SUCCESS", "SEND_FAILED", "EMPTY_PACKET"} /\ Logged(x, err) \in Seq(Entry)
    BY <1>0, <2>2, SendOneTypes
  <2>4. Types'
    BY <1>0, <1>6, <2>1, <2>3 DEF Types, SendStep, Errs
  <2> QED
    BY <1>6, <2>4 DEF SendStep, IInv, CallInv
<1>7. CASE EachStep
  BY <1>7, EachStepInv
<1>8. CASE EachEnd
  <2>1. Types'
    BY <1>0, <1>8 DEF Types, EachEnd, Errs
  <2> QED
    BY <1>8, <2>1 DEF EachEnd, IInv, CallInv
<1>9. CASE LoopStep
  <2>1. PICK err \in SendOneErr(iface) :
          /\ log' = IF count = 0 THEN <<>> ELSE Logged(iface, err)
          /\ IF LoopReturns(err) THEN result' = err /\ call' = "none" /\ UNCHANGED i
             ELSE i' = (IF count = 0 THEN 0 ELSE LoopCounter(err)) /\ UNCHANGED <<result, call>>
    BY <1>9 DEF LoopStep
  <2>2. err \in {"SUCCESS", "SEND_FAILED", "EMPTY_PACKET"} /\ Logged(iface, err) \in Seq(Entry)
    BY <1>0, <1>9, SendOneTypes DEF Types, LoopStep
  <2>3. i' \in 0 .. count
    BY <1>0, <1>9, <2>1, GeneratorAssumption DEF Types, LoopStep, LoopGoesOn, LoopCounter
  <2>4. result' \in Errs \cup {"none"} /\ call' \in {"none", "loop"}
    BY <1>0, <1>9, <2>1, <2>2 DEF Types, LoopStep, Errs
  <2>5. log' \in Seq(Entry)
    BY <2>1, <2>2
  <2>6. UNCHANGED <<mOpen, sender, todo, iface, count, lastErr, calls>>
    BY <1>9 DEF LoopStep
  <2>7. Types'
    <3>1. iface \in Interface
      BY <1>0, <1>9 DEF Types, LoopStep
    <3> QED
      BY <1>0, <2>3, <2>4, <2>5, <2>6, <3>1 DEF Types
  <2> QED
    BY <2>4, <2>7 DEF IInv, CallInv
<1>10. CASE LoopEnd
  <2>1. Types'
    BY <1>0, <1>10 DEF Types, LoopEnd, Errs
  <2> QED
    BY <1>10, <2>1 DEF LoopEnd, IInv, CallInv
<1>11. CASE UNCHANGED vars
  BY <1>0, <1>11 DEF vars, Types, CallInv, IInv, AnyFailed, NonEmptyOnes, Due
<1> QED
  BY <1>1, <1>2, <1>3, <1>4, <1>5, <1>6, <1>7, <1>8, <1>9, <1>10, <1>11 DEF Next, Step

\* So it always holds.
LEMMA Invariance == Spec => []IInv
BY InitIInv, NextIInv, PTL DEF Spec

\* The type invariant; a sendLoop of count iterations never runs one more.
THEOREM TypeCorrectness == Spec => []TypeOK
<1>1. IInv => TypeOK
  <2> SUFFICES ASSUME IInv PROVE TypeOK
    OBVIOUS
  <2>1. \A k \in DOMAIN todo : todo[k] \in Known
    BY DEF IInv, Types
  <2>2. lastErr \in Errs
    BY DEF IInv, Types, Errs
  <2> QED
    BY <2>1, <2>2 DEF IInv, Types, TypeOK
<1> QED
  BY <1>1, Invariance, PTL

\* TrafficGenerator::sendAll, sendFiltered and send report a failed send however
\* many succeed after it, and the first two try every non-empty interface, once
\* and in order, for every database.
THEOREM FailuresReported == Spec => TriedAndReported
<1>1. IInv /\ [Next]_vars => [Reported /\ Tried]_vars
  <2> SUFFICES ASSUME IInv, Next PROVE Reported /\ Tried
    OBVIOUS
  <2> USE DEF Reported, Tried
  <2>0. Types /\ CallInv
    BY DEF IInv
  <2>1. CASE SendStep
    <3> DEFINE x == Head(todo)
    <3>1. PICK err \in SendOneErr(x) : result' = err /\ log' = Logged(x, err)
      BY <2>1 DEF SendStep
    <3>2. call = "send" /\ log = <<>> /\ x \in Interface
      BY <2>0, <2>1, KnownInterfaces DEF SendStep, CallInv, Types
    <3>3. /\ err \in {"SUCCESS", "SEND_FAILED", "EMPTY_PACKET"}
          /\ err = "EMPTY_PACKET" <=> x.empty
          /\ ~x.empty => [name |-> x.name, err |-> err] \in Entry
      BY <2>0, <3>2, SendOneTypes
    <3>4. ~AnyFailed
      BY <3>2 DEF AnyFailed
    <3>5. CASE err = "EMPTY_PACKET"
      BY <3>1, <3>2, <3>4, <3>5 DEF Logged, AnyFailed
    <3>6. CASE err # "EMPTY_PACKET"
      <4> DEFINE e == [name |-> x.name, err |-> err]
      <4>1. e \in Entry /\ e.err = err /\ log' = Append(log, e) /\ log \in Seq(Entry)
        BY <2>0, <3>1, <3>3, <3>6 DEF Logged, Types
      <4> HIDE DEF e, x
      <4>2. AnyFailed' <=> AnyFailed \/ err = "SEND_FAILED"
        BY <4>1, FailedAppend
      <4> QED
        BY <3>1, <3>2, <3>4, <4>2
    <3> QED
      BY <3>5, <3>6
  <2>2. CASE EachEnd
    <3>1. call = "each" /\ todo = <<>> /\ result' = lastErr /\ log' = log
      BY <2>2 DEF EachEnd
    <3>2. AnyFailed' <=> AnyFailed
      BY <3>1 DEF AnyFailed
    <3>3. PICK dirs \in DirSets : Names(log) \o Names(Filter(todo, NonEmptyOnes)) = Names(Due(dirs))
      BY <2>0, <3>1 DEF CallInv
    <3>4. Names(Filter(todo, NonEmptyOnes)) = <<>>
      BY <3>1, FilterEmpty, NamesEmpty
    <3>5. Names(log) \in Seq(STRING)
      <4>1. \A y \in Entry : y.name \in STRING
        BY DEF Entry
      <4> QED
        BY <2>0, <4>1, NamesType DEF Types
    <3>6. Names(log) \o <<>> = Names(log)
      BY <3>5
    <3>7. Names(log) = Names(Due(dirs))
      BY <3>3, <3>4, <3>6
    <3> QED
      <4>1. Reported
        BY <2>0, <3>1, <3>2 DEF CallInv
      <4>2. Tried
        BY <3>7 DEF Due
      <4> QED
        BY <4>1, <4>2
  <2>3. CASE Open \/ Close \/ Send \/ SendEach \/ SendLoop
    BY <2>3 DEF Open, Close, Send, SendEach, SendLoop, Ready
  <2>4. CASE EachStep \/ LoopStep \/ LoopEnd
    BY <2>4 DEF EachStep, LoopStep, LoopEnd
  <2> QED
    BY <2>1, <2>2, <2>3, <2>4 DEF Next, Step
<1> QED
  BY <1>1, Invariance, PTL DEF Spec, TriedAndReported
=============================================================================
