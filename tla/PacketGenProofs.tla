-------------------------- MODULE PacketGenProofs --------------------------
(***************************************************************************)
(* Theorems about packet_gen, for any processes, command lines, interfaces *)
(* and bounds.  The invariant of a process (Proc, Gen) speaks of its own   *)
(* state alone, so that the steps of others keep it; that of the media     *)
(* says what of the generator's packets is where.                          *)
(***************************************************************************)
EXTENDS PacketGen, SequenceLemmas, TLAPS

\* The texts of arguments.  (The defaults are strings; the provers do not know.)
Text == STRING \cup {NoText, "json", "none", "warn"}

Queue == Seq(Frames)
Lines == Seq(Queue)
Socket == [open : BOOLEAN, queue : Queue]
Capture == [made : BOOLEAN, records : Queue]

Args ==
  [yamlDir : Text, iface : Text, count : Nat, output : Text, transport : Text,
   logLevel : Text, listInterfaces : BOOLEAN, validate : BOOLEAN, decode : BOOLEAN,
   hexInput : Text, chain : Seq(Text), stack : Seq(Text), stackFile : Text]

Early == {"start", "args", "parsed", "open"}
Late == {"loop", "print", "send"}
Codes == {Running, 0, 1, 2, Interrupted, Aborted, BrokenPipe}

ProgTypes ==
  /\ argv \in CommandLines /\ pc \in [Procs -> Early \cup Late] /\ exit \in [Procs -> Codes]
  /\ args \in [Procs -> Args] /\ round \in [Procs -> Nat] /\ stage \in [Procs -> Nat \ {0}]
  /\ out \in [Procs -> Lines]

MediumTypes ==
  /\ sent \in [Procs -> Queue] /\ file \in Capture /\ pos \in [Procs -> Nat] /\ beats \in Queue
  /\ harness \in {"up", "gone"} /\ sockets \in [Procs -> Socket] /\ noise \in Nat
  /\ readError \in [Procs -> BOOLEAN]
-----------------------------------------------------------------------------
(* The inductive invariant *)

\* A process: what it has done so far, and how far it may go.
Proc(words, where, code, a, r, lines, packets, position, listening) ==
  /\ where # "start" => Accepted(words, a)
  /\ where \in {"open"} \cup Late => Resolves(a)
  /\ where \in Early => r = 0 /\ packets = <<>> /\ position = 0 /\ ~listening
  /\ where \in Early /\ code = Running => lines = <<>>
  /\ where = "open" => lines = <<>> /\ code # 0
  /\ where \in {"print", "send"} => ~a.decode /\ (a.count # 0 => r < a.count)
  /\ a.count # 0 => r <= a.count
  /\ listening => code = Running

PacketOf(a, r, k) == [round |-> r, stage |-> k, bytes |-> Stages(a)[k]]

\* The packets of round r.
Row(a, r) == [k \in DOMAIN Stages(a) |-> PacketOf(a, r, k)]

\* The packets of the first r rounds.
Rounds(a, r) == Flat([q \in 1 .. r |-> Row(a, q)])

\* The packets of r rounds, and the first k of the next.
Upto(a, r, k) == Rounds(a, r) \o SubSeq(Row(a, r + 1), 1, k)

\* How many packets of this round are printed, when the stages before k are.
Ahead(a, k) == IF PrintsRound(a) THEN Len(Stages(a)) ELSE k

\* A generator: its output and its sends, to the packet.
Gen(where, code, a, r, k, lines, packets) ==
  where \in Late /\ ~a.decode /\ code \in {Running, 0, 1, 2} =>
    /\ where = "loop" => Flat(lines) = Upto(a, r, 0) /\ (Kind(a) # "none" => packets = Upto(a, r, 0))
    /\ where = "print" =>
         /\ k <= Len(Stages(a)) + 1 /\ Flat(lines) = Upto(a, r, Ahead(a, k - 1))
         /\ Kind(a) # "none" => packets = Upto(a, r, k - 1)
    /\ where = "send" =>
         /\ k <= Len(Stages(a)) /\ Flat(lines) = Upto(a, r, Ahead(a, k))
         /\ Kind(a) # "none" => packets = Upto(a, r, k - 1)
    /\ Kind(a) = "none" => packets = <<>>
    /\ code = 0 => where = "loop" /\ ~More(a, r)

ProcInv(p) == Proc(argv[p], pc[p], exit[p], args[p], round[p], out[p], sent[p], pos[p], sockets[p].open)

GenInv(p) == Gen(pc[p], exit[p], args[p], round[p], stage[p], out[p], sent[p])

\* A generator with an open capture.
Writer(where, a) == where \in Late /\ ~a.decode /\ Kind(a) = "pcap"

\* The capture is the generator's.
FileInv ==
  /\ \A p \in Procs : pos[p] <= Len(file.records)
  /\ ~file.made => file.records = <<>>
  /\ file.made => \E g \in Procs : Writer(pc[g], args[g])
  /\ \A g \in Procs : Writer(pc[g], args[g]) => file.made /\ file.records = sent[g]

Bounds == Len(beats) <= SocketCapacity /\ noise <= MaxNoise

IInv == ProgTypes /\ MediumTypes /\ (\A p \in Procs : ProcInv(p) /\ GenInv(p)) /\ FileInv /\ Bounds
-----------------------------------------------------------------------------
(* The command line *)

\* The states of the scan.
Scan == [args : Args, wants : Valued \cup {NoText}, exit : {Running, 0, 1, Aborted}]

\* The fields that options with a text set.
LEMMA FieldOfValued ==
  ASSUME NEW o \in DOMAIN FieldOf
  PROVE  /\ o \in Flags => FieldOf[o] \in {"listInterfaces", "validate", "decode"}
         /\ o \notin Flags => FieldOf[o] \in {"yamlDir", "iface", "output", "transport", "stackFile",
                                              "logLevel", "hexInput"}
BY DEF FieldOf, Flags

\* A text is a text, a flag a flag.
LEMMA SetFieldType ==
  ASSUME NEW a \in Args
  PROVE  /\ \A f \in {"yamlDir", "iface", "output", "transport", "stackFile", "logLevel", "hexInput"},
               v \in Text : [a EXCEPT ![f] = v] \in Args
         /\ \A f \in {"listInterfaces", "validate", "decode"} : [a EXCEPT ![f] = TRUE] \in Args
<1>1. ASSUME NEW v \in Text
      PROVE  /\ [a EXCEPT !["yamlDir"] = v] \in Args
             /\ [a EXCEPT !["iface"] = v] \in Args
             /\ [a EXCEPT !["output"] = v] \in Args
             /\ [a EXCEPT !["transport"] = v] \in Args
             /\ [a EXCEPT !["stackFile"] = v] \in Args
             /\ [a EXCEPT !["logLevel"] = v] \in Args
             /\ [a EXCEPT !["hexInput"] = v] \in Args
  BY DEF Args
<1>2. /\ [a EXCEPT !["listInterfaces"] = TRUE] \in Args
      /\ [a EXCEPT !["validate"] = TRUE] \in Args
      /\ [a EXCEPT !["decode"] = TRUE] \in Args
  BY DEF Args
<1> QED
  BY <1>1, <1>2

\* The texts of the defaults.
LEMMA DefaultTexts ==
  NoText \in Text /\ "json" \in Text /\ "none" \in Text /\ "warn" \in Text
BY Zenon DEF Text

\* Strings are texts.
LEMMA StringTexts ==
  \A s \in Seq(STRING) : s \in Seq(Text)
<1> DEFINE S == STRING
           T == Text
<1>1. S \subseteq T
  BY Zenon DEF Text
<1>2. \A s \in Seq(S) : s \in Seq(T)
  <2> HIDE DEF S, T
  <2> QED
    BY <1>1
<1> QED
  BY <1>2

\* The numbers and the names that a text means.
LEMMA MeansType ==
  ASSUME NEW v \in Text
  PROVE  Number(v) \in Int /\ NameList(v) \in Seq(Text)
<1>0. <<>> \in Seq(Text) /\ <<v>> \in Seq(Text) /\ -1 \in Int
  OBVIOUS
<1>1. CASE v \in DOMAIN Meaning
  <2>1. Means(v) = Meaning[v]
    BY <1>1, Zenon DEF Means
  <2>2. Meaning[v].ull \in Int /\ Meaning[v].names \in Seq(Text)
    BY <1>1, PacketGenAssumption, StringTexts, Zenon
  <2> QED
    BY <1>0, <2>1, <2>2, Zenon DEF Number, NameList
<1>2. CASE v \notin DOMAIN Meaning
  <2>1. Means(v) = [ull |-> -1, names |-> <<v>>, kind |-> NoText, hex |-> FALSE]
    BY <1>2, Zenon DEF Means
  <2>2. Number(v) = -1
    BY <2>1 DEF Number
  <2>3. NameList(v) = IF v = NoText THEN <<>> ELSE <<v>>
    BY <2>1 DEF NameList
  <2> QED
    BY <1>0, <2>2, <2>3, Zenon
<1> QED
  BY <1>1, <1>2

\* An option leaves arguments that are arguments: of --count, a number that is one.
LEMMA StoreType ==
  ASSUME NEW a \in Args, NEW o \in Valued, NEW v \in Text,
         o \in Numbered /\ v # NoText => Number(v) >= 0
  PROVE  Store(a, o, v) \in Args
<1>0. NameList(v) \in Seq(Text) /\ Number(v) \in Int
  BY MeansType
<1>1. CASE o \in DOMAIN FieldOf
  <2>1. Store(a, o, v) = [a EXCEPT ![FieldOf[o]] = v]
    <3>1. o # "--count" /\ o # "--seed" /\ o # "--connect" /\ o # "--stack"
      BY <1>1 DEF FieldOf
    <3> QED
      BY <1>1, <3>1 DEF Store
  <2>2. o \notin Flags
    BY DEF Valued, Flags, Numbered
  <2>3. FieldOf[o] \in {"yamlDir", "iface", "output", "transport", "stackFile", "logLevel", "hexInput"}
    BY <1>1, <2>2, FieldOfValued
  <2>4. [a EXCEPT ![FieldOf[o]] = v] \in Args
    BY <2>3, SetFieldType, Zenon
  <2> QED
    BY <2>1, <2>4, Zenon
<1>2. CASE o = "--count"
  <2>1. o \notin DOMAIN FieldOf
    BY <1>2 DEF FieldOf
  <2>2. Store(a, o, v) = IF v = NoText THEN a ELSE [a EXCEPT !.count = Number(v)]
    BY <1>2, <2>1 DEF Store
  <2>3. v # NoText => Number(v) \in Nat
    BY <1>0, <1>2 DEF Numbered
  <2>4. \A n \in Nat : [a EXCEPT !.count = n] \in Args
    BY DEF Args
  <2> QED
    BY <2>2, <2>3, <2>4
<1>3. CASE o = "--seed"
  <2>1. o \notin DOMAIN FieldOf
    BY <1>3 DEF FieldOf
  <2> QED
    BY <1>3, <2>1 DEF Store
<1>4. CASE o = "--connect"
  <2>1. o \notin DOMAIN FieldOf
    BY <1>4 DEF FieldOf
  <2>2. Store(a, o, v) = [a EXCEPT !.chain = @ \o NameList(v)]
    BY <1>4, <2>1 DEF Store
  <2>3. a.chain \o NameList(v) \in Seq(Text)
    BY <1>0 DEF Args
  <2>4. \A l \in Seq(Text) : [a EXCEPT !.chain = l] \in Args
    BY DEF Args
  <2> QED
    BY <2>2, <2>3, <2>4
<1>5. CASE o = "--stack"
  <2>1. o \notin DOMAIN FieldOf
    BY <1>5 DEF FieldOf
  <2>2. Store(a, o, v) = [a EXCEPT !.stack = @ \o NameList(v)]
    BY <1>5, <2>1 DEF Store
  <2>3. a.stack \o NameList(v) \in Seq(Text)
    BY <1>0 DEF Args
  <2>4. \A l \in Seq(Text) : [a EXCEPT !.stack = l] \in Args
    BY DEF Args
  <2> QED
    BY <2>2, <2>3, <2>4
<1> QED
  BY <1>1, <1>2, <1>3, <1>4, <1>5 DEF Valued, Numbered

\* The value of an option leaves a state of the scan.
LEMMA GiveType ==
  ASSUME NEW s \in Scan, s.wants # NoText, NEW v \in Text
  PROVE  Give(s, v) \in Scan
<1>1. s.args \in Args /\ s.wants \in Valued
  BY DEF Scan
<1>2. CASE s.wants \in Numbered /\ v # NoText /\ Number(v) < 0
  BY <1>2 DEF Give, Scan
<1>3. CASE ~(s.wants \in Numbered /\ v # NoText /\ Number(v) < 0)
  <2>1. s.wants \in Numbered /\ v # NoText => Number(v) >= 0
    BY <1>3, MeansType
  <2>2. Store(s.args, s.wants, v) \in Args
    BY <1>1, <2>1, StoreType
  <2>3. Give(s, v) = [s EXCEPT !.args = Store(@, s.wants, v), !.wants = NoText]
    BY <1>3 DEF Give
  <2> QED
    BY <2>2, <2>3 DEF Scan
<1> QED
  BY <1>2, <1>3

\* So does a word.
LEMMA WordType ==
  ASSUME NEW s \in Scan, NEW w \in Text
  PROVE  Word(s, w) \in Scan
<1>1. CASE s.exit # Running
  BY <1>1 DEF Word
<1>2. CASE s.exit = Running /\ s.wants # NoText
  <2>1. Word(s, w) = Give(s, w)
    BY <1>2 DEF Word
  <2> QED
    BY <1>2, <2>1, GiveType
<1>3. CASE s.exit = Running /\ s.wants = NoText
  <2>1. Word(s, w) = CASE w \in Valued -> [s EXCEPT !.wants = w]
           [] w \in Flags -> [s EXCEPT !.args = [@ EXCEPT ![FieldOf[w]] = TRUE]]
           [] w \in {"--help", "--version"} -> [s EXCEPT !.exit = 0]
           [] OTHER -> [s EXCEPT !.exit = 1]
    BY <1>3 DEF Word
  <2>2. CASE w \in Valued
    <3>1. w \notin Flags /\ w \notin {"--help", "--version"}
      BY <2>2 DEF Valued, Flags, Numbered, FieldOf
    <3> QED
      BY <2>1, <2>2, <3>1 DEF Scan
  <2>3. CASE w \in Flags
    <3>1. w \notin Valued /\ w \notin {"--help", "--version"} /\ w \in DOMAIN FieldOf
      BY <2>3 DEF Valued, Flags, Numbered, FieldOf
    <3>2. [s.args EXCEPT ![FieldOf[w]] = TRUE] \in Args
      BY <2>3, <3>1, FieldOfValued, SetFieldType DEF Scan
    <3> QED
      BY <2>1, <2>3, <3>1, <3>2 DEF Scan
  <2>4. CASE w \notin Valued /\ w \notin Flags
    BY <2>1, <2>4 DEF Scan
  <2> QED
    BY <2>2, <2>3, <2>4
<1> QED
  BY <1>1, <1>2, <1>3

\* The scan begins with the defaults.
LEMMA ScanInit ==
  [args |-> DefaultArgs, wants |-> NoText, exit |-> Running] \in Scan /\ DefaultArgs \in Args
<1>1. <<>> \in Seq(Text)
  OBVIOUS
<1>2. DefaultArgs \in Args
  BY <1>1, DefaultTexts DEF DefaultArgs, Args
<1> QED
  BY <1>2 DEF Scan

\* The state after n words is what the recursive definition says.
LEMMA AfterWordsDef ==
  ASSUME NEW words \in Seq(Text)
  PROVE  /\ AfterWords(words) \in [0 .. Len(words) -> Scan]
         /\ AfterWords(words)[0] = [args |-> DefaultArgs, wants |-> NoText, exit |-> Running]
         /\ \A n \in 1 .. Len(words) : AfterWords(words)[n] = Word(AfterWords(words)[n - 1], words[n])
<1> DEFINE N == Len(words)
           S == Scan
           e == [args |-> DefaultArgs, wants |-> NoText, exit |-> Running]
           step == [q \in (1 .. N) \X S |-> Word(q[2], words[q[1]])]
           Is(g) == g = [n \in 0 .. N |-> IF n = 0 THEN e ELSE Word(g[n - 1], words[n])]
           h == AfterWords(words)
<1>1. N \in Nat /\ e \in S /\ \A n \in 1 .. N, y \in S : Word(y, words[n]) \in S
  <2>1. \A n \in 1 .. N : words[n] \in Text
    OBVIOUS
  <2> QED
    BY <2>1, WordType, ScanInit
<1>2. h = CHOOSE g : Is(g)
  BY DEF AfterWords
<1> HIDE DEF N, S, h, e
<1>3. step \in Steps(N, S)
  BY <1>1 DEF Steps
<1>4. \A n \in 1 .. N, y \in S : step[<<n, y>>] = Word(y, words[n])
  BY <1>1
<1> HIDE DEF step
<1>5. PICK f \in [0 .. N -> S] : Iterates(f, e, N, step)
  BY <1>1, <1>3, FiniteRecursion
<1>6. Is(f)
  <2>1. ASSUME NEW n \in 1 .. N PROVE f[n] = Word(f[n - 1], words[n])
    <3>1. n - 1 \in 0 .. N
      BY <1>1
    <3> QED
      BY <1>4, <1>5, <3>1 DEF Iterates
  <2>2. \A n \in 0 .. N : f[n] = IF n = 0 THEN e ELSE Word(f[n - 1], words[n])
    BY <1>1, <1>5, <2>1 DEF Iterates
  <2> DEFINE G == [n \in 0 .. N |-> IF n = 0 THEN e ELSE Word(f[n - 1], words[n])]
  <2>3. \A n \in 0 .. N : f[n] = G[n]
    BY <2>2
  <2>4. DOMAIN G = 0 .. N /\ G = [n \in DOMAIN G |-> G[n]]
    BY Zenon
  <2>5. f = G
    <3> HIDE DEF G
    <3> QED
      BY <2>3, <2>4
  <2> QED
    BY <2>5
<1>7. Is(h)
  <2> HIDE DEF Is
  <2> QED
    BY <1>2, <1>6
<1>8. /\ DOMAIN h = 0 .. N /\ h[0] = e
      /\ \A n \in 1 .. N : h[n] = Word(h[n - 1], words[n])
  <2>1. DOMAIN h = 0 .. N
    BY <1>7
  <2>2. \A n \in 0 .. N : h[n] = IF n = 0 THEN e ELSE Word(h[n - 1], words[n])
    BY <1>7, Zenon
  <2>3. h[0] = e
    BY <1>1, <2>2
  <2>4. ASSUME NEW n \in 1 .. N PROVE h[n] = Word(h[n - 1], words[n])
    <3>1. n \in 0 .. N /\ n # 0
      BY <1>1
    <3> QED
      BY <2>2, <3>1
  <2> QED
    BY <2>1, <2>3, <2>4
<1>9. h \in [0 .. N -> S]
  <2> DEFINE K == {n \in Nat : n <= N => h[n] \in S}
  <2>1. 0 \in K
    BY <1>1, <1>8
  <2>2. ASSUME NEW n \in Nat, n \in K PROVE n + 1 \in K
    <3> SUFFICES ASSUME n + 1 <= N PROVE h[n + 1] \in S
      OBVIOUS
    <3>1. n + 1 \in 1 .. N /\ (n + 1) - 1 = n
      BY <1>1
    <3>2. h[n + 1] = Word(h[n], words[n + 1])
      BY <1>8, <3>1
    <3>3. h[n] \in S
      <4>1. n <= N
        BY <1>1
      <4> QED
        BY <2>2, <4>1
    <3> HIDE DEF K
    <3> QED
      BY <1>1, <3>1, <3>2, <3>3
  <2>3. \A n \in 0 .. N : h[n] \in S
    <3> HIDE DEF K
    <3>1. Nat \subseteq K
      BY <2>1, <2>2, NatSetInduction
    <3> QED
      BY <3>1, <1>1 DEF K
  <2>4. h = [n \in 0 .. N |-> h[n]]
    BY <1>7, <1>8
  <2> QED
    BY <2>3, <2>4
<1> QED
  BY <1>8, <1>9 DEF N, S, h, e

\* What parseArgs returns has its types.
LEMMA ReadWordsType ==
  ASSUME NEW words \in Seq(Text)
  PROVE  ReadWords(words) \in Scan
<1> DEFINE s == AfterWords(words)[Len(words)]
<1>1. s \in Scan
  <2>1. Len(words) \in 0 .. Len(words)
    OBVIOUS
  <2>2. AfterWords(words) \in [0 .. Len(words) -> Scan]
    BY AfterWordsDef
  <2> QED
    BY <2>1, <2>2, Zenon
<1> HIDE DEF s
<1>2. s.exit = Running /\ s.wants # NoText => Give(s, NoText) \in Scan
  BY <1>1, GiveType, DefaultTexts
<1>3. ReadWords(words) = IF s.exit = Running /\ s.wants # NoText THEN Give(s, NoText) ELSE s
  BY DEF ReadWords, s
<1> QED
  BY <1>1, <1>2, <1>3

\* So has what is made of it.
LEMMA CompletedType ==
  ASSUME NEW a \in Args
  PROVE  Completed(a) \in Args
<1> DEFINE Before(names) == IF names # <<>> /\ a.iface # NoText THEN <<a.iface>> \o names ELSE names
<1>1. a.iface \in Text /\ a.chain \in Seq(Text) /\ a.stack \in Seq(Text) /\ a.hexInput \in Text
  BY DEF Args
<1>2. \A names \in Seq(Text) : Before(names) \in Seq(Text)
  BY <1>1
<1>3. PICK c \in Seq(Text) : c = Before(a.chain)
  BY <1>1, <1>2
<1>4. PICK k \in Seq(Text) : k = Before(a.stack)
  BY <1>1, <1>2
<1>5. PICK d \in BOOLEAN : d = (a.decode \/ a.hexInput # NoText)
  BY Zenon
<1>6. PICK f \in Text : f = IF a.chain # <<>> \/ a.stack # <<>> THEN NoText ELSE a.iface
  BY <1>1, DefaultTexts
<1>7. Completed(a) = [a EXCEPT !.decode = d, !.chain = c, !.stack = k, !.iface = f]
  BY <1>3, <1>4, <1>5, <1>6 DEF Completed
<1> QED
  BY <1>7 DEF Args
-----------------------------------------------------------------------------
(* The packets of the rounds *)

\* What is named and there has bytes or has none.
LEMMA StagesType ==
  ASSUME NEW a \in Args, Resolves(a)
  PROVE  Stages(a) \in Seq(BOOLEAN)
<1>1. a.stack \in Seq(Text) /\ a.chain \in Seq(Text) /\ a.iface \in Text
  BY DEF Args
<1>2. Names(a) \in Seq(Text)
  <2>1. <<a.iface>> \in Seq(Text)
    BY <1>1
  <2> QED
    BY <1>1, <2>1, Zenon DEF Names
<1>3. \A x \in BOOLEAN : <<x>> \in Seq(BOOLEAN)
  OBVIOUS
<1>4. CASE a.stackFile # NoText
  <2>1. Stacks[a.stackFile] \in BOOLEAN
    BY <1>4, PacketGenAssumption DEF Resolves
  <2>2. Stages(a) = <<Stacks[a.stackFile]>>
    BY <1>4 DEF Stages
  <2> QED
    BY <1>3, <2>1, <2>2
<1>5. CASE a.stackFile = NoText /\ a.stack # <<>>
  <2>1. PICK x \in BOOLEAN : x = (\E i \in DOMAIN a.stack : Interfaces[a.stack[i]])
    BY Zenon
  <2>2. Stages(a) = <<x>>
    BY <1>5, <2>1 DEF Stages
  <2> QED
    BY <1>3, <2>2
<1>6. CASE a.stackFile = NoText /\ a.stack = <<>>
  <2>1. Stages(a) = [i \in DOMAIN Names(a) |-> Interfaces[Names(a)[i]]]
    BY <1>6 DEF Stages
  <2>2. \A i \in DOMAIN Names(a) : Interfaces[Names(a)[i]] \in BOOLEAN
    BY <1>6, PacketGenAssumption, Zenon DEF Resolves
  <2>3. PICK n \in Nat : DOMAIN Names(a) = 1 .. n
    BY <1>2
  <2> QED
    BY <2>1, <2>2, <2>3
<1> QED
  BY <1>4, <1>5, <1>6

\* A packet of a round is a frame, and has a round that is not 0.
LEMMA PacketOfType ==
  ASSUME NEW a, Stages(a) \in Seq(BOOLEAN), NEW r \in Nat, NEW k \in 1 .. Len(Stages(a))
  PROVE  PacketOf(a, r, k) \in Frames
<1>1. Stages(a)[k] \in BOOLEAN /\ k \in Nat
  OBVIOUS
<1> QED
  BY <1>1 DEF PacketOf, Frames

\* A round has a packet for each stage.
LEMMA RowType ==
  ASSUME NEW a, Stages(a) \in Seq(BOOLEAN), NEW r \in Nat
  PROVE  /\ Row(a, r) \in Queue /\ Len(Row(a, r)) = Len(Stages(a))
         /\ \A k \in 1 .. Len(Stages(a)) : Row(a, r)[k] = PacketOf(a, r, k)
<1>1. PICK n \in Nat : n = Len(Stages(a)) /\ DOMAIN Stages(a) = 1 .. n
  OBVIOUS
<1>2. Row(a, r) = [k \in 1 .. n |-> PacketOf(a, r, k)]
  BY <1>1 DEF Row
<1>3. \A k \in 1 .. n : PacketOf(a, r, k) \in Frames
  BY <1>1, PacketOfType
<1> QED
  BY <1>1, <1>2, <1>3 DEF Queue

\* The rounds are lines of packets.
LEMMA RowsType ==
  ASSUME NEW a, Stages(a) \in Seq(BOOLEAN), NEW r \in Nat
  PROVE  [q \in 1 .. r |-> Row(a, q)] \in Lines
<1>1. \A q \in 1 .. r : Row(a, q) \in Queue
  BY RowType
<1> QED
  BY <1>1 DEF Lines

\* No round has no packets; one more round adds its own.
LEMMA RoundsStep ==
  ASSUME NEW a, Stages(a) \in Seq(BOOLEAN), NEW r \in Nat
  PROVE  /\ Rounds(a, r) \in Queue /\ Rounds(a, 0) = <<>>
         /\ Rounds(a, r + 1) = Rounds(a, r) \o Row(a, r + 1)
<1> DEFINE rows(n) == [q \in 1 .. n |-> Row(a, q)]
<1>1. rows(r) \in Lines /\ rows(r + 1) \in Lines /\ Row(a, r + 1) \in Queue
  BY RowsType, RowType
<1>2. Rounds(a, r) \in Queue
  BY <1>1, FlatType DEF Rounds, Lines, Queue
<1>3. Rounds(a, 0) = <<>>
  <2>1. rows(0) = <<>>
    OBVIOUS
  <2> QED
    BY <2>1, FlatEmpty DEF Rounds
<1>4. rows(r + 1) = Append(rows(r), Row(a, r + 1))
  <2> DEFINE A == Append(rows(r), Row(a, r + 1))
  <2>1. DOMAIN A = 1 .. r + 1 /\ \A q \in 1 .. r + 1 : A[q] = Row(a, q)
    BY <1>1 DEF Lines
  <2>2. A \in Lines
    BY <1>1 DEF Lines
  <2>3. A = [q \in 1 .. r + 1 |-> A[q]]
    <3> HIDE DEF A
    <3> QED
      BY <2>1, <2>2 DEF Lines
  <2> HIDE DEF A
  <2> QED
    BY <2>1, <2>3 DEF A
<1>5. Rounds(a, r + 1) = Rounds(a, r) \o Row(a, r + 1)
  BY <1>1, <1>4, FlatAppend DEF Rounds, Lines, Queue
<1> QED
  BY <1>2, <1>3, <1>5

\* The packets up to a stage: one more stage, a whole round, no stage.
LEMMA UptoFacts ==
  ASSUME NEW a, Stages(a) \in Seq(BOOLEAN), NEW r \in Nat
  PROVE  /\ \A k \in 0 .. Len(Stages(a)) : Upto(a, r, k) \in Queue
         /\ \A k \in 1 .. Len(Stages(a)) :
              Upto(a, r, k) = Append(Upto(a, r, k - 1), PacketOf(a, r + 1, k))
         /\ Upto(a, r, 0) = Rounds(a, r) /\ Upto(a, 0, 0) = <<>>
         /\ Upto(a, r, Len(Stages(a))) = Upto(a, r + 1, 0)
         /\ Upto(a, r, Len(Stages(a))) = Upto(a, r, 0) \o Row(a, r + 1)
<1>1. PICK n \in Nat : n = Len(Stages(a))
  OBVIOUS
<1>2. PICK R \in Queue : R = Rounds(a, r)
  BY RoundsStep
<1>3. PICK w \in Queue : /\ w = Row(a, r + 1) /\ Len(w) = n
                         /\ \A k \in 1 .. n : w[k] = PacketOf(a, r + 1, k)
  BY <1>1, RowType
<1>4. \A k \in 0 .. n : Upto(a, r, k) = R \o SubSeq(w, 1, k)
  BY <1>2, <1>3 DEF Upto
<1>5. \A k \in 0 .. n : SubSeq(w, 1, k) \in Queue
  BY <1>3 DEF Queue
<1>6. ASSUME NEW k \in 1 .. n PROVE SubSeq(w, 1, k) = Append(SubSeq(w, 1, k - 1), w[k])
  BY <1>3 DEF Queue
<1>7. ASSUME NEW k \in 0 .. n PROVE Upto(a, r, k) \in Queue
  <2>1. PICK s \in Queue : s = SubSeq(w, 1, k)
    BY <1>5
  <2>2. R \o s \in Queue
    BY DEF Queue
  <2> QED
    BY <1>4, <2>1, <2>2
<1>8. ASSUME NEW k \in 1 .. n PROVE Upto(a, r, k) = Append(Upto(a, r, k - 1), PacketOf(a, r + 1, k))
  <2>1. k - 1 \in 0 .. n /\ k \in 0 .. n
    OBVIOUS
  <2>2. PICK s \in Queue : s = SubSeq(w, 1, k - 1)
    BY <1>5, <2>1
  <2>3. w[k] \in Frames
    BY <1>3 DEF Queue
  <2>4. Upto(a, r, k) = R \o Append(s, w[k])
    BY <1>4, <1>6, <2>1, <2>2
  <2>5. R \o Append(s, w[k]) = Append(R \o s, w[k])
    BY <2>3, ConcatAppend DEF Queue
  <2>6. Upto(a, r, k - 1) = R \o s
    BY <1>4, <2>1, <2>2
  <2> QED
    BY <1>3, <2>4, <2>5, <2>6
<1>9. Upto(a, r, 0) = R
  <2>1. SubSeq(w, 1, 0) = <<>> /\ R \o <<>> = R
    BY DEF Queue
  <2>2. 0 \in 0 .. n
    OBVIOUS
  <2>3. Upto(a, r, 0) = R \o SubSeq(w, 1, 0)
    BY <1>4, <2>2
  <2> QED
    BY <2>1, <2>3, Zenon
<1>10. Upto(a, r, n) = R \o w
  <2>1. SubSeq(w, 1, n) = w
    BY <1>3 DEF Queue
  <2> QED
    BY <1>4, <2>1
<1>11. Upto(a, r + 1, 0) = R \o w
  <2>1. Rounds(a, r + 1) = R \o w
    BY <1>2, <1>3, RoundsStep
  <2>2. PICK v \in Queue : v = Row(a, r + 2)
    BY RowType
  <2>3. R \o w \in Queue
    BY DEF Queue
  <2>4. PICK x \in Queue : x = R \o w
    BY <2>3
  <2>5. SubSeq(v, 1, 0) = <<>> /\ x \o <<>> = x
    BY DEF Queue
  <2>6. Upto(a, r + 1, 0) = x \o SubSeq(v, 1, 0)
    <3>1. (r + 1) + 1 = r + 2
      OBVIOUS
    <3> QED
      BY <2>1, <2>2, <2>4, <3>1, Zenon DEF Upto
  <2> QED
    BY <2>4, <2>5, <2>6
<1>12. Upto(a, 0, 0) = <<>>
  <2>1. PICK v \in Queue : v = Row(a, 1)
    BY RowType
  <2>2. SubSeq(v, 1, 0) = <<>> /\ <<>> \o <<>> = <<>>
    BY DEF Queue
  <2>3. Upto(a, 0, 0) = <<>> \o SubSeq(v, 1, 0)
    <3>1. 0 + 1 = 1
      OBVIOUS
    <3> QED
      BY <2>1, <3>1, RoundsStep, Zenon DEF Upto
  <2> QED
    BY <2>2, <2>3
<1> QED
  BY <1>1, <1>2, <1>3, <1>7, <1>8, <1>9, <1>10, <1>11, <1>12

\* Fewer packets of a round are a prefix of more.
LEMMA UptoPrefix ==
  ASSUME NEW a, Stages(a) \in Seq(BOOLEAN), NEW r \in Nat,
         NEW k \in 0 .. Len(Stages(a)), NEW j \in 0 .. k
  PROVE  /\ IsPrefix(Upto(a, r, j), Upto(a, r, k))
         /\ Len(Upto(a, r, k)) - Len(Upto(a, r, j)) = k - j
<1>1. PICK n \in Nat : n = Len(Stages(a))
  OBVIOUS
<1>2. PICK R \in Queue : R = Rounds(a, r)
  BY RoundsStep
<1>3. PICK w \in Queue : w = Row(a, r + 1) /\ Len(w) = n
  BY <1>1, RowType
<1>4. Upto(a, r, k) = R \o SubSeq(w, 1, k) /\ Upto(a, r, j) = R \o SubSeq(w, 1, j)
  BY <1>2, <1>3 DEF Upto
<1>5. k \in 0 .. n /\ j \in 0 .. n /\ j <= k
  BY <1>1
<1>0. ASSUME NEW m \in 0 .. n
      PROVE  SubSeq(w, 1, m) \in Queue /\ Len(SubSeq(w, 1, m)) = m
             /\ \A i \in 1 .. m : SubSeq(w, 1, m)[i] = w[i]
  BY <1>3 DEF Queue
<1>6. PICK x \in Queue : x = SubSeq(w, 1, k) /\ Len(x) = k /\ \A i \in 1 .. k : x[i] = w[i]
  BY <1>0, <1>5, Zenon
<1>7. PICK y \in Queue : y = SubSeq(w, 1, j) /\ Len(y) = j /\ \A i \in 1 .. j : y[i] = w[i]
  BY <1>0, <1>5, Zenon
<1>8. \A i \in 1 .. j : x[i] = y[i]
  BY <1>5, <1>6, <1>7
<1>9. Len(R \o x) = Len(R) + k /\ Len(R \o y) = Len(R) + j /\ Len(R) \in Nat
  BY <1>6, <1>7 DEF Queue
<1>10. ASSUME NEW i \in 1 .. Len(R) + j PROVE (R \o y)[i] = (R \o x)[i]
  BY <1>5, <1>6, <1>7, <1>8 DEF Queue
<1>11. IsPrefix(R \o y, R \o x)
  BY <1>5, <1>9, <1>10 DEF IsPrefix
<1>12. Len(R \o x) - Len(R \o y) = k - j
  BY <1>5, <1>9
<1>13. Upto(a, r, k) = R \o x /\ Upto(a, r, j) = R \o y
  BY <1>4, <1>6, <1>7, Zenon
<1> QED
  BY <1>11, <1>12, <1>13, Zenon
-----------------------------------------------------------------------------
(* The rounds of a generator, from step to step *)

\* A generator that begins has done nothing.
LEMMA GenStart ==
  ASSUME NEW a \in Args, Resolves(a), NEW k
  PROVE  Gen("loop", Running, a, 0, k, <<>>, <<>>)
<1>1. Stages(a) \in Seq(BOOLEAN)
  BY StagesType
<1>2. Upto(a, 0, 0) = <<>>
  BY <1>1, UptoFacts
<1> QED
  BY <1>2, FlatEmpty DEF Gen, Running

\* The line of a chain is printed before its first packet is sent.
LEMMA GenGenerate ==
  ASSUME NEW a \in Args, Resolves(a), NEW r \in Nat, NEW k, NEW lines \in Lines, NEW packets,
         ~a.decode, Gen("loop", Running, a, r, k, lines, packets)
  PROVE  Gen("print", Running, a, r, 1,
             IF PrintsRound(a) THEN Append(lines, Row(a, r + 1)) ELSE lines, packets)
<1>1. Stages(a) \in Seq(BOOLEAN)
  BY StagesType
<1>2. PICK n \in Nat : n = Len(Stages(a))
  BY <1>1
<1> DEFINE new == IF PrintsRound(a) THEN Append(lines, Row(a, r + 1)) ELSE lines
<1>3. Flat(lines) = Upto(a, r, 0) /\ (Kind(a) # "none" => packets = Upto(a, r, 0))
      /\ (Kind(a) = "none" => packets = <<>>)
  BY DEF Gen, Late
<1>4. Flat(new) = Upto(a, r, Ahead(a, 0))
  <2>1. CASE PrintsRound(a)
    <3>1. Row(a, r + 1) \in Queue
      BY <1>1, RowType
    <3>2. Flat(new) = Flat(lines) \o Row(a, r + 1)
      BY <2>1, <3>1, FlatAppend DEF Lines, Queue
    <3>3. Upto(a, r, Len(Stages(a))) = Upto(a, r, 0) \o Row(a, r + 1)
      BY <1>1, UptoFacts
    <3> QED
      BY <1>3, <2>1, <3>2, <3>3 DEF Ahead
  <2>2. CASE ~PrintsRound(a)
    BY <1>3, <2>2 DEF Ahead
  <2> QED
    BY <2>1, <2>2
<1>5. 1 <= n + 1 /\ 1 - 1 = 0
  OBVIOUS
<1> HIDE DEF new
<1>6. Gen("print", Running, a, r, 1, new, packets)
  BY <1>2, <1>3, <1>4, <1>5 DEF Gen, Running
<1> QED
  BY <1>6 DEF new

\* The next packet is printed, unless the line of its chain is.
LEMMA GenPrint ==
  ASSUME NEW a \in Args, Resolves(a), NEW r \in Nat, NEW k \in Nat \ {0}, NEW lines \in Lines,
         NEW packets, ~a.decode, k <= Len(Stages(a)), Gen("print", Running, a, r, k, lines, packets)
  PROVE  Gen("send", Running, a, r, k,
             IF PrintsRound(a) THEN lines ELSE Append(lines, <<PacketOf(a, r + 1, k)>>), packets)
<1>1. Stages(a) \in Seq(BOOLEAN)
  BY StagesType
<1>2. PICK n \in Nat : n = Len(Stages(a)) /\ k \in 1 .. n
  BY <1>1
<1> DEFINE new == IF PrintsRound(a) THEN lines ELSE Append(lines, <<PacketOf(a, r + 1, k)>>)
<1>3. /\ Flat(lines) = Upto(a, r, Ahead(a, k - 1)) /\ (Kind(a) # "none" => packets = Upto(a, r, k - 1))
      /\ (Kind(a) = "none" => packets = <<>>)
  BY DEF Gen, Late
<1>4. Flat(new) = Upto(a, r, Ahead(a, k))
  <2>1. CASE PrintsRound(a)
    BY <1>3, <2>1 DEF Ahead
  <2>2. CASE ~PrintsRound(a)
    <3>1. PacketOf(a, r + 1, k) \in Frames
      BY <1>1, <1>2, PacketOfType
    <3>2. Flat(new) = Append(Flat(lines), PacketOf(a, r + 1, k))
      BY <2>2, <3>1, FlatAppendOne DEF Lines, Queue
    <3>3. Upto(a, r, k) = Append(Upto(a, r, k - 1), PacketOf(a, r + 1, k))
      BY <1>1, <1>2, UptoFacts
    <3> QED
      BY <1>3, <2>2, <3>2, <3>3 DEF Ahead
  <2> QED
    BY <2>1, <2>2
<1> HIDE DEF new
<1>5. Gen("send", Running, a, r, k, new, packets)
  BY <1>2, <1>3, <1>4 DEF Gen, Running
<1> QED
  BY <1>5 DEF new

\* A packet that is sent was printed.
LEMMA GenSend ==
  ASSUME NEW a \in Args, Resolves(a), NEW r \in Nat, NEW k \in Nat \ {0}, NEW lines, NEW packets,
         ~a.decode, Gen("send", Running, a, r, k, lines, packets)
  PROVE  Gen("print", Running, a, r, k + 1, lines,
             IF Kind(a) = "none" THEN packets ELSE Append(packets, PacketOf(a, r + 1, k)))
<1>1. Stages(a) \in Seq(BOOLEAN)
  BY StagesType
<1>2. PICK n \in Nat : n = Len(Stages(a))
  BY <1>1
<1>3. /\ k <= n /\ Flat(lines) = Upto(a, r, Ahead(a, k))
      /\ (Kind(a) # "none" => packets = Upto(a, r, k - 1)) /\ (Kind(a) = "none" => packets = <<>>)
  BY <1>2 DEF Gen, Late
<1>4. Upto(a, r, k) = Append(Upto(a, r, k - 1), PacketOf(a, r + 1, k))
  <2>1. k \in 1 .. Len(Stages(a))
    BY <1>2, <1>3
  <2> QED
    BY <1>1, <2>1, UptoFacts
<1>5. (k + 1) - 1 = k /\ k + 1 <= n + 1
  BY <1>3
<1> QED
  BY <1>2, <1>3, <1>4, <1>5 DEF Gen, Running

\* At the end of a round all of it is printed and sent.
LEMMA GenEnd ==
  ASSUME NEW a \in Args, Resolves(a), NEW r \in Nat, NEW k \in Nat \ {0}, NEW lines, NEW packets,
         ~a.decode, k > Len(Stages(a)), Gen("print", Running, a, r, k, lines, packets)
  PROVE  Gen("loop", Running, a, r + 1, k, lines, packets)
<1>1. Stages(a) \in Seq(BOOLEAN)
  BY StagesType
<1>2. PICK n \in Nat : n = Len(Stages(a))
  BY <1>1
<1>3. /\ k <= n + 1 /\ Flat(lines) = Upto(a, r, Ahead(a, k - 1))
      /\ (Kind(a) # "none" => packets = Upto(a, r, k - 1)) /\ (Kind(a) = "none" => packets = <<>>)
  BY <1>2 DEF Gen, Late
<1>4. k - 1 = n /\ Ahead(a, n) = n
  BY <1>2, <1>3 DEF Ahead
<1>5. Upto(a, r, n) = Upto(a, r + 1, 0)
  BY <1>1, <1>2, UptoFacts
<1> QED
  BY <1>3, <1>4, <1>5 DEF Gen, Running

\* Neither a failure nor a signal undoes anything; exit code 0 is that of the end.
LEMMA GenExit ==
  ASSUME NEW a, NEW r, NEW k, NEW lines, NEW packets, NEW where, NEW code \in Codes,
         Gen(where, Running, a, r, k, lines, packets),
         code = 0 /\ where \in Late /\ ~a.decode => where = "loop" /\ ~More(a, r)
  PROVE  Gen(where, code, a, r, k, lines, packets)
BY DEF Gen
-----------------------------------------------------------------------------
(* The steps *)

\* What a step of p leaves in the program's state of p.
Writes(p, w, c, a, r, k, l) ==
  /\ argv' = argv /\ pc' = [pc EXCEPT ![p] = w] /\ exit' = [exit EXCEPT ![p] = c]
  /\ args' = [args EXCEPT ![p] = a] /\ round' = [round EXCEPT ![p] = r]
  /\ stage' = [stage EXCEPT ![p] = k] /\ out' = [out EXCEPT ![p] = l]

\* What it may leave there.
Fits(w, c, a, r, k, l) ==
  w \in Early \cup Late /\ c \in Codes /\ a \in Args /\ r \in Nat /\ k \in Nat \ {0} /\ l \in Lines

\* The types of a process' state.
LEMMA ProcTypes ==
  ASSUME ProgTypes, MediumTypes, NEW p \in Procs
  PROVE  /\ pc[p] \in Early \cup Late /\ exit[p] \in Codes /\ args[p] \in Args /\ round[p] \in Nat
         /\ stage[p] \in Nat \ {0} /\ out[p] \in Lines /\ sent[p] \in Queue /\ pos[p] \in Nat
         /\ sockets[p] \in Socket /\ sockets[p].open \in BOOLEAN /\ sockets[p].queue \in Queue
<1>1. /\ pc[p] \in Early \cup Late /\ exit[p] \in Codes /\ args[p] \in Args /\ round[p] \in Nat
      /\ stage[p] \in Nat \ {0} /\ out[p] \in Lines
  BY Zenon DEF ProgTypes
<1>2. sent[p] \in Queue /\ pos[p] \in Nat /\ sockets[p] \in Socket
  BY Zenon DEF MediumTypes
<1>3. sockets[p].open \in BOOLEAN /\ sockets[p].queue \in Queue
  BY <1>2 DEF Socket
<1> QED
  BY <1>1, <1>2, <1>3

\* A step of p on its own state and the media keeps the invariant of the others.
LEMMA MediumStep ==
  ASSUME IInv, NEW p \in Procs, NEW w, NEW c, NEW a, NEW r, NEW k, NEW l, NEW t \in Queue, NEW n \in Nat,
         Fits(w, c, a, r, k, l), Writes(p, w, c, a, r, k, l),
         sent' = [sent EXCEPT ![p] = t], pos' = [pos EXCEPT ![p] = n],
         file' \in Capture, beats' \in Queue, harness' \in {"up", "gone"}, noise' \in Nat,
         sockets' \in [Procs -> Socket], readError' \in [Procs -> BOOLEAN],
         \A q \in Procs \ {p} : sockets'[q].open = sockets[q].open,
         Proc(argv[p], w, c, a, r, l, t, n, sockets'[p].open), Gen(w, c, a, r, k, l, t),
         FileInv', Bounds'
  PROVE  IInv'
<1>1. ProgTypes'
  <2> USE DEF ProgTypes, IInv, Fits, Writes
  <2>1. argv' \in CommandLines
    OBVIOUS
  <2>2. pc' \in [Procs -> Early \cup Late]
    OBVIOUS
  <2>3. exit' \in [Procs -> Codes]
    OBVIOUS
  <2>4. args' \in [Procs -> Args]
    OBVIOUS
  <2>5. round' \in [Procs -> Nat]
    OBVIOUS
  <2>6. stage' \in [Procs -> Nat \ {0}]
    OBVIOUS
  <2>7. out' \in [Procs -> Lines]
    OBVIOUS
  <2> QED
    BY <2>1, <2>2, <2>3, <2>4, <2>5, <2>6, <2>7
<1>2. MediumTypes'
  <2>1. sent' \in [Procs -> Queue] /\ pos' \in [Procs -> Nat]
    BY DEF IInv, MediumTypes
  <2> QED
    BY <2>1 DEF MediumTypes
<1>3. /\ argv'[p] = argv[p] /\ pc'[p] = w /\ exit'[p] = c /\ args'[p] = a /\ round'[p] = r
      /\ stage'[p] = k /\ out'[p] = l /\ sent'[p] = t /\ pos'[p] = n
  BY DEF IInv, ProgTypes, MediumTypes, Writes
<1>4. (ProcInv(p) /\ GenInv(p))'
  BY <1>3, Zenon DEF ProcInv, GenInv
<1>5. ASSUME NEW q \in Procs, q # p PROVE (ProcInv(q) /\ GenInv(q))'
  <2>1. /\ argv'[q] = argv[q] /\ pc'[q] = pc[q] /\ exit'[q] = exit[q] /\ args'[q] = args[q]
        /\ round'[q] = round[q] /\ stage'[q] = stage[q] /\ out'[q] = out[q]
    BY <1>5 DEF IInv, ProgTypes, Writes
  <2>2. sent'[q] = sent[q] /\ pos'[q] = pos[q]
    BY <1>5 DEF IInv, MediumTypes
  <2>3. sockets'[q].open = sockets[q].open
    BY <1>5
  <2>4. ProcInv(q) /\ GenInv(q)
    BY DEF IInv
  <2> QED
    BY <2>1, <2>2, <2>3, <2>4, Zenon DEF ProcInv, GenInv
<1> QED
  BY <1>1, <1>2, <1>4, <1>5, Zenon DEF IInv

\* The capture and its writer stay what they are.
LEMMA FileKept ==
  ASSUME IInv, file' = file, pos' = pos, sent' = sent,
         \A q \in Procs : Writer(pc'[q], args'[q]) <=> Writer(pc[q], args[q])
  PROVE  FileInv'
<1>1. FileInv
  BY DEF IInv
<1> QED
  BY <1>1, Zenon DEF FileInv

\* A step of p that leaves the media alone.
LEMMA QuietStep ==
  ASSUME IInv, NEW p \in Procs, NEW w, NEW c, NEW a, NEW r, NEW k, NEW l,
         Fits(w, c, a, r, k, l), Writes(p, w, c, a, r, k, l), UNCHANGED mediumVars,
         Writer(w, a) <=> Writer(pc[p], args[p]),
         Proc(argv[p], w, c, a, r, l, sent[p], pos[p], sockets[p].open),
         Gen(w, c, a, r, k, l, sent[p])
  PROVE  IInv'
<1>1. ProgTypes /\ MediumTypes
  BY DEF IInv
<1>2. /\ sent' = sent /\ file' = file /\ pos' = pos /\ beats' = beats /\ harness' = harness
      /\ sockets' = sockets /\ noise' = noise /\ readError' = readError
  BY DEF mediumVars
<1>3. sent' = [sent EXCEPT ![p] = sent[p]] /\ pos' = [pos EXCEPT ![p] = pos[p]]
      /\ sent[p] \in Queue /\ pos[p] \in Nat
  BY <1>1, <1>2 DEF MediumTypes
<1>4. /\ file' \in Capture /\ beats' \in Queue /\ harness' \in {"up", "gone"} /\ noise' \in Nat
      /\ sockets' \in [Procs -> Socket] /\ readError' \in [Procs -> BOOLEAN]
      /\ \A q \in Procs \ {p} : sockets'[q].open = sockets[q].open
      /\ sockets'[p].open = sockets[p].open
  BY <1>1, <1>2, Zenon DEF MediumTypes
<1>5. FileInv'
  <2>1. \A q \in Procs \ {p} : pc'[q] = pc[q] /\ args'[q] = args[q]
    BY <1>1 DEF ProgTypes, Writes
  <2>2. pc'[p] = w /\ args'[p] = a
    BY <1>1 DEF ProgTypes, Writes
  <2>3. \A q \in Procs : Writer(pc'[q], args'[q]) <=> Writer(pc[q], args[q])
    BY <2>1, <2>2, Zenon
  <2> QED
    BY <1>2, <2>3, FileKept
<1>6. Bounds'
  BY <1>2 DEF Bounds, IInv
<1> QED
  BY <1>3, <1>4, <1>5, <1>6, MediumStep

\* An UNCHANGED component is written as it was.
LEMMA Rewrite ==
  ASSUME ProgTypes, NEW p \in Procs
  PROVE  /\ pc = [pc EXCEPT ![p] = pc[p]] /\ exit = [exit EXCEPT ![p] = exit[p]]
         /\ args = [args EXCEPT ![p] = args[p]] /\ round = [round EXCEPT ![p] = round[p]]
         /\ stage = [stage EXCEPT ![p] = stage[p]] /\ out = [out EXCEPT ![p] = out[p]]
BY DEF ProgTypes

\* What is known of the process that takes a step.
LEMMA Own ==
  ASSUME IInv, NEW p \in Procs
  PROVE  /\ ProgTypes /\ MediumTypes
         /\ Fits(pc[p], exit[p], args[p], round[p], stage[p], out[p])
         /\ Proc(argv[p], pc[p], exit[p], args[p], round[p], out[p], sent[p], pos[p], sockets[p].open)
         /\ Gen(pc[p], exit[p], args[p], round[p], stage[p], out[p], sent[p])
<1>1. ProgTypes /\ MediumTypes /\ ProcInv(p) /\ GenInv(p)
  BY DEF IInv
<1> QED
  BY <1>1, ProcTypes DEF ProcInv, GenInv, Fits

\* A process may end wherever it does not listen, with what code it likes.
LEMMA ProcExit ==
  ASSUME NEW words, NEW where, NEW code, NEW a, NEW r, NEW lines, NEW packets, NEW position,
         NEW new \in Codes, NEW newLines, Proc(words, where, code, a, r, lines, packets, position, FALSE),
         new # Running, where = "open" => newLines = <<>> /\ new # 0
  PROVE  Proc(words, where, new, a, r, newLines, packets, position, FALSE)
BY DEF Proc

\* Before its loop a process generates nothing.
LEMMA GenEarly ==
  ASSUME NEW where \in Early, NEW code, NEW a, NEW r, NEW k, NEW lines, NEW packets
  PROVE  Gen(where, code, a, r, k, lines, packets)
BY DEF Gen, Early, Late

\* Nor does a decoder.
LEMMA GenDecode ==
  ASSUME NEW where, NEW code, NEW a, NEW r, NEW k, NEW lines, NEW packets, a.decode
  PROVE  Gen(where, code, a, r, k, lines, packets)
BY DEF Gen

\* The exit codes are not Running.
LEMMA ExitCodes ==
  /\ Running \in Codes /\ 0 \in Codes /\ 1 \in Codes /\ 2 \in Codes /\ Interrupted \in Codes
  /\ Aborted \in Codes /\ BrokenPipe \in Codes
  /\ 0 # Running /\ 1 # Running /\ 2 # Running /\ Interrupted # Running /\ Aborted # Running
  /\ BrokenPipe # Running
BY DEF Codes, Running, Interrupted, Aborted, BrokenPipe

\* A process in its first steps ends.
LEMMA EarlyExit ==
  ASSUME IInv, NEW p \in Procs, NEW c \in Codes, c # Running, NEW l \in Lines, pc[p] \in Early,
         pc[p] = "open" => l = <<>> /\ c # 0, Exits(p, c), argv' = argv, args' = args, round' = round, stage' = stage,
         out' = [out EXCEPT ![p] = l], UNCHANGED mediumVars
  PROVE  IInv'
<1> DEFINE w == pc[p]
           a == args[p]
           r == round[p]
           k == stage[p]
<1>1. ProgTypes /\ Fits(w, exit[p], a, r, k, out[p])
      /\ Proc(argv[p], w, exit[p], a, r, out[p], sent[p], pos[p], sockets[p].open)
  BY Own
<1>2. sockets[p].open = FALSE
  <2>1. sockets[p].open \in BOOLEAN
    BY Own, ProcTypes
  <2>2. ~sockets[p].open
    BY <1>1 DEF Proc
  <2> QED
    BY <2>1, <2>2
<1>3. Proc(argv[p], w, c, a, r, l, sent[p], pos[p], sockets[p].open)
  <2>1. Proc(argv[p], w, exit[p], a, r, out[p], sent[p], pos[p], FALSE)
    BY <1>1, <1>2, Zenon
  <2>2. Proc(argv[p], w, c, a, r, l, sent[p], pos[p], FALSE)
    <3>1. w = "open" => l = <<>> /\ c # 0
      OBVIOUS
    <3> HIDE DEF w, a, r
    <3> QED
      BY <2>1, <3>1, ProcExit
  <2> QED
    BY <1>2, <2>2, Zenon
<1>4. Gen(w, c, a, r, k, l, sent[p])
  BY GenEarly
<1>5. Writes(p, w, c, a, r, k, l)
  BY <1>1, Rewrite DEF Writes, Exits
<1>6. Fits(w, c, a, r, k, l)
  BY <1>1 DEF Fits
<1>7. Writer(w, a) <=> Writer(pc[p], args[p])
  OBVIOUS
<1> HIDE DEF w, a, r, k
<1> QED
  BY <1>3, <1>4, <1>5, <1>6, <1>7, QuietStep

\* A process in its first steps goes on with the arguments a.
LEMMA EarlyGoesOn ==
  ASSUME IInv, NEW p \in Procs, NEW w \in Early \cup {"loop"}, NEW a \in Args, pc[p] \in Early, exit[p] = Running,
         Accepted(argv[p], a), w \in {"open"} \cup Late => Resolves(a), w = "loop" => Kind(a) = "none",
         pc' = [pc EXCEPT ![p] = w], args' = [args EXCEPT ![p] = a],
         argv' = argv, exit' = exit, round' = round, stage' = stage, out' = out, UNCHANGED mediumVars
  PROVE  IInv'
<1> DEFINE r == round[p]
           k == stage[p]
           l == out[p]
<1>1. ProgTypes /\ Fits(pc[p], exit[p], args[p], r, k, l)
      /\ Proc(argv[p], pc[p], exit[p], args[p], r, l, sent[p], pos[p], sockets[p].open)
  BY Own
<1>2. r = 0 /\ l = <<>> /\ sent[p] = <<>> /\ pos[p] = 0 /\ ~sockets[p].open
  BY <1>1 DEF Proc
<1>3. w \in Early \cup Late /\ w \notin {"print", "send"} /\ pc[p] \notin Late
  BY DEF Early, Late
<1>4. Proc(argv[p], w, Running, a, r, l, sent[p], pos[p], sockets[p].open)
  <2>1. a.count \in Nat /\ Running # 0
    BY ExitCodes DEF Args
  <2> QED
    BY <1>2, <1>3, <2>1 DEF Proc
<1>5. Gen(w, Running, a, r, k, l, sent[p])
  <2>1. CASE w \in Early
    BY <2>1, GenEarly
  <2>2. CASE w = "loop"
    BY <1>2, <2>2, GenStart DEF Late
  <2> QED
    BY <2>1, <2>2
<1>6. Writes(p, w, Running, a, r, k, l)
  BY <1>1, Rewrite DEF Writes
<1>7. Fits(w, Running, a, r, k, l)
  BY <1>1, <1>3, ExitCodes DEF Fits
<1>8. ~Writer(w, a) /\ ~Writer(pc[p], args[p])
  BY DEF Writer, Early, Late
<1> HIDE DEF r, k, l
<1> QED
  BY <1>3, <1>4, <1>5, <1>6, <1>7, <1>8, QuietStep

\* parseArgs
LEMMA ParseArgsKeeps ==
  ASSUME IInv, NEW p \in Procs, ParseArgs(p)
  PROVE  IInv'
<1> DEFINE s == ReadWords(argv[p])
<1>1. ProgTypes /\ Fits(pc[p], exit[p], args[p], round[p], stage[p], out[p])
  BY Own
<1>2. s \in Scan
  <2>1. argv[p] \in Seq(STRING)
    BY <1>1, PacketGenAssumption DEF ProgTypes
  <2> QED
    BY <2>1, StringTexts, ReadWordsType
<1>3. pc[p] = "start" /\ pc[p] \in Early /\ exit[p] = Running /\ out[p] \in Lines
  BY <1>1 DEF ParseArgs, Early, Fits
<1>4. /\ argv' = argv /\ round' = round /\ stage' = stage /\ out' = out /\ UNCHANGED mediumVars
      /\ out' = [out EXCEPT ![p] = out[p]]
  BY <1>1, Rewrite DEF ParseArgs
<1>5. \/ s.exit # Running /\ exit' = [exit EXCEPT ![p] = s.exit] /\ pc' = pc /\ args' = args
      \/ exit' = [exit EXCEPT ![p] = 1] /\ pc' = pc /\ args' = args
      \/ /\ s.exit = Running /\ ~ArgsRefused(s.args) /\ args' = [args EXCEPT ![p] = Completed(s.args)]
         /\ pc' = [pc EXCEPT ![p] = "args"] /\ exit' = exit
  BY DEF ParseArgs
<1>6. CASE s.exit # Running /\ exit' = [exit EXCEPT ![p] = s.exit] /\ pc' = pc /\ args' = args
  <2>1. s.exit \in Codes
    BY <1>2 DEF Scan, Codes
  <2>2. Exits(p, s.exit)
    BY <1>6 DEF Exits
  <2> HIDE DEF s
  <2> QED
    BY <1>3, <1>4, <1>6, <2>1, <2>2, EarlyExit
<1>7. CASE exit' = [exit EXCEPT ![p] = 1] /\ pc' = pc /\ args' = args
  <2>1. Exits(p, 1)
    BY <1>7 DEF Exits
  <2> QED
    BY <1>3, <1>4, <1>7, <2>1, EarlyExit, ExitCodes
<1>8. CASE /\ s.exit = Running /\ ~ArgsRefused(s.args) /\ args' = [args EXCEPT ![p] = Completed(s.args)]
           /\ pc' = [pc EXCEPT ![p] = "args"] /\ exit' = exit
  <2>1. Completed(s.args) \in Args
    BY <1>2, CompletedType DEF Scan
  <2>2. Accepted(argv[p], Completed(s.args))
    BY <1>8 DEF Accepted
  <2>3. "args" \in Early /\ "args" \notin {"open"} \cup Late
    BY DEF Early, Late
  <2> HIDE DEF s
  <2> QED
    BY <1>3, <1>4, <1>8, <2>1, <2>2, <2>3, EarlyGoesOn
<1> QED
  BY <1>5, <1>6, <1>7, <1>8

\* What a process at one of its first steps has.
LEMMA AtEarly ==
  ASSUME IInv, NEW p \in Procs, NEW where \in Early, where # "start", At(p, where)
  PROVE  /\ pc[p] \in Early /\ exit[p] = Running /\ args[p] \in Args /\ Accepted(argv[p], args[p])
         /\ out[p] \in Lines /\ out[p] = <<>> /\ sent[p] = <<>> /\ round[p] = 0 /\ pos[p] = 0
         /\ ~sockets[p].open /\ pc[p] = where
         /\ out = [out EXCEPT ![p] = out[p]] /\ args = [args EXCEPT ![p] = args[p]]
         /\ where = "open" => Resolves(args[p])
<1>1. ProgTypes /\ Fits(pc[p], exit[p], args[p], round[p], stage[p], out[p])
      /\ Proc(argv[p], pc[p], exit[p], args[p], round[p], out[p], sent[p], pos[p], sockets[p].open)
  BY Own
<1>2. pc[p] = where /\ exit[p] = Running
  BY DEF At
<1>3. out = [out EXCEPT ![p] = out[p]] /\ args = [args EXCEPT ![p] = args[p]]
  BY <1>1, Rewrite
<1> QED
  BY <1>1, <1>2, <1>3 DEF Proc, Fits

\* The directory is read.
LEMMA ReadDirectoryKeeps ==
  ASSUME IInv, NEW p \in Procs, ReadDirectory(p)
  PROVE  IInv'
<1>1. At(p, "args") /\ "args" \in Early
  BY DEF ReadDirectory, Early
<1>2. /\ argv' = argv /\ args' = args /\ round' = round /\ stage' = stage /\ out' = out
      /\ UNCHANGED mediumVars
  BY DEF ReadDirectory
<1>3. \/ \E code \in {0, 2, Aborted} : Exits(p, code)
      \/ Goes(p, "parsed")
  BY DEF ReadDirectory
<1>4. ASSUME NEW code \in {0, 2, Aborted}, Exits(p, code) PROVE IInv'
  <2>1. code \in Codes /\ code # Running
    BY ExitCodes
  <2> QED
    BY <1>1, <1>2, <1>4, <2>1, AtEarly, EarlyExit
<1>5. CASE Goes(p, "parsed")
  <2>1. "parsed" \in Early /\ "parsed" \notin {"open"} \cup Late
    BY DEF Early, Late
  <2>2. pc' = [pc EXCEPT ![p] = "parsed"] /\ exit' = exit
    BY <1>5 DEF Goes
  <2> QED
    BY <1>1, <1>2, <2>1, <2>2, AtEarly, EarlyGoesOn
<1> QED
  BY <1>3, <1>4, <1>5

\* The modes without a transport, and names that are not there.
LEMMA PrepareKeeps ==
  ASSUME IInv, NEW p \in Procs, Prepare(p)
  PROVE  IInv'
<1> DEFINE a == args[p]
           Ends == \E c \in {0, 1, 2, Aborted} : Exits(p, c) /\ out' = out
           Hex == Exits(p, 0) /\ out' = [out EXCEPT ![p] = <<<<HexPacket>>>>]
           GoesOn == \E w \in {"open", "loop"} : /\ Resolves(a) /\ Goes(p, w) /\ out' = out
                                                 /\ w = "loop" => Kind(a) = "none"
<1>1. At(p, "parsed") /\ "parsed" \in Early
  BY DEF Prepare, Early
<1>2. /\ argv' = argv /\ args' = args /\ round' = round /\ stage' = stage /\ UNCHANGED mediumVars
  BY DEF Prepare
<1>3. Ends \/ Hex \/ GoesOn
  BY Zenon DEF Prepare
<1>4. CASE Ends
  <2>1. PICK c \in {0, 1, 2, Aborted} : Exits(p, c) /\ out' = out
    BY <1>4
  <2>2. c \in Codes /\ c # Running
    BY ExitCodes
  <2> QED
    BY <1>1, <1>2, <2>1, <2>2, AtEarly, EarlyExit
<1>5. CASE Hex
  <2>1. HexPacket \in Frames
    BY DEF HexPacket, Frames
  <2>2. <<<<HexPacket>>>> \in Lines
    <3>1. <<HexPacket>> \in Queue
      BY <2>1 DEF Queue
    <3> QED
      BY <3>1 DEF Lines
  <2>3. pc[p] \in Early /\ pc[p] # "open"
    BY <1>1, AtEarly
  <2> QED
    BY <1>2, <1>5, <2>2, <2>3, ExitCodes, EarlyExit
<1>6. CASE GoesOn
  <2>1. PICK w \in {"open", "loop"} : /\ Resolves(a) /\ Goes(p, w) /\ out' = out
                                      /\ w = "loop" => Kind(a) = "none"
    BY <1>6
  <2>2. w \in Early \cup {"loop"}
    BY DEF Early
  <2>3. pc' = [pc EXCEPT ![p] = w] /\ exit' = exit
    BY <2>1 DEF Goes
  <2> QED
    BY <1>1, <1>2, <2>1, <2>2, <2>3, AtEarly, EarlyGoesOn
<1> HIDE DEF Ends, Hex, GoesOn
<1> QED
  BY <1>3, <1>4, <1>5, <1>6

\* There is no such file, harness or interface.
LEMMA OpenFailedKeeps ==
  ASSUME IInv, NEW p \in Procs, OpenFailed(p)
  PROVE  IInv'
<1>1. At(p, "open") /\ "open" \in Early /\ Exits(p, 2)
  BY DEF OpenFailed, Early
<1>2. /\ argv' = argv /\ args' = args /\ round' = round /\ stage' = stage /\ out' = out
      /\ UNCHANGED mediumVars
  BY DEF OpenFailed
<1>3. pc[p] \in Early /\ out[p] = <<>> /\ out[p] \in Lines /\ out' = [out EXCEPT ![p] = out[p]]
  BY <1>1, <1>2, AtEarly
<1>4. 2 \in Codes /\ 2 # Running /\ 2 # 0
  BY ExitCodes
<1> QED
  BY <1>1, <1>2, <1>3, <1>4, EarlyExit

\* What a process in its loops has.
LEMMA AtLate ==
  ASSUME IInv, NEW p \in Procs, NEW where \in Late, At(p, where)
  PROVE  /\ pc[p] = where /\ exit[p] = Running /\ args[p] \in Args /\ Accepted(argv[p], args[p])
         /\ Resolves(args[p]) /\ Stages(args[p]) \in Seq(BOOLEAN)
         /\ round[p] \in Nat /\ stage[p] \in Nat \ {0} /\ out[p] \in Lines /\ sent[p] \in Queue
         /\ args[p].count \in Nat /\ (args[p].count # 0 => round[p] <= args[p].count)
         /\ where \in {"print", "send"} =>
              ~args[p].decode /\ (args[p].count # 0 => round[p] < args[p].count)
         /\ Gen(where, Running, args[p], round[p], stage[p], out[p], sent[p])
         /\ ProgTypes /\ MediumTypes
<1>1. ProgTypes /\ MediumTypes /\ Fits(pc[p], exit[p], args[p], round[p], stage[p], out[p])
      /\ Proc(argv[p], pc[p], exit[p], args[p], round[p], out[p], sent[p], pos[p], sockets[p].open)
      /\ Gen(pc[p], exit[p], args[p], round[p], stage[p], out[p], sent[p])
  BY Own
<1>2. pc[p] = where /\ exit[p] = Running
  BY DEF At
<1>3. where # "start" /\ where \in {"open"} \cup Late
  BY DEF Late
<1>4. Accepted(argv[p], args[p]) /\ Resolves(args[p]) /\ (args[p].count # 0 => round[p] <= args[p].count)
      /\ (where \in {"print", "send"} =>
              ~args[p].decode /\ (args[p].count # 0 => round[p] < args[p].count))
  BY <1>1, <1>2, <1>3 DEF Proc
<1>5. /\ args[p] \in Args /\ round[p] \in Nat /\ stage[p] \in Nat \ {0} /\ out[p] \in Lines
      /\ sent[p] \in Queue
  BY <1>1, ProcTypes
<1>6. Stages(args[p]) \in Seq(BOOLEAN) /\ args[p].count \in Nat
  BY <1>4, <1>5, StagesType DEF Args
<1>7. Gen(where, Running, args[p], round[p], stage[p], out[p], sent[p])
  BY <1>1, <1>2, Zenon
<1> QED
  BY <1>1, <1>2, <1>4, <1>5, <1>6, <1>7, Zenon

\* A process in its loops goes on within them.
LEMMA LateProc ==
  ASSUME IInv, NEW p \in Procs, NEW where \in Late, At(p, where), NEW w \in Late, NEW r \in Nat, NEW l, NEW t,
         NEW n,
         w \in {"print", "send"} => ~args[p].decode /\ (args[p].count # 0 => r < args[p].count),
         args[p].count # 0 => r <= args[p].count
  PROVE  Proc(argv[p], w, Running, args[p], r, l, t, n, sockets[p].open)
<1>1. Accepted(argv[p], args[p]) /\ Resolves(args[p])
  BY AtLate
<1>2. w \notin Early /\ w # "open"
  BY DEF Early, Late
<1> QED
  BY <1>1, <1>2 DEF Proc

\* A step of a process in its loops that leaves the media alone.
LEMMA LateStep ==
  ASSUME IInv, NEW p \in Procs, NEW where \in Late, At(p, where), NEW w \in Late, NEW r \in Nat,
         NEW k \in Nat \ {0}, NEW l \in Lines,
         w \in {"print", "send"} => ~args[p].decode /\ (args[p].count # 0 => r < args[p].count),
         args[p].count # 0 => r <= args[p].count,
         Gen(w, Running, args[p], r, k, l, sent[p]),
         argv' = argv, args' = args, Goes(p, w), round' = [round EXCEPT ![p] = r],
         stage' = [stage EXCEPT ![p] = k], out' = [out EXCEPT ![p] = l], UNCHANGED mediumVars
  PROVE  IInv'
<1>1. exit[p] = Running /\ args[p] \in Args /\ ProgTypes
  BY AtLate
<1>2. Proc(argv[p], w, Running, args[p], r, l, sent[p], pos[p], sockets[p].open)
  BY LateProc
<1>3. Writes(p, w, Running, args[p], r, k, l)
  BY <1>1, Rewrite DEF Writes, Goes
<1>4. Fits(w, Running, args[p], r, k, l)
  BY <1>1, ExitCodes DEF Fits
<1>5. Writer(w, args[p]) <=> Writer(pc[p], args[p])
  BY AtLate DEF Writer
<1> QED
  BY <1>2, <1>3, <1>4, <1>5, QuietStep

\* The next packet, by name.
LEMMA PacketIs ==
  \A p \in Procs, k \in Nat : Packet(p, k) = PacketOf(args[p], round[p] + 1, k)
BY DEF Packet, PacketOf

\* A round is generated.
LEMMA GenerateKeeps ==
  ASSUME IInv, NEW p \in Procs, Generate(p)
  PROVE  IInv'
<1> DEFINE a == args[p]
           r == round[p]
           l == IF PrintsRound(a) THEN Append(out[p], Row(a, r + 1)) ELSE out[p]
<1>1. At(p, "loop") /\ ~a.decode /\ More(a, r) /\ "loop" \in Late /\ "print" \in Late
  BY DEF Generate, Late
<1>2. /\ exit[p] = Running /\ a \in Args /\ Resolves(a) /\ Stages(a) \in Seq(BOOLEAN) /\ r \in Nat
      /\ out[p] \in Lines /\ a.count \in Nat /\ ProgTypes
      /\ Gen("loop", Running, a, r, stage[p], out[p], sent[p])
  BY <1>1, AtLate
<1>3. l \in Lines
  <2>1. Row(a, r + 1) \in Queue
    BY <1>2, RowType
  <2> QED
    BY <1>2, <2>1 DEF Lines
<1>4. Gen("print", Running, a, r, 1, l, sent[p])
  BY <1>1, <1>2, GenGenerate
<1>5. [k \in DOMAIN Stages(a) |-> Packet(p, k)] = Row(a, r + 1)
  BY DEF Row, Packet, PacketOf
<1>6. out' = [out EXCEPT ![p] = l]
  <2>1. CASE PrintsRound(a)
    BY <1>5, <2>1 DEF Generate
  <2>2. CASE ~PrintsRound(a)
    BY <1>2, <2>2, Rewrite DEF Generate
  <2> QED
    BY <2>1, <2>2
<1>7. /\ argv' = argv /\ args' = args /\ Goes(p, "print") /\ stage' = [stage EXCEPT ![p] = 1]
      /\ round' = [round EXCEPT ![p] = r] /\ UNCHANGED mediumVars
  BY <1>2, Rewrite DEF Generate
<1>8. (a.count # 0 => r < a.count) /\ (a.count # 0 => r <= a.count)
  BY <1>1, <1>2 DEF More
<1>9. 1 \in Nat \ {0}
  OBVIOUS
<1> HIDE DEF l, r
<1> QED
  BY <1>1, <1>2, <1>3, <1>4, <1>6, <1>7, <1>8, <1>9, LateStep

\* A packet is printed.
LEMMA PrintStageKeeps ==
  ASSUME IInv, NEW p \in Procs, PrintStage(p)
  PROVE  IInv'
<1> DEFINE a == args[p]
           r == round[p]
           k == stage[p]
           l == IF PrintsRound(a) THEN out[p] ELSE Append(out[p], <<PacketOf(a, r + 1, k)>>)
<1>1. At(p, "print") /\ "print" \in Late /\ "send" \in Late /\ k <= Len(Stages(a))
  BY DEF PrintStage, Late
<1>2. /\ exit[p] = Running /\ a \in Args /\ Resolves(a) /\ Stages(a) \in Seq(BOOLEAN) /\ r \in Nat
      /\ k \in Nat \ {0} /\ out[p] \in Lines /\ a.count \in Nat /\ ProgTypes
      /\ Gen("print", Running, a, r, k, out[p], sent[p])
      /\ ~a.decode /\ (a.count # 0 => r < a.count)
  BY <1>1, AtLate
<1>3. l \in Lines
  <2>1. PacketOf(a, r + 1, k) \in Frames
    BY <1>1, <1>2, PacketOfType
  <2>2. <<PacketOf(a, r + 1, k)>> \in Queue
    BY <2>1 DEF Queue
  <2> QED
    BY <1>2, <2>2 DEF Lines
<1>4. Gen("send", Running, a, r, k, l, sent[p])
  BY <1>1, <1>2, GenPrint
<1>5. out' = [out EXCEPT ![p] = l]
  <2>1. CASE PrintsRound(a)
    BY <1>2, <2>1, Rewrite DEF PrintStage, PrintsRound
  <2>2. CASE ~PrintsRound(a)
    <3>1. Packet(p, k) = PacketOf(a, r + 1, k)
      BY <1>2, PacketIs
    <3>2. out' = [out EXCEPT ![p] = Append(out[p], <<Packet(p, k)>>)]
      BY <2>2 DEF PrintStage, PrintsRound
    <3> QED
      BY <2>2, <3>1, <3>2
  <2> QED
    BY <2>1, <2>2
<1>6. /\ argv' = argv /\ args' = args /\ Goes(p, "send") /\ stage' = [stage EXCEPT ![p] = k]
      /\ round' = [round EXCEPT ![p] = r] /\ UNCHANGED mediumVars
  BY <1>2, Rewrite DEF PrintStage
<1>7. a.count # 0 => r <= a.count
  BY <1>2
<1> HIDE DEF l
<1> QED
  BY <1>1, <1>2, <1>3, <1>4, <1>5, <1>6, <1>7, LateStep

\* A round ends.
LEMMA EndRoundKeeps ==
  ASSUME IInv, NEW p \in Procs, EndRound(p)
  PROVE  IInv'
<1> DEFINE a == args[p]
           r == round[p]
           k == stage[p]
           l == out[p]
<1>1. At(p, "print") /\ "print" \in Late /\ "loop" \in Late /\ k > Len(Stages(a))
  BY DEF EndRound, Late
<1>2. /\ a \in Args /\ Resolves(a) /\ r \in Nat /\ r + 1 \in Nat
      /\ k \in Nat \ {0} /\ l \in Lines /\ a.count \in Nat /\ ProgTypes
      /\ Gen("print", Running, a, r, k, l, sent[p])
      /\ ~a.decode /\ (a.count # 0 => r < a.count)
  BY <1>1, AtLate
<1>3. Gen("loop", Running, a, r + 1, k, l, sent[p])
  BY <1>1, <1>2, GenEnd
<1>4. /\ argv' = argv /\ args' = args /\ Goes(p, "loop") /\ stage' = [stage EXCEPT ![p] = k]
      /\ round' = [round EXCEPT ![p] = r + 1] /\ out' = [out EXCEPT ![p] = l] /\ UNCHANGED mediumVars
  BY <1>2, Rewrite DEF EndRound
<1>5. a.count # 0 => r + 1 <= a.count
  BY <1>2
<1> QED
  BY <1>1, <1>2, <1>3, <1>4, <1>5, LateStep

\* There is one generator.
LEMMA OnlyGenerator ==
  ASSUME IInv, NEW p \in Procs, NEW q \in Procs, pc[p] # "start", pc[q] # "start",
         ~args[p].decode, ~args[q].decode
  PROVE  p = q
<1>1. Accepted(argv[p], args[p]) /\ Accepted(argv[q], args[q])
  BY Own DEF Proc
<1>2. IsGenerator(argv[p]) /\ IsGenerator(argv[q])
  BY <1>1, Zenon DEF Accepted, IsGenerator
<1>3. argv \in CommandLines
  BY DEF IInv, ProgTypes
<1> QED
  BY <1>2, <1>3, OneEach

\* A process ends and its socket is closed.
LEMMA EndStep ==
  ASSUME IInv, NEW p \in Procs, exit[p] = Running, NEW c \in Codes, c # Running, NEW l \in Lines,
         Exits(p, c), argv' = argv, args' = args, round' = round, stage' = stage,
         out' = [out EXCEPT ![p] = l], Release(p), readError' \in [Procs -> BOOLEAN],
         sent' = sent, file' = file, pos' = pos, beats' = beats, harness' = harness, noise' = noise,
         pc[p] \in Late /\ ~args[p].decode /\ c \in {0, 1, 2} =>
           l = out[p] /\ (c = 0 => pc[p] = "loop" /\ ~More(args[p], round[p])),
         pc[p] = "open" => l = <<>> /\ c # 0
  PROVE  IInv'
<1> DEFINE w == pc[p]
           a == args[p]
           r == round[p]
           k == stage[p]
<1>1. /\ ProgTypes /\ MediumTypes /\ Fits(w, exit[p], a, r, k, out[p])
      /\ Proc(argv[p], w, exit[p], a, r, out[p], sent[p], pos[p], sockets[p].open)
      /\ Gen(w, exit[p], a, r, k, out[p], sent[p])
  BY Own
<1>2. sockets' \in [Procs -> Socket] /\ sockets'[p].open = FALSE
      /\ \A q \in Procs \ {p} : sockets'[q].open = sockets[q].open
  <2>1. Closed \in Socket /\ Closed.open = FALSE
    <3>1. <<>> \in Queue
      BY DEF Queue
    <3> QED
      BY <3>1 DEF Closed, Socket
  <2> QED
    BY <1>1, <2>1 DEF Release, MediumTypes
<1>3. Proc(argv[p], w, c, a, r, l, sent[p], pos[p], FALSE)
  BY <1>1 DEF Proc
<1>4. Gen(w, c, a, r, k, l, sent[p])
  <2>1. CASE pc[p] \in Late /\ ~args[p].decode /\ c \in {0, 1, 2}
    <3>1. Gen(w, Running, a, r, k, l, sent[p])
      BY <1>1, <2>1, Zenon
    <3>2. c = 0 /\ w \in Late /\ ~a.decode => w = "loop" /\ ~More(a, r)
      BY <2>1
    <3> HIDE DEF w, a, r, k
    <3> QED
      BY <3>1, <3>2, GenExit
  <2>2. CASE ~(pc[p] \in Late /\ ~args[p].decode /\ c \in {0, 1, 2})
    BY <2>2 DEF Gen
  <2> QED
    BY <2>1, <2>2
<1>5. Writes(p, w, c, a, r, k, l)
  BY <1>1, Rewrite DEF Writes, Exits
<1>6. Fits(w, c, a, r, k, l)
  BY <1>1 DEF Fits
<1>7. /\ sent' = [sent EXCEPT ![p] = sent[p]] /\ pos' = [pos EXCEPT ![p] = pos[p]]
      /\ sent[p] \in Queue /\ pos[p] \in Nat
  BY <1>1 DEF MediumTypes
<1>8. /\ file' \in Capture /\ beats' \in Queue /\ harness' \in {"up", "gone"} /\ noise' \in Nat
  BY <1>1, Zenon DEF MediumTypes
<1>9. FileInv'
  <2>1. pc' = pc /\ args' = args
    BY DEF Exits
  <2> QED
    BY <2>1, FileKept
<1>10. Bounds'
  BY DEF Bounds, IInv
<1>11. Proc(argv[p], w, c, a, r, l, sent[p], pos[p], sockets'[p].open)
  BY <1>2, <1>3, Zenon
<1> HIDE DEF w, a, r, k
<1> QED
  BY <1>2, <1>4, <1>5, <1>6, <1>7, <1>8, <1>9, <1>10, <1>11, MediumStep

\* send() failed.
LEMMA SendFailsKeeps ==
  ASSUME IInv, NEW p \in Procs, SendFails(p)
  PROVE  IInv'
<1>1. /\ exit[p] = Running /\ pc[p] = "send" /\ Exits(p, 2) /\ Release(p) /\ stage' = stage
  BY DEF SendFails, AfterFailure, At
<1>2. /\ argv' = argv /\ args' = args /\ round' = round /\ out' = out /\ sent' = sent /\ file' = file
      /\ pos' = pos /\ beats' = beats /\ harness' = harness /\ noise' = noise /\ readError' = readError
  BY DEF SendFails
<1>3. out' = [out EXCEPT ![p] = out[p]] /\ out[p] \in Lines /\ readError' \in [Procs -> BOOLEAN]
  BY <1>2, Own, Rewrite, ProcTypes DEF MediumTypes
<1>4. 2 \in Codes /\ 2 # Running /\ 2 # 0
  BY ExitCodes
<1> QED
  BY <1>1, <1>2, <1>3, <1>4, EndStep

\* A signal.
LEMMA KilledKeeps ==
  ASSUME IInv, NEW p \in Procs, exit[p] = Running, NEW c \in {Interrupted, BrokenPipe}, Killed(p, c)
  PROVE  IInv'
<1>1. PICK n \in 0 .. Len(out[p]) : out' = [out EXCEPT ![p] = SubSeq(@, 1, n)]
  BY DEF Killed
<1>2. out[p] \in Lines /\ MediumTypes
  BY Own, ProcTypes
<1>3. SubSeq(out[p], 1, n) \in Lines
  BY <1>2 DEF Lines
<1>4. out' = [out EXCEPT ![p] = SubSeq(out[p], 1, n)]
  BY <1>1
<1>5. /\ argv' = argv /\ args' = args /\ round' = round /\ stage' = stage /\ sent' = sent /\ file' = file
      /\ pos' = pos /\ beats' = beats /\ harness' = harness /\ noise' = noise /\ readError' = readError
      /\ Exits(p, c) /\ Release(p)
  BY DEF Killed
<1>6. readError' \in [Procs -> BOOLEAN]
  BY <1>2, <1>5 DEF MediumTypes
<1>7. c \in Codes /\ c # Running /\ c \notin {0, 1, 2}
  BY DEF Codes, Running, Interrupted, BrokenPipe
<1>8. pc[p] = "open" => SubSeq(out[p], 1, n) = <<>>
  <2> SUFFICES ASSUME pc[p] = "open" PROVE SubSeq(out[p], 1, n) = <<>>
    OBVIOUS
  <2>1. out[p] = <<>>
    BY Own DEF Proc
  <2>2. n = 0
    BY <2>1
  <2> QED
    BY <2>1, <2>2
<1> QED
  BY <1>3, <1>4, <1>5, <1>6, <1>7, <1>8, EndStep

\* The end of the packets.
LEMMA ReceiveEofKeeps ==
  ASSUME IInv, NEW p \in Procs, ReceiveEof(p)
  PROVE  IInv'
<1>1. exit[p] = Running /\ pc[p] = "loop" /\ Exits(p, 0) /\ Release(p) /\ args[p].decode
  BY DEF ReceiveEof, AfterEof, Receives, At
<1>2. /\ argv' = argv /\ args' = args /\ round' = round /\ out' = out /\ sent' = sent /\ file' = file
      /\ pos' = pos /\ beats' = beats /\ harness' = harness /\ noise' = noise /\ readError' = readError
      /\ stage' = stage
  BY DEF ReceiveEof
<1>3. out' = [out EXCEPT ![p] = out[p]] /\ out[p] \in Lines /\ readError' \in [Procs -> BOOLEAN]
  BY <1>2, Own, Rewrite, ProcTypes DEF MediumTypes
<1> QED
  BY <1>1, <1>2, <1>3, EndStep, ExitCodes

\* A torn record.
LEMMA ReceiveTornKeeps ==
  ASSUME IInv, NEW p \in Procs, ReceiveTorn(p)
  PROVE  IInv'
<1>1. exit[p] = Running /\ pc[p] = "loop" /\ Exits(p, 2) /\ Release(p) /\ args[p].decode
  BY DEF ReceiveTorn, BodyUnread, Receives, At
<1>2. /\ argv' = argv /\ args' = args /\ round' = round /\ out' = out /\ sent' = sent /\ file' = file
      /\ pos' = pos /\ beats' = beats /\ harness' = harness /\ noise' = noise /\ readError' = readError
      /\ stage' = stage
  BY DEF ReceiveTorn
<1>3. out' = [out EXCEPT ![p] = out[p]] /\ out[p] \in Lines /\ readError' \in [Procs -> BOOLEAN]
  BY <1>2, Own, Rewrite, ProcTypes DEF MediumTypes
<1> QED
  BY <1>1, <1>2, <1>3, EndStep, ExitCodes

\* receive() failed.
LEMMA ReceiveFailsKeeps ==
  ASSUME IInv, NEW p \in Procs, ReceiveFails(p)
  PROVE  IInv'
<1>1. exit[p] = Running /\ pc[p] = "loop" /\ Release(p) /\ args[p].decode
  BY DEF ReceiveFails, Receives, At
<1>2. PICK c \in {0, 2} : Exits(p, c)
  BY DEF ReceiveFails, BodyUnread
<1>3. /\ argv' = argv /\ args' = args /\ round' = round /\ out' = out /\ sent' = sent /\ file' = file
      /\ pos' = pos /\ beats' = beats /\ harness' = harness /\ noise' = noise /\ stage' = stage
  BY DEF ReceiveFails
<1>4. out' = [out EXCEPT ![p] = out[p]] /\ out[p] \in Lines
  BY <1>3, Own, Rewrite, ProcTypes
<1>5. readError' \in [Procs -> BOOLEAN]
  <2>1. readError \in [Procs -> BOOLEAN]
    BY Own DEF MediumTypes
  <2> QED
    BY <2>1 DEF ReceiveFails
<1>6. c \in Codes /\ c # Running
  BY ExitCodes
<1> QED
  BY <1>1, <1>2, <1>3, <1>4, <1>5, <1>6, EndStep

\* All is done.
LEMMA FinishKeeps ==
  ASSUME IInv, NEW p \in Procs, Finish(p)
  PROVE  IInv'
<1>1. /\ exit[p] = Running /\ pc[p] = "loop" /\ ~More(args[p], round[p]) /\ Exits(p, 0) /\ Release(p)
  BY DEF Finish, At
<1>2. /\ argv' = argv /\ args' = args /\ round' = round /\ out' = out /\ sent' = sent /\ file' = file
      /\ pos' = pos /\ beats' = beats /\ harness' = harness /\ noise' = noise /\ readError' = readError
      /\ stage' = stage
  BY DEF Finish
<1>3. out' = [out EXCEPT ![p] = out[p]] /\ out[p] \in Lines /\ readError' \in [Procs -> BOOLEAN]
  BY <1>2, Own, Rewrite, ProcTypes DEF MediumTypes
<1> QED
  BY <1>1, <1>2, <1>3, EndStep, ExitCodes

\* A transport is open.
LEMMA OpenStep ==
  ASSUME IInv, NEW p \in Procs, At(p, "open"), Goes(p, "loop"), argv' = argv, args' = args,
         round' = round, stage' = stage, out' = out, sent' = sent, pos' = pos, beats' = beats,
         harness' = harness, noise' = noise, readError' = readError,
         file' \in Capture, FileInv', sockets' = sockets \/ Listening(p)
  PROVE  IInv'
<1> DEFINE a == args[p]
           k == stage[p]
<1>1. /\ exit[p] = Running /\ a \in Args /\ Accepted(argv[p], a) /\ Resolves(a)
      /\ out[p] = <<>> /\ sent[p] = <<>> /\ round[p] = 0 /\ pos[p] = 0 /\ ~sockets[p].open
  BY AtEarly DEF Early
<1>2. ProgTypes /\ MediumTypes /\ Fits(pc[p], exit[p], a, round[p], k, out[p])
  BY Own
<1>3. /\ sockets' \in [Procs -> Socket] /\ \A q \in Procs \ {p} : sockets'[q].open = sockets[q].open
  <2>1. [open |-> TRUE, queue |-> <<>>] \in Socket
    <3>1. <<>> \in Queue
      BY DEF Queue
    <3> QED
      BY <3>1 DEF Socket
  <2> QED
    BY <1>2, <2>1 DEF Listening, MediumTypes
<1>4. Proc(argv[p], "loop", Running, a, 0, <<>>, <<>>, 0, sockets'[p].open)
  <2>1. a.count \in Nat
    BY <1>1 DEF Args
  <2>2. "loop" \notin Early
    BY DEF Early
  <2> QED
    BY <1>1, <2>1, <2>2 DEF Proc
<1>5. Gen("loop", Running, a, 0, k, <<>>, <<>>)
  BY <1>1, GenStart
<1>6. Writes(p, "loop", Running, a, 0, k, <<>>)
  <2>1. /\ exit' = [exit EXCEPT ![p] = Running] /\ args' = [args EXCEPT ![p] = a]
        /\ round' = [round EXCEPT ![p] = 0]
    BY <1>1, <1>2, Rewrite, Zenon DEF Goes
  <2>2. stage' = [stage EXCEPT ![p] = k] /\ out' = [out EXCEPT ![p] = <<>>]
    BY <1>1, <1>2, Rewrite, Zenon
  <2> QED
    BY <2>1, <2>2 DEF Writes, Goes
<1>7. Fits("loop", Running, a, 0, k, <<>>)
  <2>1. <<>> \in Lines
    BY DEF Lines
  <2> QED
    BY <1>2, <2>1, ExitCodes DEF Fits, Late
<1>8. /\ sent' = [sent EXCEPT ![p] = <<>>] /\ pos' = [pos EXCEPT ![p] = 0] /\ <<>> \in Queue
  BY <1>1, <1>2 DEF MediumTypes, Queue
<1>9. /\ beats' \in Queue /\ harness' \in {"up", "gone"} /\ noise' \in Nat
      /\ readError' \in [Procs -> BOOLEAN]
  BY <1>2, Zenon DEF MediumTypes
<1>10. Bounds'
  BY DEF Bounds, IInv
<1> HIDE DEF a, k
<1> QED
  BY <1>3, <1>4, <1>5, <1>6, <1>7, <1>8, <1>9, <1>10, MediumStep

\* Which processes are writers, when p is in its loop now.
LEMMA NewWriter ==
  ASSUME IInv, NEW p \in Procs, pc[p] = "open", Goes(p, "loop"), args' = args
  PROVE  /\ \A q \in Procs : q # p => (Writer(pc'[q], args'[q]) <=> Writer(pc[q], args[q]))
         /\ ~Writer(pc[p], args[p]) /\ pc'[p] = "loop" /\ args'[p] = args[p]
<1>1. pc'[p] = "loop" /\ \A q \in Procs : q # p => pc'[q] = pc[q]
  BY DEF Goes, IInv, ProgTypes
<1>2. ~Writer(pc[p], args[p])
  BY DEF Writer, Late
<1> QED
  BY <1>1, <1>2, Zenon

\* The capture is new, and nobody has read from it.
LEMMA OpenSenderKeeps ==
  ASSUME IInv, NEW p \in Procs, OpenSender(p)
  PROVE  IInv'
<1>1. /\ At(p, "open") /\ pc[p] = "open" /\ Goes(p, "loop") /\ ~args[p].decode
      /\ argv' = argv /\ args' = args /\ round' = round /\ stage' = stage /\ out' = out
      /\ sent' = sent /\ pos' = pos /\ beats' = beats /\ harness' = harness /\ noise' = noise
      /\ readError' = readError
  BY DEF OpenSender, At
<1>2. /\ sent[p] = <<>> /\ ProgTypes /\ MediumTypes
  BY <1>1, AtEarly, Own DEF Early
<1>3. FileInv
  BY DEF IInv
<1>4. CASE Kind(args[p]) = "pcap" /\ file' = [made |-> TRUE, records |-> <<>>] /\ sockets' = sockets
  <2>1. file'.made /\ file'.records = <<>> /\ file' \in Capture
    BY <1>4 DEF Capture, Queue
  <2>2. ASSUME NEW g \in Procs, g # p PROVE ~Writer(pc[g], args[g])
    <3> SUFFICES ASSUME Writer(pc[g], args[g]) PROVE FALSE
      OBVIOUS
    <3>1. pc[g] # "start" /\ ~args[g].decode /\ pc[p] # "start"
      BY <1>1 DEF Writer, Late
    <3> QED
      BY <1>1, <2>2, <3>1, OnlyGenerator
  <2>3. ~file.made
    BY <1>1, <1>3, <2>2, NewWriter DEF FileInv
  <2>4. \A q \in Procs : pos[q] = 0
    <3>1. file.records = <<>>
      BY <1>3, <2>3 DEF FileInv
    <3>2. \A q \in Procs : pos[q] \in Nat /\ pos[q] <= 0
      BY <1>2, <1>3, <3>1 DEF FileInv, MediumTypes
    <3> QED
      BY <3>2
  <2>5. Writer(pc'[p], args'[p])
    BY <1>1, <1>4, NewWriter DEF Writer, Late
  <2>6. \A g \in Procs : Writer(pc'[g], args'[g]) => g = p
    BY <1>1, <2>2, NewWriter
  <2>7. Len(file'.records) = 0
    BY <2>1
  <2>8. \A q \in Procs : pos'[q] <= Len(file'.records)
    BY <1>1, <2>4, <2>7
  <2>9. \A g \in Procs : Writer(pc'[g], args'[g]) => file'.made /\ file'.records = sent'[g]
    BY <1>1, <1>2, <2>1, <2>6
  <2>10. FileInv'
    BY <2>1, <2>5, <2>8, <2>9 DEF FileInv
  <2> QED
    BY <1>1, <1>4, <2>1, <2>10, OpenStep
<1>5. CASE Kind(args[p]) # "pcap" /\ file' = file /\ (sockets' = sockets \/ Listening(p))
  <2>1. ~Writer(pc'[p], args'[p])
    BY <1>1, <1>5, NewWriter DEF Writer
  <2>2. \A q \in Procs : Writer(pc'[q], args'[q]) <=> Writer(pc[q], args[q])
    BY <1>1, <2>1, NewWriter
  <2>3. FileInv'
    BY <1>1, <1>5, <2>2, FileKept
  <2>4. file' \in Capture
    BY <1>2, <1>5 DEF MediumTypes
  <2> QED
    BY <1>1, <1>5, <2>3, <2>4, OpenStep
<1>6. \/ Kind(args[p]) = "pcap" /\ file' = [made |-> TRUE, records |-> <<>>] /\ sockets' = sockets
      \/ Kind(args[p]) # "pcap" /\ file' = file /\ (sockets' = sockets \/ Listening(p))
  BY DEF OpenSender, RawSenderOpen
<1> QED
  BY <1>4, <1>5, <1>6

\* A decoder begins to read.
LEMMA OpenReceiverKeeps ==
  ASSUME IInv, NEW p \in Procs, OpenReceiver(p)
  PROVE  IInv'
<1>1. /\ At(p, "open") /\ pc[p] = "open" /\ Goes(p, "loop") /\ args[p].decode /\ file' = file
      /\ argv' = argv /\ args' = args /\ round' = round /\ stage' = stage /\ out' = out
      /\ sent' = sent /\ pos' = pos /\ beats' = beats /\ harness' = harness /\ noise' = noise
      /\ readError' = readError
  BY DEF OpenReceiver, At
<1>2. sockets' = sockets \/ Listening(p)
  BY DEF OpenReceiver, RawReceiverOpen
<1>3. ~Writer(pc'[p], args'[p])
  BY <1>1 DEF Writer
<1>4. \A q \in Procs : Writer(pc'[q], args'[q]) <=> Writer(pc[q], args[q])
  BY <1>1, <1>3, NewWriter
<1>5. FileInv'
  BY <1>1, <1>4, FileKept
<1>6. file' \in Capture
  BY <1>1, Own DEF MediumTypes
<1> QED
  BY <1>1, <1>2, <1>5, <1>6, OpenStep

\* What becomes of a packet that is sent.
LEMMA CarryFacts ==
  ASSUME MediumTypes, Bounds, NEW p \in Procs, NEW x \in Frames, Carry(p, x)
  PROVE  /\ file' \in Capture /\ beats' \in Queue /\ Len(beats') <= SocketCapacity
         /\ sockets' \in [Procs -> Socket] /\ \A q \in Procs : sockets'[q].open = sockets[q].open
         /\ Kind(args[p]) # "pcap" => file' = file
         /\ Kind(args[p]) = "pcap" =>
              file'.made = file.made /\ file'.records = Append(file.records, x)
<1>1. /\ file \in Capture /\ beats \in Queue /\ Len(beats) <= SocketCapacity
      /\ sockets \in [Procs -> Socket] /\ file.records \in Queue
  BY DEF MediumTypes, Bounds, Capture
<1>2. CASE file' = file /\ beats' = beats /\ sockets' = sockets /\ Kind(args[p]) # "pcap"
  BY <1>1, <1>2
<1>3. CASE /\ Kind(args[p]) = "pcap" /\ file' = [file EXCEPT !.records = Append(@, x)]
           /\ beats' = beats /\ sockets' = sockets
  <2>1. Append(file.records, x) \in Queue
    BY <1>1 DEF Queue
  <2> QED
    BY <1>1, <1>3, <2>1 DEF Capture
<1>4. CASE /\ Kind(args[p]) = "verilator" /\ Len(beats) < SocketCapacity /\ beats' = Append(beats, x)
           /\ file' = file /\ sockets' = sockets
  <2>1. Append(beats, x) \in Queue /\ Len(Append(beats, x)) = Len(beats) + 1 /\ Len(beats) \in Nat
    BY <1>1 DEF Queue
  <2>2. Len(beats') <= SocketCapacity
    BY <1>4, <2>1, PacketGenAssumption
  <2> QED
    BY <1>1, <1>4, <2>1, <2>2
<1>5. CASE Kind(args[p]) = "raw" /\ RawSend(p, x) /\ file' = file /\ beats' = beats
  <2>1. PICK reached : sockets' = [q \in Procs |-> IF q \in reached
                                     THEN [sockets[q] EXCEPT !.queue = Append(@, x)]
                                     ELSE sockets[q]]
    BY <1>5 DEF RawSend
  <2>2. ASSUME NEW s \in Socket
        PROVE  [s EXCEPT !.queue = Append(@, x)] \in Socket /\ [s EXCEPT !.queue = Append(@, x)].open = s.open
    <3>1. Append(s.queue, x) \in Queue
      BY DEF Socket, Queue
    <3> QED
      BY <3>1 DEF Socket
  <2>3. \A q \in Procs : sockets[q] \in Socket
    BY <1>1
  <2>4. sockets' \in [Procs -> Socket] /\ \A q \in Procs : sockets'[q].open = sockets[q].open
    BY <2>1, <2>2, <2>3
  <2> QED
    BY <1>1, <1>5, <2>4
<1> QED
  BY <1>2, <1>3, <1>4, <1>5 DEF Carry

\* A packet is sent.
LEMMA SendStageKeeps ==
  ASSUME IInv, NEW p \in Procs, SendStage(p)
  PROVE  IInv'
<1> DEFINE a == args[p]
           r == round[p]
           k == stage[p]
           l == out[p]
           x == PacketOf(a, r + 1, k)
           t == IF Kind(a) = "none" THEN sent[p] ELSE Append(sent[p], x)
<1>1. At(p, "send") /\ "send" \in Late /\ "print" \in Late
  BY DEF SendStage, Late
<1>2. /\ pc[p] = "send" /\ exit[p] = Running /\ a \in Args /\ Resolves(a) /\ Stages(a) \in Seq(BOOLEAN)
      /\ r \in Nat /\ k \in Nat \ {0} /\ l \in Lines /\ sent[p] \in Queue /\ a.count \in Nat
      /\ ProgTypes /\ MediumTypes
      /\ Gen("send", Running, a, r, k, l, sent[p]) /\ ~a.decode /\ (a.count # 0 => r < a.count)
  BY <1>1, AtLate
<1>3. k <= Len(Stages(a))
  BY <1>2 DEF Gen, Late
<1>4. x \in Frames /\ x = Packet(p, k)
  <2>1. k \in 1 .. Len(Stages(a)) /\ r + 1 \in Nat /\ k \in Nat
    BY <1>2, <1>3
  <2>2. Stages(a) \in Seq(BOOLEAN)
    BY <1>2
  <2>3. x \in Frames
    <3> HIDE DEF a
    <3> QED
      BY <2>1, <2>2, PacketOfType
  <2>4. Packet(p, k) = PacketOf(args[p], round[p] + 1, k)
    BY <2>1, PacketIs
  <2> QED
    BY <2>3, <2>4, Zenon
<1>5. Gen("print", Running, a, r, k + 1, l, t)
  BY <1>2, GenSend
<1>6. t \in Queue
  BY <1>2, <1>4 DEF Queue
<1> HIDE DEF x
<1>7. Carry(p, x)
  BY <1>4 DEF SendStage
<1>8. /\ file' \in Capture /\ beats' \in Queue /\ Len(beats') <= SocketCapacity
      /\ sockets' \in [Procs -> Socket] /\ \A q \in Procs : sockets'[q].open = sockets[q].open
      /\ Kind(a) # "pcap" => file' = file
      /\ Kind(a) = "pcap" => file'.made = file.made /\ file'.records = Append(file.records, x)
  <2>1. Bounds
    BY DEF IInv
  <2> QED
    BY <1>2, <1>4, <1>7, <2>1, CarryFacts
<1>9. /\ argv' = argv /\ args' = args /\ round' = round /\ out' = out /\ pos' = pos
      /\ harness' = harness /\ noise' = noise /\ readError' = readError /\ Goes(p, "print")
      /\ stage' = [stage EXCEPT ![p] = k + 1]
  BY DEF SendStage
<1>10. sent' = [sent EXCEPT ![p] = t]
  <2>1. CASE Kind(a) = "none"
    BY <1>2, <2>1 DEF SendStage, MediumTypes
  <2>2. CASE Kind(a) # "none"
    BY <1>4, <2>2 DEF SendStage
  <2> QED
    BY <2>1, <2>2
<1>11. Proc(argv[p], "print", Running, a, r, l, t, pos[p], sockets'[p].open)
  <2> HIDE DEF t, l, r
  <2>0. a.count # 0 => r <= a.count
    BY <1>2
  <2>1. Proc(argv[p], "print", Running, a, r, l, t, pos[p], sockets[p].open)
    BY <1>1, <1>2, <2>0, LateProc
  <2> QED
    BY <1>8, <2>1, Zenon
<1>12. Writes(p, "print", Running, a, r, k + 1, l)
  BY <1>2, <1>9, Rewrite DEF Writes, Goes
<1>13. Fits("print", Running, a, r, k + 1, l)
  BY <1>1, <1>2, ExitCodes DEF Fits
<1>14. /\ harness' \in {"up", "gone"} /\ noise' \in Nat /\ readError' \in [Procs -> BOOLEAN]
       /\ pos' = [pos EXCEPT ![p] = pos[p]] /\ pos[p] \in Nat
  BY <1>2, <1>9 DEF MediumTypes
<1>15. Bounds'
  BY <1>8, <1>9 DEF Bounds, IInv
<1>16. FileInv'
  <2>1. FileInv
    BY DEF IInv
  <2>2. \A q \in Procs : Writer(pc'[q], args'[q]) <=> Writer(pc[q], args[q])
    BY <1>1, <1>2, <1>9 DEF Writer, Goes, ProgTypes
  <2>3. \A q \in Procs : q # p => sent'[q] = sent[q]
    BY <1>2, <1>10 DEF MediumTypes
  <2>4. CASE Kind(a) = "pcap"
    <3>1. Writer(pc[p], args[p])
      BY <1>1, <1>2, <2>4 DEF Writer
    <3>2. file.made /\ file.records = sent[p]
      BY <2>1, <3>1 DEF FileInv
    <3>3. sent'[p] = Append(sent[p], x)
      BY <1>2, <1>10, <2>4 DEF MediumTypes
    <3>4. file'.made /\ file'.records = sent'[p]
      BY <1>8, <2>4, <3>2, <3>3, Zenon
    <3>5. ASSUME NEW g \in Procs, Writer(pc'[g], args'[g]) PROVE g = p
      <4>1. pc[g] # "start" /\ ~args[g].decode /\ pc[p] # "start"
        BY <1>2, <2>2, <3>5 DEF Writer, Late
      <4> QED
        BY <1>2, <4>1, OnlyGenerator
    <3>6. Len(file'.records) = Len(file.records) + 1 /\ Len(file.records) \in Nat
      <4>1. Len(Append(sent[p], x)) = Len(sent[p]) + 1 /\ Len(sent[p]) \in Nat
        BY <1>2, <1>4 DEF Queue
      <4> QED
        BY <3>2, <3>3, <3>4, <4>1
    <3>7. ASSUME NEW q \in Procs PROVE pos'[q] <= Len(file'.records)
      <4>1. pos[q] \in Nat /\ pos[q] <= Len(file.records)
        BY <1>2, <2>1 DEF FileInv, MediumTypes
      <4>2. pos[q] <= Len(file.records) + 1
        BY <3>6, <4>1
      <4> QED
        BY <1>9, <3>6, <4>2
    <3>8. \E g \in Procs : Writer(pc'[g], args'[g])
      BY <2>2, <3>1
    <3>9. \A g \in Procs : Writer(pc'[g], args'[g]) => file'.made /\ file'.records = sent'[g]
      BY <3>4, <3>5, Zenon
    <3> QED
      BY <3>4, <3>7, <3>8, <3>9, Zenon DEF FileInv
  <2>5. CASE Kind(a) # "pcap"
    <3>1. ~Writer(pc[p], args[p])
      BY <2>5 DEF Writer
    <3>2. file' = file
      BY <1>8, <2>5
    <3>3. \A g \in Procs : Writer(pc'[g], args'[g]) => g # p /\ Writer(pc[g], args[g])
      BY <2>2, <3>1, Zenon
    <3>4. \A g \in Procs : Writer(pc'[g], args'[g]) => file'.made /\ file'.records = sent'[g]
      BY <2>1, <2>3, <3>2, <3>3, Zenon DEF FileInv
    <3> QED
      BY <1>9, <2>1, <2>2, <3>2, <3>4, Zenon DEF FileInv
  <2> QED
    BY <2>4, <2>5
<1>17. \A q \in Procs \ {p} : sockets'[q].open = sockets[q].open
  BY <1>8
<1> HIDE DEF a, r, k, l, t
<1> QED
  BY <1>5, <1>6, <1>8, <1>10, <1>11, <1>12, <1>13, <1>14, <1>15, <1>16, <1>17, MediumStep

\* A packet is decoded.
LEMMA DecodeStep ==
  ASSUME IInv, NEW p \in Procs, Receives(p), NEW x \in Frames, Decoded(p, x),
         NEW n \in Nat, n <= Len(file.records), pos' = [pos EXCEPT ![p] = n],
         beats' \in Queue, Len(beats') <= SocketCapacity, sockets' \in [Procs -> Socket],
         \A q \in Procs : sockets'[q].open = sockets[q].open
  PROVE  IInv'
<1> DEFINE a == args[p]
           r == IF Counted(x) THEN round[p] + 1 ELSE round[p]
           k == stage[p]
           l == IF x.bytes THEN Append(out[p], <<x>>) ELSE out[p]
<1>1. At(p, "loop") /\ "loop" \in Late /\ a.decode /\ More(a, round[p])
  BY DEF Receives, Late
<1>2. /\ pc[p] = "loop" /\ exit[p] = Running /\ a \in Args /\ round[p] \in Nat /\ k \in Nat \ {0}
      /\ out[p] \in Lines /\ sent[p] \in Queue /\ a.count \in Nat /\ ProgTypes /\ MediumTypes
      /\ (a.count # 0 => round[p] <= a.count)
  BY <1>1, AtLate
<1>3. r \in Nat /\ (a.count # 0 => r <= a.count)
  BY <1>1, <1>2 DEF More
<1>4. l \in Lines
  <2>1. <<x>> \in Queue
    BY DEF Queue
  <2> QED
    BY <1>2, <2>1 DEF Lines
<1>5. Gen("loop", Running, a, r, k, l, sent[p])
  BY <1>1, GenDecode
<1>6. Proc(argv[p], "loop", Running, a, r, l, sent[p], n, sockets'[p].open)
  <2> HIDE DEF r, l
  <2>1. Proc(argv[p], "loop", Running, a, r, l, sent[p], n, sockets[p].open)
    BY <1>1, <1>3, LateProc
  <2> QED
    BY <2>1, Zenon
<1>7. /\ argv' = argv /\ pc' = pc /\ exit' = exit /\ args' = args /\ stage' = stage /\ sent' = sent
      /\ file' = file /\ harness' = harness /\ noise' = noise /\ readError' = readError
  BY DEF Decoded
<1>8. round' = [round EXCEPT ![p] = r] /\ out' = [out EXCEPT ![p] = l]
  <2>1. round' = [round EXCEPT ![p] = r]
    BY <1>2 DEF Decoded, ProgTypes
  <2>2. out' = [out EXCEPT ![p] = l]
    BY <1>2 DEF Decoded, ProgTypes
  <2> QED
    BY <2>1, <2>2
<1>9. Writes(p, "loop", Running, a, r, k, l)
  BY <1>2, <1>7, <1>8, Rewrite DEF Writes
<1>10. Fits("loop", Running, a, r, k, l)
  BY <1>1, <1>2, <1>3, <1>4, ExitCodes DEF Fits
<1>11. /\ file' \in Capture /\ harness' \in {"up", "gone"} /\ noise' \in Nat
       /\ readError' \in [Procs -> BOOLEAN] /\ sent' = [sent EXCEPT ![p] = sent[p]]
  BY <1>2, <1>7 DEF MediumTypes
<1>12. Bounds'
  BY <1>7 DEF Bounds, IInv
<1>13. FileInv'
  <2>1. FileInv
    BY DEF IInv
  <2>2. \A q \in Procs : pos'[q] <= Len(file'.records)
    BY <1>2, <1>7, <2>1 DEF FileInv, MediumTypes
  <2> QED
    BY <1>7, <2>1, <2>2, Zenon DEF FileInv
<1>14. \A q \in Procs \ {p} : sockets'[q].open = sockets[q].open
  OBVIOUS
<1> HIDE DEF a, r, k, l
<1> QED
  BY <1>2, <1>5, <1>6, <1>9, <1>10, <1>11, <1>12, <1>13, <1>14, MediumStep

\* receive() returned a packet.
LEMMA ReceiveKeeps ==
  ASSUME IInv, NEW p \in Procs, Receive(p)
  PROVE  IInv'
<1>1. Receives(p) /\ MediumTypes /\ Bounds /\ FileInv
  BY DEF Receive, IInv
<1>2. /\ file.records \in Queue /\ beats \in Queue /\ sockets \in [Procs -> Socket] /\ pos[p] \in Nat
      /\ Len(beats) <= SocketCapacity /\ pos[p] <= Len(file.records)
      /\ pos = [pos EXCEPT ![p] = pos[p]]
  BY <1>1 DEF MediumTypes, Bounds, FileInv, Capture
<1>3. CASE /\ pos[p] < Len(file.records) /\ Decoded(p, file.records[pos[p] + 1])
           /\ pos' = [pos EXCEPT ![p] = Position(@)] /\ beats' = beats /\ sockets' = sockets
  <2>1. pos[p] + 1 \in Nat /\ pos[p] + 1 <= Len(file.records) /\ file.records[pos[p] + 1] \in Frames
    BY <1>2, <1>3 DEF Queue
  <2>2. pos' = [pos EXCEPT ![p] = pos[p] + 1]
    BY <1>3 DEF Position
  <2> QED
    BY <1>1, <1>2, <1>3, <2>1, <2>2, DecodeStep
<1>4. CASE /\ beats # <<>> /\ Decoded(p, Head(beats)) /\ beats' = Tail(beats)
           /\ pos' = pos /\ sockets' = sockets
  <2>1. Head(beats) \in Frames /\ Tail(beats) \in Queue /\ Len(Tail(beats)) = Len(beats) - 1
        /\ Len(beats) \in Nat
    BY <1>2, <1>4 DEF Queue
  <2>2. Len(beats') <= SocketCapacity
    BY <1>2, <1>4, <2>1, PacketGenAssumption
  <2> QED
    BY <1>1, <1>2, <1>4, <2>1, <2>2, DecodeStep
<1>5. CASE RawReceive(p) /\ pos' = pos /\ beats' = beats
  <2>1. /\ sockets[p].queue # <<>> /\ Decoded(p, Head(sockets[p].queue))
        /\ sockets' = [sockets EXCEPT ![p].queue = Tail(@)]
    BY <1>5 DEF RawReceive
  <2>2. sockets[p] \in Socket /\ sockets[p].queue \in Queue
    BY <1>2 DEF Socket
  <2>3. Head(sockets[p].queue) \in Frames /\ Tail(sockets[p].queue) \in Queue
    BY <2>1, <2>2 DEF Queue
  <2>4. sockets' = [sockets EXCEPT ![p] = [sockets[p] EXCEPT !.queue = Tail(sockets[p].queue)]]
    BY <2>1
  <2>5. [sockets[p] EXCEPT !.queue = Tail(sockets[p].queue)] \in Socket
        /\ [sockets[p] EXCEPT !.queue = Tail(sockets[p].queue)].open = sockets[p].open
    BY <2>2, <2>3 DEF Socket
  <2>6. sockets' \in [Procs -> Socket] /\ \A q \in Procs : sockets'[q].open = sockets[q].open
    BY <1>2, <2>4, <2>5
  <2> QED
    BY <1>1, <1>2, <1>5, <2>1, <2>3, <2>6, DecodeStep
<1> QED
  BY <1>3, <1>4, <1>5 DEF Receive

\* The media change, and no process does.
LEMMA SurroundingsStep ==
  ASSUME IInv, UNCHANGED progVars, sent' = sent, file' = file, pos' = pos, readError' = readError,
         beats' \in Queue, harness' \in {"up", "gone"}, noise' \in Nat, sockets' \in [Procs -> Socket],
         \A q \in Procs : sockets'[q].open = sockets[q].open, Bounds'
  PROVE  IInv'
<1>1. /\ argv' = argv /\ pc' = pc /\ exit' = exit /\ args' = args /\ round' = round
      /\ stage' = stage /\ out' = out
  BY DEF progVars
<1>2. ProgTypes' /\ MediumTypes'
  BY <1>1, Zenon DEF IInv, ProgTypes, MediumTypes
<1>3. ASSUME NEW q \in Procs PROVE (ProcInv(q) /\ GenInv(q))'
  <2>1. ProcInv(q) /\ GenInv(q)
    BY DEF IInv
  <2> QED
    BY <1>1, <2>1, Zenon DEF ProcInv, GenInv
<1>4. FileInv'
  BY <1>1, FileKept
<1> QED
  BY <1>2, <1>3, <1>4, Zenon DEF IInv

\* The harness ends.
LEMMA HarnessGoneKeeps ==
  ASSUME IInv, HarnessGone
  PROVE  IInv'
<1>1. PICK n \in 0 .. Len(beats) : beats' = SubSeq(beats, 1, n)
  BY DEF HarnessGone
<1>2. MediumTypes /\ Bounds
  BY DEF IInv
<1>3. beats' \in Queue /\ Len(beats') = n /\ n <= Len(beats) /\ n \in Nat /\ Len(beats) \in Nat
  BY <1>1, <1>2 DEF MediumTypes, Queue
<1>4. Len(beats') <= SocketCapacity
  BY <1>2, <1>3, PacketGenAssumption DEF Bounds
<1>5. /\ UNCHANGED progVars /\ sent' = sent /\ file' = file /\ pos' = pos /\ readError' = readError
      /\ noise' = noise /\ sockets' = sockets /\ harness' = "gone"
  BY DEF HarnessGone
<1>6. Bounds' /\ sockets' \in [Procs -> Socket] /\ noise' \in Nat
  BY <1>2, <1>4, <1>5, Zenon DEF Bounds, MediumTypes
<1> QED
  BY <1>3, <1>5, <1>6, SurroundingsStep

\* Somebody else sends.
LEMMA NoiseKeeps ==
  ASSUME IInv, Noise
  PROVE  IInv'
<1>1. PICK p \in Procs : sockets' = [sockets EXCEPT ![p].queue = Append(@, NoiseFrame)]
  BY DEF Noise
<1>2. MediumTypes /\ Bounds
  BY DEF IInv
<1>3. NoiseFrame \in Frames /\ sockets[p] \in Socket /\ sockets[p].queue \in Queue
  BY <1>2 DEF NoiseFrame, Frames, MediumTypes, Socket
<1>4. Append(sockets[p].queue, NoiseFrame) \in Queue
  BY <1>3 DEF Queue
<1>5. sockets' = [sockets EXCEPT ![p] = [sockets[p] EXCEPT !.queue = Append(sockets[p].queue, NoiseFrame)]]
  BY <1>1
<1>6. [sockets[p] EXCEPT !.queue = Append(sockets[p].queue, NoiseFrame)] \in Socket
      /\ [sockets[p] EXCEPT !.queue = Append(sockets[p].queue, NoiseFrame)].open = sockets[p].open
  BY <1>3, <1>4 DEF Socket
<1>7. sockets' \in [Procs -> Socket] /\ \A q \in Procs : sockets'[q].open = sockets[q].open
  BY <1>2, <1>5, <1>6 DEF MediumTypes
<1>8. /\ UNCHANGED progVars /\ sent' = sent /\ file' = file /\ pos' = pos /\ readError' = readError
      /\ noise < MaxNoise /\ noise' = noise + 1 /\ beats' = beats /\ harness' = harness
  BY DEF Noise
<1>9. Bounds' /\ noise' \in Nat
  BY <1>2, <1>8, PacketGenAssumption DEF Bounds, MediumTypes
<1>10. beats' \in Queue /\ harness' \in {"up", "gone"}
  BY <1>2, <1>8, Zenon DEF MediumTypes
<1> QED
  BY <1>7, <1>8, <1>9, <1>10, SurroundingsStep
-----------------------------------------------------------------------------
(* The theorems *)

\* The processes begin with nothing done.
LEMMA InitInv ==
  ASSUME Init
  PROVE  IInv
<1>1. DefaultArgs \in Args /\ DefaultArgs.count = 1
  BY ScanInit DEF DefaultArgs
<1>2. <<>> \in Queue /\ <<>> \in Lines /\ 1 \in Nat \ {0} /\ "start" \in Early /\ Running \in Codes
  BY ExitCodes DEF Queue, Lines, Early
<1>3. ProgTypes
  BY <1>1, <1>2 DEF Init, ProgTypes
<1>4. Closed \in Socket /\ Closed.open = FALSE
  BY <1>2 DEF Closed, Socket
<1>5. file \in Capture /\ ~file.made /\ file.records = <<>>
  BY <1>2 DEF Init, Capture
<1>6. MediumTypes
  BY <1>2, <1>4, <1>5 DEF Init, MediumTypes
<1>7. ASSUME NEW p \in Procs PROVE ProcInv(p) /\ GenInv(p)
  <2>1. /\ pc[p] = "start" /\ exit[p] = Running /\ args[p] = DefaultArgs /\ round[p] = 0
        /\ out[p] = <<>> /\ sent[p] = <<>> /\ pos[p] = 0 /\ sockets[p] = Closed
    BY DEF Init
  <2>2. GenInv(p)
    BY <1>2, <2>1, GenEarly DEF GenInv
  <2>3. "start" \notin {"open"} \cup Late
    BY DEF Late
  <2>4. ~sockets[p].open
    BY <1>4, <2>1
  <2>5. ProcInv(p)
    BY <1>1, <2>1, <2>3, <2>4 DEF ProcInv, Proc
  <2> QED
    BY <2>2, <2>5
<1>8. FileInv
  <2>1. \A p \in Procs : pos[p] <= Len(file.records)
    BY <1>5 DEF Init
  <2>2. \A p \in Procs : ~Writer(pc[p], args[p])
    BY DEF Init, Writer, Late
  <2> QED
    BY <1>5, <2>1, <2>2 DEF FileInv
<1>9. Bounds
  BY PacketGenAssumption DEF Init, Bounds
<1> QED
  BY <1>3, <1>6, <1>7, <1>8, <1>9 DEF IInv

\* Every step keeps the invariant.
LEMMA NextInv ==
  ASSUME IInv, [Next]_vars
  PROVE  IInv'
<1>1. CASE UNCHANGED vars \/ \E p \in Procs : WritePart(p)
  <2>1. UNCHANGED progVars
    BY <1>1 DEF vars, WritePart
  <2>2. /\ sent' = sent /\ file' = file /\ pos' = pos /\ beats' = beats /\ harness' = harness
        /\ sockets' = sockets /\ noise' = noise /\ readError' = readError
    BY <1>1 DEF vars, mediumVars, WritePart
  <2>3. /\ beats' \in Queue /\ harness' \in {"up", "gone"} /\ noise' \in Nat
        /\ sockets' \in [Procs -> Socket] /\ Bounds'
    BY <2>2, Zenon DEF IInv, MediumTypes, Bounds
  <2> QED
    BY <2>1, <2>2, <2>3, SurroundingsStep
<1>2. ASSUME NEW p \in Procs, ParseArgs(p) PROVE IInv'
  BY <1>2, ParseArgsKeeps
<1>3. ASSUME NEW p \in Procs, Step(p) PROVE IInv'
  <2>1. CASE ReadDirectory(p)
    BY <2>1, ReadDirectoryKeeps
  <2>2. CASE Prepare(p)
    BY <2>2, PrepareKeeps
  <2>3. CASE OpenFailed(p)
    BY <2>3, OpenFailedKeeps
  <2>4. CASE OpenSender(p)
    BY <2>4, OpenSenderKeeps
  <2>5. CASE OpenReceiver(p)
    BY <2>5, OpenReceiverKeeps
  <2>6. CASE Generate(p)
    BY <2>6, GenerateKeeps
  <2>7. CASE PrintStage(p)
    BY <2>7, PrintStageKeeps
  <2>8. CASE EndRound(p)
    BY <2>8, EndRoundKeeps
  <2>9. CASE SendStage(p)
    BY <2>9, SendStageKeeps
  <2>10. CASE SendFails(p)
    BY <2>10, SendFailsKeeps
  <2>11. CASE SendToNobody(p)
    <3>1. exit[p] = Running /\ Killed(p, BrokenPipe)
      BY <2>11 DEF SendToNobody, At
    <3> QED
      BY <3>1, KilledKeeps
  <2>12. CASE Receive(p)
    BY <2>12, ReceiveKeeps
  <2>13. CASE ReceiveEof(p)
    BY <2>13, ReceiveEofKeeps
  <2>14. CASE ReceiveFails(p)
    BY <2>14, ReceiveFailsKeeps
  <2>15. CASE Finish(p)
    BY <2>15, FinishKeeps
  <2>16. CASE WritePart(p)
    BY <1>1, <2>16
  <2>17. CASE ReceiveTorn(p)
    BY <2>17, ReceiveTornKeeps
  <2> QED
    BY <1>3, <2>1, <2>2, <2>3, <2>4, <2>5, <2>6, <2>7, <2>8, <2>9, <2>10, <2>11, <2>12, <2>13,
       <2>14, <2>15, <2>16, <2>17 DEF Step
<1>4. ASSUME NEW p \in Procs, Interrupt(p) PROVE IInv'
  <2>1. exit[p] = Running /\ Killed(p, Interrupted)
    BY <1>4 DEF Interrupt
  <2> QED
    BY <2>1, KilledKeeps
<1>5. CASE HarnessGone
  BY <1>5, HarnessGoneKeeps
<1>6. CASE Noise
  BY <1>6, NoiseKeeps
<1> QED
  BY <1>1, <1>2, <1>3, <1>4, <1>5, <1>6 DEF Next

\* The invariant holds throughout.
LEMMA Invariance ==
  Spec => []IInv
<1>1. Init => IInv
  BY InitInv
<1>2. IInv /\ [Next]_vars => IInv'
  BY NextInv
<1> QED
  BY <1>1, <1>2, PTL DEF Spec

\* What follows the last record of the capture.
Tails == {"none", "header", "body"}

\* Only the generator of a capture changes it.
LEMMA TailStep ==
  ASSUME tail \in Tails, [Next]_vars
  PROVE  tail' \in Tails
<1>1. CASE UNCHANGED vars \/ HarnessGone \/ Noise
  BY <1>1 DEF vars, mediumVars, HarnessGone, Noise
<1>2. ASSUME NEW p \in Procs, ParseArgs(p) \/ Step(p) \/ Interrupt(p) PROVE tail' \in Tails
  <2>1. CASE ParseArgs(p) \/ ReadDirectory(p) \/ Prepare(p) \/ OpenFailed(p)
    BY <2>1 DEF ParseArgs, ReadDirectory, Prepare, OpenFailed, mediumVars
  <2>2. CASE OpenSender(p)
    BY <2>2 DEF OpenSender, Tails
  <2>3. CASE OpenReceiver(p) \/ SendFails(p) \/ SendToNobody(p) \/ Interrupt(p)
    BY <2>3 DEF OpenReceiver, SendFails, SendToNobody, Interrupt, Killed
  <2>4. CASE Generate(p) \/ PrintStage(p) \/ EndRound(p)
    BY <2>4 DEF Generate, PrintStage, EndRound, mediumVars
  <2>5. CASE WritePart(p)
    BY <2>5 DEF WritePart, Tails
  <2>6. CASE SendStage(p)
    BY <2>6 DEF SendStage, Carry, Tails
  <2>7. CASE Receive(p)
    BY <2>7 DEF Receive, RawReceive, Decoded
  <2>8. CASE ReceiveEof(p) \/ ReceiveTorn(p) \/ ReceiveFails(p) \/ Finish(p)
    BY <2>8 DEF ReceiveEof, ReceiveTorn, ReceiveFails, Finish
  <2> QED
    BY <1>2, <2>1, <2>2, <2>3, <2>4, <2>5, <2>6, <2>7, <2>8 DEF Step
<1> QED
  BY <1>1, <1>2 DEF Next

\* It is always one of the three.
LEMMA TailType ==
  Spec => [](tail \in Tails)
<1>1. Init => tail \in Tails
  BY DEF Init, Tails
<1>2. tail \in Tails /\ [Next]_vars => (tail \in Tails)'
  BY TailStep
<1> QED
  BY <1>1, <1>2, PTL DEF Spec

\* Every variable of packet_gen has its type, its loops stay within --count,
\* the reader within the capture, and no socket outlives its process (TypeOK).
THEOREM TypeCorrectness ==
  Spec => []TypeOK
<1>1. ASSUME IInv, tail \in Tails PROVE TypeOK
  <2>1. ASSUME NEW p \in Procs
        PROVE  /\ exit[p] \in {Running, 0, 1, 2, Interrupted, Aborted, BrokenPipe}
               /\ args[p].count \in Nat /\ stage[p] \in Nat \ {0} /\ pos[p] \in 0 .. Len(file.records)
               /\ round[p] \in Nat /\ (args[p].count # 0 => round[p] <= args[p].count)
               /\ sockets[p].open => exit[p] = Running
    <3>1. /\ Fits(pc[p], exit[p], args[p], round[p], stage[p], out[p]) /\ MediumTypes /\ ProgTypes
          /\ Proc(argv[p], pc[p], exit[p], args[p], round[p], out[p], sent[p], pos[p], sockets[p].open)
      BY <1>1, Own
    <3>2. exit[p] \in Codes /\ args[p].count \in Nat /\ stage[p] \in Nat \ {0} /\ round[p] \in Nat
      BY <3>1 DEF Fits, Args
    <3>3. pos[p] \in Nat /\ pos[p] <= Len(file.records) /\ file.records \in Queue
      BY <1>1, <3>1 DEF IInv, FileInv, MediumTypes, Capture
    <3>4. pos[p] \in 0 .. Len(file.records)
      BY <3>3 DEF Queue
    <3>5. (args[p].count # 0 => round[p] <= args[p].count) /\ (sockets[p].open => exit[p] = Running)
      BY <3>1 DEF Proc
    <3> QED
      BY <3>2, <3>4, <3>5 DEF Codes
  <2>2. Len(beats) <= SocketCapacity /\ noise \in 0 .. MaxNoise
    BY <1>1, PacketGenAssumption DEF IInv, Bounds, MediumTypes
  <2> QED
    BY <1>1, <2>1, <2>2 DEF TypeOK, Tails
<1> QED
  BY <1>1, Invariance, TailType, PTL

\* What a generator has done, of all its packets.
LEMMA GeneratorDone ==
  ASSUME IInv, NEW p \in Procs, Generates(p), pc[p] \in Late
  PROVE  /\ args[p] \in Args /\ round[p] \in Nat /\ Stages(args[p]) \in Seq(BOOLEAN)
         /\ \E k \in 0 .. Len(Stages(args[p])) : \E j \in 0 .. k :
              /\ Flat(out[p]) = Upto(args[p], round[p], k)
              /\ Kind(args[p]) # "none" => sent[p] = Upto(args[p], round[p], j)
              /\ Kind(args[p]) = "none" => sent[p] = <<>>
<1> DEFINE a == args[p]
           r == round[p]
           h == stage[p]
<1>1. /\ Fits(pc[p], exit[p], a, r, h, out[p]) /\ MediumTypes /\ ProgTypes
      /\ Proc(argv[p], pc[p], exit[p], a, r, out[p], sent[p], pos[p], sockets[p].open)
      /\ Gen(pc[p], exit[p], a, r, h, out[p], sent[p])
  BY Own
<1>2. a \in Args /\ r \in Nat /\ h \in Nat \ {0} /\ Resolves(a)
  BY <1>1 DEF Fits, Proc
<1>3. Stages(a) \in Seq(BOOLEAN)
  BY <1>2, StagesType
<1>4. PICK n \in Nat : n = Len(Stages(a))
  BY <1>3
<1>5. ~a.decode /\ exit[p] \in {Running, 0, 1, 2}
  BY DEF Generates
<1>6. pc[p] = "loop" \/ pc[p] = "print" \/ pc[p] = "send"
  BY DEF Late
<1>7. Ahead(a, h - 1) \in {n, h - 1} /\ Ahead(a, h) \in {n, h}
  BY <1>4 DEF Ahead
<1>8. \E k \in 0 .. n : \E j \in 0 .. k :
        /\ Flat(out[p]) = Upto(a, r, k)
        /\ Kind(a) # "none" => sent[p] = Upto(a, r, j)
        /\ Kind(a) = "none" => sent[p] = <<>>
  <2>0. Kind(a) = "none" => sent[p] = <<>>
    BY <1>1, <1>5 DEF Gen
  <2>1. CASE pc[p] = "loop"
    <3>1. Flat(out[p]) = Upto(a, r, 0) /\ (Kind(a) # "none" => sent[p] = Upto(a, r, 0))
      BY <1>1, <1>5, <2>1 DEF Gen
    <3>2. 0 \in 0 .. n /\ 0 \in 0 .. 0
      OBVIOUS
    <3> QED
      BY <2>0, <3>1, <3>2
  <2>2. CASE pc[p] = "print"
    <3>1. /\ h <= n + 1 /\ Flat(out[p]) = Upto(a, r, Ahead(a, h - 1))
          /\ (Kind(a) # "none" => sent[p] = Upto(a, r, h - 1))
      BY <1>1, <1>4, <1>5, <2>2 DEF Gen
    <3>2. Ahead(a, h - 1) \in 0 .. n /\ h - 1 \in 0 .. Ahead(a, h - 1)
      BY <1>2, <1>7, <3>1
    <3> QED
      BY <2>0, <3>1, <3>2
  <2>3. CASE pc[p] = "send"
    <3>1. /\ h <= n /\ Flat(out[p]) = Upto(a, r, Ahead(a, h))
          /\ (Kind(a) # "none" => sent[p] = Upto(a, r, h - 1))
      BY <1>1, <1>4, <1>5, <2>3 DEF Gen
    <3>2. Ahead(a, h) \in 0 .. n /\ h - 1 \in 0 .. Ahead(a, h)
      BY <1>2, <1>7, <3>1
    <3> QED
      BY <2>0, <3>1, <3>2
  <2> QED
    BY <1>6, <2>1, <2>2, <2>3
<1> QED
  BY <1>2, <1>3, <1>4, <1>8, Zenon

\* A generator prints every packet before it sends it, in the same order, and
\* is never more than a round ahead (PrintedBeforeSent).
THEOREM PrintsFirst ==
  Spec => []PrintedBeforeSent
<1>1. ASSUME IInv PROVE PrintedBeforeSent
  <2> SUFFICES ASSUME NEW p \in Procs, Generates(p)
               PROVE  /\ IsPrefix(sent[p], Flat(out[p]))
                      /\ Kind(args[p]) # "none" =>
                           Len(Flat(out[p])) - Len(sent[p]) <= Len(Stages(args[p]))
    BY DEF PrintedBeforeSent
  <2>1. /\ Fits(pc[p], exit[p], args[p], round[p], stage[p], out[p])
        /\ Proc(argv[p], pc[p], exit[p], args[p], round[p], out[p], sent[p], pos[p], sockets[p].open)
    BY <1>1, Own
  <2>2. CASE pc[p] \in Late
    <3> DEFINE a == args[p]
               r == round[p]
    <3>1. a \in Args /\ r \in Nat /\ Stages(a) \in Seq(BOOLEAN)
      BY <1>1, <2>2, GeneratorDone
    <3>2. PICK k \in 0 .. Len(Stages(a)) : \E j \in 0 .. k :
              /\ Flat(out[p]) = Upto(a, r, k)
              /\ Kind(a) # "none" => sent[p] = Upto(a, r, j)
              /\ Kind(a) = "none" => sent[p] = <<>>
      BY <1>1, <2>2, GeneratorDone
    <3>3. PICK j \in 0 .. k :
              /\ Flat(out[p]) = Upto(a, r, k)
              /\ Kind(a) # "none" => sent[p] = Upto(a, r, j)
              /\ Kind(a) = "none" => sent[p] = <<>>
      BY <3>2
    <3>4. /\ IsPrefix(Upto(a, r, j), Upto(a, r, k))
          /\ Len(Upto(a, r, k)) - Len(Upto(a, r, j)) = k - j
      BY <3>1, UptoPrefix
    <3>5. k - j <= Len(Stages(a))
      <4>1. Len(Stages(a)) \in Nat
        BY <3>1
      <4> QED
        BY <4>1
    <3>6. CASE Kind(a) = "none"
      <4>1. Upto(a, r, k) \in Queue
        BY <3>1, UptoFacts
      <4>2. IsPrefix(<<>>, Flat(out[p]))
        BY <3>3, <4>1 DEF IsPrefix, Queue
      <4> QED
        BY <3>3, <3>6, <4>2
    <3>7. CASE Kind(a) # "none"
      <4> HIDE DEF a, r
      <4>1. IsPrefix(sent[p], Flat(out[p])) /\ Len(Flat(out[p])) - Len(sent[p]) = k - j
        BY <3>3, <3>4, <3>7, Zenon
      <4> QED
        BY <3>5, <4>1 DEF a
    <3> QED
      BY <3>6, <3>7
  <2>3. CASE pc[p] \notin Late
    <3>1. pc[p] = "open"
      BY <2>1, <2>3 DEF Generates, Fits, Early
    <3>2. sent[p] = <<>> /\ out[p] = <<>>
      BY <2>1, <3>1 DEF Proc, Early
    <3>3. Flat(out[p]) = <<>>
      BY <3>2, FlatEmpty
    <3>4. Stages(args[p]) \in Seq(BOOLEAN)
      BY <2>1, <3>1, StagesType DEF Proc, Fits
    <3>5. Len(Stages(args[p])) >= 0
      BY <3>4
    <3> QED
      BY <3>2, <3>3, <3>5 DEF IsPrefix
  <2> QED
    BY <2>2, <2>3
<1> QED
  BY <1>1, Invariance, PTL

\* Exit code 0 of a generator: every packet of every round is printed and, if
\* there is a transport, sent (SuccessMeansDone).
THEOREM SuccessIsDone ==
  Spec => []SuccessMeansDone
<1>1. ASSUME IInv PROVE SuccessMeansDone
  <2> SUFFICES ASSUME NEW p \in Procs, Generates(p), exit[p] = 0
               PROVE  /\ args[p].count # 0
                      /\ Flat(out[p]) = Flat([r \in 1 .. args[p].count |->
                              [k \in DOMAIN Stages(args[p]) |->
                                 [round |-> r, stage |-> k, bytes |-> Stages(args[p])[k]]]])
                      /\ Kind(args[p]) # "none" => sent[p] = Flat(out[p])
    BY DEF SuccessMeansDone
  <2> DEFINE a == args[p]
  <2>1. /\ Fits(pc[p], exit[p], a, round[p], stage[p], out[p])
        /\ Proc(argv[p], pc[p], exit[p], a, round[p], out[p], sent[p], pos[p], sockets[p].open)
        /\ Gen(pc[p], exit[p], a, round[p], stage[p], out[p], sent[p])
    BY <1>1, Own
  <2>2. pc[p] = "loop" /\ ~More(a, round[p]) /\ ~a.decode
    <3>1. pc[p] # "open"
      BY <2>1 DEF Proc
    <3>2. pc[p] \in Late /\ ~a.decode
      BY <2>1, <3>1 DEF Generates, Fits, Early
    <3> QED
      BY <2>1, <3>2 DEF Gen
  <2>3. a \in Args /\ a.count \in Nat /\ round[p] \in Nat /\ Resolves(a)
        /\ (a.count # 0 => round[p] <= a.count)
    BY <2>1, <2>2 DEF Fits, Proc, Args, Late
  <2>4. a.count # 0 /\ round[p] = a.count
    BY <2>2, <2>3 DEF More
  <2>5. /\ Flat(out[p]) = Upto(a, round[p], 0)
        /\ Kind(a) # "none" => sent[p] = Upto(a, round[p], 0)
    BY <2>1, <2>2 DEF Gen, Late
  <2>6. Upto(a, round[p], 0) = Rounds(a, a.count)
    BY <2>3, <2>4, StagesType, UptoFacts
  <2>7. Rounds(a, a.count) = Flat([r \in 1 .. a.count |->
                              [k \in DOMAIN Stages(a) |->
                                 [round |-> r, stage |-> k, bytes |-> Stages(a)[k]]]])
    BY DEF Rounds, Row, PacketOf
  <2> QED
    BY <2>4, <2>5, <2>6, <2>7, Zenon
<1> QED
  BY <1>1, Invariance, PTL
-----------------------------------------------------------------------------
(* What decoders have got *)

\* The packets of generators: their rounds count from 1.
Real == [round : Nat \ {0}, stage : Nat, bytes : BOOLEAN]

SentInv == \A p \in Procs : sent[p] \in Seq(Real)

\* A decoder counts its lines, and has those of the records it has read.
Dec(where, code, a, n, lines, position, records) ==
  where \in Late /\ a.decode =>
    /\ Kind(a) # "none"
    /\ code = Running => Len(lines) = n
    /\ Kind(a) = "pcap" =>
         /\ IsPrefix(Flat(lines), NonEmpty(SubSeq(records, 1, position)))
         /\ code = Running => Flat(lines) = NonEmpty(SubSeq(records, 1, position))

DecInv(p) == Dec(pc[p], exit[p], args[p], round[p], out[p], pos[p], file.records)

\* Writes to the harness, reads from it, reads from the network.
Feeds(g) == pc[g] \in Late /\ ~args[g].decode /\ Kind(args[g]) = "verilator"
Drains(d) == pc[d] \in Late /\ args[d].decode /\ Kind(args[d]) = "verilator"
Hears(d) == pc[d] \in Late /\ args[d].decode /\ Kind(args[d]) = "raw"

\* h went into the harness: it is in the socket or printed, but for what died
\* with the harness or the reader.
Handed(h) ==
  /\ h \in Queue /\ beats \in Seq(Full)
  /\ \A g \in Procs : Feeds(g) => NonEmpty(sent[g]) = h
  /\ (\A g \in Procs : ~Feeds(g)) => h = <<>>
  /\ harness = "up" /\ (\A d \in Procs : ~Drains(d)) => beats = h
  /\ \A d \in Procs : Drains(d) =>
       /\ IsPrefix(Flat(out[d]), h)
       /\ exit[d] = Running => /\ IsPrefix(Flat(out[d]) \o beats, h)
                               /\ harness = "up" => Flat(out[d]) \o beats = h

HarnessInv == \E h : Handed(h)

\* x comes before the packet that g sends next.
Before(x, g) == /\ pc[g] \in Late /\ ~args[g].decode
                /\ \/ x.round <= round[g]
                   \/ x.round = round[g] + 1 /\ pc[g] # "loop" /\ x.stage < stage[g]

InOrder(s) == \A i, j \in 1 .. Len(s) :
                i < j /\ s[i] # NoiseFrame /\ s[j] # NoiseFrame => Earlier(s[i], s[j])

AllBefore(s) == \A i \in 1 .. Len(s) : s[i] # NoiseFrame => \E g \in Procs : Before(s[i], g)

\* What d has from the network, printed or queued.
Heard(d) == Flat(out[d]) \o sockets[d].queue

NetInv ==
  /\ \A p \in Procs : sockets[p].queue \in Seq(Full)
  /\ \A d \in Procs : Hears(d) => InOrder(Heard(d)) /\ AllBefore(Heard(d))

DInv == SentInv /\ (\A p \in Procs : DecInv(p)) /\ HarnessInv /\ NetInv
-----------------------------------------------------------------------------
(* Prefixes *)

\* A prefix of a prefix is a prefix.
LEMMA PrefixTrans ==
  ASSUME NEW R, NEW s \in Seq(R), NEW t \in Seq(R), NEW u \in Seq(R), IsPrefix(s, t), IsPrefix(t, u)
  PROVE  IsPrefix(s, u)
<1>1. Len(s) \in Nat /\ Len(t) \in Nat /\ Len(u) \in Nat
  OBVIOUS
<1>2. ASSUME NEW i \in 1 .. Len(s) PROVE s[i] = u[i]
  <2>1. i \in 1 .. Len(t)
    BY <1>1 DEF IsPrefix
  <2> QED
    BY <2>1 DEF IsPrefix
<1> QED
  BY <1>1, <1>2 DEF IsPrefix

\* A sequence begins with itself, and what is appended to it does not matter.
LEMMA PrefixConcat ==
  ASSUME NEW R, NEW s \in Seq(R), NEW t \in Seq(R)
  PROVE  IsPrefix(s, s) /\ IsPrefix(s, s \o t) /\ IsPrefix(<<>>, s)
BY DEF IsPrefix

\* A sequence is its prefix and a rest.
LEMMA PrefixRest ==
  ASSUME NEW R, NEW s \in Seq(R), NEW t \in Seq(R), IsPrefix(s, t)
  PROVE  \E u \in Seq(R) : t = s \o u
<1> DEFINE m == Len(s)
           n == Len(t)
           u == SubSeq(t, m + 1, n)
           v == s \o u
<1>1. m \in Nat /\ n \in Nat /\ m <= n
  BY DEF IsPrefix
<1>2. u \in Seq(R) /\ Len(u) = n - m /\ \A i \in 1 .. n - m : u[i] = t[m + i]
  <2>1. u \in Seq(R)
    BY <1>1
  <2>2. Len(u) = n - m
    BY <1>1
  <2>3. ASSUME NEW i \in 1 .. n - m PROVE u[i] = t[m + i]
    BY <1>1, <2>3
  <2> QED
    BY <2>1, <2>2, <2>3
<1> HIDE DEF u
<1>3. v \in Seq(R) /\ Len(v) = n
  BY <1>1, <1>2
<1>4. ASSUME NEW i \in 1 .. n PROVE v[i] = t[i]
  <2>1. CASE i <= m
    <3>1. i \in 1 .. m
      BY <2>1, <1>1
    <3>2. s[i] = t[i] /\ v[i] = s[i]
      BY <3>1, <1>2 DEF IsPrefix
    <3> QED
      BY <3>2
  <2>2. CASE i > m
    <3>1. i - m \in 1 .. n - m /\ m + (i - m) = i
      BY <1>1, <2>2
    <3>2. v[i] = u[i - m]
      BY <1>1, <1>2, <2>2, <3>1
    <3> QED
      BY <1>2, <3>1, <3>2
  <2>3. i <= m \/ i > m
    BY <1>1
  <2> QED
    BY <2>1, <2>2, <2>3
<1> HIDE DEF v
<1>5. v = t
  BY <1>3, <1>4
<1> QED
  BY <1>2, <1>5 DEF v

\* A filter keeps prefixes.
LEMMA FilterPrefix ==
  ASSUME NEW R, NEW s \in Seq(R), NEW t \in Seq(R), IsPrefix(s, t), NEW T
  PROVE  IsPrefix(Filter(s, T), Filter(t, T))
<1>1. PICK u \in Seq(R) : t = s \o u
  BY PrefixRest
<1>2. Filter(t, T) = Filter(s, T) \o Filter(u, T)
  BY <1>1, FilterConcat
<1>3. Filter(s, T) \in Seq(R) /\ Filter(u, T) \in Seq(R)
  BY FilterType
<1> QED
  BY <1>2, <1>3, PrefixConcat

\* Fewer lines hold a prefix of the packets.
LEMMA FlatPrefix ==
  ASSUME NEW R, NEW s \in Seq(Seq(R)), NEW m \in 0 .. Len(s)
  PROVE  IsPrefix(Flat(SubSeq(s, 1, m)), Flat(s))
<1> DEFINE f == FlatUpTo(s)
           N == Len(s)
           Q == Seq(R)
           t == SubSeq(s, 1, m)
           K == {k \in Nat : m + k <= N => IsPrefix(f[m], f[m + k])}
<1>1. N \in Nat /\ m \in Nat /\ m <= N
  OBVIOUS
<1>2. t \in Seq(Q) /\ Len(t) = m /\ \A i \in 1 .. m : t[i] = s[i]
  <2> HIDE DEF Q
  <2>1. s \in Seq(Q)
    BY DEF Q
  <2> QED
    BY <1>1, <2>1
<1>3. f \in [0 .. N -> Q] /\ \A n \in 1 .. N : f[n] = f[n - 1] \o s[n]
  BY FlatUpToDef
<1>4. FlatUpTo(t)[m] = f[m]
  <2>1. m <= Len(t) /\ m <= Len(s) /\ t \in Seq(Seq(R)) /\ \A i \in 1 .. m : t[i] = s[i]
    BY <1>1, <1>2
  <2> HIDE DEF t
  <2> QED
    BY <1>1, <2>1, FlatUpToPrefix
<1> HIDE DEF f
<1>5. 0 \in K
  <2>1. f[m] \in Q /\ m + 0 = m
    BY <1>1, <1>3
  <2> QED
    BY <2>1, PrefixConcat
<1>6. ASSUME NEW k \in Nat, k \in K PROVE k + 1 \in K
  <2> SUFFICES ASSUME m + (k + 1) <= N PROVE IsPrefix(f[m], f[m + (k + 1)])
    OBVIOUS
  <2>1. m + (k + 1) \in 1 .. N /\ (m + (k + 1)) - 1 = m + k /\ m + k \in 0 .. N /\ m + k <= N
        /\ m \in 0 .. N
    BY <1>1
  <2>2. f[m + (k + 1)] = f[m + k] \o s[m + (k + 1)]
    BY <1>3, <2>1
  <2>3. f[m] \in Seq(R) /\ f[m + k] \in Seq(R) /\ s[m + (k + 1)] \in Seq(R)
    <3>1. f[m] \in Q /\ f[m + k] \in Q
      BY <1>3, <2>1
    <3>2. s[m + (k + 1)] \in Q
      <4> HIDE DEF Q
      <4>1. s \in Seq(Q)
        BY DEF Q
      <4> QED
        BY <2>1, <4>1
    <3> QED
      BY <3>1, <3>2
  <2>4. IsPrefix(f[m], f[m + k]) /\ IsPrefix(f[m + k], f[m + (k + 1)]) /\ f[m + (k + 1)] \in Seq(R)
    BY <1>6, <2>1, <2>2, <2>3, PrefixConcat
  <2> QED
    BY <2>3, <2>4, PrefixTrans
<1>7. N - m \in K
  <2>1. N - m \in Nat
    BY <1>1
  <2> HIDE DEF K
  <2> QED
    BY <1>5, <1>6, <2>1, NatSetInduction
<1>8. IsPrefix(f[m], f[N])
  BY <1>1, <1>7
<1> QED
  BY <1>2, <1>4, <1>8 DEF Flat, f

\* Every element of a filtered sequence is one of the sequence, in the set, and
\* a relation between those in their order holds between them.
LEMMA FilterOrdered ==
  ASSUME NEW R, NEW s \in Seq(R), NEW T, NEW E,
         \A i, j \in 1 .. Len(s) : i < j /\ s[i] \in T /\ s[j] \in T => <<s[i], s[j]>> \in E
  PROVE  \A i, j \in 1 .. Len(Filter(s, T)) : i < j => <<Filter(s, T)[i], Filter(s, T)[j]>> \in E
<1> DEFINE f == FilterUpTo(s, T)
           N == Len(s)
           Of(u, n) == \A i \in 1 .. Len(u) : \E k \in 1 .. n : s[k] \in T /\ u[i] = s[k]
           Ord(u) == \A i, j \in 1 .. Len(u) : i < j => <<u[i], u[j]>> \in E
           K == {n \in Nat : n <= N => Of(f[n], n) /\ Ord(f[n])}
<1>1. N \in Nat /\ f[0] = <<>> /\ \A n \in 1 .. N : f[n] = AppendIf(f[n - 1], s[n], T)
  BY FilterUpToDef
<1>0. f \in [0 .. N -> Seq(R)]
  BY FilterUpToDef
<1> HIDE DEF f
<1>2. 0 \in K
  BY <1>1
<1>3. ASSUME NEW n \in Nat, n \in K PROVE n + 1 \in K
  <2> HIDE DEF Of, Ord
  <2> SUFFICES ASSUME n + 1 <= N PROVE Of(f[n + 1], n + 1) /\ Ord(f[n + 1])
    OBVIOUS
  <2> USE DEF Of, Ord
  <2>1. n + 1 \in 1 .. N /\ (n + 1) - 1 = n /\ n <= N /\ n \in 0 .. N
    BY <1>1
  <2>2. PICK u \in Seq(R) : u = f[n]
    BY <1>0, <2>1
  <2>3. f[n + 1] = AppendIf(u, s[n + 1], T) /\ Of(u, n) /\ Ord(u)
    BY <1>1, <1>3, <2>1, <2>2
  <2>4. CASE s[n + 1] \notin T
    <3>1. f[n + 1] = u
      BY <2>3, <2>4 DEF AppendIf
    <3>2. 1 .. n \subseteq 1 .. n + 1
      BY <2>1
    <3>3. Of(u, n + 1)
      BY <2>3, <3>2
    <3> QED
      BY <2>3, <3>1, <3>3
  <2>5. CASE s[n + 1] \in T
    <3> DEFINE v == Append(u, s[n + 1])
               m == Len(u)
    <3>1. f[n + 1] = v
      BY <2>3, <2>5 DEF AppendIf
    <3>2. m \in Nat /\ s[n + 1] \in R
      BY <2>1
    <3>3. Len(v) = m + 1 /\ v[m + 1] = s[n + 1] /\ \A i \in 1 .. m : v[i] = u[i]
      BY <3>2
    <3> HIDE DEF v
    <3>4. ASSUME NEW i \in 1 .. Len(v) PROVE \E k \in 1 .. n + 1 : s[k] \in T /\ v[i] = s[k]
      <4>1. CASE i = m + 1
        BY <2>1, <2>5, <3>3, <4>1
      <4>2. CASE i \in 1 .. m
        <5>1. PICK k \in 1 .. n : s[k] \in T /\ u[i] = s[k]
          BY <2>3, <4>2
        <5>2. k \in 1 .. n + 1 /\ v[i] = s[k]
          BY <3>3, <4>2, <5>1
        <5> QED
          BY <5>1, <5>2
      <4> QED
        BY <3>2, <3>3, <4>1, <4>2
    <3>5. ASSUME NEW i \in 1 .. Len(v), NEW j \in 1 .. Len(v), i < j PROVE <<v[i], v[j]>> \in E
      <4>0. i \in 1 .. m
        BY <3>2, <3>3, <3>5
      <4>1. CASE j = m + 1
        <5>1. PICK k \in 1 .. n : s[k] \in T /\ u[i] = s[k]
          BY <2>3, <4>0
        <5>2. k \in 1 .. N /\ k < n + 1
          BY <1>1, <2>1
        <5>3. <<s[k], s[n + 1]>> \in E
          BY <2>1, <2>5, <5>1, <5>2
        <5> QED
          BY <3>3, <4>0, <4>1, <5>1, <5>3
      <4>2. CASE j \in 1 .. m
        BY <2>3, <3>3, <3>5, <4>0, <4>2
      <4> QED
        BY <3>2, <3>3, <4>1, <4>2
    <3> QED
      BY <3>1, <3>4, <3>5
  <2> QED
    BY <2>4, <2>5
<1>4. N \in K
  <2> HIDE DEF K
  <2> QED
    BY <1>1, <1>2, <1>3, NatSetInduction
<1>5. Ord(f[N])
  BY <1>1, <1>4
<1> QED
  BY <1>5 DEF Filter, f
-----------------------------------------------------------------------------
(* What a step leaves alone *)

\* A step of a process.
Acts(p) == ParseArgs(p) \/ Step(p) \/ Interrupt(p)

\* The state of q is not changed.
Same(q) == /\ pc'[q] = pc[q] /\ exit'[q] = exit[q] /\ args'[q] = args[q] /\ round'[q] = round[q]
           /\ stage'[q] = stage[q] /\ out'[q] = out[q] /\ sent'[q] = sent[q] /\ pos'[q] = pos[q]

\* Where nothing of it is changed.
LEMMA SameQuiet ==
  ASSUME UNCHANGED progVars, sent' = sent, pos' = pos, NEW q
  PROVE  Same(q)
BY DEF progVars, Same

\* A process that ends changes nothing of another.
LEMMA KilledApart ==
  ASSUME IInv, NEW p \in Procs, NEW code, Killed(p, code), NEW q \in Procs, q # p
  PROVE  Same(q)
<1>1. PICK k \in 0 .. Len(out[p]) : out' = [out EXCEPT ![p] = SubSeq(@, 1, k)]
  BY DEF Killed
<1> QED
  BY <1>1 DEF Killed, Exits, Same, IInv, ProgTypes

\* A process changes nothing of another.
LEMMA Apart ==
  ASSUME IInv, NEW p \in Procs, Acts(p), NEW q \in Procs, q # p
  PROVE  Same(q)
<1> USE DEF Same, ProgTypes, MediumTypes
<1>0. ProgTypes /\ MediumTypes
  BY DEF IInv
<1>1. CASE ParseArgs(p)
  BY <1>0, <1>1 DEF ParseArgs, mediumVars
<1>2. CASE ReadDirectory(p)
  BY <1>0, <1>2 DEF ReadDirectory, Exits, Goes, mediumVars
<1>3. CASE Prepare(p)
  <2>1. \/ (\E c : Exits(p, c)) \/ (\E w : Goes(p, w))
    BY <1>3 DEF Prepare
  <2>2. pc'[q] = pc[q] /\ exit'[q] = exit[q]
    BY <1>0, <2>1 DEF Exits, Goes
  <2>3. out'[q] = out[q]
    BY <1>0, <1>3 DEF Prepare
  <2>4. args' = args /\ round' = round /\ stage' = stage /\ sent' = sent /\ pos' = pos
    BY <1>3 DEF Prepare, mediumVars
  <2> QED
    BY <2>2, <2>3, <2>4
<1>4. CASE OpenFailed(p)
  BY <1>0, <1>4 DEF OpenFailed, Exits, mediumVars
<1>5. CASE OpenSender(p)
  BY <1>0, <1>5 DEF OpenSender, Goes
<1>6. CASE OpenReceiver(p)
  BY <1>0, <1>6 DEF OpenReceiver, Goes
<1>7. CASE Generate(p)
  <2>1. out'[q] = out[q]
    BY <1>0, <1>7 DEF Generate
  <2> QED
    BY <1>0, <1>7, <2>1 DEF Generate, Goes, mediumVars
<1>8. CASE PrintStage(p)
  <2>1. out'[q] = out[q]
    BY <1>0, <1>8 DEF PrintStage
  <2> QED
    BY <1>0, <1>8, <2>1 DEF PrintStage, Goes, mediumVars
<1>9. CASE EndRound(p)
  BY <1>0, <1>9 DEF EndRound, Goes, mediumVars
<1>10. CASE SendStage(p)
  <2>1. sent'[q] = sent[q]
    BY <1>0, <1>10 DEF SendStage
  <2> QED
    BY <1>0, <1>10, <2>1 DEF SendStage, Goes
<1>11. CASE SendFails(p)
  BY <1>0, <1>11 DEF SendFails, AfterFailure, Exits
<1>12. CASE SendToNobody(p)
  BY <1>12, KilledApart DEF SendToNobody
<1>13. CASE Receive(p)
  <2>1. PICK x : Decoded(p, x)
    BY <1>13 DEF Receive, RawReceive
  <2>2. pos'[q] = pos[q]
    BY <1>0, <1>13 DEF Receive
  <2>3. out'[q] = out[q] /\ round'[q] = round[q]
    BY <1>0, <2>1 DEF Decoded
  <2> QED
    BY <2>1, <2>2, <2>3 DEF Decoded
<1>14. CASE ReceiveEof(p)
  BY <1>0, <1>14 DEF ReceiveEof, AfterEof, Exits
<1>15. CASE ReceiveFails(p)
  BY <1>0, <1>15 DEF ReceiveFails, BodyUnread, Exits
<1>16. CASE Finish(p)
  BY <1>0, <1>16 DEF Finish, Exits
<1>17. CASE Interrupt(p)
  BY <1>17, KilledApart DEF Interrupt
<1>18. CASE WritePart(p)
  BY <1>18, SameQuiet DEF WritePart
<1>19. CASE ReceiveTorn(p)
  BY <1>0, <1>19 DEF ReceiveTorn, BodyUnread, Exits
<1> QED
  BY <1>1, <1>2, <1>3, <1>4, <1>5, <1>6, <1>7, <1>8, <1>9, <1>10, <1>11, <1>12, <1>13, <1>14, <1>15,
     <1>16, <1>17, <1>18, <1>19 DEF Acts, Step

\* What d has is not changed, or d ends, and then some of its lines are lost.
Rests(d) ==
  /\ pc'[d] = pc[d] /\ args'[d] = args[d] /\ round'[d] = round[d] /\ pos'[d] = pos[d]
  /\ IsPrefix(Flat(out'[d]), Flat(out[d]))
  /\ exit'[d] = Running => exit[d] = Running /\ out'[d] = out[d]
  /\ out'[d] = out[d] \/ sockets'[d] = Closed

\* The lines of d, as its packets.
LEMMA LinesFlat ==
  ASSUME IInv, NEW d \in Procs
  PROVE  out[d] \in Seq(Seq(Frames)) /\ Flat(out[d]) \in Queue /\ Flat(out[d]) \in Seq(Frames)
<1>1. out[d] \in Seq(Seq(Frames))
  BY Own, ProcTypes DEF Lines, Queue
<1> QED
  BY <1>1, FlatType DEF Queue

\* Nothing changes.
LEMMA SameRests ==
  ASSUME IInv, NEW d \in Procs, Same(d)
  PROVE  Rests(d)
<1>1. IsPrefix(Flat(out[d]), Flat(out[d]))
  BY LinesFlat, PrefixConcat
<1> QED
  BY <1>1, Zenon DEF Same, Rests

\* It ends, and all its lines are out.
LEMMA EndedRests ==
  ASSUME IInv, NEW d \in Procs, NEW code \in {0, 2}, Exits(d, code), args' = args, round' = round,
         pos' = pos, out' = out
  PROVE  Rests(d)
<1>1. IsPrefix(Flat(out[d]), Flat(out[d]))
  BY LinesFlat, PrefixConcat
<1>2. exit'[d] = code /\ code # Running
  BY DEF Exits, IInv, ProgTypes, Running
<1> QED
  BY <1>1, <1>2 DEF Exits, Rests

\* A signal ends it.
LEMMA KilledRests ==
  ASSUME IInv, NEW d \in Procs, NEW code \in {Interrupted, BrokenPipe}, Killed(d, code)
  PROVE  Rests(d)
<1>1. PICK k \in 0 .. Len(out[d]) : out' = [out EXCEPT ![d] = SubSeq(@, 1, k)]
  BY DEF Killed
<1>2. out[d] \in Seq(Seq(Frames))
  BY LinesFlat
<1>3. out'[d] = SubSeq(out[d], 1, k)
  BY <1>1 DEF IInv, ProgTypes
<1>4. IsPrefix(Flat(out'[d]), Flat(out[d]))
  BY <1>2, <1>3, FlatPrefix
<1>5. exit'[d] = code /\ code # Running
  BY DEF Killed, Exits, IInv, ProgTypes, Running, Interrupted, BrokenPipe
<1>6. sockets'[d] = Closed
  BY DEF Killed, Release, IInv, MediumTypes
<1> QED
  BY <1>4, <1>5, <1>6 DEF Killed, Exits, Rests

\* What a decoder can do in its loop: begin, receive or end.
LEMMA DecoderStep ==
  ASSUME IInv, IInv', [Next]_vars, NEW d \in Procs, pc'[d] \in Late, args'[d].decode
  PROVE  Rests(d) \/ OpenReceiver(d) \/ Receive(d)
<1>1. CASE UNCHANGED vars \/ HarnessGone \/ Noise
  <2>1. UNCHANGED progVars /\ sent' = sent /\ pos' = pos
    BY <1>1 DEF vars, mediumVars, HarnessGone, Noise
  <2> QED
    BY <2>1, SameQuiet, SameRests
<1>2. ASSUME NEW p \in Procs, p # d, Acts(p) PROVE Rests(d)
  BY <1>2, Apart, SameRests
<1>3. CASE Acts(d)
  <2>0. /\ ProgTypes /\ MediumTypes /\ pc'[d] \notin {"start", "args", "parsed", "open"}
        /\ pc[d] \in {"print", "send"} => ~args[d].decode
    <3>1. Proc(argv[d], pc[d], exit[d], args[d], round[d], out[d], sent[d], pos[d], sockets[d].open)
      BY Own
    <3> QED
      BY <3>1 DEF Late, Proc, IInv
  <2>1. ~ParseArgs(d)
    BY <2>0 DEF ParseArgs, ProgTypes
  <2>2. ~ReadDirectory(d)
    BY <2>0 DEF ReadDirectory, Exits, Goes, At, ProgTypes
  <2>3. ~Prepare(d)
    <3> SUFFICES ASSUME Prepare(d) PROVE FALSE
      OBVIOUS
    <3>1. pc[d] = "parsed" /\ args'[d] = args[d]
      BY DEF Prepare, At
    <3>2. Goes(d, "loop") => ~args[d].decode
      <4> SUFFICES ASSUME Goes(d, "loop"), args[d].decode PROVE FALSE
        OBVIOUS
      <4>1. pc'[d] = "loop" /\ exit' = exit
        BY <2>0 DEF Goes, ProgTypes
      <4>2. \A c : ~Exits(d, c)
        BY <3>1, <4>1 DEF Exits
      <4>3. ~Goes(d, "open")
        BY <2>0, <4>1 DEF Goes, ProgTypes
      <4> QED
        BY <4>2, <4>3 DEF Prepare
    <3>3. (\E c : Exits(d, c)) \/ Goes(d, "open") \/ Goes(d, "loop")
      BY DEF Prepare
    <3>4. Goes(d, "loop")
      BY <2>0, <3>1, <3>3 DEF Exits, Goes, ProgTypes
    <3> QED
      BY <3>1, <3>2, <3>4
  <2>4. ~OpenFailed(d)
    BY <2>0 DEF OpenFailed, Exits, At
  <2>5. ~OpenSender(d)
    BY DEF OpenSender
  <2>6. ~Generate(d)
    BY DEF Generate
  <2>7. ~PrintStage(d) /\ ~EndRound(d) /\ ~SendStage(d)
    BY <2>0 DEF PrintStage, EndRound, SendStage, At
  <2>8. ~SendFails(d) /\ ~SendToNobody(d) /\ ~WritePart(d)
    <3>1. pc'[d] = pc[d] /\ args'[d] = args[d] => pc[d] # "send"
      BY <2>0
    <3> QED
      BY <3>1 DEF SendFails, AfterFailure, Exits, SendToNobody, Killed, WritePart, progVars, At
  <2>9. CASE ReceiveEof(d)
    BY <2>9, EndedRests DEF ReceiveEof, AfterEof
  <2>10. CASE ReceiveFails(d)
    <3>1. PICK c \in {0, 2} : Exits(d, c)
      BY <2>10 DEF ReceiveFails, BodyUnread
    <3>2. args' = args /\ round' = round /\ pos' = pos /\ out' = out
      BY <2>10 DEF ReceiveFails
    <3> QED
      BY <3>1, <3>2, EndedRests
  <2>11. CASE Finish(d)
    BY <2>11, EndedRests DEF Finish
  <2>12. CASE Interrupt(d)
    BY <2>12, KilledRests DEF Interrupt
  <2>13. CASE ReceiveTorn(d)
    BY <2>13, EndedRests DEF ReceiveTorn, BodyUnread
  <2> QED
    BY <1>3, <2>1, <2>2, <2>3, <2>4, <2>5, <2>6, <2>7, <2>8, <2>9, <2>10, <2>11, <2>12, <2>13
    DEF Acts, Step
<1>4. \/ UNCHANGED vars \/ HarnessGone \/ Noise
      \/ \E p \in Procs : Acts(p)
  BY DEF Next, Acts
<1> QED
  BY <1>1, <1>2, <1>3, <1>4

\* Only SendStage adds to what is sent, only it and OpenSender change the
\* capture, only it, Receive and the harness' end the harness' socket.
LEMMA MediaOf ==
  ASSUME NEW p \in Procs, Acts(p)
  PROVE  /\ ~SendStage(p) => sent' = sent
         /\ ~SendStage(p) /\ ~OpenSender(p) => file' = file
         /\ ~SendStage(p) /\ ~Receive(p) => beats' = beats
         /\ harness' = harness /\ noise' = noise
<1> DEFINE Quiet == sent' = sent /\ file' = file /\ beats' = beats /\ harness' = harness /\ noise' = noise
<1>1. CASE ParseArgs(p) \/ ReadDirectory(p) \/ Prepare(p) \/ OpenFailed(p)
  <2>1. Quiet
    BY <1>1 DEF ParseArgs, ReadDirectory, Prepare, OpenFailed, mediumVars
  <2> QED
    BY <2>1
<1>2. CASE Generate(p) \/ PrintStage(p) \/ EndRound(p)
  <2>1. Quiet
    BY <1>2 DEF Generate, PrintStage, EndRound, mediumVars
  <2> QED
    BY <2>1
<1>3. CASE \/ WritePart(p) \/ SendFails(p) \/ ReceiveEof(p) \/ ReceiveTorn(p) \/ ReceiveFails(p)
           \/ Finish(p) \/ OpenReceiver(p)
  <2>1. Quiet
    BY <1>3 DEF WritePart, SendFails, ReceiveEof, ReceiveTorn, ReceiveFails, Finish, OpenReceiver
  <2> QED
    BY <2>1
<1>4. CASE SendToNobody(p) \/ Interrupt(p)
  <2>1. Quiet
    BY <1>4 DEF SendToNobody, Interrupt, Killed
  <2> QED
    BY <2>1
<1>5. CASE OpenSender(p)
  BY <1>5 DEF OpenSender
<1>6. CASE SendStage(p)
  BY <1>6 DEF SendStage
<1>7. CASE Receive(p)
  <2>1. sent' = sent /\ file' = file /\ harness' = harness /\ noise' = noise
    BY <1>7 DEF Receive, RawReceive, Decoded
  <2> QED
    BY <1>7, <2>1
<1> QED
  BY <1>1, <1>2, <1>3, <1>4, <1>5, <1>6, <1>7 DEF Acts, Step

\* A step is one of a process or of the surroundings.
LEMMA StepKinds ==
  ASSUME [Next]_vars
  PROVE  \/ UNCHANGED vars \/ HarnessGone \/ Noise
         \/ \E p \in Procs : Acts(p)
BY DEF Next, Acts

\* A packet of a process that sends.
LEMMA SentPacket ==
  ASSUME IInv, NEW g \in Procs, SendStage(g)
  PROVE  /\ Packet(g, stage[g]) \in Frames /\ Packet(g, stage[g]) \in Real
         /\ pc[g] = "send" /\ exit[g] = Running /\ ~args[g].decode
         /\ Packet(g, stage[g]).round = round[g] + 1 /\ Packet(g, stage[g]).stage = stage[g]
         /\ sent'[g] = IF Kind(args[g]) = "none" THEN sent[g] ELSE Append(sent[g], Packet(g, stage[g]))
<1> DEFINE a == args[g]
           k == stage[g]
<1>1. At(g, "send") /\ "send" \in Late
  BY DEF SendStage, Late
<1>2. /\ pc[g] = "send" /\ exit[g] = Running /\ Stages(a) \in Seq(BOOLEAN) /\ round[g] \in Nat
      /\ k \in Nat \ {0} /\ Gen("send", Running, a, round[g], k, out[g], sent[g]) /\ ~a.decode
      /\ MediumTypes
  BY <1>1, AtLate
<1>3. k <= Len(Stages(a))
  BY <1>2 DEF Gen, Late
<1>4. Stages(a)[k] \in BOOLEAN
  BY <1>2, <1>3
<1>5. Packet(g, k) = [round |-> round[g] + 1, stage |-> k, bytes |-> Stages(a)[k]]
  BY DEF Packet
<1>6. round[g] + 1 \in Nat \ {0} /\ k \in Nat
  BY <1>2
<1>7. Packet(g, k) \in Frames /\ Packet(g, k) \in Real
  BY <1>4, <1>5, <1>6 DEF Frames, Real
<1>8. sent'[g] = IF Kind(a) = "none" THEN sent[g] ELSE Append(sent[g], Packet(g, k))
  BY <1>2 DEF SendStage, MediumTypes
<1> QED
  BY <1>2, <1>5, <1>7, <1>8

\* What is sent are packets of a generator.
LEMMA SentKeeps ==
  ASSUME IInv, SentInv, [Next]_vars
  PROVE  SentInv'
<1> SUFFICES ASSUME NEW q \in Procs PROVE sent'[q] \in Seq(Real)
  BY DEF SentInv
<1>1. sent[q] \in Seq(Real)
  BY DEF SentInv
<1>2. CASE UNCHANGED vars \/ HarnessGone \/ Noise
  <2>1. sent' = sent
    BY <1>2 DEF vars, mediumVars, HarnessGone, Noise
  <2> QED
    BY <1>1, <2>1
<1>3. ASSUME NEW p \in Procs, p # q, Acts(p) PROVE sent'[q] \in Seq(Real)
  BY <1>1, <1>3, Apart DEF Same
<1>4. CASE Acts(q)
  <2>1. CASE SendStage(q)
    <3>1. PICK x \in Real : x = Packet(q, stage[q])
      BY <2>1, SentPacket
    <3>2. sent'[q] = sent[q] \/ sent'[q] = Append(sent[q], x)
      BY <2>1, <3>1, SentPacket
    <3> QED
      BY <1>1, <3>2
  <2>2. CASE ~SendStage(q)
    BY <1>1, <1>4, <2>2, MediaOf
  <2> QED
    BY <2>1, <2>2
<1> QED
  BY <1>2, <1>3, <1>4, StepKinds

\* The capture is made once, and only grows.
LEMMA RecordsStep ==
  ASSUME IInv, [Next]_vars
  PROVE  \/ file'.records = file.records
         \/ \E x \in Frames : file'.records = Append(file.records, x)
<1>1. CASE UNCHANGED vars \/ HarnessGone \/ Noise
  <2>1. file' = file
    BY <1>1 DEF vars, mediumVars, HarnessGone, Noise
  <2> QED
    BY <2>1
<1>2. ASSUME NEW p \in Procs, OpenSender(p) PROVE file'.records = file.records
  <2>1. pc[p] = "open" /\ ~args[p].decode /\ (file' = file \/ file' = [made |-> TRUE, records |-> <<>>])
    BY <1>2 DEF OpenSender, At
  <2>2. ~file.made
    <3> SUFFICES ASSUME file.made PROVE FALSE
      OBVIOUS
    <3>1. PICK g \in Procs : Writer(pc[g], args[g])
      BY DEF IInv, FileInv
    <3>2. pc[g] \in Late /\ ~args[g].decode /\ pc[g] # "start"
      BY <3>1 DEF Writer, Late
    <3>3. g = p
      BY <2>1, <3>2, OnlyGenerator
    <3> QED
      BY <2>1, <3>2, <3>3 DEF Late
  <2>3. file.records = <<>>
    BY <2>2 DEF IInv, FileInv
  <2> QED
    BY <2>1, <2>3
<1>3. ASSUME NEW p \in Procs, SendStage(p)
      PROVE  \/ file'.records = file.records
             \/ \E x \in Frames : file'.records = Append(file.records, x)
  <2>1. Packet(p, stage[p]) \in Frames /\ Carry(p, Packet(p, stage[p]))
    BY <1>3, SentPacket DEF SendStage
  <2> QED
    BY <2>1, CarryFacts DEF IInv
<1>4. ASSUME NEW p \in Procs, Acts(p), ~OpenSender(p), ~SendStage(p) PROVE file'.records = file.records
  BY <1>4, MediaOf
<1> QED
  BY <1>1, <1>2, <1>3, <1>4, StepKinds

\* A decoder's step on its lines: a packet with bytes is printed and counted.
LEMMA DecodedFacts ==
  ASSUME IInv, NEW d \in Procs, NEW x \in Frames, Decoded(d, x)
  PROVE  /\ pc'[d] = pc[d] /\ exit'[d] = exit[d] /\ args'[d] = args[d] /\ file' = file /\ sent' = sent
         /\ harness' = harness
         /\ x.bytes => /\ round'[d] = round[d] + 1 /\ Len(out'[d]) = Len(out[d]) + 1
                       /\ Flat(out'[d]) = Append(Flat(out[d]), x)
         /\ ~x.bytes => round'[d] = round[d] /\ out'[d] = out[d]
<1>1. /\ pc' = pc /\ exit' = exit /\ args' = args /\ file' = file /\ sent' = sent /\ harness' = harness
  BY DEF Decoded
<1>2. out[d] \in Seq(Seq(Frames)) /\ ProgTypes
  BY LinesFlat DEF IInv
<1>3. CASE x.bytes
  <2>1. round'[d] = round[d] + 1 /\ out'[d] = Append(out[d], <<x>>)
    BY <1>2, <1>3 DEF Decoded, Counted, ProgTypes
  <2>2. Flat(Append(out[d], <<x>>)) = Append(Flat(out[d]), x)
    BY <1>2, FlatAppendOne
  <2>3. Len(Append(out[d], <<x>>)) = Len(out[d]) + 1
    BY <1>2
  <2> QED
    BY <1>1, <1>3, <2>1, <2>2, <2>3
<1>4. CASE ~x.bytes
  BY <1>1, <1>4 DEF Decoded, Counted
<1> QED
  BY <1>3, <1>4

\* The packets with bytes.
LEMMA FullIs ==
  \A x \in Frames : x \in Full <=> x.bytes
<1> SUFFICES ASSUME NEW x \in Frames PROVE x \in Full <=> x.bytes
  OBVIOUS
<1>1. x = [round |-> x.round, stage |-> x.stage, bytes |-> x.bytes] /\ x.round \in Nat /\ x.stage \in Nat
  BY DEF Frames
<1>2. x.bytes \in BOOLEAN
  BY DEF Frames
<1>3. CASE x.bytes = TRUE
  BY <1>1, <1>3 DEF Full
<1>4. CASE x.bytes = FALSE
  BY <1>4 DEF Full
<1> QED
  BY <1>2, <1>3, <1>4, Zenon

\* One more packet.
LEMMA NonEmptyAppend ==
  ASSUME NEW s \in Queue, NEW x \in Frames
  PROVE  /\ NonEmpty(s) \in Queue
         /\ x.bytes => NonEmpty(Append(s, x)) = Append(NonEmpty(s), x)
         /\ ~x.bytes => NonEmpty(Append(s, x)) = NonEmpty(s)
<1>1. s \in Seq(Frames)
  BY DEF Queue
<1>2. NonEmpty(Append(s, x)) = AppendIf(NonEmpty(s), x, Full)
  BY <1>1, FilterAppend DEF NonEmpty
<1>3. NonEmpty(s) \in Queue
  BY <1>1, FilterType DEF NonEmpty, Queue
<1>4. x \in Full <=> x.bytes
  BY FullIs
<1> QED
  BY <1>2, <1>3, <1>4, Zenon DEF AppendIf

\* A prefix and the next element.
LEMMA OneMore ==
  ASSUME NEW R, NEW s \in Seq(R), NEW n \in Nat, n < Len(s)
  PROVE  SubSeq(s, 1, n) \in Seq(R) /\ SubSeq(s, 1, n + 1) = Append(SubSeq(s, 1, n), s[n + 1])
<1>1. n + 1 \in 1 .. Len(s) /\ s[n + 1] \in R
  OBVIOUS
<1>2. SubSeq(s, 1, n) \in Seq(R)
  OBVIOUS
<1>3. Append(SubSeq(s, 1, n), s[n + 1]) = SubSeq(s, 1, n + 1)
  BY <1>1
<1> QED
  BY <1>2, <1>3

\* The records that are read stay what they are.
LEMMA ReadRecords ==
  ASSUME IInv, [Next]_vars, NEW n \in Nat, n <= Len(file.records)
  PROVE  SubSeq(file'.records, 1, n) = SubSeq(file.records, 1, n)
<1>1. file.records \in Seq(Frames)
  BY DEF IInv, MediumTypes, Capture, Queue
<1>2. ASSUME NEW x \in Frames
      PROVE  SubSeq(Append(file.records, x), 1, n) = SubSeq(file.records, 1, n)
  BY <1>1
<1> QED
  BY <1>2, RecordsStep

\* A decoder that starts has nothing.
LEMMA ReceiverStart ==
  ASSUME IInv, NEW d \in Procs, OpenReceiver(d)
  PROVE  /\ args'[d] = args[d] /\ exit'[d] = Running /\ out'[d] = <<>> /\ round'[d] = 0 /\ pos'[d] = 0
         /\ pc[d] = "open" /\ args[d].decode /\ Kind(args[d]) \in {"pcap", "verilator", "raw"}
         /\ beats' = beats /\ harness' = harness /\ sent' = sent /\ file' = file
<1>1. At(d, "open") /\ "open" \in Early /\ Kind(args[d]) \in {"pcap", "verilator", "raw"}
      /\ args[d].decode /\ Goes(d, "loop")
  BY DEF OpenReceiver, Early
<1>2. out[d] = <<>> /\ round[d] = 0 /\ pos[d] = 0 /\ exit[d] = Running /\ pc[d] = "open"
  BY <1>1, AtEarly DEF At
<1>3. /\ args' = args /\ exit' = exit /\ out' = out /\ round' = round /\ pos' = pos
      /\ beats' = beats /\ harness' = harness /\ sent' = sent /\ file' = file
  BY <1>1 DEF OpenReceiver, Goes
<1> QED
  BY <1>1, <1>2, <1>3

\* A decoder has printed what it has read.
LEMMA DecKeeps ==
  ASSUME IInv, IInv', [Next]_vars, NEW d \in Procs, DecInv(d)
  PROVE  DecInv(d)'
<1> SUFFICES ASSUME pc'[d] \in Late, args'[d].decode
             PROVE  /\ Kind(args'[d]) # "none"
                    /\ exit'[d] = Running => Len(out'[d]) = round'[d]
                    /\ Kind(args'[d]) = "pcap" =>
                         /\ IsPrefix(Flat(out'[d]), NonEmpty(SubSeq(file'.records, 1, pos'[d])))
                         /\ exit'[d] = Running =>
                              Flat(out'[d]) = NonEmpty(SubSeq(file'.records, 1, pos'[d]))
  BY DEF DecInv, Dec
<1>1. /\ MediumTypes /\ file.records \in Queue /\ pos[d] \in Nat /\ pos[d] <= Len(file.records)
      /\ Flat(out[d]) \in Queue /\ Flat(out'[d]) \in Queue
  <2>1. Flat(out'[d]) \in Queue
    <3>1. out'[d] \in Seq(Seq(Frames))
      BY DEF IInv, ProgTypes, Lines, Queue
    <3> QED
      BY <3>1, FlatType DEF Queue
  <2> QED
    BY <2>1, LinesFlat DEF IInv, MediumTypes, FileInv, Capture
<1>2. CASE Rests(d)
  <2>1. /\ pc[d] \in Late /\ args[d].decode /\ args'[d] = args[d] /\ round'[d] = round[d]
        /\ pos'[d] = pos[d] /\ IsPrefix(Flat(out'[d]), Flat(out[d]))
        /\ exit'[d] = Running => exit[d] = Running /\ out'[d] = out[d]
    BY <1>2 DEF Rests
  <2>2. SubSeq(file'.records, 1, pos'[d]) = SubSeq(file.records, 1, pos[d])
    BY <1>1, <2>1, ReadRecords
  <2>3. PICK m \in Queue : m = NonEmpty(SubSeq(file.records, 1, pos[d]))
    <3>1. SubSeq(file.records, 1, pos[d]) \in Seq(Frames)
      BY <1>1 DEF Queue
    <3>2. NonEmpty(SubSeq(file.records, 1, pos[d])) \in Queue
      BY <3>1, FilterType DEF NonEmpty, Queue
    <3> QED
      BY <3>2
  <2>4. /\ Kind(args[d]) # "none"
        /\ exit[d] = Running => Len(out[d]) = round[d]
        /\ Kind(args[d]) = "pcap" => IsPrefix(Flat(out[d]), m) /\ (exit[d] = Running => Flat(out[d]) = m)
    BY <2>1, <2>3 DEF DecInv, Dec
  <2>5. Kind(args[d]) = "pcap" => IsPrefix(Flat(out'[d]), m)
    BY <1>1, <2>1, <2>3, <2>4, PrefixTrans DEF Queue
  <2> QED
    BY <2>1, <2>2, <2>3, <2>4, <2>5, Zenon
<1>3. CASE OpenReceiver(d)
  <2>1. /\ args'[d] = args[d] /\ out'[d] = <<>> /\ round'[d] = 0 /\ pos'[d] = 0
        /\ Kind(args[d]) \in {"pcap", "verilator", "raw"} /\ file' = file
    BY <1>3, ReceiverStart
  <2>2. SubSeq(file.records, 1, 0) = <<>>
    BY <1>1 DEF Queue
  <2>3. NonEmpty(SubSeq(file'.records, 1, pos'[d])) = <<>>
    BY <2>1, <2>2, FilterEmpty DEF NonEmpty
  <2>4. Flat(out'[d]) = <<>> /\ Len(out'[d]) = 0 /\ IsPrefix(<<>>, <<>>)
    BY <2>1, FlatEmpty DEF IsPrefix
  <2> QED
    BY <2>1, <2>3, <2>4
<1>4. CASE Receive(d)
  <2>0. Receives(d) /\ pc[d] = "loop" /\ args[d].decode /\ exit[d] = Running /\ pc[d] \in Late
    BY <1>4 DEF Receive, Receives, At, Late
  <2>1. PICK x \in Frames :
          /\ Decoded(d, x)
          /\ Kind(args[d]) = "pcap" => /\ pos[d] < Len(file.records) /\ x = file.records[pos[d] + 1]
                                       /\ pos'[d] = pos[d] + 1
    <3>1. CASE /\ Kind(args[d]) = "pcap" /\ pos[d] < Len(file.records)
               /\ Decoded(d, file.records[pos[d] + 1]) /\ pos' = [pos EXCEPT ![d] = Position(@)]
      <4>1. file.records[pos[d] + 1] \in Frames
        BY <1>1, <3>1 DEF Queue
      <4>2. pos'[d] = pos[d] + 1
        BY <1>1, <3>1 DEF Position, MediumTypes
      <4> QED
        BY <3>1, <4>1, <4>2
    <3>2. CASE Kind(args[d]) = "verilator" /\ beats # <<>> /\ Decoded(d, Head(beats))
      <4>1. Head(beats) \in Frames
        BY <1>1, <3>2 DEF MediumTypes, Queue
      <4> QED
        BY <3>2, <4>1
    <3>3. CASE Kind(args[d]) = "raw" /\ RawReceive(d)
      <4>1. sockets[d].queue \in Queue
        BY Own, ProcTypes
      <4>2. Head(sockets[d].queue) \in Frames
        BY <3>3, <4>1 DEF RawReceive, Queue
      <4> QED
        BY <3>3, <4>2 DEF RawReceive
    <3> QED
      BY <1>4, <3>1, <3>2, <3>3 DEF Receive
  <2>2. /\ pc'[d] = pc[d] /\ exit'[d] = exit[d] /\ args'[d] = args[d] /\ file' = file
        /\ x.bytes => /\ round'[d] = round[d] + 1 /\ Len(out'[d]) = Len(out[d]) + 1
                      /\ Flat(out'[d]) = Append(Flat(out[d]), x)
        /\ ~x.bytes => round'[d] = round[d] /\ out'[d] = out[d]
    BY <2>1, DecodedFacts
  <2>3. /\ Kind(args[d]) # "none" /\ Len(out[d]) = round[d]
        /\ Kind(args[d]) = "pcap" => Flat(out[d]) = NonEmpty(SubSeq(file.records, 1, pos[d]))
    BY <2>0 DEF DecInv, Dec
  <2>4. Len(out'[d]) = round'[d]
    BY <2>2, <2>3
  <2>5. ASSUME Kind(args[d]) = "pcap"
        PROVE  Flat(out'[d]) = NonEmpty(SubSeq(file'.records, 1, pos'[d]))
    <3> DEFINE s == SubSeq(file.records, 1, pos[d])
    <3>1. s \in Queue /\ SubSeq(file.records, 1, pos[d] + 1) = Append(s, file.records[pos[d] + 1])
      <4>1. file.records \in Seq(Frames) /\ pos[d] \in Nat /\ pos[d] < Len(file.records)
        BY <1>1, <2>1, <2>5 DEF Queue
      <4> QED
        BY <4>1, OneMore DEF Queue
    <3>2. SubSeq(file'.records, 1, pos'[d]) = Append(s, x)
      BY <2>1, <2>2, <2>5, <3>1
    <3>3. Flat(out[d]) = NonEmpty(s)
      BY <2>3, <2>5
    <3> HIDE DEF s
    <3>4. /\ x.bytes => NonEmpty(Append(s, x)) = Append(NonEmpty(s), x)
          /\ ~x.bytes => NonEmpty(Append(s, x)) = NonEmpty(s)
      BY <3>1, NonEmptyAppend
    <3>5. Flat(out'[d]) = NonEmpty(Append(s, x))
      <4>1. CASE x.bytes
        BY <2>2, <3>3, <3>4, <4>1, Zenon
      <4>2. CASE ~x.bytes
        BY <2>2, <3>3, <3>4, <4>2, Zenon
      <4> QED
        BY <4>1, <4>2
    <3> QED
      BY <3>2, <3>5, Zenon
  <2>6. Kind(args[d]) = "pcap" => IsPrefix(Flat(out'[d]), NonEmpty(SubSeq(file'.records, 1, pos'[d])))
    <3>1. IsPrefix(Flat(out'[d]), Flat(out'[d]))
      BY <1>1, PrefixConcat DEF Queue
    <3> QED
      BY <2>5, <3>1, Zenon
  <2> QED
    BY <2>2, <2>3, <2>4, <2>5, <2>6, Zenon
<1> QED
  BY <1>2, <1>3, <1>4, DecoderStep
-----------------------------------------------------------------------------
(* The harness *)

\* There is one reader of the harness.
LEMMA OnlyReader ==
  ASSUME IInv, NEW p \in Procs, NEW q \in Procs, pc[p] # "start", pc[q] # "start",
         args[p].decode, Kind(args[p]) = "verilator", args[q].decode, Kind(args[q]) = "verilator"
  PROVE  p = q
<1>1. Accepted(argv[p], args[p]) /\ Accepted(argv[q], args[q])
  BY Own DEF Proc
<1>2. IsHarnessReader(argv[p]) /\ IsHarnessReader(argv[q])
  BY <1>1, Zenon DEF Accepted, IsHarnessReader
<1>3. argv \in CommandLines
  BY DEF IInv, ProgTypes
<1> QED
  BY <1>2, <1>3, OneEach

\* A process in its loops stays there, and gets there by an open transport or
\* without one.
LEMMA LateStays ==
  ASSUME IInv, [Next]_vars, NEW q \in Procs
  PROVE  /\ pc[q] \in Late => pc'[q] \in Late /\ args'[q] = args[q]
         /\ pc[q] \notin Late /\ pc'[q] \in Late =>
              \/ OpenSender(q) \/ OpenReceiver(q)
              \/ args'[q] = args[q] /\ Kind(args[q]) = "none"
<1>1. ASSUME Same(q) PROVE pc'[q] = pc[q] /\ args'[q] = args[q]
  BY <1>1 DEF Same
<1>2. CASE UNCHANGED vars \/ HarnessGone \/ Noise
  <2>1. UNCHANGED progVars /\ sent' = sent /\ pos' = pos
    BY <1>2 DEF vars, mediumVars, HarnessGone, Noise
  <2> QED
    BY <1>1, <2>1, SameQuiet
<1>3. ASSUME NEW p \in Procs, p # q, Acts(p) PROVE Same(q)
  BY <1>3, Apart
<1>4. CASE Acts(q)
  <2>0. ProgTypes
    BY DEF IInv
  <2> DEFINE Keeps == pc'[q] = pc[q] /\ args'[q] = args[q]
  <2>1. CASE ParseArgs(q)
    BY <2>0, <2>1 DEF ParseArgs, Late, ProgTypes
  <2>2. CASE ReadDirectory(q)
    BY <2>0, <2>2 DEF ReadDirectory, Late, ProgTypes, At, Exits, Goes
  <2>3. CASE Prepare(q)
    <3>1. pc[q] = "parsed" /\ args'[q] = args[q]
      BY <2>3 DEF Prepare, At
    <3>2. (\E c : Exits(q, c)) \/ Goes(q, "open") \/ Kind(args[q]) = "none"
      BY <2>3 DEF Prepare
    <3> QED
      BY <2>0, <3>1, <3>2 DEF Late, ProgTypes, Exits, Goes
  <2>4. CASE OpenFailed(q)
    BY <2>0, <2>4 DEF OpenFailed, Late, At, Exits
  <2>5. CASE OpenSender(q) \/ OpenReceiver(q)
    <3>1. pc[q] = "open"
      BY <2>5 DEF OpenSender, OpenReceiver, At
    <3> QED
      BY <2>5, <3>1 DEF Late
  <2>6. CASE Generate(q) \/ PrintStage(q) \/ EndRound(q) \/ SendStage(q)
    <3>1. pc[q] \in Late /\ args' = args /\ \E w \in Late : Goes(q, w)
      BY <2>6 DEF Generate, PrintStage, EndRound, SendStage, At, Late
    <3> QED
      BY <2>0, <3>1 DEF Goes, ProgTypes
  <2>7. CASE WritePart(q) \/ SendFails(q) \/ ReceiveEof(q) \/ ReceiveTorn(q) \/ ReceiveFails(q) \/ Finish(q)
    <3>1. Keeps
      BY <2>7 DEF WritePart, progVars, SendFails, AfterFailure, ReceiveEof, AfterEof, ReceiveTorn,
                  ReceiveFails, BodyUnread, Finish, Exits
    <3> QED
      BY <3>1
  <2>8. CASE SendToNobody(q) \/ Interrupt(q)
    <3>1. Keeps
      BY <2>8 DEF SendToNobody, Interrupt, Killed, Exits
    <3> QED
      BY <3>1
  <2>9. CASE Receive(q)
    <3>1. Keeps
      BY <2>9 DEF Receive, RawReceive, Decoded
    <3> QED
      BY <3>1
  <2> QED
    BY <1>4, <2>1, <2>2, <2>3, <2>4, <2>5, <2>6, <2>7, <2>8, <2>9 DEF Acts, Step
<1> QED
  BY <1>1, <1>2, <1>3, <1>4, StepKinds

\* Where nothing of it moves.
LEMMA HandedKept ==
  ASSUME NEW h, Handed(h), beats' = beats, harness' = harness,
         \A q \in Procs : Feeds(q)' <=> Feeds(q), \A q \in Procs : Drains(q)' <=> Drains(q),
         \A q \in Procs : Feeds(q) => NonEmpty(sent'[q]) = NonEmpty(sent[q]),
         \A q \in Procs : Drains(q) =>
           /\ IsPrefix(Flat(out'[q]), Flat(out[q])) /\ Flat(out[q]) \in Queue /\ Flat(out'[q]) \in Queue
           /\ exit'[q] = Running => exit[q] = Running /\ out'[q] = out[q]
  PROVE  Handed(h)'
<1>1. h \in Queue /\ beats' \in Seq(Full)
  BY DEF Handed
<1>2. \A g \in Procs : Feeds(g)' => NonEmpty(sent'[g]) = h
  BY DEF Handed
<1>3. (\A g \in Procs : ~Feeds(g)') => h = <<>>
  BY DEF Handed
<1>4. harness' = "up" /\ (\A d \in Procs : ~Drains(d)') => beats' = h
  BY DEF Handed
<1>5. ASSUME NEW d \in Procs, Drains(d)'
      PROVE  /\ IsPrefix(Flat(out'[d]), h)
             /\ exit'[d] = Running => /\ IsPrefix(Flat(out'[d]) \o beats', h)
                                      /\ harness' = "up" => Flat(out'[d]) \o beats' = h
  <2>1. Drains(d)
    BY <1>5
  <2>2. /\ IsPrefix(Flat(out[d]), h)
        /\ exit[d] = Running => /\ IsPrefix(Flat(out[d]) \o beats, h)
                                /\ harness = "up" => Flat(out[d]) \o beats = h
    BY <2>1 DEF Handed
  <2>3. /\ IsPrefix(Flat(out'[d]), Flat(out[d])) /\ Flat(out[d]) \in Queue /\ Flat(out'[d]) \in Queue
        /\ exit'[d] = Running => exit[d] = Running /\ out'[d] = out[d]
    BY <2>1
  <2>4. IsPrefix(Flat(out'[d]), h)
    BY <1>1, <2>2, <2>3, PrefixTrans DEF Queue
  <2> QED
    BY <2>2, <2>3, <2>4
<1> QED
  BY <1>1, <1>2, <1>3, <1>4, <1>5 DEF Handed

\* A prefix behind a sequence.
LEMMA PrefixUnder ==
  ASSUME NEW R, NEW s \in Seq(R), NEW t \in Seq(R), NEW u \in Seq(R), IsPrefix(u, t)
  PROVE  IsPrefix(s \o u, s \o t)
<1>1. PICK v \in Seq(R) : t = u \o v
  BY PrefixRest
<1>2. s \o t = (s \o u) \o v
  <2> DEFINE x == s \o (u \o v)
             y == (s \o u) \o v
  <2>1. x \in Seq(R) /\ y \in Seq(R) /\ Len(x) = Len(y)
    OBVIOUS
  <2>2. ASSUME NEW i \in 1 .. Len(x) PROVE x[i] = y[i]
    OBVIOUS
  <2> HIDE DEF x, y
  <2>3. x = y
    BY <2>1, <2>2
  <2> QED
    BY <1>1, <2>3 DEF x, y
<1>3. s \o u \in Seq(R)
  OBVIOUS
<1> QED
  BY <1>2, <1>3, PrefixConcat

\* The first element of a queue goes to the end of what came before it.
LEMMA MoveHead ==
  ASSUME NEW R, NEW s \in Seq(R), NEW t \in Seq(R), t # <<>>
  PROVE  Append(s, Head(t)) \o Tail(t) = s \o t
<1> DEFINE x == Append(s, Head(t)) \o Tail(t)
           y == s \o t
<1>0. Len(t) \in Nat /\ Len(t) >= 1 /\ Head(t) = t[1] /\ Head(t) \in R /\ Tail(t) \in Seq(R)
      /\ Len(Tail(t)) = Len(t) - 1 /\ \A i \in 1 .. Len(t) - 1 : Tail(t)[i] = t[i + 1]
  OBVIOUS
<1>1. x \in Seq(R) /\ y \in Seq(R) /\ Len(x) = Len(y)
  BY <1>0
<1>2. ASSUME NEW i \in 1 .. Len(x) PROVE x[i] = y[i]
  BY <1>0
<1> HIDE DEF x, y
<1>3. x = y
  BY <1>1, <1>2
<1> QED
  BY <1>3 DEF x, y

\* The harness ends, and what it held is lost.
LEMMA HandedGone ==
  ASSUME IInv, NEW h, Handed(h), HarnessGone
  PROVE  Handed(h)'
<1>1. PICK k \in 0 .. Len(beats) : beats' = SubSeq(beats, 1, k)
  BY DEF HarnessGone
<1>2. harness' = "gone" /\ UNCHANGED progVars /\ sent' = sent
  BY DEF HarnessGone
<1>3. pc' = pc /\ args' = args /\ exit' = exit /\ out' = out
  BY <1>2 DEF progVars
<1>4. beats \in Seq(Full) /\ beats \in Queue /\ h \in Queue
  BY DEF Handed, IInv, MediumTypes
<1>5. beats' \in Seq(Full) /\ beats' \in Queue
  BY <1>1, <1>4 DEF Queue
<1>6. IsPrefix(beats', beats)
  BY <1>1, <1>4 DEF IsPrefix
<1>7. \A q \in Procs : (Feeds(q)' <=> Feeds(q)) /\ (Drains(q)' <=> Drains(q))
  BY <1>3 DEF Feeds, Drains
<1>8. ASSUME NEW d \in Procs, Drains(d)
      PROVE  IsPrefix(Flat(out[d]), h) /\ (exit[d] = Running => IsPrefix(Flat(out[d]) \o beats', h))
  <2>1. IsPrefix(Flat(out[d]), h) /\ (exit[d] = Running => IsPrefix(Flat(out[d]) \o beats, h))
    BY <1>8 DEF Handed
  <2>2. Flat(out[d]) \in Queue
    BY LinesFlat
  <2>3. IsPrefix(Flat(out[d]) \o beats', Flat(out[d]) \o beats)
    BY <1>4, <1>5, <1>6, <2>2, PrefixUnder DEF Queue
  <2>4. Flat(out[d]) \o beats' \in Seq(Frames) /\ Flat(out[d]) \o beats \in Seq(Frames)
    BY <1>4, <1>5, <2>2 DEF Queue
  <2> QED
    BY <1>4, <2>1, <2>3, <2>4, PrefixTrans DEF Queue
<1>9. /\ \A g \in Procs : Feeds(g)' => NonEmpty(sent'[g]) = h
      /\ (\A g \in Procs : ~Feeds(g)') => h = <<>>
  BY <1>2, <1>7 DEF Handed
<1> QED
  BY <1>2, <1>3, <1>4, <1>5, <1>7, <1>8, <1>9 DEF Handed

\* A reader connects: what went in is all there.
LEMMA HandedReader ==
  ASSUME IInv, NEW h, Handed(h), NEW d \in Procs, OpenReceiver(d), Kind(args[d]) = "verilator"
  PROVE  Handed(h)'
<1>1. /\ args'[d] = args[d] /\ exit'[d] = Running /\ out'[d] = <<>> /\ pc[d] = "open" /\ args[d].decode
      /\ beats' = beats /\ harness' = harness /\ sent' = sent
  BY ReceiverStart
<1>2. harness = "up" /\ beats \in Seq(Full) /\ beats \in Queue /\ h \in Queue
  BY DEF OpenReceiver, Handed, IInv, MediumTypes
<1>3. \A q \in Procs : q # d => Same(q)
  BY Apart DEF Acts, Step
<1>4. ASSUME NEW q \in Procs PROVE ~Drains(q)
  <2> SUFFICES ASSUME Drains(q) PROVE FALSE
    OBVIOUS
  <2>1. pc[q] \in Late /\ pc[q] # "start" /\ args[q].decode /\ Kind(args[q]) = "verilator"
    BY DEF Drains, Late
  <2>2. q = d
    BY <1>1, <2>1, OnlyReader
  <2> QED
    BY <1>1, <2>1, <2>2 DEF Late
<1>5. beats = h
  BY <1>2, <1>4 DEF Handed
<1>6. \A q \in Procs : Feeds(q)' <=> Feeds(q)
  BY <1>1, <1>3 DEF Feeds, Same
<1>7. \A q \in Procs : q # d => ~Drains(q)'
  BY <1>3, <1>4 DEF Drains, Same
<1>8. Flat(out'[d]) = <<>> /\ <<>> \o beats = beats /\ IsPrefix(<<>>, h) /\ IsPrefix(h, h)
  BY <1>1, <1>2, FlatEmpty, PrefixConcat DEF Queue
<1>9. Drains(d)'
  <2>1. pc'[d] = "loop"
    BY DEF OpenReceiver, Goes, IInv, ProgTypes
  <2> QED
    BY <1>1, <2>1 DEF Drains, Late
<1>10. \A q \in Procs : Drains(q)' =>
         /\ IsPrefix(Flat(out'[q]), h)
         /\ IsPrefix(Flat(out'[q]) \o beats', h) /\ Flat(out'[q]) \o beats' = h
  BY <1>1, <1>5, <1>7, <1>8
<1>11. /\ \A g \in Procs : Feeds(g)' => NonEmpty(sent'[g]) = h
       /\ (\A g \in Procs : ~Feeds(g)') => h = <<>>
  BY <1>1, <1>6 DEF Handed
<1> QED
  BY <1>1, <1>2, <1>9, <1>10, <1>11 DEF Handed

\* A generator connects: nothing went in yet.
LEMMA HandedWriter ==
  ASSUME IInv, NEW h, Handed(h), NEW g \in Procs, OpenSender(g), Kind(args[g]) = "verilator"
  PROVE  Handed(h)'
<1>1. /\ pc[g] = "open" /\ "open" \in Early /\ At(g, "open") /\ ~args[g].decode /\ args' = args /\ beats' = beats
      /\ harness' = harness /\ sent' = sent /\ out' = out /\ exit' = exit
  BY DEF OpenSender, At, Goes, Early
<1>2. sent[g] = <<>>
  BY <1>1, AtEarly
<1>3. \A q \in Procs : q # g => Same(q)
  BY Apart DEF Acts, Step
<1>4. ASSUME NEW q \in Procs PROVE ~Feeds(q)
  <2> SUFFICES ASSUME Feeds(q) PROVE FALSE
    OBVIOUS
  <2>1. pc[q] \in Late /\ pc[q] # "start" /\ ~args[q].decode
    BY DEF Feeds, Late
  <2>2. q = g
    BY <1>1, <2>1, OnlyGenerator
  <2> QED
    BY <1>1, <2>1, <2>2 DEF Late
<1>5. h = <<>>
  BY <1>4 DEF Handed
<1>6. \A q \in Procs : Drains(q)' <=> Drains(q)
  BY <1>1, <1>3 DEF Drains, Same
<1>7. \A q \in Procs : q # g => ~Feeds(q)'
  BY <1>3, <1>4 DEF Feeds, Same
<1>8. \A q \in Procs : Feeds(q)' => NonEmpty(sent'[q]) = h
  BY <1>1, <1>2, <1>5, <1>7, FilterEmpty DEF NonEmpty
<1>9. /\ h \in Queue /\ beats' \in Seq(Full) /\ h = <<>>
      /\ harness' = "up" /\ (\A d \in Procs : ~Drains(d)') => beats' = h
  BY <1>1, <1>5, <1>6 DEF Handed
<1>10. \A d \in Procs : Drains(d)' =>
         /\ IsPrefix(Flat(out'[d]), h)
         /\ exit'[d] = Running => /\ IsPrefix(Flat(out'[d]) \o beats', h)
                                  /\ harness' = "up" => Flat(out'[d]) \o beats' = h
  BY <1>1, <1>6 DEF Handed
<1> QED
  BY <1>8, <1>9, <1>10 DEF Handed

\* A packet goes into the harness.
LEMMA HandedSend ==
  ASSUME IInv, NEW h, Handed(h), NEW g \in Procs, SendStage(g), Kind(args[g]) = "verilator"
  PROVE  HarnessInv'
<1> DEFINE x == Packet(g, stage[g])
           hh == Append(h, x)
<1>1. /\ x \in Frames /\ pc[g] = "send" /\ ~args[g].decode /\ sent'[g] = Append(sent[g], x)
  BY SentPacket
<1>2. /\ args' = args /\ harness' = harness /\ out' = out /\ exit' = exit
      /\ pc' = [pc EXCEPT ![g] = "print"] /\ Carry(g, x)
  BY DEF SendStage, Goes
<1>3. pc'[g] = "print" /\ \A q \in Procs : q # g => Same(q)
  <2>1. \A q \in Procs : q # g => Same(q)
    BY Apart DEF Acts, Step
  <2> QED
    BY <1>2, <2>1 DEF IInv, ProgTypes
<1>4. sent[g] \in Queue /\ h \in Queue /\ beats \in Queue /\ beats \in Seq(Full)
  BY Own, ProcTypes DEF Handed, MediumTypes
<1> HIDE DEF x
<1>5. /\ x.bytes => NonEmpty(sent'[g]) = Append(NonEmpty(sent[g]), x)
      /\ ~x.bytes => NonEmpty(sent'[g]) = NonEmpty(sent[g])
  BY <1>1, <1>4, NonEmptyAppend
<1>6. Feeds(g) /\ Feeds(g)' /\ NonEmpty(sent[g]) = h
  BY <1>1, <1>2, <1>3 DEF Feeds, Late, Handed
<1>7. ASSUME NEW q \in Procs PROVE (Feeds(q)' <=> Feeds(q)) /\ (Feeds(q) => q = g)
  <2>1. Feeds(q) => q = g
    <3> SUFFICES ASSUME Feeds(q) PROVE q = g
      OBVIOUS
    <3>1. pc[q] # "start" /\ ~args[q].decode /\ pc[g] # "start"
      BY <1>1 DEF Feeds, Late
    <3> QED
      BY <1>1, <3>1, OnlyGenerator
  <2>2. q # g => (Feeds(q)' <=> Feeds(q))
    BY <1>3 DEF Same, Feeds
  <2> QED
    BY <1>6, <2>1, <2>2
<1>8. \A q \in Procs : Drains(q)' <=> Drains(q)
  BY <1>1, <1>2, <1>3 DEF Same, Drains
<1>9. CASE x.bytes
  <2>1. harness = "up" /\ beats' = Append(beats, x)
    BY <1>2, <1>9 DEF Carry
  <2>2. hh \in Queue /\ x \in Full
    BY <1>1, <1>4, <1>9, FullIs DEF Queue
  <2>3. beats' \in Seq(Full)
    BY <1>4, <2>1, <2>2
  <2>4. \A q \in Procs : Feeds(q)' => NonEmpty(sent'[q]) = hh
    BY <1>5, <1>6, <1>7, <1>9
  <2>5. harness' = "up" /\ (\A d \in Procs : ~Drains(d)') => beats' = hh
    <3>1. (\A d \in Procs : ~Drains(d)) => beats = h
      BY <2>1 DEF Handed
    <3> QED
      BY <1>8, <2>1, <3>1
  <2>6. ASSUME NEW d \in Procs, Drains(d)'
        PROVE  /\ IsPrefix(Flat(out'[d]), hh)
               /\ exit'[d] = Running => /\ IsPrefix(Flat(out'[d]) \o beats', hh)
                                        /\ harness' = "up" => Flat(out'[d]) \o beats' = hh
    <3>1. /\ IsPrefix(Flat(out[d]), h)
          /\ exit[d] = Running => Flat(out[d]) \o beats = h
      BY <1>8, <2>1, <2>6 DEF Handed
    <3>2. Flat(out[d]) \in Queue /\ out'[d] = out[d] /\ exit'[d] = exit[d]
      BY <1>2, LinesFlat
    <3>3. IsPrefix(h, hh) /\ IsPrefix(hh, hh)
      BY <1>1, <1>4, <2>2 DEF Queue, IsPrefix
    <3>4. IsPrefix(Flat(out[d]), hh)
      BY <1>4, <2>2, <3>1, <3>2, <3>3, PrefixTrans DEF Queue
    <3>5. Flat(out[d]) \o Append(beats, x) = Append(Flat(out[d]) \o beats, x)
      BY <1>1, <1>4, <3>2, ConcatAppend DEF Queue
    <3> HIDE DEF hh
    <3>6. exit[d] = Running => Flat(out[d]) \o beats' = hh
      BY <2>1, <3>1, <3>5, Zenon DEF hh
    <3> QED
      BY <3>2, <3>3, <3>4, <3>6, Zenon
  <2>7. (\A q \in Procs : ~Feeds(q)') => hh = <<>>
    BY <1>6
  <2> HIDE DEF hh
  <2>8. PICK z : z = hh
    OBVIOUS
  <2>9. Handed(z)'
    BY <2>2, <2>3, <2>4, <2>5, <2>6, <2>7, <2>8 DEF Handed
  <2> QED
    BY <2>9 DEF HarnessInv
<1>10. CASE ~x.bytes
  <2>1. beats' = beats
    BY <1>2, <1>10 DEF Carry
  <2>2. \A q \in Procs : Feeds(q) => NonEmpty(sent'[q]) = NonEmpty(sent[q])
    BY <1>5, <1>7, <1>10
  <2>3. \A q \in Procs : IsPrefix(Flat(out'[q]), Flat(out[q])) /\ Flat(out[q]) \in Queue
                           /\ Flat(out'[q]) \in Queue /\ out'[q] = out[q] /\ exit'[q] = exit[q]
    BY <1>2, LinesFlat, PrefixConcat
  <2>4. Handed(h)'
    BY <1>2, <1>7, <1>8, <2>1, <2>2, <2>3, HandedKept
  <2> QED
    BY <2>4 DEF HarnessInv
<1> QED
  BY <1>9, <1>10

\* A packet leaves the harness.
LEMMA HandedReceive ==
  ASSUME IInv, NEW h, Handed(h), NEW d \in Procs, Receive(d), Kind(args[d]) = "verilator"
  PROVE  Handed(h)'
<1> DEFINE x == Head(beats)
<1>1. beats # <<>> /\ Decoded(d, x) /\ beats' = Tail(beats)
  BY DEF Receive
<1>2. beats \in Queue /\ beats \in Seq(Full) /\ h \in Queue
  BY DEF Handed, IInv, MediumTypes
<1>3. x \in Frames /\ x \in Full /\ Tail(beats) \in Queue /\ Tail(beats) \in Seq(Full)
  BY <1>1, <1>2 DEF Queue
<1>4. x.bytes
  BY <1>3, FullIs
<1>5. /\ exit' = exit /\ pc' = pc /\ args' = args /\ sent' = sent /\ harness' = harness
  BY <1>1 DEF Decoded
<1>6. Flat(out'[d]) = Append(Flat(out[d]), x)
  BY <1>1, <1>3, <1>4, DecodedFacts
<1>7. Flat(out[d]) \in Queue
  BY LinesFlat
<1>8. Append(Flat(out[d]), x) \o Tail(beats) = Flat(out[d]) \o beats
  BY <1>1, <1>2, <1>7, MoveHead DEF Queue
<1>9. Append(Flat(out[d]), x) \in Queue /\ Append(Flat(out[d]), x) \o Tail(beats) \in Queue
  BY <1>3, <1>7 DEF Queue
<1>10. Drains(d) /\ exit[d] = Running
  BY DEF Receive, Receives, At, Drains, Late
<1>11. ASSUME NEW q \in Procs, Drains(q) PROVE q = d
  <2>1. /\ pc[q] # "start" /\ args[q].decode /\ Kind(args[q]) = "verilator"
        /\ pc[d] # "start" /\ args[d].decode
    BY <1>10, <1>11 DEF Drains, Late
  <2> QED
    BY <2>1, OnlyReader
<1>12. \A q \in Procs : (Feeds(q)' <=> Feeds(q)) /\ (Drains(q)' <=> Drains(q))
  BY <1>5 DEF Feeds, Drains
<1>13. IsPrefix(Flat(out[d]) \o beats, h) /\ (harness = "up" => Flat(out[d]) \o beats = h)
  BY <1>10 DEF Handed
<1> HIDE DEF x
<1>14. IsPrefix(Flat(out'[d]) \o beats', h) /\ (harness = "up" => Flat(out'[d]) \o beats' = h)
  BY <1>1, <1>6, <1>8, <1>13, Zenon
<1>15. IsPrefix(Flat(out'[d]), h)
  <2>1. IsPrefix(Flat(out'[d]), Flat(out'[d]) \o beats')
    BY <1>1, <1>3, <1>6, <1>9, PrefixConcat DEF Queue
  <2>2. Flat(out'[d]) \in Queue /\ Flat(out'[d]) \o beats' \in Queue
    BY <1>1, <1>6, <1>9
  <2> QED
    BY <1>2, <1>14, <2>1, <2>2, PrefixTrans DEF Queue
<1>16. \A q \in Procs : Drains(q)' =>
         /\ IsPrefix(Flat(out'[q]), h)
         /\ exit'[q] = Running => /\ IsPrefix(Flat(out'[q]) \o beats', h)
                                  /\ harness' = "up" => Flat(out'[q]) \o beats' = h
  BY <1>5, <1>11, <1>12, <1>14, <1>15
<1>17. /\ \A g \in Procs : Feeds(g)' => NonEmpty(sent'[g]) = h
       /\ (\A g \in Procs : ~Feeds(g)') => h = <<>>
  BY <1>5, <1>12 DEF Handed
<1>18. ~(\A q \in Procs : ~Drains(q)')
  BY <1>10, <1>12
<1> QED
  BY <1>1, <1>2, <1>3, <1>16, <1>17, <1>18 DEF Handed

\* What went into the harness is where it belongs, after every step.
LEMMA HarnessKeeps ==
  ASSUME IInv, IInv', HarnessInv, [Next]_vars
  PROVE  HarnessInv'
<1>1. PICK h : Handed(h)
  BY DEF HarnessInv
<1>2. CASE HarnessGone
  BY <1>1, <1>2, HandedGone DEF HarnessInv
<1>3. ASSUME NEW p \in Procs, OpenReceiver(p), Kind(args[p]) = "verilator" PROVE HarnessInv'
  BY <1>1, <1>3, HandedReader DEF HarnessInv
<1>4. ASSUME NEW p \in Procs, OpenSender(p), Kind(args[p]) = "verilator" PROVE HarnessInv'
  BY <1>1, <1>4, HandedWriter DEF HarnessInv
<1>5. ASSUME NEW p \in Procs, SendStage(p), Kind(args[p]) = "verilator" PROVE HarnessInv'
  BY <1>1, <1>5, HandedSend
<1>6. ASSUME NEW p \in Procs, Receive(p), Kind(args[p]) = "verilator" PROVE HarnessInv'
  BY <1>1, <1>6, HandedReceive DEF HarnessInv
<1>7. ASSUME ~HarnessGone,
             \A p \in Procs : Kind(args[p]) = "verilator" =>
               ~OpenReceiver(p) /\ ~OpenSender(p) /\ ~SendStage(p) /\ ~Receive(p)
      PROVE  HarnessInv'
  <2>1. beats' = beats /\ harness' = harness
    <3>1. CASE UNCHANGED vars \/ Noise
      BY <3>1 DEF vars, mediumVars, Noise
    <3>2. ASSUME NEW p \in Procs, Acts(p) PROVE beats' = beats /\ harness' = harness
      <4>1. CASE SendStage(p)
        <5>1. Kind(args[p]) # "verilator" /\ Carry(p, Packet(p, stage[p])) /\ harness' = harness
          BY <1>7, <4>1 DEF SendStage
        <5> QED
          BY <5>1 DEF Carry
      <4>2. CASE Receive(p)
        <5>1. Kind(args[p]) # "verilator"
          BY <1>7, <4>2
        <5>2. harness' = harness
          BY <3>2, MediaOf
        <5> QED
          BY <4>2, <5>1, <5>2 DEF Receive
      <4>3. CASE ~SendStage(p) /\ ~Receive(p)
        BY <3>2, <4>3, MediaOf
      <4> QED
        BY <4>1, <4>2, <4>3
    <3> QED
      BY <1>7, <3>1, <3>2, StepKinds
  <2>2. ASSUME NEW q \in Procs PROVE (Feeds(q)' <=> Feeds(q)) /\ (Drains(q)' <=> Drains(q))
    <3>1. /\ pc[q] \in Late => pc'[q] \in Late /\ args'[q] = args[q]
          /\ pc[q] \notin Late /\ pc'[q] \in Late =>
               \/ OpenSender(q) \/ OpenReceiver(q)
               \/ args'[q] = args[q] /\ Kind(args[q]) = "none"
      BY LateStays
    <3>2. OpenSender(q) \/ OpenReceiver(q) => args'[q] = args[q]
      BY DEF OpenSender, OpenReceiver
    <3>3. CASE pc[q] \in Late
      BY <3>1, <3>3 DEF Feeds, Drains
    <3>4. CASE pc[q] \notin Late /\ pc'[q] \in Late
      <4>1. args'[q] = args[q] /\ Kind(args[q]) # "verilator"
        BY <1>7, <3>1, <3>2, <3>4
      <4> QED
        BY <4>1 DEF Feeds, Drains
    <3>5. CASE pc[q] \notin Late /\ pc'[q] \notin Late
      BY <3>5 DEF Feeds, Drains
    <3> QED
      BY <3>3, <3>4, <3>5
  <2>3. ASSUME NEW q \in Procs, Feeds(q) PROVE NonEmpty(sent'[q]) = NonEmpty(sent[q])
    <3>1. ~SendStage(q)
      BY <1>7, <2>3 DEF Feeds
    <3>2. CASE UNCHANGED vars \/ Noise
      BY <3>2 DEF vars, mediumVars, Noise
    <3>3. ASSUME NEW p \in Procs, Acts(p) PROVE sent'[q] = sent[q]
      <4>1. CASE p = q
        BY <3>1, <3>3, <4>1, MediaOf
      <4>2. CASE p # q
        BY <3>3, <4>2, Apart DEF Same
      <4> QED
        BY <4>1, <4>2
    <3> QED
      BY <1>7, <3>2, <3>3, StepKinds
  <2>4. ASSUME NEW q \in Procs, Drains(q)
        PROVE  /\ IsPrefix(Flat(out'[q]), Flat(out[q])) /\ Flat(out[q]) \in Queue /\ Flat(out'[q]) \in Queue
               /\ exit'[q] = Running => exit[q] = Running /\ out'[q] = out[q]
    <3>1. pc'[q] \in Late /\ args'[q].decode /\ Kind(args[q]) = "verilator"
      BY <2>2, <2>4 DEF Drains
    <3>2. Rests(q)
      BY <1>7, <3>1, DecoderStep
    <3>3. Flat(out'[q]) \in Queue
      <4>1. out'[q] \in Seq(Seq(Frames))
        BY DEF IInv, ProgTypes, Lines, Queue
      <4> QED
        BY <4>1, FlatType DEF Queue
    <3> QED
      BY <3>2, <3>3, LinesFlat DEF Rests
  <2>5. Handed(h)'
    BY <1>1, <2>1, <2>2, <2>3, <2>4, HandedKept
  <2> QED
    BY <2>5 DEF HarnessInv
<1> QED
  BY <1>2, <1>3, <1>4, <1>5, <1>6, <1>7
-----------------------------------------------------------------------------
(* The network *)

\* A generator does not go back.
LEMMA BeforeKept ==
  ASSUME IInv, [Next]_vars, NEW g \in Procs, NEW x \in Frames, Before(x, g)
  PROVE  Before(x, g)'
<1>0. /\ ProgTypes /\ x.round \in Nat /\ x.stage \in Nat /\ round[g] \in Nat /\ stage[g] \in Nat
      /\ pc[g] \in Late /\ ~args[g].decode
      /\ \/ x.round <= round[g]
         \/ x.round = round[g] + 1 /\ pc[g] # "loop" /\ x.stage < stage[g]
  <2>1. ProgTypes /\ round[g] \in Nat /\ stage[g] \in Nat
    BY DEF IInv, ProgTypes
  <2>2. x.round \in Nat /\ x.stage \in Nat
    BY DEF Frames
  <2> QED
    BY <2>1, <2>2 DEF Before
<1>1. pc'[g] \in Late /\ args'[g] = args[g]
  BY <1>0, LateStays
<1>2. ASSUME pc'[g] = pc[g], round'[g] = round[g], stage'[g] = stage[g] PROVE Before(x, g)'
  BY <1>0, <1>1, <1>2 DEF Before
<1>3. CASE UNCHANGED vars \/ HarnessGone \/ Noise
  <2>1. UNCHANGED progVars /\ sent' = sent /\ pos' = pos
    BY <1>3 DEF vars, mediumVars, HarnessGone, Noise
  <2> QED
    BY <1>2, <2>1 DEF progVars
<1>4. ASSUME NEW p \in Procs, p # g, Acts(p) PROVE Before(x, g)'
  BY <1>2, <1>4, Apart DEF Same
<1>5. CASE Acts(g)
  <2>1. ~ParseArgs(g) /\ ~ReadDirectory(g) /\ ~Prepare(g) /\ ~OpenFailed(g) /\ ~OpenSender(g)
    BY <1>0 DEF ParseArgs, ReadDirectory, Prepare, OpenFailed, OpenSender, At, Late
  <2>2. ~OpenReceiver(g) /\ ~Receive(g) /\ ~ReceiveEof(g) /\ ~ReceiveTorn(g) /\ ~ReceiveFails(g)
    BY <1>0 DEF OpenReceiver, Receive, ReceiveEof, ReceiveTorn, ReceiveFails, Receives
  <2>3. CASE Generate(g)
    <3>1. pc[g] = "loop" /\ round'[g] = round[g]
      BY <2>3 DEF Generate, At
    <3> QED
      BY <1>0, <1>1, <3>1 DEF Before
  <2>4. CASE PrintStage(g)
    <3>1. round'[g] = round[g] /\ stage'[g] = stage[g] /\ pc'[g] = "send"
      BY <1>0, <2>4 DEF PrintStage, Goes, ProgTypes
    <3> QED
      BY <1>0, <1>1, <3>1 DEF Before
  <2>5. CASE EndRound(g)
    <3>1. round'[g] = round[g] + 1
      BY <1>0, <2>5 DEF EndRound, ProgTypes
    <3>2. x.round <= round'[g]
      BY <1>0, <3>1
    <3> QED
      BY <1>0, <1>1, <3>2 DEF Before
  <2>6. CASE SendStage(g)
    <3>1. round'[g] = round[g] /\ stage'[g] = stage[g] + 1 /\ pc'[g] = "print"
      BY <1>0, <2>6 DEF SendStage, Goes, ProgTypes
    <3> QED
      BY <1>0, <1>1, <3>1 DEF Before
  <2>7. CASE WritePart(g) \/ SendFails(g) \/ Finish(g)
    <3>1. pc' = pc /\ round' = round /\ stage' = stage
      BY <2>7 DEF WritePart, progVars, SendFails, AfterFailure, Finish, Exits
    <3> QED
      BY <1>2, <3>1
  <2>8. CASE SendToNobody(g) \/ Interrupt(g)
    <3>1. pc' = pc /\ round' = round /\ stage' = stage
      BY <2>8 DEF SendToNobody, Interrupt, Killed, Exits
    <3> QED
      BY <1>2, <3>1
  <2> QED
    BY <1>5, <2>1, <2>2, <2>3, <2>4, <2>5, <2>6, <2>7, <2>8 DEF Acts, Step
<1> QED
  BY <1>3, <1>4, <1>5, StepKinds

\* What becomes of a queue of a raw socket.
Moves(q) ==
  \/ sockets'[q].queue = sockets[q].queue
  \/ sockets'[q].queue = <<>>
  \/ /\ Receive(q) /\ Kind(args[q]) = "raw" /\ sockets[q].queue # <<>>
     /\ Decoded(q, Head(sockets[q].queue)) /\ sockets'[q].queue = Tail(sockets[q].queue)
  \/ sockets'[q].queue = Append(sockets[q].queue, NoiseFrame)
  \/ \E g \in Procs :
       /\ SendStage(g) /\ Packet(g, stage[g]).bytes
       /\ sockets'[q].queue = Append(sockets[q].queue, Packet(g, stage[g]))

\* A socket is closed or opened.
LEMMA SocketSet ==
  ASSUME MediumTypes, NEW p \in Procs, Release(p) \/ Listening(p), NEW q \in Procs
  PROVE  sockets'[q].queue = sockets[q].queue \/ sockets'[q].queue = <<>>
<1>1. CASE p # q
  BY <1>1 DEF MediumTypes, Release, Listening
<1>2. CASE p = q
  BY <1>2 DEF MediumTypes, Release, Listening, Closed
<1> QED
  BY <1>1, <1>2

\* Every step does one of these to every queue.
LEMMA SocketStep ==
  ASSUME IInv, [Next]_vars, NEW q \in Procs
  PROVE  Moves(q)
<1>0. MediumTypes /\ sockets \in [Procs -> Socket] /\ sockets[q] \in Socket
  BY DEF IInv, MediumTypes
<1>1. ASSUME sockets' = sockets PROVE Moves(q)
  BY <1>1 DEF Moves
<1>2. ASSUME NEW p \in Procs, Release(p) \/ Listening(p) PROVE Moves(q)
  BY <1>0, <1>2, SocketSet DEF Moves
<1>3. CASE UNCHANGED vars \/ HarnessGone
  <2>1. sockets' = sockets
    BY <1>3 DEF vars, mediumVars, HarnessGone
  <2> QED
    BY <1>1, <2>1
<1>4. CASE Noise
  <2>1. PICK p \in Procs : sockets' = [sockets EXCEPT ![p].queue = Append(@, NoiseFrame)]
    BY <1>4 DEF Noise
  <2>2. sockets'[q].queue = sockets[q].queue \/ sockets'[q].queue = Append(sockets[q].queue, NoiseFrame)
    BY <1>0, <2>1 DEF Socket
  <2> QED
    BY <2>2 DEF Moves
<1>5. ASSUME NEW p \in Procs, Acts(p) PROVE Moves(q)
  <2>1. CASE ParseArgs(p) \/ ReadDirectory(p) \/ Prepare(p) \/ OpenFailed(p)
    <3>1. sockets' = sockets
      BY <2>1 DEF ParseArgs, ReadDirectory, Prepare, OpenFailed, mediumVars
    <3> QED
      BY <1>1, <3>1
  <2>2. CASE OpenSender(p) \/ OpenReceiver(p)
    <3>1. sockets' = sockets \/ Listening(p)
      BY <2>2 DEF OpenSender, OpenReceiver, RawSenderOpen, RawReceiverOpen
    <3> QED
      BY <1>1, <1>2, <3>1
  <2>3. CASE Generate(p) \/ PrintStage(p) \/ EndRound(p) \/ WritePart(p)
    <3>1. sockets' = sockets
      BY <2>3 DEF Generate, PrintStage, EndRound, WritePart, mediumVars
    <3> QED
      BY <1>1, <3>1
  <2>4. CASE SendStage(p)
    <3>1. Carry(p, Packet(p, stage[p]))
      BY <2>4 DEF SendStage
    <3>2. sockets' = sockets \/ RawSend(p, Packet(p, stage[p]))
      BY <3>1 DEF Carry
    <3>3. CASE RawSend(p, Packet(p, stage[p]))
      <4>1. PICK reached : sockets' = [r \in Procs |-> IF r \in reached
                                     THEN [sockets[r] EXCEPT !.queue = Append(@, Packet(p, stage[p]))]
                                     ELSE sockets[r]]
        BY <3>3 DEF RawSend
      <4>2. \/ sockets'[q].queue = sockets[q].queue
            \/ sockets'[q].queue = Append(sockets[q].queue, Packet(p, stage[p]))
        BY <1>0, <4>1 DEF Socket
      <4>3. Packet(p, stage[p]).bytes
        BY <3>3 DEF RawSend
      <4> QED
        BY <2>4, <4>2, <4>3 DEF Moves
    <3> QED
      BY <1>1, <3>2, <3>3
  <2>5. CASE SendFails(p) \/ ReceiveEof(p) \/ ReceiveTorn(p) \/ ReceiveFails(p) \/ Finish(p)
    <3>1. Release(p)
      BY <2>5 DEF SendFails, AfterFailure, ReceiveEof, AfterEof, ReceiveTorn, ReceiveFails, Finish
    <3> QED
      BY <1>2, <3>1
  <2>6. CASE SendToNobody(p) \/ Interrupt(p)
    <3>1. Release(p)
      BY <2>6 DEF SendToNobody, Interrupt, Killed
    <3> QED
      BY <1>2, <3>1
  <2>7. CASE Receive(p)
    <3>1. sockets' = sockets \/ (Kind(args[p]) = "raw" /\ RawReceive(p))
      BY <2>7 DEF Receive
    <3>2. CASE Kind(args[p]) = "raw" /\ RawReceive(p)
      <4>1. /\ sockets[p].queue # <<>> /\ Decoded(p, Head(sockets[p].queue))
            /\ sockets' = [sockets EXCEPT ![p].queue = Tail(@)]
        BY <3>2 DEF RawReceive
      <4>2. CASE p = q
        <5>1. sockets'[q].queue = Tail(sockets[q].queue)
          BY <1>0, <4>1, <4>2 DEF Socket
        <5> QED
          BY <2>7, <3>2, <4>1, <4>2, <5>1 DEF Moves
      <4>3. CASE p # q
        <5>1. sockets'[q].queue = sockets[q].queue
          BY <1>0, <4>1, <4>3
        <5> QED
          BY <5>1 DEF Moves
      <4> QED
        BY <4>2, <4>3
    <3> QED
      BY <1>1, <3>1, <3>2
  <2> QED
    BY <1>5, <2>1, <2>2, <2>3, <2>4, <2>5, <2>6, <2>7 DEF Acts, Step
<1> QED
  BY <1>3, <1>4, <1>5, StepKinds

\* The order of a prefix.
LEMMA OrderPrefix ==
  ASSUME IInv, [Next]_vars, NEW s \in Queue, NEW t \in Queue, InOrder(s), AllBefore(s), IsPrefix(t, s)
  PROVE  InOrder(t) /\ AllBefore(t)'
<1>1. Len(s) \in Nat /\ Len(t) \in Nat /\ Len(t) <= Len(s)
  BY DEF Queue, IsPrefix
<1>2. \A i \in 1 .. Len(t) : i \in 1 .. Len(s) /\ t[i] = s[i]
  BY <1>1 DEF IsPrefix
<1>3. InOrder(t)
  BY <1>2 DEF InOrder
<1>4. ASSUME NEW i \in 1 .. Len(t), t[i] # NoiseFrame PROVE \E g \in Procs : Before(t[i], g)'
  <2>1. PICK g \in Procs : Before(t[i], g)
    BY <1>2, <1>4 DEF AllBefore
  <2>2. PICK x \in Frames : x = t[i]
    BY DEF Queue
  <2>3. Before(x, g)'
    BY <2>1, <2>2, BeforeKept
  <2> QED
    BY <2>2, <2>3
<1> QED
  BY <1>3, <1>4 DEF AllBefore

\* One more packet, that comes after the others.
LEMMA OrderAppend ==
  ASSUME IInv, [Next]_vars, NEW s \in Queue, NEW x \in Frames, InOrder(s), AllBefore(s),
         x # NoiseFrame => /\ \A i \in 1 .. Len(s) : s[i] # NoiseFrame => Earlier(s[i], x)
                           /\ \E g \in Procs : Before(x, g)'
  PROVE  InOrder(Append(s, x)) /\ AllBefore(Append(s, x))'
<1>0. Append(s, x) \in Queue
  BY DEF Queue
<1>1. PICK t \in Queue : t = Append(s, x)
  BY <1>0
<1>2. PICK m \in Nat : m = Len(s)
  BY DEF Queue
<1>3. Len(t) = m + 1 /\ t[m + 1] = x /\ \A i \in 1 .. m : t[i] = s[i]
  BY <1>1, <1>2 DEF Queue
<1>4. ASSUME NEW i \in 1 .. Len(t), NEW j \in 1 .. Len(t), i < j, t[i] # NoiseFrame, t[j] # NoiseFrame
      PROVE  Earlier(t[i], t[j])
  <2>0. i \in 1 .. m
    BY <1>3, <1>4
  <2>1. CASE j = m + 1
    BY <1>2, <1>3, <1>4, <2>0, <2>1
  <2>2. CASE j \in 1 .. m
    BY <1>2, <1>3, <1>4, <2>0, <2>2 DEF InOrder
  <2> QED
    BY <1>3, <2>1, <2>2
<1>5. InOrder(t)
  BY <1>4 DEF InOrder
<1>6. IsPrefix(s, s)
  BY PrefixConcat DEF Queue
<1>7. AllBefore(s)'
  BY <1>6, OrderPrefix
<1>8. ASSUME NEW i \in 1 .. Len(t), t[i] # NoiseFrame PROVE \E g \in Procs : Before(t[i], g)'
  <2>1. CASE i = m + 1
    BY <1>3, <1>8, <2>1
  <2>2. CASE i \in 1 .. m
    BY <1>2, <1>3, <1>7, <1>8, <2>2 DEF AllBefore
  <2> QED
    BY <1>3, <2>1, <2>2
<1>9. AllBefore(t)'
  BY <1>8 DEF AllBefore
<1> QED
  BY <1>1, <1>5, <1>9

\* Queues hold packets with bytes.
LEMMA QueuesFull ==
  ASSUME IInv, NetInv, [Next]_vars, NEW q \in Procs
  PROVE  sockets'[q].queue \in Seq(Full)
<1>1. sockets[q].queue \in Seq(Full)
  BY DEF NetInv
<1>2. NoiseFrame \in Full
  BY DEF NoiseFrame, Full
<1>3. Moves(q)
  BY SocketStep
<1>4. ASSUME NEW g \in Procs, SendStage(g), Packet(g, stage[g]).bytes PROVE Packet(g, stage[g]) \in Full
  BY <1>4, SentPacket, FullIs
<1>5. CASE sockets[q].queue # <<>> /\ sockets'[q].queue = Tail(sockets[q].queue)
  BY <1>1, <1>5
<1>6. ASSUME NEW x \in Full, sockets'[q].queue = Append(sockets[q].queue, x)
      PROVE  sockets'[q].queue \in Seq(Full)
  BY <1>1, <1>6
<1>7. <<>> \in Seq(Full)
  OBVIOUS
<1> QED
  BY <1>1, <1>2, <1>3, <1>4, <1>5, <1>6, <1>7 DEF Moves

\* A packet on the network comes after those that were.
LEMMA SentLast ==
  ASSUME IInv, NEW g \in Procs, SendStage(g), NEW y \in Frames, \E p \in Procs : Before(y, p)
  PROVE  Earlier(y, Packet(g, stage[g]))
<1> DEFINE x == Packet(g, stage[g])
<1>1. x.round = round[g] + 1 /\ x.stage = stage[g] /\ pc[g] = "send" /\ ~args[g].decode
  BY SentPacket
<1>2. PICK p \in Procs : Before(y, p)
  OBVIOUS
<1>3. pc[p] # "start" /\ ~args[p].decode /\ pc[g] # "start"
  BY <1>1, <1>2 DEF Before, Late
<1>4. p = g
  BY <1>1, <1>3, OnlyGenerator
<1>5. y.round <= round[g] \/ (y.round = round[g] + 1 /\ y.stage < stage[g])
  BY <1>2, <1>4 DEF Before
<1>6. y.round \in Nat /\ round[g] \in Nat
  BY DEF Frames, IInv, ProgTypes
<1> HIDE DEF x
<1> QED
  BY <1>1, <1>5, <1>6 DEF Earlier, x

\* What a decoder has from the network is in the order in which it was sent.
LEMMA NetKeeps ==
  ASSUME IInv, IInv', NetInv, [Next]_vars
  PROVE  NetInv'
<1>1. \A q \in Procs : sockets'[q].queue \in Seq(Full)
  BY QueuesFull
<1>2. ASSUME NEW d \in Procs, Hears(d)'
      PROVE  InOrder(Heard(d)') /\ AllBefore(Heard(d))'
  <2> DEFINE f == Flat(out[d])
             ff == Flat(out'[d])
             u == sockets[d].queue
             uu == sockets'[d].queue
  <2>0. f \in Queue /\ u \in Queue /\ ff \in Queue /\ uu \in Queue
    <3>1. out'[d] \in Seq(Seq(Frames)) /\ sockets'[d] \in Socket
      BY DEF IInv, ProgTypes, MediumTypes, Lines, Queue
    <3>2. ff \in Queue
      BY <3>1, FlatType DEF Queue
    <3>3. u \in Queue
      BY Own, ProcTypes
    <3> QED
      BY <3>1, <3>2, <3>3, LinesFlat DEF Socket
  <2>00. f \o u \in Queue /\ ff \o uu \in Queue
    <3> HIDE DEF f, ff, u, uu
    <3> QED
      BY <2>0 DEF Queue
  <2>1. PICK s \in Queue : s = f \o u
    BY <2>00
  <2>2. PICK t \in Queue : t = ff \o uu
    BY <2>00
  <2>3. pc'[d] \in Late /\ args'[d].decode /\ Kind(args'[d]) = "raw"
    BY <1>2 DEF Hears
  <2>4. InOrder(t) /\ AllBefore(t)'
    <3>1. CASE OpenReceiver(d)
      <4>1. out'[d] = <<>> /\ Kind(args[d]) = "raw"
        BY <2>3, <3>1, ReceiverStart
      <4>2. Listening(d)
        BY <3>1, <4>1 DEF OpenReceiver, RawReceiverOpen
      <4>3. uu = <<>>
        BY <4>2 DEF Listening, IInv, MediumTypes
      <4>4. ff = <<>>
        BY <4>1, FlatEmpty
      <4>5. Len(t) = 0
        BY <2>2, <4>3, <4>4
      <4> QED
        BY <4>5 DEF InOrder, AllBefore
    <3>2. CASE Receive(d) /\ ~Rests(d)
      <4>1. Hears(d)
        BY <2>3, <3>2 DEF Receive, Receives, At, RawReceive, Decoded, Hears, Late
      <4>2. RawReceive(d)
        BY <3>2, <4>1 DEF Receive, Hears
      <4>3. u # <<>> /\ Decoded(d, Head(u)) /\ uu = Tail(u)
        <5>1. /\ sockets[d].queue # <<>> /\ Decoded(d, Head(sockets[d].queue))
              /\ sockets' = [sockets EXCEPT ![d].queue = Tail(@)]
          BY <4>2 DEF RawReceive
        <5>2. sockets'[d].queue = Tail(sockets[d].queue)
          BY <5>1 DEF IInv, MediumTypes, Socket
        <5> QED
          BY <5>1, <5>2
      <4>4. Head(u) \in Full /\ Head(u) \in Frames
        <5>1. u \in Seq(Full)
          BY DEF NetInv
        <5> QED
          BY <2>0, <4>3, <5>1 DEF Queue
      <4>5. ff = Append(f, Head(u))
        BY <4>3, <4>4, FullIs, DecodedFacts
      <4> HIDE DEF f, ff, u, uu
      <4>6. t = s
        BY <2>0, <2>1, <2>2, <4>3, <4>5, MoveHead DEF Queue
      <4>7. InOrder(s) /\ AllBefore(s) /\ IsPrefix(s, s)
        <5>1. IsPrefix(s, s)
          BY PrefixConcat DEF Queue
        <5> QED
          BY <2>1, <4>1, <5>1 DEF NetInv, Heard, f, u
      <4> QED
        BY <4>6, <4>7, OrderPrefix
    <3>3. CASE Rests(d)
      <4>1. Hears(d) /\ IsPrefix(ff, f) /\ (out'[d] = out[d] \/ sockets'[d] = Closed)
        BY <2>3, <3>3 DEF Rests, Hears
      <4>2. InOrder(s) /\ AllBefore(s)
        BY <2>1, <4>1 DEF NetInv, Heard
      <4>3. (out'[d] = out[d] => ff = f) /\ (sockets'[d] = Closed => uu = <<>>)
        BY DEF Closed
      <4>4. CASE uu = <<>>
        <5> HIDE DEF f, ff, u, uu
        <5>1. t = ff /\ IsPrefix(f, s)
          BY <2>0, <2>1, <2>2, <4>4, PrefixConcat DEF Queue
        <5>2. IsPrefix(t, s)
          BY <2>0, <4>1, <5>1, PrefixTrans DEF Queue
        <5> QED
          BY <4>2, <5>2, OrderPrefix
      <4>5. ASSUME out'[d] = out[d], NEW x \in Frames, uu = Append(u, x),
                   x # NoiseFrame => /\ \A i \in 1 .. Len(s) : s[i] # NoiseFrame => Earlier(s[i], x)
                                     /\ \E g \in Procs : Before(x, g)'
            PROVE  InOrder(t) /\ AllBefore(t)'
        <5>1. ff = f
          BY <4>3, <4>5
        <5> HIDE DEF f, ff, u, uu
        <5>2. t = Append(s, x)
          BY <2>0, <2>1, <2>2, <4>5, <5>1, ConcatAppend DEF Queue
        <5>3. InOrder(Append(s, x)) /\ AllBefore(Append(s, x))'
          BY <4>2, <4>5, OrderAppend
        <5> QED
          BY <5>2, <5>3
      <4>6. CASE out'[d] = out[d] /\ uu = u
        <5>1. t = s /\ IsPrefix(s, s)
          BY <2>1, <2>2, <4>3, <4>6, PrefixConcat DEF Queue
        <5> QED
          BY <4>2, <5>1, OrderPrefix
      <4>7. ~(Receive(d) /\ Kind(args[d]) = "raw" /\ u # <<>> /\ Decoded(d, Head(u)) /\ uu = Tail(u))
        \/ uu = <<>> \/ uu = u
        <5> SUFFICES ASSUME Receive(d), u # <<>>, Decoded(d, Head(u)) PROVE FALSE
          OBVIOUS
        <5>1. Head(u) \in Full /\ Head(u) \in Frames
          <6>1. u \in Seq(Full)
            BY DEF NetInv
          <6> QED
            BY <2>0, <6>1 DEF Queue
        <5>2. round'[d] = round[d] + 1
          BY <5>1, FullIs, DecodedFacts
        <5>3. round'[d] = round[d] /\ round[d] \in Nat
          BY <3>3 DEF Rests, IInv, ProgTypes
        <5> QED
          BY <5>2, <5>3
      <4>8. CASE out'[d] = out[d] /\ uu = Append(u, NoiseFrame)
        <5>1. NoiseFrame \in Frames
          BY DEF NoiseFrame, Frames
        <5> QED
          BY <4>5, <4>8, <5>1
      <4>9. ASSUME out'[d] = out[d], NEW g \in Procs, SendStage(g), uu = Append(u, Packet(g, stage[g]))
            PROVE  InOrder(t) /\ AllBefore(t)'
        <5>1. PICK x \in Frames : x = Packet(g, stage[g])
          BY <4>9, SentPacket
        <5>2. ASSUME NEW i \in 1 .. Len(s), s[i] # NoiseFrame PROVE Earlier(s[i], x)
          <6>1. \E p \in Procs : Before(s[i], p)
            BY <4>2, <5>2 DEF AllBefore
          <6>2. s[i] \in Frames
            BY DEF Queue
          <6> QED
            BY <4>9, <5>1, <6>1, <6>2, SentLast
        <5>3. Before(x, g)'
          <6>1. /\ x.round = round[g] + 1 /\ x.stage = stage[g] /\ pc[g] = "send" /\ ~args[g].decode
            BY <4>9, <5>1, SentPacket
          <6>2. /\ pc'[g] = "print" /\ args'[g] = args[g] /\ round'[g] = round[g]
                /\ stage'[g] = stage[g] + 1 /\ stage[g] \in Nat
            BY <4>9 DEF SendStage, Goes, IInv, ProgTypes
          <6>3. x.stage < stage'[g] /\ x.round = round'[g] + 1
            BY <6>1, <6>2
          <6> QED
            BY <6>1, <6>2, <6>3 DEF Before, Late
        <5> QED
          BY <4>5, <4>9, <5>1, <5>2, <5>3
      <4>10. Moves(d)
        BY SocketStep
      <4> HIDE DEF f, ff
      <4> QED
        BY <4>1, <4>3, <4>4, <4>6, <4>7, <4>8, <4>9, <4>10 DEF Moves
    <3> QED
      BY <2>3, <3>1, <3>2, <3>3, DecoderStep
  <2>5. Heard(d)' = t
    BY <2>2 DEF Heard
  <2>6. AllBefore(Heard(d))'
    BY <2>4, <2>5 DEF AllBefore
  <2> QED
    BY <2>4, <2>5, <2>6
<1> QED
  BY <1>1, <1>2 DEF NetInv, InOrder
-----------------------------------------------------------------------------
(* The theorems on decoders *)

\* Nobody has got anything.
LEMMA InitDecoders ==
  ASSUME Init
  PROVE  DInv
<1> USE DEF Init
<1>0. \A p \in Procs : pc[p] = "start" /\ sent[p] = <<>> /\ sockets[p] = Closed
  OBVIOUS
<1>1. SentInv
  BY <1>0 DEF SentInv
<1>2. \A p \in Procs : pc[p] \notin Late
  BY <1>0 DEF Late
<1>3. \A p \in Procs : DecInv(p)
  BY <1>2 DEF DecInv, Dec
<1>4. Handed(<<>>)
  <2>1. <<>> \in Queue /\ beats = <<>> /\ <<>> \in Seq(Full)
    BY DEF Queue
  <2>2. \A p \in Procs : ~Feeds(p) /\ ~Drains(p)
    BY <1>2 DEF Feeds, Drains
  <2> QED
    BY <2>1, <2>2 DEF Handed
<1>5. NetInv
  <2>1. \A p \in Procs : sockets[p].queue = <<>>
    BY <1>0 DEF Closed
  <2>2. <<>> \in Seq(Full)
    OBVIOUS
  <2>3. \A p \in Procs : ~Hears(p)
    BY <1>2 DEF Hears
  <2> QED
    BY <2>1, <2>2, <2>3 DEF NetInv
<1> QED
  BY <1>1, <1>3, <1>4, <1>5 DEF DInv, HarnessInv

\* The invariant of the decoders holds throughout.
LEMMA DecoderInvariance ==
  Spec => [](IInv /\ DInv)
<1>1. Init => IInv /\ DInv
  BY InitInv, InitDecoders
<1>2. IInv /\ DInv /\ [Next]_vars => (IInv /\ DInv)'
  <2> SUFFICES ASSUME IInv, DInv, [Next]_vars PROVE IInv' /\ DInv'
    OBVIOUS
  <2>1. IInv'
    BY NextInv
  <2>2. SentInv'
    BY SentKeeps DEF DInv
  <2>3. \A p \in Procs : DecInv(p)'
    BY <2>1, DecKeeps DEF DInv
  <2>4. HarnessInv'
    BY <2>1, HarnessKeeps DEF DInv
  <2>5. NetInv'
    BY <2>1, NetKeeps DEF DInv
  <2> QED
    BY <2>1, <2>2, <2>3, <2>4, <2>5 DEF DInv
<1> QED
  BY <1>1, <1>2, PTL DEF Spec

\* The packets of a generator are no noise.
LEMMA RealAll ==
  ASSUME NEW s \in Queue, NEW r \in Seq(Real), IsPrefix(s, NonEmpty(r))
  PROVE  Filter(s, Frames \ {NoiseFrame}) = s
<1>1. NonEmpty(r) \in Seq(Real)
  BY FilterType DEF NonEmpty
<1>2. ASSUME NEW i \in 1 .. Len(s) PROVE s[i] \in Frames \ {NoiseFrame}
  <2>1. s[i] \in Frames
    BY DEF Queue
  <2>2. PICK v \in Seq(Real) : v = NonEmpty(r)
    BY <1>1
  <2>3. Len(s) \in Nat /\ Len(v) \in Nat /\ Len(s) <= Len(v) /\ s[i] = v[i]
    BY <2>2 DEF IsPrefix, Queue
  <2>4. s[i] \in Real
    BY <2>3
  <2>5. s[i].round # 0
    BY <2>4 DEF Real
  <2> QED
    BY <2>1, <2>5 DEF NoiseFrame
<1>3. s \in Seq(Frames)
  BY DEF Queue
<1> QED
  BY <1>2, <1>3, FilterAll

\* A decoder prints the packets that were sent, whole, once each and in order
\* (DecodesInOrder).
THEOREM InSendingOrder ==
  Spec => []DecodesInOrder
<1>1. ASSUME IInv, DInv PROVE DecodesInOrder
  <2> SUFFICES ASSUME NEW p \in Procs, Decodes(p)
               PROVE  LET got == Filter(Flat(out[p]), Frames \ {NoiseFrame})
                      IN  /\ Kind(args[p]) \in {"pcap", "verilator"} =>
                               \E q \in Procs : IsPrefix(got, NonEmpty(sent[q]))
                          /\ Kind(args[p]) = "raw" =>
                               \A i, j \in DOMAIN got : i < j => Earlier(got[i], got[j])
    BY DEF DecodesInOrder
  <2> DEFINE f == Flat(out[p])
             got == Filter(f, Frames \ {NoiseFrame})
  <2>1. f \in Queue /\ got \in Queue
    BY <1>1, LinesFlat, FilterType DEF Queue
  <2>2. ASSUME NEW q \in Procs, IsPrefix(f, NonEmpty(sent[q]))
        PROVE  \E r \in Procs : IsPrefix(got, NonEmpty(sent[r]))
    <3>1. sent[q] \in Seq(Real)
      BY <1>1 DEF DInv, SentInv
    <3>2. got = f
      BY <2>1, <2>2, <3>1, RealAll
    <3> QED
      BY <2>2, <3>2
  <2>3. CASE f = <<>>
    <3>1. got = <<>>
      BY <2>3, FilterEmpty
    <3>2. NonEmpty(sent[p]) \in Seq(Real)
      BY <1>1, FilterType DEF DInv, SentInv, NonEmpty
    <3>3. IsPrefix(<<>>, NonEmpty(sent[p]))
      BY <3>2, PrefixConcat
    <3> HIDE DEF got
    <3>4. \E q \in Procs : IsPrefix(got, NonEmpty(sent[q]))
      BY <3>1, <3>3
    <3>5. \A i, j \in DOMAIN got : i < j => Earlier(got[i], got[j])
      BY <3>1
    <3> QED
      BY <3>4, <3>5 DEF got
  <2>4. CASE pc[p] \notin Late
    <3>1. pc[p] = "open"
      BY <1>1, <2>4, Own DEF Decodes, Fits, Early
    <3>2. out[p] = <<>>
      BY <1>1, <3>1, Own DEF Proc
    <3> QED
      BY <2>3, <3>2, FlatEmpty
  <2>5. CASE pc[p] \in Late /\ f # <<>>
    <3>0. args[p].decode /\ pc[p] \in Late
      BY <2>5 DEF Decodes
    <3>1. ASSUME Kind(args[p]) = "pcap" PROVE \E q \in Procs : IsPrefix(got, NonEmpty(sent[q]))
      <4> DEFINE c == file.records
      <4>1. IsPrefix(f, NonEmpty(SubSeq(c, 1, pos[p])))
        BY <1>1, <3>0, <3>1 DEF DInv, DecInv, Dec
      <4>2. c \in Seq(Frames) /\ pos[p] \in Nat /\ pos[p] <= Len(c)
        BY <1>1 DEF IInv, MediumTypes, Capture, Queue, FileInv
      <4>3. SubSeq(c, 1, pos[p]) \in Seq(Frames) /\ IsPrefix(SubSeq(c, 1, pos[p]), c)
        BY <4>2 DEF IsPrefix
      <4>4. IsPrefix(NonEmpty(SubSeq(c, 1, pos[p])), NonEmpty(c))
        BY <4>2, <4>3, FilterPrefix DEF NonEmpty
      <4>5. NonEmpty(SubSeq(c, 1, pos[p])) \in Seq(Frames) /\ NonEmpty(c) \in Seq(Frames)
        BY <4>2, <4>3, FilterType DEF NonEmpty
      <4>6. IsPrefix(f, NonEmpty(c))
        <5> HIDE DEF f, c
        <5> QED
          BY <2>1, <4>1, <4>4, <4>5, PrefixTrans DEF Queue
      <4>7. CASE file.made
        <5>1. PICK g \in Procs : Writer(pc[g], args[g])
          BY <1>1, <4>7 DEF IInv, FileInv
        <5>2. c = sent[g]
          BY <1>1, <5>1 DEF IInv, FileInv
        <5>3. IsPrefix(f, NonEmpty(sent[g]))
          BY <4>6, <5>2
        <5> HIDE DEF f, got
        <5> QED
          BY <2>2, <5>3
      <4>8. CASE ~file.made
        <5>1. c = <<>>
          BY <1>1, <4>8 DEF IInv, FileInv
        <5>2. NonEmpty(c) = <<>>
          BY <5>1, FilterEmpty DEF NonEmpty
        <5>3. f = <<>>
          BY <2>1, <4>6, <5>2 DEF IsPrefix, Queue
        <5> QED
          BY <2>5, <5>3
      <4> QED
        BY <4>7, <4>8
    <3>2. ASSUME Kind(args[p]) = "verilator" PROVE \E q \in Procs : IsPrefix(got, NonEmpty(sent[q]))
      <4>1. PICK h : Handed(h)
        BY <1>1 DEF DInv, HarnessInv
      <4>2. Drains(p)
        BY <3>0, <3>2 DEF Drains
      <4>3. IsPrefix(f, h) /\ h \in Queue
        BY <4>1, <4>2 DEF Handed
      <4>4. CASE \E g \in Procs : Feeds(g)
        <5>1. PICK g \in Procs : Feeds(g)
          BY <4>4
        <5>2. IsPrefix(f, NonEmpty(sent[g]))
          BY <4>1, <4>3, <5>1 DEF Handed
        <5> HIDE DEF f, got
        <5> QED
          BY <2>2, <5>2
      <4>5. CASE \A g \in Procs : ~Feeds(g)
        <5>1. h = <<>>
          BY <4>1, <4>5 DEF Handed
        <5>2. f = <<>>
          BY <2>1, <4>3, <5>1 DEF IsPrefix, Queue
        <5> QED
          BY <2>5, <5>2
      <4> QED
        BY <4>4, <4>5
    <3>3. ASSUME Kind(args[p]) = "raw"
          PROVE  \A i, j \in DOMAIN got : i < j => Earlier(got[i], got[j])
      <4> DEFINE T == Frames \ {NoiseFrame}
                 E == {e \in Frames \X Frames : Earlier(e[1], e[2])}
                 u == sockets[p].queue
      <4>1. Hears(p) /\ u \in Queue
        BY <1>1, <3>0, <3>3, Own, ProcTypes DEF Hears
      <4>2. InOrder(f \o u)
        BY <1>1, <4>1 DEF DInv, NetInv, Heard
      <4>3. ASSUME NEW i \in 1 .. Len(f), NEW j \in 1 .. Len(f), i < j, f[i] \in T, f[j] \in T
            PROVE  <<f[i], f[j]>> \in E
        <5> HIDE DEF f, u
        <5>1. /\ i \in 1 .. Len(f \o u) /\ j \in 1 .. Len(f \o u)
              /\ (f \o u)[i] = f[i] /\ (f \o u)[j] = f[j]
          BY <2>1, <4>1 DEF Queue
        <5>2. Earlier(f[i], f[j])
          BY <4>2, <4>3, <5>1 DEF InOrder
        <5> QED
          BY <4>3, <5>2
      <4>4. \A i, j \in 1 .. Len(got) : i < j => <<got[i], got[j]>> \in E
        <5> HIDE DEF E, T, f
        <5>1. f \in Seq(Frames)
          BY <2>1 DEF Queue
        <5>2. \A i, j \in 1 .. Len(Filter(f, T)) : i < j => <<Filter(f, T)[i], Filter(f, T)[j]>> \in E
          BY <4>3, <5>1, FilterOrdered
        <5> QED
          BY <5>2 DEF T
      <4> HIDE DEF got
      <4>5. DOMAIN got = 1 .. Len(got)
        BY <2>1 DEF Queue
      <4> QED
        BY <4>4, <4>5
    <3> HIDE DEF got
    <3> QED
      BY <3>1, <3>2, <3>3 DEF got
  <2> QED
    BY <2>3, <2>4, <2>5
<1> QED
  BY <1>1, DecoderInvariance, PTL

\* A decoder ends with 0 only when it has all it can get, and of a capture
\* never at a torn or unreadable body (DecodesAll).
THEOREM EndsWhenDone ==
  Spec => DecodesAll
<1> DEFINE A == \A p \in Procs : EndsDone(p)
<1>1. IInv /\ DInv /\ [Next]_vars => [A]_vars
  <2> SUFFICES ASSUME IInv, DInv, [Next]_vars, vars' # vars,
                      NEW p \in Procs, Decodes(p), exit[p] = Running, exit'[p] = 0
               PROVE  \/ args[p].count # 0 /\ Len(out[p]) = args[p].count
                      \/ /\ Kind(args[p]) = "pcap"
                         /\ readError'[p] \/ (tail # "body" /\ Flat(out[p]) = NonEmpty(file.records))
                      \/ Kind(args[p]) = "verilator" /\ harness = "gone"
                      \/ Kind(args[p]) = "raw"
    BY DEF EndsDone
  <2>0. /\ ProgTypes /\ MediumTypes /\ exit'[p] # exit[p] /\ args[p].decode
        /\ pc[p] \notin {"start", "args", "parsed"}
    BY DEF Running, IInv, Decodes
  <2>1. Acts(p)
    <3>1. CASE UNCHANGED vars \/ HarnessGone \/ Noise
      <4>1. UNCHANGED progVars
        BY <3>1 DEF vars, HarnessGone, Noise
      <4> QED
        BY <2>0, <4>1 DEF progVars
    <3>2. ASSUME NEW q \in Procs, Acts(q) PROVE Acts(p)
      <4>1. p # q => exit'[p] = exit[p]
        BY <3>2, Apart DEF Same
      <4> QED
        BY <2>0, <3>2, <4>1
    <3> QED
      BY <3>1, <3>2, StepKinds
  <2>2. ~Exits(p, 2) /\ ~Exits(p, Interrupted) /\ ~Exits(p, BrokenPipe)
    BY <2>0 DEF Exits, ProgTypes, Interrupted, BrokenPipe
  <2>3. \A w : ~Goes(p, w)
    BY <2>0 DEF Goes
  <2>4. ~ParseArgs(p) /\ ~ReadDirectory(p) /\ ~Prepare(p)
    BY <2>0 DEF ParseArgs, ReadDirectory, Prepare, At
  <2>5. ~OpenFailed(p) /\ ~SendFails(p) /\ ~SendToNobody(p) /\ ~ReceiveTorn(p) /\ ~Interrupt(p)
    BY <2>2 DEF OpenFailed, SendFails, AfterFailure, SendToNobody, ReceiveTorn, BodyUnread, Interrupt, Killed
  <2>6. ~OpenSender(p) /\ ~OpenReceiver(p) /\ ~Generate(p) /\ ~PrintStage(p) /\ ~EndRound(p) /\ ~SendStage(p)
    BY <2>3 DEF OpenSender, OpenReceiver, Generate, PrintStage, EndRound, SendStage
  <2>7. ~Receive(p) /\ ~WritePart(p)
    BY <2>0 DEF Receive, RawReceive, Decoded, WritePart, progVars
  <2>8. ReceiveEof(p) \/ ReceiveFails(p) \/ Finish(p)
    BY <2>1, <2>4, <2>5, <2>6, <2>7 DEF Acts, Step
  <2>9. pc[p] = "loop" /\ pc[p] \in Late
    BY <2>8 DEF ReceiveEof, ReceiveFails, Finish, Receives, At, Late
  <2>10. /\ Len(out[p]) = round[p] /\ Kind(args[p]) # "none"
         /\ Kind(args[p]) = "pcap" => Flat(out[p]) = NonEmpty(SubSeq(file.records, 1, pos[p]))
    BY <2>0, <2>9 DEF DInv, DecInv, Dec
  <2>11. CASE Finish(p)
    <3>1. args[p].count \in Nat /\ round[p] \in Nat /\ (args[p].count # 0 => round[p] <= args[p].count)
      BY Own DEF Proc, Fits, Args
    <3>2. args[p].count # 0 /\ round[p] = args[p].count
      BY <2>11, <3>1 DEF Finish, More
    <3> QED
      BY <2>10, <3>2
  <2>12. CASE ReceiveFails(p)
    <3>1. Kind(args[p]) = "pcap" /\ readError' = [readError EXCEPT ![p] = TRUE]
      BY <2>2, <2>12 DEF ReceiveFails, BodyUnread
    <3> QED
      BY <2>0, <3>1 DEF MediumTypes
  <2>13. CASE ReceiveEof(p)
    <3>1. Eof(p)
      BY <2>13 DEF ReceiveEof
    <3>2. Kind(args[p]) \in {"pcap", "verilator", "raw"}
      BY <2>10 DEF Kind
    <3>3. CASE Kind(args[p]) = "pcap"
      <4>1. pos[p] = Len(file.records) /\ tail # "body" /\ file.records \in Seq(Frames)
        BY <2>0, <3>1, <3>3 DEF Eof, PcapEof, MediumTypes, Capture, Queue
      <4>2. SubSeq(file.records, 1, pos[p]) = file.records
        BY <4>1
      <4> QED
        BY <2>10, <3>3, <4>1, <4>2
    <3>4. CASE Kind(args[p]) = "verilator"
      BY <3>1, <3>4 DEF Eof, VerilatorEof
    <3> QED
      BY <3>2, <3>3, <3>4
  <2> QED
    BY <2>8, <2>11, <2>12, <2>13
<1> QED
  BY <1>1, DecoderInvariance, PTL DEF Spec, DecodesAll
=============================================================================
