------------------------------ MODULE MCCorpus ------------------------------
(***************************************************************************)
(* Small directories for Corpus, with a limit of two levels.  Larger trees *)
(* are about the walks: protocols among other files, in siblings and at    *)
(* the last level allowed and beyond, links, entries that cannot be read.  *)
(* The others hold a good protocol and one file with one peculiarity.      *)
(***************************************************************************)
EXTENDS Corpus, TLC

Str(s) == [t |-> "val", text |-> s, ull |-> -1, plain |-> FALSE, number |-> FALSE]
Num(n) == [t |-> "val", text |-> <<"#">>, ull |-> n, plain |-> TRUE, number |-> TRUE]
Trailing(n) == [t |-> "val", text |-> <<"#x">>, ull |-> n, plain |-> FALSE, number |-> FALSE]
List(items) == [t |-> "list", items |-> items]
Map(items) == [t |-> "map", items |-> items]
At1(k, n) == [key |-> k, node |-> n]

YamlFile(root) == [kind |-> "file", ext |-> ".yaml", full |-> FALSE, root |-> root]
Dir(es) == [kind |-> "dir", entries |-> es]
Link(to) == [kind |-> "link", to |-> to]

Field(name, size) == Map(<<At1("var", Str(<<name>>)), At1("size", size)>>)
With(n, k, v) == Map(Append(n.items, At1(k, v)))
Expected(k, v) == With(Field("x", Num(3)), "expected", Map(<<At1(k, v)>>))
Ref(text) == Map(<<At1("var_ref", Str(text))>>)
Interface(name, dir, refs) ==
  Map(<<At1("interface", Str(<<name>>)), At1("dir", Str(<<dir>>)), At1("vars", refs)>>)
Entity(name, xs) == Map(<<At1("entity", Str(<<name>>)), At1("interfaces", List(xs))>>)
Protocol(service, vs, es) ==
  Map(<<At1("service", Str(<<service>>)), At1("vars", List(vs)), At1("entities", List(es))>>)

\* A protocol that conforms: constraints of every form, qualified references.
S == Protocol("s",
       <<With(Field("x", Num(3)), "expected",
              Map(<<At1("values", List(<<Num(1), Num(2)>>)), At1("value", Num(2)),
                    At1("range", List(<<Num(5), Num(2)>>)), At1("mask", List(<<Num(6)>>))>>)),
         Field("y", Num(6))>>,
       <<Entity("E", <<Interface("I", "out", List(<<Ref(<<"x">>), Ref(<<"t", "z">>)>>)),
                       Interface("J", "in", List(<<>>))>>)>>)

\* The same service once more, with a variable and an interface of the same name.
S2 == With(Protocol("s", <<Field("x", Num(5)), Field("w", Num(1))>>,
                    <<Entity("E", <<Interface("I", "in", List(<<Ref(<<"w">>)>>))>>)>>),
           "logic", Str(<<"aecp_aem">>))

T == With(Protocol("t", <<Field("z", Num(1))>>, <<>>), "logic", Str(<<"nosuch">>))

\* What the parser takes and the validator does not.
Loose == Protocol("s",
           <<Map(<<At1("var", Str(<<"x">>)), At1("size", Trailing(9)),
                   At1("expected", Map(<<At1("values", List(<<Num(1), Str(<<"a">>)>>)),
                                         At1("range", List(<<Num(4)>>)),
                                         At1("mask", List(<<Num(6), Num(7)>>))>>))>>),
             Map(<<At1("size", Num(2))>>), Field("y", Str(<<"a">>))>>,
           <<Entity("E", <<Interface("I", "Out", Map(<<At1("a", Str(<<"y">>)), At1("b", Str(<<"t", "z">>))>>)),
                           Map(<<At1("dir", Str(<<"in">>))>>),
                           Interface("J", "in", List(<<Num(1), With(Ref(<<"x">>), "note", Num(1))>>))>>),
             Map(<<At1("interfaces", List(<<>>))>>)>>)

NoService == Map(<<At1("vars", List(<<Field("x", Num(1))>>))>>)
Numbered == Map(<<At1("service", Num(7)), At1("vars", List(<<>>))>>)
Empty == [t |-> "empty"]
Broken == [t |-> "broken"]
Unopened == [t |-> "unopened"]

\* Files with one peculiarity, each next to a good protocol.
Peculiar ==
  { Numbered, NoService, Empty, Broken, Unopened, Loose, List(<<>>), Str(<<"text">>), T, S2,
    Protocol("", <<Field("x", Num(1))>>, <<>>),
    Map(<<At1("service", List(<<>>)), At1("vars", List(<<>>))>>),
    Map(<<At1("service", Str(<<"u">>))>>),
    Map(<<At1("service", Str(<<"u">>)), At1("vars", Map(<<>>)), At1("entities", Str(<<"e">>))>>),
    With(Protocol("u", <<>>, <<>>), "logic", Str(<<"">>)),
    With(Protocol("u", <<>>, <<>>), "author", Str(<<"a">>)),
    Protocol("u", <<Num(1)>>, <<>>), Protocol("u", <<>>, <<Num(1)>>),
    Protocol("u", <<Field("x", Num(0))>>, <<>>), Protocol("u", <<Field("x", Num(7))>>, <<>>),
    Protocol("u", <<Field("x", Num(16))>>, <<>>),
    Protocol("u", <<Field("x", Num(9)), Field("", Num(1))>>, <<>>),
    Protocol("u", <<Map(<<At1("var", Str(<<"x">>))>>)>>, <<>>),
    Protocol("u", <<With(Field("x", Num(1)), "expected", List(<<>>))>>, <<>>),
    Protocol("u", <<Expected("value", Trailing(1))>>, <<>>),
    Protocol("u", <<Expected("values", List(<<>>))>>, <<>>),
    Protocol("u", <<Expected("range", List(<<Num(1), Num(2), Num(3)>>))>>, <<>>),
    Protocol("u", <<Expected("mask", List(<<Num(1), Num(2)>>))>>, <<>>),
    Protocol("u", <<Expected("max", Num(1))>>, <<>>),
    Protocol("u", <<>>, <<Entity("E", <<Num(1)>>)>>),
    Protocol("u", <<>>, <<Entity("E", <<Interface("I", "up", List(<<>>))>>)>>),
    Protocol("u", <<>>, <<Entity("E", <<Interface("I", "in", Map(<<>>))>>)>>) }

WalkTrees ==
  { "base" :> Dir({"s", "d", "stub", "text", "e"}) @@ "s" :> YamlFile(S)
      @@ "stub" :> YamlFile(NoService) @@ "text" :> [YamlFile(Str(<<"text">>)) EXCEPT !.ext = ""]
      @@ "d" :> Dir({"t", "list"}) @@ "t" :> YamlFile(T) @@ "list" :> YamlFile(List(<<>>))
      @@ "e" :> Dir({"f", "pipe"}) @@ "pipe" :> [kind |-> "special"]
      @@ "f" :> Dir({"s2"}) @@ "s2" :> YamlFile(S2),
    "base" :> Dir({"s", "d", "t"}) @@ "s" :> YamlFile(S) @@ "d" :> Dir({"up", "s2"})
      @@ "up" :> Link("base") @@ "s2" :> YamlFile(S2) @@ "t" :> YamlFile(T),
    "base" :> Link("real") @@ "real" :> Dir({"d", "e", "t"}) @@ "d" :> Dir({"s"})
      @@ "s" :> YamlFile(S) @@ "e" :> Dir({"s2", "g"}) @@ "s2" :> YamlFile(S2) @@ "g" :> Dir({})
      @@ "t" :> YamlFile(Unopened),
    "base" :> Dir({"d", "e"}) @@ "d" :> Dir({"t"}) @@ "t" :> YamlFile(T) @@ "e" :> Dir({"f"})
      @@ "f" :> Dir({"g"}) @@ "g" :> Dir({"s"}) @@ "s" :> YamlFile(S),
    "base" :> Dir({"s", "d"}) @@ "s" :> YamlFile(S) @@ "d" :> Dir({"t", "n"})
      @@ "t" :> YamlFile(T) @@ "n" :> YamlFile(Numbered),
    "base" :> Dir({"s", "full"}) @@ "s" :> YamlFile(S)
      @@ "full" :> [YamlFile(Loose) EXCEPT !.full = TRUE],
    "base" :> Dir({"s", "t"}) @@ "s" :> YamlFile(S) @@ "t" :> [YamlFile(S2) EXCEPT !.full = TRUE],
    "base" :> Dir({"s", "d"}) @@ "s" :> YamlFile(S) @@ "d" :> [kind |-> "closed"],
    "base" :> Dir({"s", "y"}) @@ "s" :> YamlFile(S) @@ "y" :> [YamlFile(Loose) EXCEPT !.ext = ".yml"],
    "base" :> Dir({"y"}) @@ "y" :> [YamlFile(S) EXCEPT !.ext = ".yml"],
    "base" :> Dir({"v", "list"}) @@ "v" :> YamlFile(NoService) @@ "list" :> YamlFile(List(<<>>)),
    "base" :> Dir({"v"}) @@ "v" :> YamlFile(NoService),
    "base" :> [kind |-> "closed"],
    "base" :> YamlFile(S),
    "elsewhere" :> YamlFile(S) }

\* Nothing but conforming protocols, one of them below the limit on the depth.
MCDeepTrees ==
  { "base" :> Dir({"s", "d"}) @@ "s" :> YamlFile(S) @@ "d" :> Dir({"e"}) @@ "e" :> Dir({"f"})
      @@ "f" :> Dir({"t"}) @@ "t" :> YamlFile(T) }

MCTrees ==
  WalkTrees \cup {"base" :> Dir({"d", "p"}) @@ "d" :> Dir({"s"}) @@ "s" :> YamlFile(S)
                    @@ "p" :> YamlFile(p) : p \in Peculiar}

Layer(service) == Map(<<At1("service", Str(<<service>>))>>)
StackOf(layers) == Map(<<At1("stack", Str(<<"k">>)), At1("layers", List(layers))>>)

MCStackFiles ==
  { StackOf(<<Layer("s"), With(Layer("t"), "bypass-logic", Str(<<"yes">>))>>),
    StackOf(<<Layer("s"), Layer("t")>>), StackOf(<<Layer("s"), Layer("nobody")>>),
    StackOf(<<>>), StackOf(<<Layer("s"), Num(1)>>), StackOf(<<Map(<<At1("entity", Str(<<"E">>))>>)>>),
    Map(<<At1("layers", List(<<Layer("s")>>))>>), Map(<<At1("stack", Str(<<"k">>))>>),
    Map(<<At1("stack", Str(<<"k">>)), At1("layers", Layer("s"))>>), List(<<>>), Broken }

Children(n) ==
  CASE n.t = "map" -> {n.items[i].node : i \in DOMAIN n.items}
    [] n.t = "list" -> {n.items[i] : i \in DOMAIN n.items}
    [] OTHER -> {}

\* The nodes down to the n-th level of all files; protocols have seven.
NodesTo[n \in 0 .. 8] ==
  IF n = 0 THEN Roots \cup MCStackFiles
  ELSE NodesTo[n - 1] \cup UNION {Children(x) : x \in NodesTo[n - 1]}

MCNodes == NodesTo[8]

MCRegistry == {<<"aecp_aem">>, <<"avtp_control">>, <<"ethernet_frame">>}
=============================================================================
