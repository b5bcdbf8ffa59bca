------------------------------- MODULE Corpus -------------------------------
(***************************************************************************)
(* A directory of protocol files and the three programs that read it: the  *)
(* validator as a gate, the parser that fills the databases, and           *)
(* StackBuilder, which binds the layers of a stack file to the services    *)
(* loaded.  What the gate lets through, the others must be able to use.    *)
(***************************************************************************)
EXTENDS ProtocolParser, Validator

CONSTANT Registry   \* the names of the logic modules in LogicRegistry

\* The widest field fits into a uint32_t.
ASSUME CorpusAssumption == MaxSize < SizeModulus

VARIABLE built      \* what StackBuilder::build returned for stackFile

corpusVars == <<vars, validatorVars, built>>

CorpusInit == Init /\ ValidatorInit /\ built = "none"
-----------------------------------------------------------------------------
(* StackBuilder *)

\* readBool
IsYes(n) == Text(n) \in {<<"true">>, <<"1">>, <<"yes">>}

LayerErr(y) ==
  LET service == Text(Get(y, "service")) IN
  CASE ~Has(y, "service") -> "MISSING_KEY"
    [] service \notin DOMAIN mDbServices -> "UNKNOWN_SERVICE"
    [] Has(y, "bypass-logic") /\ IsYes(Get(y, "bypass-logic")) -> "SUCCESS"
    [] mDbServices[service] \notin Registry \cup {NoName} -> "UNKNOWN_LOGIC"
    [] OTHER -> "SUCCESS"

\* The first error of a stack file.
BuildErr(root) ==
  LET ys == ListAt(root, "layers")
      bad == {k \in DOMAIN ys : LayerErr(ys[k]) # "SUCCESS"}
  IN  CASE root.t # "map" -> "INVALID_FILE"
        [] ~Has(root, "stack") \/ Get(root, "stack").t # "val" -> "MISSING_KEY"
        [] ~Has(root, "layers") \/ Get(root, "layers").t # "list" -> "MISSING_KEY"
        [] OTHER -> IF bad = {} THEN "SUCCESS" ELSE LayerErr(ys[First(bad)])

\* Session::loadStack after a successful Session::parse.
LoadStack ==
  /\ calling = "no" /\ result = "SUCCESS" /\ built = "none"
  /\ stackFile \notin {NoStackFile} /\ stackFile.t # "broken"
  /\ built' = BuildErr(stackFile)
  /\ UNCHANGED <<vars, validatorVars>>
-----------------------------------------------------------------------------
(***************************************************************************)
(* Validator and parser are separate processes and neither writes: a       *)
(* validation, if there is one, is taken to come first.                    *)
(***************************************************************************)
CorpusNext ==
  \/ Validate /\ parses = 0 /\ UNCHANGED <<vars, built>>
  \/ ValidatorStep /\ UNCHANGED <<vars, built>>
  \/ Parse /\ validating # "walk" /\ UNCHANGED <<validatorVars, built>>
  \/ Step /\ UNCHANGED <<validatorVars, built>>
  \/ LoadStack

CorpusSpec == CorpusInit /\ [][CorpusNext]_corpusVars

\* A program, once started, runs.
CorpusFairSpec ==
  /\ CorpusSpec
  /\ WF_corpusVars(Step /\ UNCHANGED <<validatorVars, built>>)
  /\ WF_corpusVars(ValidatorStep /\ UNCHANGED <<vars, built>>)
-----------------------------------------------------------------------------
(* Properties *)

\* Every variable has its type; a walk is only ever in directories.
CorpusTypeOK ==
  /\ TypeOK
  /\ validating \in {"no", "walk", "done", "never"} /\ errors \in Nat /\ findings \in Nat
  /\ \A k \in DOMAIN left : left[k] \subseteq DOMAIN tree
  /\ built \in {"none", "SUCCESS", "INVALID_FILE", "MISSING_KEY", "UNKNOWN_SERVICE",
                "UNKNOWN_LOGIC"}

\* packet_gen --validate exits with 0.
Clean == validating = "done" /\ errors = 0

\* What one walk sees and the other does not.
Linked == \E n \in DOMAIN tree : tree[n].kind = "link"

Dirs == {d \in DOMAIN tree : tree[d].kind = "dir"}

\* D has the base path, and with a directory those in it, links not followed.
Covers(D) ==
  Real(Base) \in D /\ \A d \in D : \A e \in tree[d].entries : tree[e].kind = "dir" => e \in D

\* The directories below the base path at any depth: the least such set.
Below == {d \in Dirs : \A D \in SUBSET Dirs : Covers(D) => d \in D}

Conforming(f) == f.root.t = "map" /\ ValidateProtocolFile(f.root) = 0

\* validateDirectory misses no file: the exit code is 0 exactly when every
\* .yaml and .yml file at any depth conforms, whatever the order of the walk
\* and however many files before it had errors, and the stack file as well.
GateIsComplete ==
  validating = "done" =>
    (errors = 0 <=>
       /\ Base \in DOMAIN tree
       /\ \A d \in Below : \A e \in tree[d].entries :
            tree[e].kind = "file" /\ tree[e].ext \in {".yaml", ".yml"} => Conforming(tree[e])
       /\ stackFile # NoStackFile => ValidateStackFile(stackFile) = 0)

\* The text of a service is a number: a non-empty text to the validator, no
\* name to the parser.
NumberedService(root) ==
  Has(root, "service") /\ Get(root, "service").t = "val" /\ Get(root, "service").number

\* What passed the validator can be used ("0 errors: conforms",
\* writing-protocols.md): parse() neither fails nor ends the process, and a
\* stack file is never found malformed when it is built.  Validator and parser
\* differ about links, the limit on the depth, ".yml", a service that is called
\* by a number, and a file that fills its last page; nothing else is excepted.
CleanIsUsable ==
  Clean =>
    /\ built \notin {"INVALID_FILE", "MISSING_KEY"}
    /\ ~Linked =>
         /\ calling = "never" => \E y \in Yamls : tree[y].full
         /\ result \in {"UNEXPECTED", "INVALID_INPUT"} =>
              \/ DirsAt[MAX_CURRENT_DEPTH_PATH + 1] # {}
              \/ \E y \in Yamls : NumberedService(tree[y].root)
              \/ Yamls = {}

\* A variable exactly as it is written.
Exactly(v) ==
  LET e == ExpectedOf(v)
      As(items) == [i \in DOMAIN items |-> items[i].ull]
  IN  [size     |-> Get(v, "size").ull,
       expected |-> As(ListAt(e, "values")) \o (IF Has(e, "value") THEN <<Get(e, "value").ull>>
                                                 ELSE <<>>),
       range    |-> As(ListAt(e, "range")),
       mask     |-> IF Has(e, "mask") THEN Get(e, "mask").items[1].ull ELSE 0]

VarKey(r, i) == ServiceOf(r) \o Text(Get(ListAt(r, "vars")[i], "var"))

\* Variable i of a file is in the database, as one of that name is written.
VarIsRead(root, i) ==
  LET k == VarKey(root, i) IN
  /\ k \in DOMAIN mDbVars /\ mDbVars[k].size \in 1 .. MaxSize
  /\ \E r \in Protocols : \E j \in DOMAIN ListAt(r, "vars") :
       VarKey(r, j) = k /\ mDbVars[k] = Exactly(ListAt(r, "vars")[j])

Interfaces(r, i) == ListAt(ListAt(r, "entities")[i], "interfaces")

InterfaceKey(r, i, j) ==
  ServiceOf(r) \o Text(Get(ListAt(r, "entities")[i], "entity"))
    \o Text(Get(Interfaces(r, i)[j], "interface"))

\* Interface j of entity i of a file is in the database, with every reference
\* and the direction that one of that name has.
InterfaceIsRead(root, i, j) ==
  LET k == InterfaceKey(root, i, j) IN
  /\ k \in DOMAIN mDbIfproto
  /\ \E r \in Protocols : \E m \in DOMAIN ListAt(r, "entities") : \E n \in DOMAIN Interfaces(r, m) :
       LET y == Interfaces(r, m)[n] IN
       /\ InterfaceKey(r, m, n) = k
       /\ Len(mDbIfproto[k].refs) = Len(ListAt(y, "vars"))
       /\ mDbIfproto[k].dir = (IF Text(Get(y, "dir")) = <<"in">> THEN "IN" ELSE "OUT")

\* What passed the validator, the parser reads as it is written: no variable is
\* passed over, no number is cut or replaced by 0, no reference and no
\* constraint is dropped.  (Of two variables of one name, one is kept.)
CleanIsReadExactly ==
  Clean /\ ~Linked /\ result = "SUCCESS" =>
    \A root \in Protocols :
      /\ \A i \in DOMAIN ListAt(root, "vars") : VarIsRead(root, i)
      /\ \A i \in DOMAIN ListAt(root, "entities") : \A j \in DOMAIN Interfaces(root, i) :
           InterfaceIsRead(root, i, j)

\* validateDirectory and parse() return, or the process ends, on any tree.
ProgramsReturn ==
  /\ (calling = "parse") ~> (calling # "parse")
  /\ (validating = "walk") ~> (validating # "walk")
=============================================================================
