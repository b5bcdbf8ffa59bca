----------------------------- MODULE Validator -----------------------------
(***************************************************************************)
(* ProtocolValidator, as "packet_gen --validate" runs it: a walk over the  *)
(* directory of protocol files, then over the stack file if one is given.  *)
(*                                                                         *)
(* Every operator Validate... is the number of errors that the function of *)
(* that name reports; the wording and the place of a finding are left out. *)
(***************************************************************************)
EXTENDS YamlFiles, Loops, FiniteSets

CONSTANTS
  MaxSize,    \* 4096: the widest field
  MaxLong,    \* 2^63 - 1: what std::stoll can return
  StackFiles  \* the roots of stack files

ASSUME ValidatorAssumption ==
  MaxSize \in Nat /\ MaxLong \in Nat /\ MaxSize <= MaxLong /\ StackFiles \subseteq Nodes

VARIABLES
  validating,  \* "no", "walk", "done", or "never" after an uncaught exception
  left,        \* the entries that recursive_directory_iterator has yet to
               \* visit, in each directory that it is in
  findings,    \* the number of errors found so far
  stackFile,   \* --stack-file: a root, or NoStackFile
  errors       \* the count that decides the exit code

validatorVars == <<validating, left, findings, stackFile, errors>>

NoStackFile == [t |-> "none"]

ValidatorInit ==
  /\ validating = "no" /\ left = <<>> /\ findings = 0
  /\ stackFile = NoStackFile /\ errors = 0
-----------------------------------------------------------------------------
(* One file *)

If(p) == IF p THEN 1 ELSE 0

IsNonEmptyScalar(n) == n.t = "val" /\ n.text # NoName

IsUintScalar(n) == n.t = "val" /\ n.ull >= 0 /\ n.plain

IsUintList(n) == n.t = "list" /\ \A i \in DOMAIN n.items : IsUintScalar(n.items[i])

CheckAllowedKeys(n, allowed) == Cardinality({i \in DOMAIN n.items : n.items[i].key \notin allowed})

\* A required non-empty text is missing.
Lacks(n, k) == ~Has(n, k) \/ ~IsNonEmptyScalar(Get(n, k))

ValidateExpected(e) ==
  IF e.t # "map" THEN 1
  ELSE CheckAllowedKeys(e, {"value", "values", "range", "mask"})
         + If(Has(e, "value") /\ ~IsUintScalar(Get(e, "value")))
         + If(Has(e, "values") /\ (~IsUintList(Get(e, "values")) \/ ListAt(e, "values") = <<>>))
         + If(Has(e, "range") /\ (~IsUintList(Get(e, "range")) \/ Len(ListAt(e, "range")) # 2))
         + If(Has(e, "mask") /\ (~IsUintList(Get(e, "mask")) \/ Len(ListAt(e, "mask")) # 1))

\* Faulty variant: the limits are not checked.
SizeOkUnlimited(v) == Has(v, "size") /\ IsUintScalar(Get(v, "size"))

SizeOk(v) == Has(v, "size") /\ IsUintScalar(Get(v, "size")) /\ Get(v, "size").ull \in 1 .. MaxSize

\* asInt throws on a number that is unsigned and too large for a long long.
VarDies(v) == Has(v, "size") /\ IsUintScalar(Get(v, "size")) /\ Get(v, "size").ull > MaxLong

ValidateVar(v) ==
  IF v.t # "map" THEN 1
  ELSE CheckAllowedKeys(v, {"var", "size", "expected"}) + If(Lacks(v, "var")) + If(~SizeOk(v))
         + (IF Has(v, "expected") THEN ValidateExpected(Get(v, "expected")) ELSE 0)

IsRef(r) == Has(r, "var_ref")

\* The loop over references stops at the first that is none.
ValidateRefs(refs) ==
  LET bad == {i \in DOMAIN refs : ~IsRef(refs[i])}
      before == {i \in DOMAIN refs : \A j \in bad : i < j}
  IN  Sum([i \in before |-> CheckAllowedKeys(refs[i], {"var_ref"})]) + If(bad # {})

ValidateInterface(x) ==
  IF x.t # "map" THEN 1
  ELSE CheckAllowedKeys(x, {"interface", "dir", "vars"}) + If(Lacks(x, "interface"))
         + If(~Has(x, "dir") \/ Text(Get(x, "dir")) \notin {<<"in">>, <<"out">>})
         + (CASE ~Has(x, "vars") -> 0
              [] Get(x, "vars").t # "list" -> 1
              [] OTHER -> ValidateRefs(ListAt(x, "vars")))

ValidateEntity(e) ==
  LET xs == ListAt(e, "interfaces") IN
  IF e.t # "map" THEN 1
  ELSE CheckAllowedKeys(e, {"entity", "interfaces"}) + If(Lacks(e, "entity"))
         + If(xs = <<>>) + Sum([i \in DOMAIN xs |-> ValidateInterface(xs[i])])

\* Faulty variant: a file without a service is let through, as the parser does.
ServiceMissingNever(root) == FALSE

ServiceMissing(root) == Lacks(root, "service")

ValidateProtocolFile(root) ==
  LET vs == ListAt(root, "vars")
      es == ListAt(root, "entities")
      NoList(k) == Has(root, k) /\ Get(root, k).t # "list"
  IN  IF root.t # "map" THEN 1
      ELSE CheckAllowedKeys(root, {"service", "logic", "vars", "entities"})
             + If(ServiceMissing(root)) + If(Has(root, "logic") /\ Lacks(root, "logic"))
             + If(~Has(root, "vars") /\ ~Has(root, "entities"))
             + If(NoList("vars")) + Sum([i \in DOMAIN vs |-> ValidateVar(vs[i])])
             + If(NoList("entities")) + Sum([i \in DOMAIN es |-> ValidateEntity(es[i])])

ErrorsIn == [r \in Roots |-> ValidateProtocolFile(r)]

\* Reading the file ends the process.
FileDies(root) ==
  \/ root.t = "broken"
  \/ \E i \in DOMAIN ListAt(root, "vars") : VarDies(ListAt(root, "vars")[i])

ValidateLayer(y) ==
  IF y.t # "map" THEN 1
  ELSE CheckAllowedKeys(y, {"service", "entity", "interface", "bypass-logic"})
         + If(Lacks(y, "service"))

ValidateStackFile(root) ==
  LET ys == ListAt(root, "layers") IN
  IF root.t # "map" THEN 1
  ELSE CheckAllowedKeys(root, {"stack", "layers"}) + If(Lacks(root, "stack"))
         + If(ys = <<>>) + Sum([i \in DOMAIN ys |-> ValidateLayer(ys[i])])
-----------------------------------------------------------------------------
(* validateDirectory *)

\* The iterator does not follow links; iterating over what is not a readable
\* directory throws.
Validate ==
  /\ validating = "no"
  /\ stackFile' \in StackFiles \cup {NoStackFile}
  /\ \/ /\ Base \in DOMAIN tree /\ At(Base).kind = "dir"
        /\ validating' = "walk" /\ left' = <<At(Base).entries>> /\ UNCHANGED findings
     \/ /\ Base \in DOMAIN tree /\ At(Base).kind # "dir"
        /\ validating' = "never" /\ UNCHANGED <<left, findings>>
     \/ /\ Base \notin DOMAIN tree
        /\ validating' = "walk" /\ left' = <<>> /\ findings' = 1
  /\ UNCHANGED errors

Depth == Len(left)

Visited(e) == validating = "walk" /\ Depth > 0 /\ e \in left[Depth]

\* The entries left once e is done.
Without(e) == [left EXCEPT ![Depth] = @ \ {e}]

\* Faulty variant: only the extension that the parser reads.
ChecksYamlOnly(f) == f.kind = "file" /\ f.ext = ".yaml"

Checks(f) == f.kind = "file" /\ f.ext \in {".yaml", ".yml"}

ValidateFile ==
  /\ \E e \in DOMAIN tree :
       /\ Visited(e) /\ Checks(tree[e])
       /\ \/ FileDies(tree[e].root) /\ validating' = "never" /\ UNCHANGED <<left, findings>>
          \/ /\ ~FileDies(tree[e].root) /\ left' = Without(e)
             /\ findings' = findings + ErrorsIn[tree[e].root]
             /\ UNCHANGED validating
  /\ UNCHANGED <<stackFile, errors>>

VisitOther ==
  /\ \E e \in DOMAIN tree :
       /\ Visited(e) /\ ~Checks(tree[e])
       /\ \/ tree[e].kind \notin {"dir", "closed"} /\ left' = Without(e) /\ UNCHANGED validating
          \/ /\ tree[e].kind = "dir" /\ left' = Append(Without(e), tree[e].entries)
             /\ UNCHANGED validating
          \/ tree[e].kind = "closed" /\ validating' = "never" /\ UNCHANGED left
  /\ UNCHANGED <<findings, stackFile, errors>>

\* Faulty variant: the iterator stays in a directory that it is through with.
LeaveNever(l) == l

Leave(l) == SubSeq(l, 1, Len(l) - 1)

\* The iterator pops a directory it is through with.
Pop ==
  /\ validating = "walk" /\ Depth > 0 /\ left[Depth] = {}
  /\ left' = Leave(left)
  /\ UNCHANGED <<validating, findings, stackFile, errors>>

\* After the walk the stack file, if there is one; main counts what was found.
ValidateEnd ==
  /\ validating = "walk" /\ Depth = 0
  /\ \/ stackFile.t = "broken" /\ validating' = "never" /\ UNCHANGED errors
     \/ /\ stackFile.t # "broken" /\ validating' = "done"
        /\ errors' = findings + (IF stackFile = NoStackFile THEN 0 ELSE ValidateStackFile(stackFile))
  /\ UNCHANGED <<left, findings, stackFile>>

ValidatorStep == ValidateFile \/ VisitOther \/ Pop \/ ValidateEnd
=============================================================================
