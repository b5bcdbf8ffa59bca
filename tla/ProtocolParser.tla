--------------------------- MODULE ProtocolParser ---------------------------
(***************************************************************************)
(* The protocol parser: the recursive walk over a directory of YAML files  *)
(* and the databases of variables, interfaces and services it fills.       *)
(*                                                                         *)
(* The order in which a directory lists its entries is unspecified, so     *)
(* every step takes any entry not yet seen.  The tree may have cycles: a   *)
(* link to a directory counts as a directory.                              *)
(*                                                                         *)
(* A qualified name is the sequence of its components.                     *)
(***************************************************************************)
EXTENDS YamlFiles, Loops

CONSTANTS
  MAX_CURRENT_DEPTH_PATH,   \* 16 in the code
  SizeModulus, \* 2^32: a size is cut to a uint32_t
  MaxParses    \* bound: calls of parse()

ASSUME ParserAssumption ==
  /\ MAX_CURRENT_DEPTH_PATH \in Nat /\ SizeModulus \in Nat \ {0} /\ MaxParses \in Nat

VARIABLES
  calling,    \* "no", "parse", or "never" after a crash or an uncaught exception
  frames,     \* the nested calls of listProtocolFiles: [dir, left]
  err,        \* the error code on its way up
  mCurrentDepthPathListing,
  yamlPaths,  \* the files seen; only its emptiness is read
  mDbVars, mDbIfproto, mDbServices,
  result,     \* what the last call of parse() returned
  parses

dbVars == <<mDbVars, mDbIfproto, mDbServices>>
vars == <<tree, calling, frames, err, mCurrentDepthPathListing, yamlPaths, dbVars,
          result, parses>>

EmptyDb == [k \in {} |-> 0]

Init ==
  /\ tree \in Trees /\ calling = "no" /\ frames = <<>> /\ err = "SUCCESS"
  /\ mCurrentDepthPathListing = 0 /\ yamlPaths = {}
  /\ mDbVars = EmptyDb /\ mDbIfproto = EmptyDb /\ mDbServices = EmptyDb
  /\ result = "none" /\ parses = 0
-----------------------------------------------------------------------------
(* Database *)

\* Faulty variant: an entry replaces an earlier one of its name.
AddReplacing(db, items) ==
  [k \in DOMAIN db \cup {items[i].key : i \in DOMAIN items} |->
     IF \E i \in DOMAIN items : items[i].key = k
       THEN items[CHOOSE i \in DOMAIN items : items[i].key = k].val ELSE db[k]]

\* addUniqueElement for each item in turn: an empty name and a name already
\* there are refused, so the first of several wins.
Add(db, items) ==
  LET Named(k) == {i \in DOMAIN items : items[i].key = k}
      keys == {items[i].key : i \in DOMAIN items} \ {NoName}
  IN  [k \in DOMAIN db \cup keys |->
         IF k \in DOMAIN db THEN db[k]
         ELSE items[CHOOSE i \in Named(k) : \A j \in Named(k) : i <= j].val]
-----------------------------------------------------------------------------
(* Protocol: one file *)

\* parseU64: a malformed number is 0; what follows a number is ignored.
Number(n) == IF Stoull(n) < 0 THEN 0 ELSE Stoull(n)

SizeOf(v) == IF Has(v, "size") THEN Number(Get(v, "size")) % SizeModulus ELSE 0

Numbers(items) == [i \in DOMAIN items |-> Number(items[i])]

\* What is below "expected", or nothing.
ExpectedOf(v) == IF Has(v, "expected") THEN Get(v, "expected") ELSE [t |-> "map", items |-> <<>>]

\* A range of other than two numbers is ignored, of a mask's list only the
\* first counts, and a mask of 0 is no mask.
VarOf(v) ==
  LET e == ExpectedOf(v)
      value == IF Has(e, "value") THEN <<Get(e, "value")>> ELSE <<>>
  IN  [size     |-> SizeOf(v),
       expected |-> Numbers(ListAt(e, "values") \o value),
       range    |-> IF Len(ListAt(e, "range")) = 2 THEN Numbers(ListAt(e, "range")) ELSE <<>>,
       mask     |-> IF ListAt(e, "mask") = <<>> THEN 0 ELSE Number(ListAt(e, "mask")[1])]

\* The items of a list with key k; an item without it is passed over.
Keyed(items, k) == Filter(items, {items[i] : i \in {j \in DOMAIN items : Has(items[j], k)}})

ServiceOf(root) == Text(Get(root, "service"))

VarItems(root) ==
  LET vs == Keyed(ListAt(root, "vars"), "var")
  IN  [i \in DOMAIN vs |-> [key |-> ServiceOf(root) \o Text(Get(vs[i], "var")),
                            val |-> VarOf(vs[i])]]

\* In a list a qualified reference is kept; in a map every reference is put
\* under the file's own service.
RefsOf(root, x) ==
  LET service == ServiceOf(root)
      refs == Keyed(ListAt(x, "vars"), "var_ref")
      InList(r) == IF Len(Text(Get(r, "var_ref"))) > 1 THEN Text(Get(r, "var_ref"))
                   ELSE service \o Text(Get(r, "var_ref"))
  IN  IF Has(x, "vars") /\ Get(x, "vars").t = "map"
        THEN [i \in DOMAIN Get(x, "vars").items |-> service \o Text(Get(x, "vars").items[i].node)]
        ELSE [i \in DOMAIN refs |-> InList(refs[i])]

InterfaceOf(root, x) ==
  [dir  |-> IF Has(x, "dir") /\ Text(Get(x, "dir")) = <<"out">> THEN "OUT" ELSE "IN",
   refs |-> RefsOf(root, x)]

EntityItems(root, e) ==
  LET xs == Keyed(ListAt(e, "interfaces"), "interface")
  IN  [i \in DOMAIN xs |-> [key |-> ServiceOf(root) \o Text(Get(e, "entity"))
                                     \o Text(Get(xs[i], "interface")),
                            val |-> InterfaceOf(root, xs[i])]]

InterfaceItems(root) ==
  LET ents == Keyed(ListAt(root, "entities"), "entity")
  IN  Flat([i \in DOMAIN ents |-> EntityItems(root, ents[i])])

ServiceItems(root) ==
  <<[key |-> ServiceOf(root), val |-> IF Has(root, "logic") THEN Text(Get(root, "logic")) ELSE NoName]>>

\* What parseProtocolFile returns; a file that cannot be opened is no error.
FileErr(root) ==
  CASE root.t = "unopened" -> "SUCCESS"
    [] ~Has(root, "service") -> "INVALID_FILE"
    [] Get(root, "service").t # "val" \/ Get(root, "service").number -> "UNEXPECTED"
    [] OTHER -> "SUCCESS"

IsProtocol(root) == Has(root, "service") /\ FileErr(root) = "SUCCESS"

\* What each file adds to the databases.
Items == [r \in {x \in Roots : IsProtocol(x)} |->
            [vars |-> VarItems(r), interfaces |-> InterfaceItems(r), services |-> ServiceItems(r)]]

(***************************************************************************)
(* Whether reading a file can end the process: the text is no YAML; the    *)
(* mapping of an empty file fails, which is not noticed; a file that fills *)
(* its last page has no zero byte after it, and where the text then ends   *)
(* is undefined.                                                           *)
(***************************************************************************)
MayDie(f) == f.root.t \in {"broken", "empty"} \/ f.full

MayRead(f) == f.root.t \notin {"broken", "empty"}
-----------------------------------------------------------------------------
(* ProtocolParser: the walk *)

\* parse() is called.  Iterating over what is not a readable directory throws,
\* and nobody catches.
Parse ==
  /\ calling = "no" /\ parses < MaxParses
  /\ parses' = parses + 1
  /\ \/ /\ Base \notin DOMAIN tree
        /\ result' = "INVALID_INPUT" /\ UNCHANGED <<calling, frames, err>>
     \/ /\ Base \in DOMAIN tree /\ At(Base).kind = "dir"
        /\ frames' = <<[dir |-> Real(Base), left |-> At(Base).entries]>>
        /\ calling' = "parse" /\ err' = "SUCCESS" /\ result' = "none"
     \/ /\ Base \in DOMAIN tree /\ At(Base).kind # "dir"
        /\ calling' = "never" /\ result' = "none" /\ UNCHANGED <<frames, err>>
  /\ UNCHANGED <<tree, mCurrentDepthPathListing, yamlPaths, dbVars>>

Top == Len(frames)

\* Entry e is the next one that the innermost call looks at.
Listed(e) == calling = "parse" /\ e \in frames[Top].left

\* A file without the extension, or neither a regular file nor a directory.
Ignored(e) == \/ tree[e].kind = "special"
              \/ tree[e].kind = "file" /\ tree[e].ext # ".yaml"

Skip ==
  /\ \E e \in DOMAIN tree :
       /\ Listed(e) /\ Ignored(e)
       /\ frames' = [frames EXCEPT ![Top].left = @ \ {e}]
  /\ UNCHANGED <<tree, calling, err, mCurrentDepthPathListing, yamlPaths, dbVars,
                 result, parses>>

\* Faulty variant: a file that is no protocol ends the directory.
LeftAfterAnyError(left, e, fileErr) == IF fileErr = "SUCCESS" THEN left \ {e} ELSE {}

\* The entries left after a file: INVALID_FILE is forgiven, other errors break.
LeftAfter(left, e, fileErr) ==
  IF fileErr \in {"SUCCESS", "INVALID_FILE"} THEN left \ {e} ELSE {}

ParseFile ==
  /\ \E e \in DOMAIN tree :
       LET f == tree[e]
           fileErr == FileErr(f.root)
       IN
       /\ Listed(e) /\ f.kind = "file" /\ f.ext = ".yaml"
       /\ yamlPaths' = yamlPaths \cup {e}
       /\ \/ MayDie(f) /\ calling' = "never" /\ frames' = <<>> /\ UNCHANGED <<err, dbVars>>
          \/ /\ MayRead(f)
             /\ \/ /\ IsProtocol(f.root)
                   /\ mDbVars' = Add(mDbVars, Items[f.root].vars)
                   /\ mDbIfproto' = Add(mDbIfproto, Items[f.root].interfaces)
                   /\ mDbServices' = Add(mDbServices, Items[f.root].services)
                \/ ~IsProtocol(f.root) /\ UNCHANGED dbVars
             /\ err' = IF fileErr = "INVALID_FILE" THEN "SUCCESS" ELSE fileErr
             /\ frames' = [frames EXCEPT ![Top].left = LeftAfter(@, e, fileErr)]
             /\ UNCHANGED calling
  /\ UNCHANGED <<tree, mCurrentDepthPathListing, result, parses>>

\* Faulty variant: an off-by-one in the limit.
TooDeepLate(depth) == depth > MAX_CURRENT_DEPTH_PATH + 1

TooDeep(depth) == depth > MAX_CURRENT_DEPTH_PATH

(***************************************************************************)
(* A directory.  The level that is too deep is counted and never given     *)
(* back; the error breaks the loop of every call up to parse().            *)
(***************************************************************************)
EnterDirectory ==
  /\ \E e \in DOMAIN tree :
       /\ Listed(e) /\ At(e).kind \in {"dir", "closed"}
       /\ LET depth == mCurrentDepthPathListing + 1 IN
          /\ mCurrentDepthPathListing' = depth
          /\ \/ /\ TooDeep(depth)
                /\ err' = "UNEXPECTED" /\ frames' = [frames EXCEPT ![Top].left = {}]
                /\ UNCHANGED calling
             \/ /\ ~TooDeep(depth) /\ At(e).kind = "dir"
                /\ frames' = Append([frames EXCEPT ![Top].left = @ \ {e}],
                                    [dir |-> Real(e), left |-> At(e).entries])
                /\ UNCHANGED <<calling, err>>
             \/ /\ ~TooDeep(depth) /\ At(e).kind = "closed"
                /\ calling' = "never" /\ frames' = <<>> /\ UNCHANGED err
  /\ UNCHANGED <<tree, yamlPaths, dbVars, result, parses>>

\* Faulty variant: the depth is not given back.
DepthAfterKept(depth) == depth

DepthAfter(depth) == depth - 1

\* listProtocolFiles returns to itself; after an error the caller breaks, too.
LeaveDirectory ==
  /\ calling = "parse" /\ Top > 1 /\ frames[Top].left = {}
  /\ frames' = [SubSeq(frames, 1, Top - 1) EXCEPT ![Top - 1].left =
                  IF err = "SUCCESS" THEN @ ELSE {}]
  /\ mCurrentDepthPathListing' = DepthAfter(mCurrentDepthPathListing)
  /\ UNCHANGED <<tree, calling, err, yamlPaths, dbVars, result, parses>>

\* What parse() returns after the walk.
Outcome ==
  IF err # "SUCCESS" THEN err
  ELSE IF yamlPaths = {} \/ DOMAIN mDbServices = {} THEN "INVALID_INPUT" ELSE "SUCCESS"

ParseReturn ==
  /\ calling = "parse" /\ Top = 1 /\ frames[1].left = {}
  /\ result' = Outcome
  /\ calling' = "no" /\ frames' = <<>>
  /\ UNCHANGED <<tree, err, mCurrentDepthPathListing, yamlPaths, dbVars, parses>>

Step == Skip \/ ParseFile \/ EnterDirectory \/ LeaveDirectory \/ ParseReturn

Next == Parse \/ Step

Spec == Init /\ [][Next]_vars
-----------------------------------------------------------------------------
(* Properties *)

Errors == {"SUCCESS", "INVALID_INPUT", "UNEXPECTED"}

\* Every variable has its type; the sizes in the database are uint32_t.  The
\* walk never goes more than MAX_CURRENT_DEPTH_PATH directories below the base
\* path, whatever links make cycles and whatever an earlier parse() that failed
\* left in mCurrentDepthPathListing.
TypeOK ==
  /\ Len(frames) <= MAX_CURRENT_DEPTH_PATH + 1
  /\ tree \in Trees /\ calling \in {"no", "parse", "never"} /\ parses \in 0 .. MaxParses
  /\ \A k \in DOMAIN frames : frames[k].left \subseteq tree[frames[k].dir].entries
  /\ err \in Errors /\ result \in Errors \cup {"none"}
  /\ mCurrentDepthPathListing \in Nat
  /\ \A k \in DOMAIN mDbVars : mDbVars[k].size \in 0 .. SizeModulus - 1

SubDirs(d) ==
  IF tree[d].kind = "dir"
    THEN {Real(e) : e \in {x \in tree[d].entries : At(x).kind \in {"dir", "closed"}}} ELSE {}

SubDirsOf(ds) == UNION {SubDirs(d) : d \in ds}

\* The directories n levels below directory d.
DirsFrom(d) ==
  LET at[n \in Nat] == IF n = 0 THEN {d} ELSE SubDirsOf(at[n - 1])
  IN  at

DirsAt == DirsFrom(Real(Base))

\* The entries of the directories that the limit allows.
Reachable ==
  UNION {tree[d].entries : d \in {x \in UNION {DirsAt[n] : n \in 0 .. MAX_CURRENT_DEPTH_PATH} :
                                    tree[x].kind = "dir"}}

Yamls == {e \in Reachable : tree[e].kind = "file" /\ tree[e].ext = ".yaml"}

Protocols == {tree[y].root : y \in {e \in Yamls : MayRead(tree[e]) /\ IsProtocol(tree[e].root)}}

\* What has to be on the disk for parse() to succeed.
Loadable ==
  /\ Base \in DOMAIN tree /\ At(Base).kind = "dir"
  /\ DirsAt[MAX_CURRENT_DEPTH_PATH + 1] = {}
  /\ \A n \in 0 .. MAX_CURRENT_DEPTH_PATH : \A d \in DirsAt[n] : tree[d].kind = "dir"
  /\ \A y \in Yamls : MayRead(tree[y]) /\ FileErr(tree[y].root) # "UNEXPECTED"
  /\ \E root \in Protocols : ServiceOf(root) # NoName

\* Whether parse() succeeds depends on what is on the disk alone: neither on
\* the order in which directories list their entries, nor on what earlier calls
\* left behind, and siblings do not add to the depth (listProtocolFiles).  That a
\* directory below the limit or one bad file fails the whole of parse() is the
\* code's answer; the documents give another one (LoadedIsSuccess).
OutcomeByTree == result # "none" => (result = "SUCCESS" <=> Loadable)

\* "true when at least one valid protocol was loaded" (Session::parse,
\* session.h), also with files below the limit on the depth, which "are silently
\* ignored" (docs/02_protocol_parser.md).
LoadedIsSuccess ==
  calling = "no" /\ result # "none" /\ DOMAIN mDbServices # {} => result = "SUCCESS"

Keys(items) == {items[i].key : i \in DOMAIN items}

\* "every .yaml file whose top-level key is service: is loaded" (packet_gen.1):
\* after a successful parse() the databases have exactly the names that the
\* files declare, from every directory and past files that are no protocols
\* (the empty name is none).
EverythingLoaded ==
  result = "SUCCESS" =>
    /\ DOMAIN mDbVars = (UNION {Keys(VarItems(f)) : f \in Protocols}) \ {NoName}
    /\ DOMAIN mDbIfproto = (UNION {Keys(InterfaceItems(f)) : f \in Protocols}) \ {NoName}
    /\ DOMAIN mDbServices = (UNION {Keys(ServiceItems(f)) : f \in Protocols}) \ {NoName}

Keeps(db, later) == \A k \in DOMAIN db : k \in DOMAIN later /\ later[k] = db[k]

\* An element that a lookup has returned stays: no later file, and no later
\* parse(), failed or not, replaces or removes it (addUniqueElement).
FirstWins ==
  [][/\ Keeps(mDbVars, mDbVars') /\ Keeps(mDbIfproto, mDbIfproto')
     /\ Keeps(mDbServices, mDbServices')]_vars
=============================================================================
