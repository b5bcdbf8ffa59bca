---------------------------- MODULE CorpusProofs ----------------------------
(***************************************************************************)
(* What the three programs make of a directory, for every tree, every      *)
(* limit on the depth, every stack file and any number of calls.           *)
(*                                                                         *)
(* The parser.  Whether parse() succeeds depends on the disk alone, a      *)
(* successful parse() has loaded everything, and an element that is loaded *)
(* stays.  The directories n levels below a directory are defined by       *)
(* recursion over n; the walk sees them by descending into one entry after *)
(* another.  LevelsBelow relates the two, so that a directory is read to   *)
(* the end when each of its entries is (DirFromEntries).  The invariant    *)
(* IInv says this of every entry that a call in progress has passed,       *)
(* except the one that the next call is in; when the outermost call        *)
(* returns, all is read.  The depth counter can be wrong, because a level  *)
(* too many is never given back, but only for a tree that is too deep and  *)
(* cannot be loaded anyway (DepthInv).                                     *)
(*                                                                         *)
(* The validator.  Its walk is another: links are not followed and there   *)
(* is no limit, so that "every directory below" is the least set closed    *)
(* under entries.  GateInv says that the walk has been in some set D of    *)
(* these, and that an entry of a directory in D is still to come or is     *)
(* done.  When nothing is to come, D is closed, and hence everything       *)
(* (WalkedAll).                                                            *)
(*                                                                         *)
(* The gate.  What each Validate... operator counts is a sum of natural    *)
(* numbers; it is 0 only when every part is (ExpectedErrors to             *)
(* StackErrors). From that, what parse() needs and what it reads follow    *)
(* part by part (CleanTree, ConformingIsProtocol, ExactVar,                *)
(* ExactInterface); that a database holds nothing but what some file       *)
(* declares is OriginInv.                                                  *)
(***************************************************************************)
EXTENDS Corpus, SequenceLemmas, FiniteSetTheorems

\* Adding items keeps every element that is there.
LEMMA AddKeeps ==
  ASSUME NEW db, NEW items
  PROVE  Keeps(db, Add(db, items))
<1> DEFINE Named(k) == {i \in DOMAIN items : items[i].key = k}
           keys == {items[i].key : i \in DOMAIN items} \ {NoName}
           New(k) == items[CHOOSE i \in Named(k) : \A j \in Named(k) : i <= j].val
<1>1. Add(db, items) = [k \in DOMAIN db \cup keys |-> IF k \in DOMAIN db THEN db[k] ELSE New(k)]
  BY DEF Add
<1> HIDE DEF New, keys
<1>2. \A k \in DOMAIN db : k \in DOMAIN Add(db, items) /\ Add(db, items)[k] = db[k]
  BY <1>1
<1> QED
  BY <1>2 DEF Keeps

\* What is not changed is kept.
LEMMA KeepsItself ==
  ASSUME NEW db PROVE Keeps(db, db)
BY DEF Keeps

\* Whatever parse() does, and whatever it returns, an element that is in a
\* database stays there with its value (addUniqueElement).
THEOREM FirstElementWins == Spec => FirstWins
<1> DEFINE A == /\ Keeps(mDbVars, mDbVars') /\ Keeps(mDbIfproto, mDbIfproto')
                /\ Keeps(mDbServices, mDbServices')
<1>1. [Next]_vars => [A]_vars
  <2> SUFFICES ASSUME Next PROVE A
    OBVIOUS
  <2>1. CASE UNCHANGED dbVars
    BY <2>1, KeepsItself DEF dbVars
  <2>2. CASE ParseFile
    <3>1. ASSUME NEW v, NEW f, NEW w, mDbVars' = Add(mDbVars, v),
                 mDbIfproto' = Add(mDbIfproto, f), mDbServices' = Add(mDbServices, w)
          PROVE  A
      BY <3>1, AddKeeps
    <3> QED
      BY <2>1, <2>2, <3>1 DEF ParseFile
  <2>3. CASE Parse \/ Skip \/ EnterDirectory \/ LeaveDirectory \/ ParseReturn
    BY <2>1, <2>3 DEF Parse, Skip, EnterDirectory, LeaveDirectory, ParseReturn
  <2> QED
    BY <2>2, <2>3 DEF Next, Step
<1> HIDE DEF A
<1>2. Spec => [][A]_vars
  BY <1>1, PTL DEF Spec
<1> QED
  BY <1>2 DEF FirstWins, A
-----------------------------------------------------------------------------
(* The tree *)

\* A path on the disk leads to something on the disk, and not to a link.
LEMMA RealIn ==
  ASSUME tree \in Trees, NEW n \in DOMAIN tree
  PROVE  /\ Real(n) \in DOMAIN tree /\ tree[Real(n)].kind # "link"
         /\ Real(Real(n)) = Real(n)
BY TreesAssumption DEF Real

\* So does every entry of a directory.
LEMMA SubDirsIn ==
  ASSUME tree \in Trees, NEW d \in DOMAIN tree
  PROVE  SubDirs(d) \in SUBSET DOMAIN tree
<1>1. ASSUME NEW e \in {x \in tree[d].entries : At(x).kind \in {"dir", "closed"}}, tree[d].kind = "dir"
      PROVE  Real(e) \in DOMAIN tree
  BY <1>1, TreesAssumption, RealIn
<1> QED
  BY <1>1 DEF SubDirs

\* The same for several directories.
LEMMA SubDirsOfIn ==
  ASSUME tree \in Trees, NEW ds \in SUBSET DOMAIN tree
  PROVE  SubDirsOf(ds) \in SUBSET DOMAIN tree
BY SubDirsIn DEF SubDirsOf

\* The levels below a directory are what their recursive definition says.
LEMMA DirsFromDef ==
  ASSUME tree \in Trees, NEW d \in DOMAIN tree
  PROVE  /\ DirsFrom(d) \in [Nat -> SUBSET DOMAIN tree]
         /\ DirsFrom(d)[0] = {d}
         /\ \A n \in Nat : DirsFrom(d)[n + 1] = SubDirsOf(DirsFrom(d)[n])
<1> DEFINE S == SUBSET DOMAIN tree
           a == {d}
           step == [X \in S |-> SubDirsOf(X)]
           Is(g) == g = [n \in Nat |-> IF n = 0 THEN a ELSE SubDirsOf(g[n - 1])]
           h == DirsFrom(d)
<1>1. a \in S /\ \A X \in S : SubDirsOf(X) \in S
  BY SubDirsOfIn
<1>2. h = CHOOSE g : Is(g)
  BY DEF DirsFrom
<1> HIDE DEF S, a, h
<1>3. step \in Maps(S) /\ \A X \in S : step[X] = SubDirsOf(X)
  BY <1>1 DEF Maps
<1> HIDE DEF step
<1>4. PICK f : Repeats(f, S, a, step)
  BY <1>1, <1>3, NatRecursion
<1>5. f \in [Nat -> S] /\ f[0] = a /\ \A n \in Nat : f[n + 1] = step[f[n]]
  BY <1>4 DEF Repeats
<1>6. Is(f)
  <2>1. ASSUME NEW n \in Nat, n # 0 PROVE f[n] = SubDirsOf(f[n - 1])
    <3>1. n - 1 \in Nat /\ (n - 1) + 1 = n
      BY <2>1
    <3>2. f[n] = step[f[n - 1]] /\ f[n - 1] \in S
      BY <1>5, <3>1
    <3> QED
      BY <1>3, <3>2
  <2> DEFINE G == [n \in Nat |-> IF n = 0 THEN a ELSE SubDirsOf(f[n - 1])]
  <2>2. \A n \in Nat : f[n] = G[n]
    BY <1>5, <2>1
  <2>3. DOMAIN G = Nat /\ G = [n \in DOMAIN G |-> G[n]]
    BY Zenon
  <2>4. f = G
    <3>1. DOMAIN f = Nat /\ f = [n \in DOMAIN f |-> f[n]]
      BY <1>5
    <3> HIDE DEF G
    <3> QED
      BY <2>2, <2>3, <3>1
  <2> QED
    BY <2>4
<1>7. Is(h)
  <2> HIDE DEF Is
  <2> QED
    BY <1>2, <1>6
<1>8. DOMAIN h = Nat /\ h = [n \in DOMAIN h |-> h[n]]
  BY <1>7, Zenon
<1>9. \A n \in Nat : h[n] = IF n = 0 THEN a ELSE SubDirsOf(h[n - 1])
  BY <1>7, Zenon
<1>10. h[0] = a
  BY <1>9
<1>11. ASSUME NEW n \in Nat PROVE h[n + 1] = SubDirsOf(h[n])
  <2>1. n + 1 \in Nat /\ n + 1 # 0 /\ (n + 1) - 1 = n
    OBVIOUS
  <2> QED
    BY <1>9, <2>1
<1>12. \A n \in Nat : h[n] \in S
  <2> DEFINE K == {n \in Nat : h[n] \in S}
  <2>1. 0 \in K
    BY <1>1, <1>10
  <2>2. ASSUME NEW n \in Nat, n \in K PROVE n + 1 \in K
    BY <1>11, <2>2, SubDirsOfIn DEF S
  <2>3. \A n \in Nat : n \in K
    <3> HIDE DEF K
    <3> QED
      BY <2>1, <2>2, NatSetInduction
  <2> QED
    BY <2>3
<1>13. h \in [Nat -> S]
  BY <1>8, <1>12
<1> QED
  BY <1>10, <1>11, <1>13 DEF S, a, h

\* The levels below d, but for d itself, are those below its subdirectories.
LEMMA LevelsBelow ==
  ASSUME tree \in Trees, NEW d \in DOMAIN tree, NEW n \in Nat
  PROVE  DirsFrom(d)[n + 1] = UNION {DirsFrom(s)[n] : s \in SubDirs(d)}
<1> DEFINE U(m) == UNION {DirsFrom(s)[m] : s \in SubDirs(d)}
           K == {m \in Nat : DirsFrom(d)[m + 1] = U(m)}
<1>1. \A s \in SubDirs(d) : s \in DOMAIN tree
  BY SubDirsIn
<1>2. 0 \in K
  <2>1. DirsFrom(d)[0 + 1] = SubDirs(d)
    <3>1. DirsFrom(d)[0 + 1] = SubDirsOf({d})
      BY DirsFromDef
    <3>2. SubDirsOf({d}) = SubDirs(d)
      BY DEF SubDirsOf
    <3> QED
      BY <3>1, <3>2
  <2>2. \A s \in SubDirs(d) : DirsFrom(s)[0] = {s}
    BY <1>1, DirsFromDef
  <2>3. U(0) = SubDirs(d)
    BY <2>2
  <2> QED
    BY <2>1, <2>3
<1>3. ASSUME NEW m \in Nat, m \in K PROVE m + 1 \in K
  <2>1. DirsFrom(d)[(m + 1) + 1] = SubDirsOf(DirsFrom(d)[m + 1])
    BY DirsFromDef
  <2>2. DirsFrom(d)[m + 1] = U(m)
    BY <1>3
  <2>3. ASSUME NEW s \in SubDirs(d) PROVE DirsFrom(s)[m + 1] = SubDirsOf(DirsFrom(s)[m])
    BY <1>1, DirsFromDef
  <2>4. SubDirsOf(U(m)) = U(m + 1)
    <3>1. ASSUME NEW y \in SubDirsOf(U(m)) PROVE y \in U(m + 1)
      <4>1. PICK x \in U(m) : y \in SubDirs(x)
        BY <3>1 DEF SubDirsOf
      <4>2. PICK s \in SubDirs(d) : x \in DirsFrom(s)[m]
        BY <4>1
      <4>3. y \in SubDirsOf(DirsFrom(s)[m])
        BY <4>1, <4>2 DEF SubDirsOf
      <4> QED
        BY <2>3, <4>3
    <3>2. ASSUME NEW y \in U(m + 1) PROVE y \in SubDirsOf(U(m))
      <4>1. PICK s \in SubDirs(d) : y \in SubDirsOf(DirsFrom(s)[m])
        BY <2>3, <3>2
      <4>2. PICK x \in DirsFrom(s)[m] : y \in SubDirs(x)
        BY <4>1 DEF SubDirsOf
      <4>3. x \in U(m)
        BY <4>2
      <4> QED
        BY <4>2, <4>3 DEF SubDirsOf
    <3> QED
      BY <3>1, <3>2
  <2> QED
    BY <2>1, <2>2, <2>4
<1>4. n \in K
  <2> HIDE DEF K
  <2> QED
    BY <1>2, <1>3, NatSetInduction
<1> QED
  BY <1>4

\* Nobody changes the tree, so nothing that is said of it changes.
LEMMA TreeKept ==
  ASSUME tree' = tree
  PROVE  /\ \A n : Real(n)' = Real(n) /\ At(n)' = At(n)
         /\ \A d : DirsFrom(d)' = DirsFrom(d)
         /\ DirsAt' = DirsAt /\ Yamls' = Yamls /\ Protocols' = Protocols
         /\ Loadable' = Loadable
<1>1. \A n : Real(n)' = Real(n) /\ At(n)' = At(n)
  BY DEF Real, At
<1>2. \A d : SubDirs(d)' = SubDirs(d)
  BY <1>1 DEF SubDirs
<1>3. \A ds : SubDirsOf(ds)' = SubDirsOf(ds)
  BY <1>2 DEF SubDirsOf
<1>4. ASSUME NEW d PROVE DirsFrom(d)' = DirsFrom(d)
  BY <1>3, Zenon DEF DirsFrom
<1>5. DirsAt' = DirsAt
  BY <1>1, <1>4 DEF DirsAt
<1>6. Reachable' = Reachable
  BY <1>5 DEF Reachable
<1>7. Yamls' = Yamls
  BY <1>6 DEF Yamls
<1>8. Protocols' = Protocols
  BY <1>7 DEF Protocols
<1>9. Loadable' = Loadable
  BY <1>1, <1>5, <1>7, <1>8 DEF Loadable
<1> QED
  BY <1>1, <1>4, <1>5, <1>7, <1>8, <1>9
-----------------------------------------------------------------------------
(* The inductive invariant *)

IsDir(n) == At(n).kind \in {"dir", "closed"}

IsYaml(e) == tree[e].kind = "file" /\ tree[e].ext = ".yaml"

FrameOf(D) == [dir : D, left : SUBSET D]

Frame == FrameOf(DOMAIN tree)

\* The walk: where it is, and how deep.
WalkInv ==
  /\ tree \in Trees /\ calling \in {"no", "parse", "never"} /\ err \in {"SUCCESS", "UNEXPECTED"}
  /\ mCurrentDepthPathListing \in Nat /\ frames \in Seq(Frame)
  /\ calling # "parse" => frames = <<>>
  /\ calling = "parse" =>
       /\ Len(frames) \in 1 .. MAX_CURRENT_DEPTH_PATH + 1
       /\ mCurrentDepthPathListing >= Len(frames) - 1
       /\ Base \in DOMAIN tree /\ At(Base).kind = "dir" /\ frames[1].dir = Real(Base)
       /\ result = "none"
  /\ \A k \in 1 .. Len(frames) :
       /\ frames[k].dir \in DirsAt[k - 1] /\ tree[frames[k].dir].kind = "dir"
       /\ frames[k].left \subseteq tree[frames[k].dir].entries

TooDeepTree == Base \in DOMAIN tree /\ DirsAt[MAX_CURRENT_DEPTH_PATH + 1] # {}

\* A level too many is left in the counter only by a tree that is too deep.
DepthInv ==
  /\ calling = "no" /\ mCurrentDepthPathListing # 0 => TooDeepTree
  /\ calling = "parse" /\ mCurrentDepthPathListing # Len(frames) - 1 => TooDeepTree

FileDone(e) == e \in yamlPaths /\ MayRead(tree[e]) /\ FileErr(tree[e].root) # "UNEXPECTED"

FilesDone(d) == tree[d].kind = "dir" /\ \A e \in tree[d].entries : IsYaml(e) => FileDone(e)

\* Everything below directory d, itself k levels below the base path, is read.
DirDone(d, k) ==
  /\ k <= MAX_CURRENT_DEPTH_PATH
  /\ DirsFrom(d)[MAX_CURRENT_DEPTH_PATH + 1 - k] = {}
  /\ \A n \in 0 .. MAX_CURRENT_DEPTH_PATH - k : \A x \in DirsFrom(d)[n] : FilesDone(x)

EntryDone(e, k) == (IsYaml(e) => FileDone(e)) /\ (IsDir(e) => DirDone(Real(e), k))

\* Entry e of the k-th directory of the walk is one the walk is in, or is read.
Passed(e, k) ==
  \/ k < Len(frames) /\ IsDir(e) /\ Real(e) = frames[k + 1].dir
  \/ EntryDone(e, k)

\* While no error has been met, what the calls in progress have passed is read;
\* an error ends the innermost call, and is the tree's.
DoneInv ==
  calling = "parse" =>
    /\ err = "SUCCESS" =>
         \A k \in 1 .. Len(frames) : \A e \in tree[frames[k].dir].entries \ frames[k].left :
           Passed(e, k)
    /\ err # "SUCCESS" => ~Loadable /\ frames[Len(frames)].left = {}

\* The protocols read so far.
Seen == {tree[y].root : y \in {e \in yamlPaths : IsProtocol(tree[e].root)}}

\* The names that the files seen declare.
SeenVars == (UNION {Keys(VarItems(f)) : f \in Seen}) \ {NoName}
SeenInterfaces == (UNION {Keys(InterfaceItems(f)) : f \in Seen}) \ {NoName}
SeenServices == (UNION {Keys(ServiceItems(f)) : f \in Seen}) \ {NoName}

\* The databases hold what the files seen so far declare.
LoadInv ==
  calling # "never" =>
    /\ yamlPaths # {} => Base \in DOMAIN tree /\ yamlPaths \subseteq Yamls
    /\ \A y \in yamlPaths : MayRead(tree[y])
    /\ DOMAIN mDbVars = SeenVars /\ DOMAIN mDbIfproto = SeenInterfaces
    /\ DOMAIN mDbServices = SeenServices

\* The inductive invariant.
IInv == WalkInv /\ DepthInv /\ DoneInv /\ LoadInv /\ OutcomeByTree /\ EverythingLoaded
-----------------------------------------------------------------------------
(* What has been read *)

\* The levels below the base path.
LEMMA DirsAtDef ==
  ASSUME tree \in Trees, Base \in DOMAIN tree
  PROVE  /\ \A n \in Nat : DirsAt[n] \in SUBSET DOMAIN tree
         /\ DirsAt[0] = {Real(Base)}
         /\ \A n \in Nat : \A d \in DirsAt[n] : SubDirs(d) \subseteq DirsAt[n + 1]
<1>1. Real(Base) \in DOMAIN tree
  BY RealIn
<1>2. \A n \in Nat : DirsAt[n + 1] = SubDirsOf(DirsAt[n])
  BY <1>1, DirsFromDef DEF DirsAt
<1>3. (\A n \in Nat : DirsAt[n] \in SUBSET DOMAIN tree) /\ DirsAt[0] = {Real(Base)}
  BY <1>1, DirsFromDef DEF DirsAt
<1>4. \A n \in Nat : \A d \in DirsAt[n] : SubDirs(d) \subseteq DirsAt[n + 1]
  BY <1>2 DEF SubDirsOf
<1> QED
  BY <1>3, <1>4

\* A directory is read when all its entries are.
LEMMA DirFromEntries ==
  ASSUME tree \in Trees, NEW d \in DOMAIN tree, tree[d].kind = "dir",
         NEW k \in 0 .. MAX_CURRENT_DEPTH_PATH,
         \A e \in tree[d].entries : EntryDone(e, k + 1)
  PROVE  DirDone(d, k)
<1> USE ParserAssumption
<1> DEFINE M == MAX_CURRENT_DEPTH_PATH
<1>1. ASSUME NEW s \in SubDirs(d) PROVE s \in DOMAIN tree /\ DirDone(s, k + 1)
  <2>1. PICK e \in tree[d].entries : IsDir(e) /\ s = Real(e)
    BY <1>1 DEF SubDirs, IsDir
  <2> QED
    BY <1>1, <2>1, SubDirsIn DEF EntryDone
<1>2. DirsFrom(d)[M + 1 - k] = {}
  <2>1. M - k \in Nat /\ (M - k) + 1 = M + 1 - k /\ M + 1 - (k + 1) = M - k
    OBVIOUS
  <2>2. \A s \in SubDirs(d) : DirsFrom(s)[M - k] = {}
    BY <1>1, <2>1 DEF DirDone
  <2>3. DirsFrom(d)[(M - k) + 1] = UNION {DirsFrom(s)[M - k] : s \in SubDirs(d)}
    BY <2>1, LevelsBelow
  <2> QED
    BY <2>1, <2>2, <2>3
<1>3. ASSUME NEW n \in 0 .. M - k, NEW x \in DirsFrom(d)[n] PROVE FilesDone(x)
  <2>1. CASE n = 0
    <3>1. x = d
      BY <1>3, <2>1, DirsFromDef
    <3> QED
      BY <3>1 DEF FilesDone, EntryDone
  <2>2. CASE n # 0
    <3>1. n - 1 \in Nat /\ (n - 1) + 1 = n /\ n - 1 \in 0 .. M - (k + 1)
      BY <2>2
    <3>2. DirsFrom(d)[(n - 1) + 1] = UNION {DirsFrom(s)[n - 1] : s \in SubDirs(d)}
      BY <3>1, LevelsBelow
    <3>3. PICK s \in SubDirs(d) : x \in DirsFrom(s)[n - 1]
      BY <3>1, <3>2, <1>3
    <3> QED
      BY <3>1, <3>3, <1>1 DEF DirDone
  <2> QED
    BY <2>1, <2>2
<1>4. k <= M
  OBVIOUS
<1> QED
  BY <1>2, <1>3, <1>4 DEF DirDone

\* When the base path is read, every file is, and only the names are missing.
LEMMA BaseDone ==
  ASSUME tree \in Trees, Base \in DOMAIN tree, At(Base).kind = "dir", DirDone(Real(Base), 0)
  PROVE  /\ \A y \in Yamls : FileDone(y)
         /\ Loadable <=> \E root \in Protocols : ServiceOf(root) # NoName
<1> USE ParserAssumption
<1> DEFINE M == MAX_CURRENT_DEPTH_PATH
<1>1. M + 1 - 0 = M + 1 /\ M - 0 = M
  OBVIOUS
<1>2. DirsAt[M + 1] = {} /\ \A n \in 0 .. M : \A d \in DirsAt[n] : FilesDone(d)
  BY <1>1 DEF DirDone, DirsAt
<1>3. ASSUME NEW y \in Yamls PROVE FileDone(y)
  <2>1. PICK n \in 0 .. M : \E d \in DirsAt[n] : y \in tree[d].entries
    BY <1>3 DEF Yamls, Reachable
  <2>2. IsYaml(y)
    BY <1>3 DEF Yamls, IsYaml
  <2> QED
    BY <1>2, <2>1, <2>2 DEF FilesDone
<1>4. \A n \in 0 .. M : \A d \in DirsAt[n] : tree[d].kind = "dir"
  BY <1>2 DEF FilesDone
<1>5. \A y \in Yamls : MayRead(tree[y]) /\ FileErr(tree[y].root) # "UNEXPECTED"
  BY <1>3 DEF FileDone
<1> QED
  BY <1>2, <1>3, <1>4, <1>5 DEF Loadable

\* What is read stays so.
LEMMA DoneKept ==
  ASSUME tree' = tree, yamlPaths \subseteq yamlPaths'
  PROVE  /\ \A e : IsDir(e)' = IsDir(e) /\ IsYaml(e)' = IsYaml(e)
         /\ \A e : FileDone(e) => FileDone(e)'
         /\ \A e, k : EntryDone(e, k) => EntryDone(e, k)'
<1>1. \A e : IsDir(e)' = IsDir(e) /\ IsYaml(e)' = IsYaml(e)
  BY TreeKept DEF IsDir, IsYaml
<1>2. \A e : FileDone(e) => FileDone(e)'
  BY DEF FileDone
<1>3. \A d : FilesDone(d) => FilesDone(d)'
  BY <1>1, <1>2 DEF FilesDone
<1>4. \A d : DirsFrom(d)' = DirsFrom(d) /\ Real(d)' = Real(d)
  BY TreeKept
<1>5. ASSUME NEW d, NEW k, DirDone(d, k) PROVE DirDone(d, k)'
  BY <1>3, <1>4, <1>5 DEF DirDone
<1> QED
  BY <1>1, <1>2, <1>4, <1>5 DEF EntryDone
-----------------------------------------------------------------------------
(* The steps *)

\* The calls of the walk, with L left in the T-th of them.
WithLeft(fs, T, L) == [fs EXCEPT ![T].left = L]

\* Setting the entries left in one directory of the walk changes nothing else.
LEMMA SetLeft ==
  ASSUME NEW D, NEW fs \in Seq(FrameOf(D)), NEW T \in 1 .. Len(fs), NEW L \in SUBSET D,
         NEW gs, gs = WithLeft(fs, T, L)
  PROVE  /\ gs \in Seq(FrameOf(D)) /\ Len(gs) = Len(fs)
         /\ \A k \in 1 .. Len(fs) : gs[k].dir = fs[k].dir
         /\ gs[T].left = L
         /\ \A k \in 1 .. Len(fs) : k # T => gs[k].left = fs[k].left
<1>1. fs[T] \in FrameOf(D)
  OBVIOUS
<1> DEFINE r == [fs[T] EXCEPT !.left = L]
<1>2. r \in FrameOf(D) /\ r.left = L /\ r.dir = fs[T].dir
  BY <1>1 DEF FrameOf
<1>3. gs = [fs EXCEPT ![T] = r]
  BY DEF WithLeft
<1> HIDE DEF r
<1>4. gs \in Seq(FrameOf(D)) /\ Len(gs) = Len(fs)
      /\ \A k \in 1 .. Len(fs) : gs[k] = IF k = T THEN r ELSE fs[k]
  BY <1>2, <1>3
<1> QED
  BY <1>2, <1>4

\* The walk goes on in the same directory, with less left to do.
LEMMA WalkGoesOn ==
  ASSUME WalkInv, calling = "parse", tree' = tree, calling' = calling, result' = result,
         NEW L \in SUBSET frames[Top].left, frames' = [frames EXCEPT ![Top].left = L],
         err' \in {"SUCCESS", "UNEXPECTED"},
         mCurrentDepthPathListing' \in Nat, mCurrentDepthPathListing' >= mCurrentDepthPathListing
  PROVE  /\ WalkInv' /\ Len(frames') = Len(frames)
         /\ \A k \in 1 .. Len(frames) : frames'[k].dir = frames[k].dir
         /\ frames'[Top].left = L
         /\ \A k \in 1 .. Len(frames) : k # Top => frames'[k].left = frames[k].left
<1> USE ParserAssumption
<1>1. frames \in Seq(Frame) /\ Top \in 1 .. Len(frames) /\ Len(frames) \in Nat /\ Frame' = Frame
  BY DEF WalkInv, Top, Frame
<1>2. L \in SUBSET DOMAIN tree
  <2>1. frames[Top] \in Frame
    BY <1>1
  <2> QED
    BY <2>1 DEF Frame, FrameOf
<1> DEFINE D == DOMAIN tree
           T == Top
<1>3. D = DOMAIN tree /\ T = Top
  OBVIOUS
<1> HIDE DEF D, T
<1>4. /\ frames' \in Seq(Frame) /\ Len(frames') = Len(frames)
      /\ \A k \in 1 .. Len(frames) : frames'[k].dir = frames[k].dir
      /\ frames'[T].left = L
      /\ \A k \in 1 .. Len(frames) : k # T => frames'[k].left = frames[k].left
  <2>1. frames \in Seq(FrameOf(D)) /\ T \in 1 .. Len(frames) /\ L \in SUBSET D
    BY <1>1, <1>2, <1>3 DEF Frame
  <2>2. frames' = WithLeft(frames, T, L) /\ Frame = FrameOf(D)
    BY <1>3 DEF Frame, WithLeft
  <2> DEFINE fs == frames
             gs == frames'
  <2>3. fs \in Seq(FrameOf(D)) /\ T \in 1 .. Len(fs) /\ L \in SUBSET D /\ gs = WithLeft(fs, T, L)
    BY <2>1, <2>2
  <2> HIDE DEF fs, gs
  <2>4. gs \in Seq(FrameOf(D))
    BY <2>3, SetLeft
  <2>5. Len(gs) = Len(fs) /\ gs[T].left = L
    BY <2>3, SetLeft
  <2>6. \A k \in 1 .. Len(fs) : gs[k].dir = fs[k].dir
    BY <2>3, SetLeft
  <2>7. \A k \in 1 .. Len(fs) : k # T => gs[k].left = fs[k].left
    BY <2>3, SetLeft
  <2> QED
    BY <2>2, <2>4, <2>5, <2>6, <2>7 DEF fs, gs
<1>5. \A k \in 1 .. Len(frames) : frames'[k].left \subseteq frames[k].left
  BY <1>3, <1>4
<1>6. /\ Real(Base)' = Real(Base) /\ At(Base)' = At(Base) /\ DirsAt' = DirsAt
  BY TreeKept
<1>7. \A k \in 1 .. Len(frames) : /\ frames'[k].dir \in DirsAt[k - 1] /\ tree[frames'[k].dir].kind = "dir"
                                  /\ frames'[k].left \subseteq tree[frames'[k].dir].entries
  BY <1>4, <1>5 DEF WalkInv
<1>8. frames'[1].dir = Real(Base) /\ Len(frames) \in 1 .. MAX_CURRENT_DEPTH_PATH + 1
      /\ mCurrentDepthPathListing' >= Len(frames) - 1 /\ Base \in DOMAIN tree /\ At(Base).kind = "dir" /\ result = "none"
  BY <1>4 DEF WalkInv
<1>9. WalkInv'
  BY <1>1, <1>4, <1>6, <1>7, <1>8 DEF WalkInv
<1> QED
  BY <1>3, <1>4, <1>9

\* An entry of the innermost directory is on the disk, and what it leads to too.
LEMMA ListedIn ==
  ASSUME WalkInv, NEW e, Listed(e)
  PROVE  /\ e \in DOMAIN tree /\ Top \in 1 .. MAX_CURRENT_DEPTH_PATH + 1
         /\ frames[Top].dir \in DirsAt[Top - 1] /\ tree[frames[Top].dir].kind = "dir"
         /\ frames[Top].dir \in DOMAIN tree
         /\ e \in tree[frames[Top].dir].entries /\ Base \in DOMAIN tree
         /\ frames[Top].left \subseteq tree[frames[Top].dir].entries
<1>1. Top \in 1 .. MAX_CURRENT_DEPTH_PATH + 1 /\ Top \in 1 .. Len(frames) /\ frames[Top] \in Frame
  BY ParserAssumption DEF WalkInv, Listed, Top
<1>2. e \in frames[Top].left /\ calling = "parse"
  BY DEF Listed
<1> QED
  BY <1>1, <1>2, TreesAssumption DEF WalkInv, Frame, FrameOf

\* One more entry of the innermost directory has been read.
LEMMA DoneGoesOn ==
  ASSUME WalkInv, DoneInv, NEW e, Listed(e), tree' = tree, calling' = calling, err' = "SUCCESS",
         yamlPaths \subseteq yamlPaths', Len(frames') = Len(frames),
         \A k \in 1 .. Len(frames) : frames'[k].dir = frames[k].dir,
         frames'[Top].left = frames[Top].left \ {e},
         \A k \in 1 .. Len(frames) : k # Top => frames'[k].left = frames[k].left,
         EntryDone(e, Top)'
  PROVE  DoneInv'
<1>1. calling = "parse" /\ err = "SUCCESS"
  BY DEF WalkInv, DoneInv, Listed, Top
<1>2. ASSUME NEW k \in 1 .. Len(frames), NEW x, Passed(x, k) PROVE Passed(x, k)'
  <2>1. Real(x)' = Real(x)
    BY TreeKept
  <2>2. IsDir(x)' = IsDir(x) /\ (EntryDone(x, k) => EntryDone(x, k)')
    BY DoneKept
  <2>3. k < Len(frames) => k + 1 \in 1 .. Len(frames)
    BY DEF WalkInv
  <2> QED
    BY <1>2, <2>1, <2>2, <2>3 DEF Passed
<1>3. ASSUME NEW k \in 1 .. Len(frames), NEW x \in tree[frames[k].dir].entries \ frames'[k].left
      PROVE  Passed(x, k)'
  <2>1. CASE x \in frames[k].left
    <3>1. k = Top /\ x = e
      BY <2>1
    <3>2. EntryDone(x, k)'
      <4>1. (Top)' = Top
        BY DEF Top
      <4> QED
        BY <3>1, <4>1 DEF EntryDone, IsYaml, IsDir, At, Real, DirDone
    <3> QED
      BY <3>2 DEF Passed
  <2>2. CASE x \notin frames[k].left
    <3>1. Passed(x, k)
      BY <1>1, <2>2 DEF DoneInv
    <3> QED
      BY <1>2, <3>1
  <2> QED
    BY <2>1, <2>2
<1> QED
  BY <1>1, <1>3 DEF DoneInv

\* What the databases hold does not change with the walk.
LEMMA LoadKept ==
  ASSUME LoadInv, tree' = tree, yamlPaths' = yamlPaths, dbVars' = dbVars,
         calling' # "never" => calling # "never"
  PROVE  LoadInv'
<1>1. Yamls' = Yamls
  BY TreeKept
<1>2. Seen' = Seen
  BY DEF Seen
<1>3. SeenVars' = SeenVars /\ SeenInterfaces' = SeenInterfaces /\ SeenServices' = SeenServices
  BY <1>2 DEF SeenVars, SeenInterfaces, SeenServices
<1> QED
  BY <1>1, <1>3 DEF LoadInv, dbVars

\* A walk that has not ended has no result.
LEMMA NoResult ==
  ASSUME WalkInv, calling = "parse", result' = result
  PROVE  OutcomeByTree' /\ EverythingLoaded'
<1>1. result' = "none"
  BY DEF WalkInv
<1> QED
  BY <1>1 DEF OutcomeByTree, EverythingLoaded

\* The process ends.
LEMMA EndKeeps ==
  ASSUME WalkInv, calling = "parse", tree' = tree, calling' = "never", frames' = <<>>,
         err' = err, mCurrentDepthPathListing' \in Nat, result' = result
  PROVE  IInv'
<1>1. WalkInv'
  <2>1. <<>> \in Seq(Frame') /\ Len(<<>>) = 0 /\ \A k \in 1 .. 0 : FALSE
    OBVIOUS
  <2> QED
    BY <2>1 DEF WalkInv
<1>2. DepthInv' /\ DoneInv' /\ LoadInv'
  BY DEF DepthInv, DoneInv, LoadInv
<1> QED
  BY <1>1, <1>2, NoResult DEF IInv

\* An ignored entry.
LEMMA SkipKeeps ==
  ASSUME IInv, Skip PROVE IInv'
<1>1. PICK e \in DOMAIN tree : /\ Listed(e) /\ Ignored(e)
                               /\ frames' = [frames EXCEPT ![Top].left = frames[Top].left \ {e}]
  BY DEF Skip, IInv, WalkInv, Listed, Top
<1>2. /\ tree' = tree /\ calling' = calling /\ err' = err /\ result' = result /\ dbVars' = dbVars
      /\ mCurrentDepthPathListing' = mCurrentDepthPathListing /\ yamlPaths' = yamlPaths
  BY DEF Skip
<1>3. calling = "parse" /\ err = "SUCCESS" /\ WalkInv /\ DoneInv
  BY <1>1 DEF Listed, IInv, WalkInv, DoneInv, Top
<1> DEFINE L == frames[Top].left \ {e}
<1>4. /\ WalkInv' /\ Len(frames') = Len(frames)
      /\ \A k \in 1 .. Len(frames) : frames'[k].dir = frames[k].dir
      /\ frames'[Top].left = L
      /\ \A k \in 1 .. Len(frames) : k # Top => frames'[k].left = frames[k].left
  <2>1. L \in SUBSET frames[Top].left /\ frames' = [frames EXCEPT ![Top].left = L]
        /\ err' \in {"SUCCESS", "UNEXPECTED"} /\ mCurrentDepthPathListing' \in Nat
        /\ mCurrentDepthPathListing' >= mCurrentDepthPathListing
    BY <1>1, <1>2, <1>3 DEF WalkInv
  <2> HIDE DEF L
  <2> QED
    BY <1>2, <1>3, <2>1, WalkGoesOn
<1>5. DepthInv'
  <2>1. TooDeepTree' = TooDeepTree
    BY <1>2, TreeKept DEF TooDeepTree
  <2> QED
    BY <1>2, <1>4, <2>1 DEF IInv, DepthInv
<1>6. DoneInv'
  <2>1. ~IsYaml(e)' /\ ~IsDir(e)'
    BY <1>1, <1>2 DEF Ignored, IsYaml, IsDir, At, Real
  <2>2. EntryDone(e, Top)'
    BY <2>1 DEF EntryDone
  <2> QED
    BY <1>1, <1>2, <1>3, <1>4, <2>2, DoneGoesOn
<1>7. LoadInv' /\ OutcomeByTree' /\ EverythingLoaded'
  BY <1>2, <1>3, LoadKept, NoResult DEF IInv
<1> QED
  BY <1>4, <1>5, <1>6, <1>7 DEF IInv

\* An error of a file of the innermost directory is the tree's.
LEMMA ListedYaml ==
  ASSUME WalkInv, NEW e, Listed(e), IsYaml(e)
  PROVE  /\ e \in Yamls /\ Base \in DOMAIN tree
         /\ FileErr(tree[e].root) = "UNEXPECTED" => ~Loadable
<1>1. /\ Top - 1 \in 0 .. MAX_CURRENT_DEPTH_PATH
      /\ frames[Top].dir \in DirsAt[Top - 1] /\ tree[frames[Top].dir].kind = "dir"
      /\ e \in tree[frames[Top].dir].entries
  BY ListedIn, ParserAssumption
<1>2. e \in Reachable
  BY <1>1 DEF Reachable
<1>3. e \in Yamls
  BY <1>2 DEF Yamls, IsYaml
<1> QED
  BY <1>3, ListedIn DEF Loadable

\* The names in a database after items have been added.
LEMMA AddDomain ==
  ASSUME NEW db, NEW items
  PROVE  DOMAIN Add(db, items) = DOMAIN db \cup (Keys(items) \ {NoName})
BY DEF Add, Keys

\* A file that has been read adds what it declares.
LEMMA FileLoads ==
  ASSUME WalkInv, LoadInv, NEW e \in DOMAIN tree, Listed(e), IsYaml(e), MayRead(tree[e]),
         tree' = tree, yamlPaths' = yamlPaths \cup {e},
         \/ /\ IsProtocol(tree[e].root)
            /\ mDbVars' = Add(mDbVars, Items[tree[e].root].vars)
            /\ mDbIfproto' = Add(mDbIfproto, Items[tree[e].root].interfaces)
            /\ mDbServices' = Add(mDbServices, Items[tree[e].root].services)
         \/ ~IsProtocol(tree[e].root) /\ UNCHANGED dbVars
  PROVE  LoadInv'
<1> DEFINE r == tree[e].root
<1>1. e \in Yamls /\ Base \in DOMAIN tree /\ calling = "parse"
  BY ListedYaml DEF Listed
<1>2. yamlPaths' \subseteq Yamls' /\ \A y \in yamlPaths' : MayRead(tree'[y])
  <2>1. Yamls' = Yamls
    BY TreeKept
  <2> QED
    BY <1>1, <2>1 DEF LoadInv
<1>3. DOMAIN mDbVars = SeenVars /\ DOMAIN mDbIfproto = SeenInterfaces /\ DOMAIN mDbServices = SeenServices
  BY <1>1 DEF LoadInv
<1>4. CASE /\ IsProtocol(r)
           /\ mDbVars' = Add(mDbVars, Items[r].vars)
           /\ mDbIfproto' = Add(mDbIfproto, Items[r].interfaces)
           /\ mDbServices' = Add(mDbServices, Items[r].services)
  <2>1. r \in Roots
    BY DEF Roots, WalkInv, IsYaml
  <2>2. Items[r] = [vars |-> VarItems(r), interfaces |-> InterfaceItems(r), services |-> ServiceItems(r)]
    BY <1>4, <2>1 DEF Items
  <2>3. Seen' = Seen \cup {r}
    BY <1>4 DEF Seen
  <2>4. DOMAIN mDbVars' = SeenVars'
    <3>1. mDbVars' = Add(mDbVars, VarItems(r))
      BY <1>4, <2>2
    <3>2. DOMAIN mDbVars' = SeenVars \cup (Keys(VarItems(r)) \ {NoName})
      BY <1>3, <3>1, AddDomain
    <3>3. UNION {Keys(VarItems(f)) : f \in Seen \cup {r}}
            = (UNION {Keys(VarItems(f)) : f \in Seen}) \cup Keys(VarItems(r))
      <4> HIDE DEF r
      <4> QED
        OBVIOUS
    <3> QED
      BY <2>3, <3>2, <3>3 DEF SeenVars
  <2>5. DOMAIN mDbIfproto' = SeenInterfaces'
    <3>1. mDbIfproto' = Add(mDbIfproto, InterfaceItems(r))
      BY <1>4, <2>2
    <3>2. DOMAIN mDbIfproto' = SeenInterfaces \cup (Keys(InterfaceItems(r)) \ {NoName})
      BY <1>3, <3>1, AddDomain
    <3>3. UNION {Keys(InterfaceItems(f)) : f \in Seen \cup {r}}
            = (UNION {Keys(InterfaceItems(f)) : f \in Seen}) \cup Keys(InterfaceItems(r))
      <4> HIDE DEF r
      <4> QED
        OBVIOUS
    <3> QED
      BY <2>3, <3>2, <3>3 DEF SeenInterfaces
  <2>6. DOMAIN mDbServices' = SeenServices'
    <3>1. mDbServices' = Add(mDbServices, ServiceItems(r))
      BY <1>4, <2>2
    <3>2. DOMAIN mDbServices' = SeenServices \cup (Keys(ServiceItems(r)) \ {NoName})
      BY <1>3, <3>1, AddDomain
    <3>3. UNION {Keys(ServiceItems(f)) : f \in Seen \cup {r}}
            = (UNION {Keys(ServiceItems(f)) : f \in Seen}) \cup Keys(ServiceItems(r))
      <4> HIDE DEF r
      <4> QED
        OBVIOUS
    <3> QED
      BY <2>3, <3>2, <3>3 DEF SeenServices
  <2> QED
    BY <1>1, <1>2, <2>4, <2>5, <2>6 DEF LoadInv
<1>5. CASE ~IsProtocol(r) /\ UNCHANGED dbVars
  <2>1. Seen' = Seen
    BY <1>5 DEF Seen
  <2>2. SeenVars' = SeenVars /\ SeenInterfaces' = SeenInterfaces /\ SeenServices' = SeenServices
    BY <2>1 DEF SeenVars, SeenInterfaces, SeenServices
  <2> QED
    BY <1>1, <1>2, <1>3, <1>5, <2>2 DEF LoadInv, dbVars
<1> QED
  BY <1>4, <1>5

\* A file: the process ends, or the file is loaded, passed over, or an error.
LEMMA ParseFileKeeps ==
  ASSUME IInv, ParseFile PROVE IInv'
<1>1. PICK e \in DOMAIN tree :
        LET f == tree[e]
            fileErr == FileErr(f.root)
        IN
        /\ Listed(e) /\ f.kind = "file" /\ f.ext = ".yaml"
        /\ yamlPaths' = yamlPaths \cup {e}
        /\ \/ MayDie(f) /\ calling' = "never" /\ frames' = <<>> /\ UNCHANGED <<err, dbVars>>
           \/ /\ MayRead(f)
              /\ \/ /\ IsProtocol(f.root)
                    /\ mDbVars' = Add(mDbVars, Items[f.root].vars)
                    /\ mDbIfproto' = Add(mDbIfproto, Items[f.root].interfaces)
                    /\ mDbServices' = Add(mDbServices, Items[f.root].services)
                 \/ ~IsProtocol(f.root) /\ UNCHANGED dbVars
              /\ err' = IF fileErr = "INVALID_FILE" THEN "SUCCESS" ELSE fileErr
              /\ frames' = [frames EXCEPT ![Top].left = LeftAfter(@, e, fileErr)]
              /\ UNCHANGED calling
  BY DEF ParseFile
<1>2. /\ tree' = tree /\ result' = result
      /\ mCurrentDepthPathListing' = mCurrentDepthPathListing
  BY DEF ParseFile
<1>3. calling = "parse" /\ err = "SUCCESS" /\ WalkInv /\ DoneInv /\ LoadInv /\ IsYaml(e) /\ Listed(e)
  BY <1>1 DEF Listed, IInv, WalkInv, DoneInv, Top, IsYaml
<1>4. CASE calling' = "never" /\ frames' = <<>> /\ err' = err
  BY <1>2, <1>3, <1>4, EndKeeps DEF WalkInv
<1> DEFINE ferr == FileErr(tree[e].root)
           L == LeftAfter(frames[Top].left, e, ferr)
<1>5. ASSUME MayRead(tree[e]), calling' = calling,
             \/ /\ IsProtocol(tree[e].root)
                /\ mDbVars' = Add(mDbVars, Items[tree[e].root].vars)
                /\ mDbIfproto' = Add(mDbIfproto, Items[tree[e].root].interfaces)
                /\ mDbServices' = Add(mDbServices, Items[tree[e].root].services)
             \/ ~IsProtocol(tree[e].root) /\ UNCHANGED dbVars,
             err' = IF ferr = "INVALID_FILE" THEN "SUCCESS" ELSE ferr,
             frames' = [frames EXCEPT ![Top].left = L]
      PROVE  IInv'
  <2>1. ferr \in {"SUCCESS", "INVALID_FILE", "UNEXPECTED"}
    BY DEF FileErr
  <2>2. /\ WalkInv' /\ Len(frames') = Len(frames)
        /\ \A k \in 1 .. Len(frames) : frames'[k].dir = frames[k].dir
        /\ frames'[Top].left = L
        /\ \A k \in 1 .. Len(frames) : k # Top => frames'[k].left = frames[k].left
    <3>1. L \in SUBSET frames[Top].left
      BY DEF LeftAfter
    <3>2. err' \in {"SUCCESS", "UNEXPECTED"} /\ mCurrentDepthPathListing' \in Nat
          /\ mCurrentDepthPathListing' >= mCurrentDepthPathListing
      BY <1>2, <1>3, <1>5, <2>1 DEF WalkInv
    <3> HIDE DEF L
    <3> QED
      BY <1>2, <1>3, <1>5, <3>1, <3>2, WalkGoesOn
  <2>3. DepthInv'
    <3>1. TooDeepTree' = TooDeepTree
      BY <1>2, TreeKept DEF TooDeepTree
    <3> QED
      BY <1>2, <1>5, <2>2, <3>1 DEF IInv, DepthInv
  <2>4. DoneInv'
    <3>1. CASE ferr = "UNEXPECTED"
      <4>1. err' = "UNEXPECTED" /\ L = {}
        BY <1>5, <3>1 DEF LeftAfter
      <4>2. ~Loadable'
        BY <1>2, <1>3, <3>1, ListedYaml, TreeKept
      <4> QED
        BY <2>2, <4>1, <4>2 DEF DoneInv, Top
    <3>2. CASE ferr \in {"SUCCESS", "INVALID_FILE"}
      <4>1. err' = "SUCCESS" /\ L = frames[Top].left \ {e}
        BY <1>5, <3>2 DEF LeftAfter
      <4>2. FileDone(e)'
        BY <1>1, <1>2, <1>5, <3>2 DEF FileDone
      <4>3. ~IsDir(e)'
        BY <1>2, <1>3 DEF IsYaml, IsDir, At, Real
      <4>4. EntryDone(e, Top)'
        BY <4>2, <4>3 DEF EntryDone
      <4>5. yamlPaths \subseteq yamlPaths'
        BY <1>1
      <4> HIDE DEF L
      <4> QED
        BY <1>2, <1>3, <1>5, <2>2, <4>1, <4>4, <4>5, DoneGoesOn
    <3> QED
      BY <2>1, <3>1, <3>2
  <2>5. LoadInv'
    <3>1. yamlPaths' = yamlPaths \cup {e}
      BY <1>1
    <3> QED
      BY <1>2, <1>3, <1>5, <3>1, FileLoads
  <2> QED
    BY <1>2, <1>3, <2>2, <2>3, <2>4, <2>5, NoResult DEF IInv
<1> QED
  BY <1>1, <1>4, <1>5

\* A directory listed at the limit makes the tree too deep.
LEMMA ListedDir ==
  ASSUME WalkInv, NEW e, Listed(e), IsDir(e)
  PROVE  /\ Real(e) \in DirsAt[Top] /\ Real(e) \in DOMAIN tree
         /\ Top = MAX_CURRENT_DEPTH_PATH + 1 => TooDeepTree
<1> USE ParserAssumption
<1>1. /\ Top - 1 \in Nat /\ (Top - 1) + 1 = Top /\ Base \in DOMAIN tree
      /\ frames[Top].dir \in DirsAt[Top - 1] /\ tree[frames[Top].dir].kind = "dir"
      /\ e \in tree[frames[Top].dir].entries /\ e \in DOMAIN tree
  BY ListedIn
<1>2. Real(e) \in SubDirs(frames[Top].dir)
  BY <1>1 DEF SubDirs, IsDir
<1>3. Real(e) \in DirsAt[(Top - 1) + 1]
  BY <1>1, <1>2, DirsAtDef DEF WalkInv
<1> QED
  BY <1>1, <1>3, RealIn DEF TooDeepTree, WalkInv

\* A tree that is too deep cannot be loaded.
LEMMA TooDeepNotLoadable == TooDeepTree => ~Loadable
BY DEF TooDeepTree, Loadable

\* A subdirectory: too deep, readable, or the process ends.
LEMMA EnterDirectoryKeeps ==
  ASSUME IInv, EnterDirectory PROVE IInv'
<1> USE ParserAssumption
<1> DEFINE depth == mCurrentDepthPathListing + 1
<1>1. PICK e \in DOMAIN tree :
        /\ Listed(e) /\ At(e).kind \in {"dir", "closed"}
        /\ mCurrentDepthPathListing' = depth
        /\ \/ /\ TooDeep(depth)
              /\ err' = "UNEXPECTED" /\ frames' = [frames EXCEPT ![Top].left = {}]
              /\ UNCHANGED calling
           \/ /\ ~TooDeep(depth) /\ At(e).kind = "dir"
              /\ frames' = Append([frames EXCEPT ![Top].left = @ \ {e}],
                                  [dir |-> Real(e), left |-> At(e).entries])
              /\ UNCHANGED <<calling, err>>
           \/ /\ ~TooDeep(depth) /\ At(e).kind = "closed"
              /\ calling' = "never" /\ frames' = <<>> /\ UNCHANGED err
  BY DEF EnterDirectory
<1>2. tree' = tree /\ result' = result /\ yamlPaths' = yamlPaths /\ dbVars' = dbVars
  BY DEF EnterDirectory
<1>3. /\ calling = "parse" /\ err = "SUCCESS" /\ WalkInv /\ DoneInv /\ LoadInv /\ DepthInv
      /\ IsDir(e) /\ Listed(e)
  BY <1>1 DEF Listed, IInv, WalkInv, DoneInv, Top, IsDir
<1>4. /\ mCurrentDepthPathListing \in Nat /\ Len(frames) \in 1 .. MAX_CURRENT_DEPTH_PATH + 1
      /\ mCurrentDepthPathListing >= Len(frames) - 1
  BY <1>3 DEF WalkInv
<1>5. TooDeepTree' = TooDeepTree
  BY <1>2, TreeKept DEF TooDeepTree
<1>6. LoadInv' \/ calling' = "never"
  BY <1>2, <1>3, LoadKept
<1>7. CASE calling' = "never" /\ frames' = <<>> /\ err' = err
  BY <1>1, <1>2, <1>3, <1>4, <1>7, EndKeeps
<1>8. CASE /\ TooDeep(depth) /\ err' = "UNEXPECTED" /\ calling' = calling
           /\ frames' = [frames EXCEPT ![Top].left = {}]
  <2>1. /\ WalkInv' /\ Len(frames') = Len(frames) /\ frames'[Top].left = {}
    <3> DEFINE N == {}
    <3>1. /\ N \in SUBSET frames[Top].left /\ frames' = [frames EXCEPT ![Top].left = N]
          /\ err' \in {"SUCCESS", "UNEXPECTED"} /\ mCurrentDepthPathListing' \in Nat
          /\ mCurrentDepthPathListing' >= mCurrentDepthPathListing /\ calling' = calling
      BY <1>1, <1>4, <1>8
    <3> HIDE DEF N
    <3>2. WalkInv' /\ Len(frames') = Len(frames) /\ frames'[Top].left = N
      BY <1>2, <1>3, <3>1, WalkGoesOn
    <3> QED
      BY <3>2 DEF N
  <2>2. TooDeepTree
    <3>1. CASE mCurrentDepthPathListing = Len(frames) - 1
      <4>1. Top = MAX_CURRENT_DEPTH_PATH + 1
        BY <1>4, <1>8, <3>1 DEF TooDeep, Top
      <4> QED
        BY <1>3, <4>1, ListedDir
    <3> QED
      BY <1>3, <3>1 DEF DepthInv
  <2>3. DepthInv'
    BY <1>5, <2>2 DEF DepthInv
  <2>4. ~Loadable'
    BY <1>2, <2>2, TooDeepNotLoadable, TreeKept
  <2>5. DoneInv'
    BY <1>8, <2>1, <2>4 DEF DoneInv, Top
  <2>6. LoadInv'
    BY <1>3, <1>6, <1>8
  <2> QED
    BY <1>2, <1>3, <2>1, <2>3, <2>5, <2>6, NoResult DEF IInv
<1> DEFINE L == frames[Top].left \ {e}
           gs == [frames EXCEPT ![Top].left = L]
           r == [dir |-> Real(e), left |-> At(e).entries]
<1>9. ASSUME ~TooDeep(depth), At(e).kind = "dir", frames' = Append(gs, r),
             calling' = calling, err' = err
      PROVE  IInv'
  <2>1. Real(e) \in DirsAt[Top] /\ Real(e) \in DOMAIN tree
    BY <1>3, ListedDir
  <2>2. /\ frames \in Seq(FrameOf(DOMAIN tree)) /\ Top \in 1 .. Len(frames) /\ Top = Len(frames)
    BY <1>3, <1>4 DEF WalkInv, Frame, Top
  <2>3. L \in SUBSET DOMAIN tree
    <3>1. frames[Top] \in FrameOf(DOMAIN tree)
      BY <2>2
    <3> QED
      BY <3>1 DEF FrameOf
  <2>4. gs = WithLeft(frames, Top, L)
    BY DEF WithLeft
  <2>5. r \in FrameOf(DOMAIN tree) /\ r.dir = Real(e) /\ r.left = At(e).entries
    BY <1>3, <1>9, <2>1, TreesAssumption DEF FrameOf, At, WalkInv
  <2> DEFINE D == DOMAIN tree
             fs == frames
             T == Top
             F == FrameOf(D)
  <2>6. /\ fs \in Seq(FrameOf(D)) /\ T \in 1 .. Len(fs) /\ L \in SUBSET D /\ gs = WithLeft(fs, T, L)
        /\ r \in F /\ r.dir = Real(e) /\ r.left = At(e).entries /\ T = Len(fs)
        /\ frames' = Append(gs, r) /\ F = FrameOf(D)
    BY <1>9, <2>2, <2>3, <2>4, <2>5
  <2> HIDE DEF D, fs, T, gs, r, L, F
  <2>7. gs \in Seq(F)
    BY <2>6, SetLeft
  <2>8. Len(gs) = Len(fs) /\ gs[T].left = L
    BY <2>6, SetLeft
  <2>9. \A k \in 1 .. Len(fs) : gs[k].dir = fs[k].dir
    BY <2>6, SetLeft
  <2>10. \A k \in 1 .. Len(fs) : k # T => gs[k].left = fs[k].left
    BY <2>6, SetLeft
  <2>11. /\ frames' \in Seq(F) /\ Len(frames') = T + 1 /\ frames'[T + 1] = r
         /\ \A k \in 1 .. T : frames'[k] = gs[k]
    BY <2>6, <2>7, <2>8
  <2>12. WalkInv'
    <3>1. frames' \in Seq(Frame)'
      BY <1>2, <2>6, <2>11 DEF Frame, D
    <3>2. Len(frames') \in 1 .. MAX_CURRENT_DEPTH_PATH + 1
          /\ mCurrentDepthPathListing' >= Len(frames') - 1 /\ mCurrentDepthPathListing' \in Nat
      BY <1>1, <1>4, <1>9, <2>6, <2>11 DEF TooDeep, fs
    <3>3. frames'[1].dir = Real(Base)
      BY <1>3, <2>6, <2>9, <2>11 DEF WalkInv, fs
    <3>4. ASSUME NEW k \in 1 .. T + 1
          PROVE  /\ frames'[k].dir \in DirsAt[k - 1] /\ tree[frames'[k].dir].kind = "dir"
                 /\ frames'[k].left \subseteq tree[frames'[k].dir].entries
      <4>1. CASE k = T + 1
        <5>1. k - 1 = T
          BY <2>6, <4>1
        <5> QED
          BY <1>9, <2>1, <2>6, <2>11, <4>1, <5>1 DEF T, At
      <4>2. CASE k \in 1 .. T
        <5>1. frames'[k].dir = frames[k].dir /\ frames'[k].left \subseteq frames[k].left
          BY <2>6, <2>8, <2>9, <2>10, <2>11, <4>2 DEF fs, L, T
        <5> QED
          BY <1>3, <2>6, <4>2, <5>1 DEF WalkInv, fs
      <4>3. k = T + 1 \/ k \in 1 .. T
        BY <2>7, <2>8, <2>6
      <4> QED
        BY <4>1, <4>2, <4>3
    <3>5. Real(Base)' = Real(Base) /\ At(Base)' = At(Base) /\ DirsAt' = DirsAt
      BY <1>2, TreeKept
    <3> QED
      BY <1>2, <1>3, <1>9, <2>11, <3>1, <3>2, <3>3, <3>4, <3>5 DEF WalkInv
  <2>13. DepthInv'
    BY <1>1, <1>3, <1>4, <1>5, <1>9, <2>6, <2>11 DEF DepthInv, fs
  <2>14. DoneInv'
    <3>1. \A x : /\ Real(x)' = Real(x) /\ IsDir(x)' = IsDir(x)
      BY <1>2, TreeKept, DoneKept
    <3>2. \A x, k : EntryDone(x, k) => EntryDone(x, k)'
      BY <1>2, DoneKept
    <3>3. ASSUME NEW k \in 1 .. T + 1, NEW x \in tree[frames'[k].dir].entries \ frames'[k].left
          PROVE  Passed(x, k)'
      <4>1. CASE k = T + 1
        BY <2>6, <2>11, <3>3, <4>1 DEF At
      <4>2. CASE k \in 1 .. T
        <5>1. frames'[k].dir = frames[k].dir
          BY <2>6, <2>9, <2>11, <4>2 DEF fs
        <5>2. CASE x \in frames[k].left
          <6>1. k = T
            BY <2>6, <2>10, <2>11, <3>3, <4>2, <5>2 DEF fs
          <6>2. x \notin L
            BY <2>8, <2>11, <3>3, <4>2, <6>1
          <6>3. x = e
            BY <5>2, <6>1, <6>2 DEF L, T
          <6>4. k < Len(frames') /\ frames'[k + 1].dir = Real(e)
            BY <2>6, <2>11, <6>1
          <6> QED
            BY <1>3, <3>1, <6>3, <6>4 DEF Passed
        <5>3. CASE x \notin frames[k].left
          <6>1. Passed(x, k)
            BY <1>3, <2>6, <3>3, <4>2, <5>1, <5>3 DEF DoneInv, fs
          <6>2. CASE EntryDone(x, k)
            BY <3>2, <6>2 DEF Passed
          <6>3. CASE k < Len(frames) /\ IsDir(x) /\ Real(x) = frames[k + 1].dir
            <7>1. k + 1 \in 1 .. T /\ k < Len(frames')
              BY <2>6, <2>11, <4>2, <6>3 DEF fs
            <7>2. frames'[k + 1].dir = frames[k + 1].dir
              BY <2>6, <2>9, <2>11, <7>1 DEF fs
            <7> QED
              BY <3>1, <6>3, <7>1, <7>2 DEF Passed
          <6> QED
            BY <6>1, <6>2, <6>3 DEF Passed
        <5> QED
          BY <5>2, <5>3
      <4>3. k = T + 1 \/ k \in 1 .. T
        BY <2>7, <2>8, <2>6
      <4> QED
        BY <4>1, <4>2, <4>3
    <3> QED
      BY <1>2, <1>3, <1>9, <2>11, <3>3 DEF DoneInv
  <2>15. LoadInv'
    BY <1>3, <1>6, <1>9
  <2> QED
    BY <1>2, <1>3, <2>12, <2>13, <2>14, <2>15, NoResult DEF IInv
<1> QED
  BY <1>1, <1>7, <1>8, <1>9

\* The innermost directory is read when nothing of it is left.
LEMMA TopDone ==
  ASSUME WalkInv, DoneInv, calling = "parse", err = "SUCCESS", frames[Top].left = {}
  PROVE  DirDone(frames[Top].dir, Top - 1)
<1> USE ParserAssumption
<1>1. Top \in 1 .. Len(frames) /\ Top = Len(frames) /\ Len(frames) \in 1 .. MAX_CURRENT_DEPTH_PATH + 1
  BY DEF WalkInv, Top
<1>2. frames[Top] \in Frame
  BY <1>1 DEF WalkInv
<1>3. \A e \in tree[frames[Top].dir].entries : Passed(e, Top)
  BY <1>1 DEF DoneInv
<1>4. \A e \in tree[frames[Top].dir].entries : EntryDone(e, Top)
  BY <1>1, <1>3 DEF Passed
<1> DEFINE d == frames[Top].dir
           j == Top - 1
<1>5. d \in DOMAIN tree /\ tree[d].kind = "dir" /\ tree \in Trees
  BY <1>1, <1>2 DEF WalkInv, Frame, FrameOf
<1>6. j \in 0 .. MAX_CURRENT_DEPTH_PATH /\ j + 1 = Top
  BY <1>1
<1>7. \A e \in tree[d].entries : EntryDone(e, j + 1)
  BY <1>4, <1>6
<1> HIDE DEF d, j
<1>8. DirDone(d, j)
  BY <1>5, <1>6, <1>7, DirFromEntries
<1> QED
  BY <1>8 DEF d, j

\* The call for a subdirectory returns: the entry it was for is read.
LEMMA LeaveDirectoryKeeps ==
  ASSUME IInv, LeaveDirectory PROVE IInv'
<1> USE ParserAssumption
<1> DEFINE T == Top - 1
           hs == SubSeq(frames, 1, T)
           L == IF err = "SUCCESS" THEN hs[T].left ELSE {}
           D == DOMAIN tree
           F == FrameOf(D)
<1>1. /\ tree' = tree /\ calling' = calling /\ err' = err /\ result' = result /\ dbVars' = dbVars
      /\ yamlPaths' = yamlPaths /\ mCurrentDepthPathListing' = mCurrentDepthPathListing - 1
  BY DEF LeaveDirectory, DepthAfter
<1>2. calling = "parse" /\ Top > 1 /\ frames[Top].left = {} /\ WalkInv /\ DoneInv /\ LoadInv /\ DepthInv
  BY DEF LeaveDirectory, IInv
<1>3. frames' = WithLeft(hs, T, L)
  BY DEF LeaveDirectory, WithLeft
<1>4. /\ frames \in Seq(F) /\ T \in Nat /\ T + 1 = Len(frames) /\ T >= 1 /\ T + 1 = Top
      /\ T <= MAX_CURRENT_DEPTH_PATH /\ mCurrentDepthPathListing \in Nat /\ mCurrentDepthPathListing >= T
  BY <1>2 DEF WalkInv, Frame, Top
<1>5. hs \in Seq(F) /\ Len(hs) = T /\ \A k \in 1 .. T : hs[k] = frames[k]
  <2> HIDE DEF T, F
  <2> QED
    BY <1>4
<1>6. L \in SUBSET D /\ L \subseteq frames[T].left
  <2>1. hs[T] = frames[T] /\ frames[T] \in F
    BY <1>4, <1>5
  <2>2. hs[T].left \in SUBSET D
    BY <2>1 DEF FrameOf
  <2> HIDE DEF hs, T, D, F
  <2> QED
    BY <2>1, <2>2
<1>7. /\ err = "SUCCESS" => L = frames[T].left
      /\ err # "SUCCESS" => L = {}
  BY <1>4, <1>5
<1> DEFINE gs == frames'
<1>8. hs \in Seq(FrameOf(D)) /\ T \in 1 .. Len(hs) /\ gs = WithLeft(hs, T, L)
  BY <1>3, <1>4, <1>5
<1> HIDE DEF T, hs, L, D, F, gs
<1>9. gs \in Seq(FrameOf(D))
  BY <1>6, <1>8, SetLeft
<1>10. Len(gs) = Len(hs) /\ gs[T].left = L
  BY <1>6, <1>8, SetLeft
<1>11. \A k \in 1 .. Len(hs) : gs[k].dir = hs[k].dir
  BY <1>6, <1>8, SetLeft
<1>12. \A k \in 1 .. Len(hs) : k # T => gs[k].left = hs[k].left
  BY <1>6, <1>8, SetLeft
<1>13. /\ Len(frames') = T /\ frames'[T].left = L
       /\ \A k \in 1 .. T : frames'[k].dir = frames[k].dir
       /\ \A k \in 1 .. T : k # T => frames'[k].left = frames[k].left
  BY <1>5, <1>10, <1>11, <1>12 DEF gs
<1>14. WalkInv'
  <2>1. frames' \in Seq(Frame)'
    BY <1>1, <1>9 DEF gs, Frame, D
  <2>2. Len(frames') \in 1 .. MAX_CURRENT_DEPTH_PATH + 1
        /\ mCurrentDepthPathListing' >= Len(frames') - 1 /\ mCurrentDepthPathListing' \in Nat
    BY <1>1, <1>4, <1>13
  <2>3. ASSUME NEW k \in 1 .. T
        PROVE  /\ frames'[k].dir \in DirsAt[k - 1] /\ tree[frames'[k].dir].kind = "dir"
               /\ frames'[k].left \subseteq tree[frames'[k].dir].entries
    <3>1. frames'[k].dir = frames[k].dir /\ frames'[k].left \subseteq frames[k].left
      BY <1>6, <1>13
    <3>2. k \in 1 .. Len(frames)
      BY <1>4
    <3> QED
      BY <1>2, <3>1, <3>2 DEF WalkInv
  <2>4. frames'[1].dir = Real(Base)
    BY <1>2, <1>4, <1>13 DEF WalkInv
  <2>5. Real(Base)' = Real(Base) /\ At(Base)' = At(Base) /\ DirsAt' = DirsAt
    BY <1>1, TreeKept
  <2> QED
    BY <1>1, <1>2, <1>13, <2>1, <2>2, <2>3, <2>4, <2>5 DEF WalkInv
<1>15. DepthInv'
  <2>1. TooDeepTree' = TooDeepTree
    BY <1>1, TreeKept DEF TooDeepTree
  <2> QED
    BY <1>1, <1>2, <1>4, <1>13, <2>1 DEF DepthInv
<1>16. DoneInv'
  <2>1. CASE err # "SUCCESS"
    <3>1. ~Loadable'
      BY <1>1, <1>2, <2>1, TreeKept DEF DoneInv
    <3> QED
      BY <1>1, <1>7, <1>13, <2>1, <3>1 DEF DoneInv
  <2>2. CASE err = "SUCCESS"
    <3>1. DirDone(frames[T + 1].dir, T)
      <4>1. DirDone(frames[Top].dir, Top - 1)
        BY <1>2, <2>2, TopDone
      <4> QED
        BY <1>4, <4>1 DEF T
    <3>2. \A x : /\ Real(x)' = Real(x) /\ IsDir(x)' = IsDir(x)
      BY <1>1, TreeKept, DoneKept
    <3>3. \A x, k : EntryDone(x, k) => EntryDone(x, k)'
      BY <1>1, DoneKept
    <3>4. ASSUME NEW k \in 1 .. T, NEW x \in tree[frames'[k].dir].entries \ frames'[k].left
          PROVE  Passed(x, k)'
      <4>1. k \in 1 .. Len(frames) /\ x \in tree[frames[k].dir].entries \ frames[k].left
        BY <1>4, <1>7, <1>13, <2>2, <3>4
      <4>2. Passed(x, k)
        BY <1>2, <2>2, <4>1 DEF DoneInv
      <4>3. CASE EntryDone(x, k)
        BY <3>3, <4>3 DEF Passed
      <4>4. CASE k < T /\ IsDir(x) /\ Real(x) = frames[k + 1].dir
        <5>1. k + 1 \in 1 .. T /\ k < Len(frames')
          BY <1>4, <1>13, <4>4
        <5> QED
          BY <1>13, <3>2, <4>4, <5>1 DEF Passed
      <4>5. CASE k = T /\ IsDir(x) /\ Real(x) = frames[k + 1].dir
        <5>1. ~IsYaml(x)
          BY <4>5 DEF IsYaml, IsDir, At, Real
        <5>2. EntryDone(x, k)
          BY <3>1, <4>5, <5>1 DEF EntryDone
        <5> QED
          BY <3>3, <5>2 DEF Passed
      <4>6. k < Len(frames) => k < T \/ k = T
        BY <1>4
      <4> QED
        BY <4>2, <4>3, <4>4, <4>5, <4>6 DEF Passed
    <3> QED
      BY <1>1, <1>2, <1>13, <2>2, <3>4 DEF DoneInv
  <2> QED
    BY <2>1, <2>2
<1>17. LoadInv'
  BY <1>1, <1>2, LoadKept
<1> QED
  BY <1>1, <1>2, <1>14, <1>15, <1>16, <1>17, NoResult DEF IInv

\* After a walk without an error, what has been seen is what is on the disk.
LEMMA SeenIsAll ==
  ASSUME LoadInv, calling = "parse", \A y \in Yamls : FileDone(y)
  PROVE  yamlPaths = Yamls /\ Seen = Protocols
<1>1. yamlPaths = Yamls
  BY DEF LoadInv, FileDone
<1> QED
  BY <1>1 DEF LoadInv, Seen, Protocols

\* A file's only service is its own.
LEMMA ServiceKeys ==
  ASSUME NEW f PROVE Keys(ServiceItems(f)) = {ServiceOf(f)}
<1> DEFINE v == IF Has(f, "logic") THEN Text(Get(f, "logic")) ELSE NoName
           s == <<[key |-> ServiceOf(f), val |-> v]>>
<1>1. ServiceItems(f) = s
  BY DEF ServiceItems
<1> HIDE DEF v
<1>2. DOMAIN s = {1} /\ s[1].key = ServiceOf(f)
  OBVIOUS
<1> HIDE DEF s
<1> QED
  BY <1>1, <1>2 DEF Keys

\* parse() returns: the base path is read to the end, or there was an error.
LEMMA ParseReturnKeeps ==
  ASSUME IInv, ParseReturn PROVE IInv'
<1> USE ParserAssumption
<1>1. /\ tree' = tree /\ calling' = "no" /\ err' = err /\ result' = Outcome /\ dbVars' = dbVars
      /\ yamlPaths' = yamlPaths /\ mCurrentDepthPathListing' = mCurrentDepthPathListing /\ frames' = <<>>
  BY DEF ParseReturn
<1>2. /\ calling = "parse" /\ Top = 1 /\ frames[1].left = {} /\ WalkInv /\ DoneInv /\ LoadInv /\ DepthInv
      /\ Len(frames) = 1
  BY DEF ParseReturn, IInv, Top
<1>3. WalkInv'
  <2>1. <<>> \in Seq(Frame') /\ Len(<<>>) = 0 /\ \A k \in 1 .. 0 : FALSE
    OBVIOUS
  <2> QED
    BY <1>1, <1>2, <2>1 DEF WalkInv
<1>4. DepthInv'
  <2>1. TooDeepTree' = TooDeepTree
    BY <1>1, TreeKept DEF TooDeepTree
  <2> QED
    BY <1>1, <1>2, <2>1 DEF DepthInv
<1>5. DoneInv'
  BY <1>1 DEF DoneInv
<1>6. LoadInv'
  BY <1>1, <1>2, LoadKept
<1>7. Loadable' = Loadable /\ Protocols' = Protocols
  BY <1>1, TreeKept
<1>8. CASE err # "SUCCESS"
  <2>1. ~Loadable /\ result' # "SUCCESS"
    BY <1>1, <1>2, <1>8 DEF DoneInv, Outcome
  <2>2. OutcomeByTree' /\ EverythingLoaded'
    BY <1>7, <2>1 DEF OutcomeByTree, EverythingLoaded
  <2> QED
    BY <1>3, <1>4, <1>5, <1>6, <2>2 DEF IInv
<1>9. CASE err = "SUCCESS"
  <2>1. DirDone(Real(Base), 0)
    <3>1. DirDone(frames[Top].dir, Top - 1)
      BY <1>2, <1>9, TopDone
    <3>2. frames[1].dir = Real(Base) /\ 1 - 1 = 0
      BY <1>2 DEF WalkInv
    <3> QED
      BY <1>2, <3>1, <3>2
  <2>2. /\ \A y \in Yamls : FileDone(y)
        /\ Loadable <=> \E root \in Protocols : ServiceOf(root) # NoName
    BY <1>2, <2>1, BaseDone DEF WalkInv
  <2>3. yamlPaths = Yamls /\ Seen = Protocols
    BY <1>2, <2>2, SeenIsAll
  <2>4. /\ DOMAIN mDbVars = (UNION {Keys(VarItems(f)) : f \in Protocols}) \ {NoName}
        /\ DOMAIN mDbIfproto = (UNION {Keys(InterfaceItems(f)) : f \in Protocols}) \ {NoName}
        /\ DOMAIN mDbServices = (UNION {Keys(ServiceItems(f)) : f \in Protocols}) \ {NoName}
    BY <1>2, <2>3 DEF LoadInv, SeenVars, SeenInterfaces, SeenServices
  <2>5. EverythingLoaded'
    BY <1>1, <1>7, <2>4 DEF EverythingLoaded, dbVars
  <2>6. \A f : Keys(ServiceItems(f)) = {ServiceOf(f)}
    BY ServiceKeys
  <2>7. DOMAIN mDbServices # {} <=> \E root \in Protocols : ServiceOf(root) # NoName
    <3> DEFINE none == NoName
    <3> HIDE DEF none
    <3>1. DOMAIN mDbServices = (UNION {Keys(ServiceItems(f)) : f \in Protocols}) \ {none}
      BY <2>4 DEF none
    <3>2. \A k : k \in DOMAIN mDbServices <=> k # none /\ \E f \in Protocols : k \in Keys(ServiceItems(f))
      BY <3>1
    <3>3. DOMAIN mDbServices # {} <=> \E root \in Protocols : ServiceOf(root) # none
      BY <2>6, <3>2
    <3> QED
      BY <3>3 DEF none
  <2>8. (\E root \in Protocols : ServiceOf(root) # NoName) => yamlPaths # {}
    BY <2>3 DEF Protocols
  <2>9. result' = "SUCCESS" <=> Loadable
    BY <1>1, <1>9, <2>2, <2>7, <2>8 DEF Outcome
  <2>10. OutcomeByTree'
    BY <1>7, <2>9 DEF OutcomeByTree
  <2> QED
    BY <1>3, <1>4, <1>5, <1>6, <2>5, <2>10 DEF IInv
<1> QED
  BY <1>8, <1>9

\* parse() is called.
LEMMA ParseKeeps ==
  ASSUME IInv, Parse PROVE IInv'
<1> USE ParserAssumption
<1>1. /\ tree' = tree /\ dbVars' = dbVars /\ yamlPaths' = yamlPaths
      /\ mCurrentDepthPathListing' = mCurrentDepthPathListing /\ calling = "no"
  BY DEF Parse
<1>2. WalkInv /\ DepthInv /\ LoadInv /\ frames = <<>> /\ mCurrentDepthPathListing \in Nat /\ tree \in Trees
      /\ err \in {"SUCCESS", "UNEXPECTED"}
  BY <1>1 DEF IInv, WalkInv
<1>3. LoadInv'
  BY <1>1, <1>2, LoadKept
<1>4. TooDeepTree' = TooDeepTree /\ Loadable' = Loadable
  BY <1>1, TreeKept DEF TooDeepTree
<1>5. ASSUME frames' = <<>>, calling' \in {"no", "never"}, err' = err
      PROVE  WalkInv' /\ DepthInv' /\ DoneInv'
  <2>1. <<>> \in Seq(Frame') /\ Len(<<>>) = 0 /\ \A k \in 1 .. 0 : FALSE
    OBVIOUS
  <2>2. WalkInv'
    BY <1>1, <1>2, <1>5, <2>1 DEF WalkInv
  <2>3. DepthInv' /\ DoneInv'
    BY <1>1, <1>2, <1>4, <1>5 DEF DepthInv, DoneInv
  <2> QED
    BY <2>2, <2>3
<1>6. CASE /\ Base \notin DOMAIN tree /\ result' = "INVALID_INPUT" /\ UNCHANGED <<calling, frames, err>>
  <2>1. ~Loadable
    BY <1>6 DEF Loadable
  <2>2. OutcomeByTree' /\ EverythingLoaded'
    BY <1>4, <1>6, <2>1 DEF OutcomeByTree, EverythingLoaded
  <2> QED
    BY <1>1, <1>2, <1>3, <1>5, <1>6, <2>2 DEF IInv
<1>7. CASE /\ Base \in DOMAIN tree /\ At(Base).kind # "dir"
           /\ calling' = "never" /\ result' = "none" /\ UNCHANGED <<frames, err>>
  <2>1. OutcomeByTree' /\ EverythingLoaded'
    BY <1>7 DEF OutcomeByTree, EverythingLoaded
  <2> QED
    BY <1>2, <1>3, <1>5, <1>7, <2>1 DEF IInv
<1>8. CASE /\ Base \in DOMAIN tree /\ At(Base).kind = "dir"
           /\ frames' = <<[dir |-> Real(Base), left |-> At(Base).entries]>>
           /\ calling' = "parse" /\ err' = "SUCCESS" /\ result' = "none"
  <2> DEFINE r == [dir |-> Real(Base), left |-> At(Base).entries]
  <2>1. OutcomeByTree' /\ EverythingLoaded'
    BY <1>8 DEF OutcomeByTree, EverythingLoaded
  <2>2. Real(Base) \in DOMAIN tree /\ DirsAt[0] = {Real(Base)}
    BY <1>2, <1>8, RealIn, DirsAtDef
  <2>3. r \in Frame /\ r.dir = Real(Base) /\ r.left = tree[Real(Base)].entries
    BY <1>2, <1>8, <2>2, TreesAssumption DEF Frame, FrameOf, At
  <2>4. frames' = <<r>> /\ Frame' = Frame
    BY <1>1, <1>8 DEF Frame
  <2> HIDE DEF r
  <2>5. frames' \in Seq(Frame) /\ Len(frames') = 1 /\ frames'[1] = r
    BY <2>3, <2>4
  <2>6. Real(Base)' = Real(Base) /\ At(Base)' = At(Base) /\ DirsAt' = DirsAt
    BY <1>1, TreeKept
  <2>7. \A k \in 1 .. 1 : k = 1 /\ k - 1 = 0
    OBVIOUS
  <2>8. WalkInv'
    <3>1. \A k \in 1 .. 1 : /\ frames'[k].dir \in DirsAt[k - 1] /\ tree[frames'[k].dir].kind = "dir"
                            /\ frames'[k].left \subseteq tree[frames'[k].dir].entries
      BY <1>8, <2>2, <2>3, <2>5, <2>7 DEF At
    <3>2. 1 \in 1 .. MAX_CURRENT_DEPTH_PATH + 1 /\ mCurrentDepthPathListing >= 1 - 1
      BY <1>2
    <3> QED
      BY <1>1, <1>2, <1>8, <2>3, <2>4, <2>5, <2>6, <3>1, <3>2 DEF WalkInv
  <2>9. DepthInv'
    BY <1>1, <1>2, <1>4, <1>8, <2>5 DEF DepthInv
  <2>10. DoneInv'
    BY <1>1, <1>8, <2>3, <2>5, <2>7 DEF DoneInv
  <2> QED
    BY <1>3, <2>1, <2>8, <2>9, <2>10 DEF IInv
<1> QED
  BY <1>6, <1>7, <1>8 DEF Parse

\* The invariant holds before the first call.
LEMMA InitInv ==
  ASSUME Init PROVE IInv
<1>1. WalkInv
  <2>1. <<>> \in Seq(Frame) /\ Len(<<>>) = 0 /\ \A k \in 1 .. 0 : FALSE
    OBVIOUS
  <2> QED
    BY <2>1 DEF Init, WalkInv
<1>2. DepthInv /\ DoneInv /\ OutcomeByTree /\ EverythingLoaded
  BY DEF Init, DepthInv, DoneInv, OutcomeByTree, EverythingLoaded
<1>3. LoadInv
  <2>1. Seen = {}
    BY DEF Init, Seen
  <2>2. SeenVars = {} /\ SeenInterfaces = {} /\ SeenServices = {}
    BY <2>1 DEF SeenVars, SeenInterfaces, SeenServices
  <2>3. DOMAIN EmptyDb = {}
    BY DEF EmptyDb
  <2> QED
    BY <2>2, <2>3 DEF Init, LoadInv
<1> QED
  BY <1>1, <1>2, <1>3 DEF IInv

\* A step of somebody else changes nothing.
LEMMA StutterKeeps ==
  ASSUME IInv, UNCHANGED vars PROVE IInv'
<1>1. /\ tree' = tree /\ calling' = calling /\ frames' = frames /\ err' = err /\ result' = result
      /\ mCurrentDepthPathListing' = mCurrentDepthPathListing /\ yamlPaths' = yamlPaths /\ dbVars' = dbVars
  BY DEF vars
<1>2. \A d : DirsFrom(d)' = DirsFrom(d)
  BY <1>1, TreeKept
<1>3. /\ DirsAt' = DirsAt /\ Yamls' = Yamls /\ Protocols' = Protocols /\ Loadable' = Loadable
      /\ Real(Base)' = Real(Base) /\ At(Base)' = At(Base)
  BY <1>1, TreeKept
<1>4. WalkInv'
  BY <1>1, <1>3 DEF IInv, WalkInv, Frame
<1>5. TooDeepTree' = TooDeepTree
  BY <1>1, <1>3 DEF TooDeepTree
<1>6. DepthInv'
  BY <1>1, <1>5 DEF IInv, DepthInv
<1>7. \A x : Real(x)' = Real(x) /\ IsDir(x)' = IsDir(x)
  BY <1>1, TreeKept, DoneKept
<1>8. \A x, k : EntryDone(x, k) => EntryDone(x, k)'
  BY <1>1, DoneKept
<1>9. \A x, k : Passed(x, k) => Passed(x, k)'
  BY <1>1, <1>7, <1>8 DEF Passed
<1>10. DoneInv'
  BY <1>1, <1>3, <1>9 DEF IInv, DoneInv
<1>11. LoadInv'
  BY <1>1, LoadKept DEF IInv
<1>12. OutcomeByTree' /\ EverythingLoaded'
  BY <1>1, <1>3 DEF IInv, OutcomeByTree, EverythingLoaded, dbVars
<1> QED
  BY <1>4, <1>6, <1>10, <1>11, <1>12 DEF IInv

\* The invariant is inductive.
LEMMA Inductive == Spec => []IInv
<1>1. Init => IInv
  BY InitInv
<1>2. IInv /\ [Next]_vars => IInv'
  BY SkipKeeps, ParseFileKeeps, EnterDirectoryKeeps, LeaveDirectoryKeeps, ParseReturnKeeps,
     ParseKeeps, StutterKeeps DEF Next, Step
<1> QED
  BY <1>1, <1>2, PTL DEF Spec

\* parse() succeeds exactly when the tree is loadable: whatever the order in
\* which directories list their entries and whatever earlier calls have left in
\* mCurrentDepthPathListing and the databases (listProtocolFiles).
THEOREM OutcomeIsTheTrees == Spec => []OutcomeByTree
<1>1. IInv => OutcomeByTree
  BY DEF IInv
<1> QED
  BY <1>1, Inductive, PTL

\* After a successful parse() the databases have exactly the names that the
\* protocol files within the limit declare: none is missed by the walk, none is
\* left over from a file that is no protocol (parseProtocolFile).
THEOREM AllIsLoaded == Spec => []EverythingLoaded
<1>1. IInv => EverythingLoaded
  BY DEF IInv
<1> QED
  BY <1>1, Inductive, PTL
-----------------------------------------------------------------------------
(* YAML nodes *)

\* A non-empty set of natural numbers has a first one.
LEMMA FirstIn ==
  ASSUME NEW S \in SUBSET Nat, S # {}
  PROVE  First(S) \in S /\ \A j \in S : First(S) <= j
BY NatMinimum DEF First

\* What is below a key is a node.
LEMMA GetNode ==
  ASSUME NEW n \in Nodes, NEW k, Has(n, k)
  PROVE  Get(n, k) \in Nodes
<1> DEFINE Item == [key : STRING, node : Nodes]
<1>1. n.t = "map" /\ n.items \in Seq(Item) /\ KeyAt(n, k) # {}
  BY NodesAssumption DEF Has
<1>2. KeyAt(n, k) \subseteq 1 .. Len(n.items) /\ KeyAt(n, k) \in SUBSET Nat
  BY <1>1 DEF KeyAt
<1>3. First(KeyAt(n, k)) \in KeyAt(n, k)
  BY <1>1, <1>2, FirstIn
<1>4. First(KeyAt(n, k)) \in 1 .. Len(n.items)
  BY <1>2, <1>3
<1>5. n.items[First(KeyAt(n, k))] \in Item
  <2> HIDE DEF Item
  <2> QED
    BY <1>1, <1>4
<1> QED
  BY <1>5 DEF Get

\* The items of a list are nodes.
LEMMA ListNodes ==
  ASSUME NEW n \in Nodes, NEW k
  PROVE  ListAt(n, k) \in Seq(Nodes)
<1>1. CASE Has(n, k) /\ Get(n, k).t = "list"
  BY <1>1, GetNode, NodesAssumption DEF ListAt
<1>2. CASE ~(Has(n, k) /\ Get(n, k).t = "list")
  BY <1>2 DEF ListAt
<1> QED
  BY <1>1, <1>2
-----------------------------------------------------------------------------
(* What it means that the validator counts no error *)

\* The number of keys that are not allowed.
LEMMA KeysCounted ==
  ASSUME NEW n \in Nodes, n.t = "map", NEW allowed
  PROVE  CheckAllowedKeys(n, allowed) \in Nat
<1> DEFINE Item == [key : STRING, node : Nodes]
           S == {i \in DOMAIN n.items : n.items[i].key \notin allowed}
<1>1. n.items \in Seq(Item)
  BY NodesAssumption
<1>2. S \subseteq 1 .. Len(n.items) /\ Len(n.items) \in Nat
  BY <1>1
<1>3. IsFiniteSet(1 .. Len(n.items))
  BY <1>2, FS_Interval
<1>4. IsFiniteSet(S)
  BY <1>2, <1>3, FS_Subset
<1>5. Cardinality(S) \in Nat
  BY <1>4, FS_CardinalityType
<1> QED
  BY <1>5 DEF CheckAllowedKeys

\* No error below "expected": whatever is there is a plain number, or a list of them.
LEMMA ExpectedErrors ==
  ASSUME NEW e \in Nodes
  PROVE  /\ ValidateExpected(e) \in Nat
         /\ ValidateExpected(e) = 0 =>
              /\ e.t = "map"
              /\ Has(e, "value") => IsUintScalar(Get(e, "value"))
              /\ Has(e, "values") => IsUintList(Get(e, "values"))
              /\ Has(e, "range") => IsUintList(Get(e, "range")) /\ Len(ListAt(e, "range")) = 2
              /\ Has(e, "mask") => IsUintList(Get(e, "mask")) /\ Len(ListAt(e, "mask")) = 1
<1>1. CASE e.t # "map"
  BY <1>1 DEF ValidateExpected
<1>2. CASE e.t = "map"
  <2> DEFINE p1 == Has(e, "value") /\ ~IsUintScalar(Get(e, "value"))
             p2 == Has(e, "values") /\ (~IsUintList(Get(e, "values")) \/ ListAt(e, "values") = <<>>)
             p3 == Has(e, "range") /\ (~IsUintList(Get(e, "range")) \/ Len(ListAt(e, "range")) # 2)
             p4 == Has(e, "mask") /\ (~IsUintList(Get(e, "mask")) \/ Len(ListAt(e, "mask")) # 1)
             i1 == If(p1)
             i2 == If(p2)
             i3 == If(p3)
             i4 == If(p4)
             c == CheckAllowedKeys(e, {"value", "values", "range", "mask"})
  <2>1. ValidateExpected(e) = c + i1 + i2 + i3 + i4
    BY <1>2 DEF ValidateExpected
  <2>2. c \in Nat
    BY <1>2, KeysCounted
  <2>3. i1 \in Nat /\ i2 \in Nat /\ i3 \in Nat /\ i4 \in Nat
    BY DEF If
  <2>4. (i1 = 0 => ~p1) /\ (i2 = 0 => ~p2) /\ (i3 = 0 => ~p3) /\ (i4 = 0 => ~p4)
    BY DEF If
  <2> HIDE DEF c, i1, i2, i3, i4
  <2>5. ValidateExpected(e) \in Nat /\ (ValidateExpected(e) = 0 => i1 = 0 /\ i2 = 0 /\ i3 = 0 /\ i4 = 0)
    BY <2>1, <2>2, <2>3
  <2> QED
    BY <1>2, <2>4, <2>5
<1> QED
  BY <1>1, <1>2

\* No error in a variable: a name, a size within the limits, and none below it.
LEMMA VarErrors ==
  ASSUME NEW v \in Nodes
  PROVE  /\ ValidateVar(v) \in Nat
         /\ ValidateVar(v) = 0 =>
              /\ v.t = "map" /\ ~Lacks(v, "var") /\ SizeOk(v)
              /\ Has(v, "expected") => ValidateExpected(Get(v, "expected")) = 0
<1>1. CASE v.t # "map"
  BY <1>1 DEF ValidateVar
<1>2. CASE v.t = "map"
  <2> DEFINE p1 == Lacks(v, "var")
             p2 == ~SizeOk(v)
             c == CheckAllowedKeys(v, {"var", "size", "expected"})
             i1 == If(p1)
             i2 == If(p2)
             x == IF Has(v, "expected") THEN ValidateExpected(Get(v, "expected")) ELSE 0
  <2>1. ValidateVar(v) = c + i1 + i2 + x
    BY <1>2 DEF ValidateVar
  <2>2. c \in Nat
    BY <1>2, KeysCounted
  <2>3. x \in Nat
    BY GetNode, ExpectedErrors
  <2>4. i1 \in Nat /\ i2 \in Nat /\ (i1 = 0 => ~p1) /\ (i2 = 0 => ~p2)
    BY DEF If
  <2>5. ValidateVar(v) \in Nat /\ (ValidateVar(v) = 0 => i1 = 0 /\ i2 = 0 /\ x = 0)
    <3> HIDE DEF i1, i2, c, x
    <3> QED
      BY <2>1, <2>2, <2>3, <2>4
  <2> QED
    BY <1>2, <2>4, <2>5
<1> QED
  BY <1>1, <1>2

\* No error in a list of variables: none in any of them.
LEMMA VarsErrors ==
  ASSUME NEW vs \in Seq(Nodes)
  PROVE  LET n == Sum([i \in DOMAIN vs |-> ValidateVar(vs[i])])
         IN  n \in Nat /\ (n = 0 => \A i \in DOMAIN vs : ValidateVar(vs[i]) = 0)
<1> DEFINE s == [i \in DOMAIN vs |-> ValidateVar(vs[i])]
<1>1. DOMAIN vs = 1 .. Len(vs) /\ Len(vs) \in Nat /\ \A i \in DOMAIN vs : vs[i] \in Nodes
  OBVIOUS
<1>2. \A i \in DOMAIN vs : ValidateVar(vs[i]) \in Nat
  BY <1>1, VarErrors
<1>3. s \in Seq(Nat) /\ Len(s) = Len(vs)
  BY <1>1, <1>2
<1>4. Sum(s) \in Nat /\ (Sum(s) = 0 => \A i \in 1 .. Len(s) : s[i] = 0)
  BY <1>3, SumZero
<1> QED
  BY <1>1, <1>3, <1>4

\* No error in a list of references: all are references, although the loop stops at
\* the first that is none.
LEMMA RefsErrors ==
  ASSUME NEW refs \in Seq(Nodes)
  PROVE  /\ ValidateRefs(refs) \in Nat
         /\ ValidateRefs(refs) = 0 => \A i \in DOMAIN refs : IsRef(refs[i])
<1> DEFINE bad == {i \in DOMAIN refs : ~IsRef(refs[i])}
           before == {i \in DOMAIN refs : \A j \in bad : i < j}
           s == [i \in before |-> CheckAllowedKeys(refs[i], {"var_ref"})]
           b == If(bad # {})
<1>1. DOMAIN refs = 1 .. Len(refs) /\ Len(refs) \in Nat /\ \A i \in DOMAIN refs : refs[i] \in Nodes
  OBVIOUS
<1>2. \E n \in Nat : before = 1 .. n
  <2>1. CASE bad = {}
    BY <1>1, <2>1
  <2>2. CASE bad # {}
    <3>1. bad \in SUBSET Nat /\ bad \subseteq 1 .. Len(refs)
      BY <1>1
    <3>2. PICK x \in bad : \A y \in bad : x <= y
      BY <2>2, <3>1, NatMinimum
    <3>3. x \in 1 .. Len(refs)
      BY <3>1
    <3>4. before = 1 .. x - 1
      <4>1. ASSUME NEW i \in before PROVE i \in 1 .. x - 1
        BY <1>1, <3>1, <3>3
      <4>2. ASSUME NEW i \in 1 .. x - 1 PROVE i \in before
        <5>1. i \in 1 .. Len(refs)
          BY <1>1, <3>3
        <5>2. ASSUME NEW j \in bad PROVE i < j
          <6>1. x <= j /\ j \in 1 .. Len(refs)
            BY <3>1, <3>2
          <6> HIDE DEF bad
          <6> QED
            BY <1>1, <3>3, <6>1
        <5> QED
          BY <1>1, <5>1, <5>2
      <4> QED
        BY <4>1, <4>2
    <3>5. x - 1 \in Nat
      BY <1>1, <3>3
    <3> QED
      BY <3>4, <3>5
  <2> QED
    BY <2>1, <2>2
<1>3. ASSUME NEW i \in before PROVE CheckAllowedKeys(refs[i], {"var_ref"}) \in Nat
  <2>1. i \in DOMAIN refs /\ i \notin bad
    BY <1>1
  <2>2. refs[i] \in Nodes /\ refs[i].t = "map"
    BY <1>1, <2>1 DEF IsRef, Has
  <2> QED
    BY <2>2, KeysCounted
<1>4. s \in Seq(Nat)
  <2>1. PICK n \in Nat : before = 1 .. n
    BY <1>2
  <2> HIDE DEF before
  <2> QED
    BY <1>3, <2>1
<1>5. Sum(s) \in Nat
  BY <1>4, SumZero
<1>6. ValidateRefs(refs) = Sum(s) + b
  BY DEF ValidateRefs
<1>7. b \in Nat /\ (b = 0 => bad = {})
  BY DEF If
<1>8. ValidateRefs(refs) \in Nat /\ (ValidateRefs(refs) = 0 => b = 0)
  <2> HIDE DEF s, b
  <2> QED
    BY <1>5, <1>6, <1>7
<1> QED
  BY <1>7, <1>8

\* No error in an interface: a name, a direction, and nothing but references.
LEMMA InterfaceErrors ==
  ASSUME NEW x \in Nodes
  PROVE  /\ ValidateInterface(x) \in Nat
         /\ ValidateInterface(x) = 0 =>
              /\ x.t = "map" /\ ~Lacks(x, "interface")
              /\ Has(x, "dir") /\ Text(Get(x, "dir")) \in {<<"in">>, <<"out">>}
              /\ Has(x, "vars") => /\ Get(x, "vars").t = "list"
                                   /\ \A i \in DOMAIN ListAt(x, "vars") : IsRef(ListAt(x, "vars")[i])
<1>1. CASE x.t # "map"
  BY <1>1 DEF ValidateInterface
<1>2. CASE x.t = "map"
  <2> DEFINE p1 == Lacks(x, "interface")
             p2 == ~Has(x, "dir") \/ Text(Get(x, "dir")) \notin {<<"in">>, <<"out">>}
             i1 == If(p1)
             i2 == If(p2)
             c == CheckAllowedKeys(x, {"interface", "dir", "vars"})
             r == CASE ~Has(x, "vars") -> 0
                    [] Get(x, "vars").t # "list" -> 1
                    [] OTHER -> ValidateRefs(ListAt(x, "vars"))
  <2>1. ValidateInterface(x) = c + i1 + i2 + r
    BY <1>2 DEF ValidateInterface
  <2>2. c \in Nat
    BY <1>2, KeysCounted
  <2>3. i1 \in Nat /\ i2 \in Nat /\ (i1 = 0 => ~p1) /\ (i2 = 0 => ~p2)
    BY DEF If
  <2>4. ListAt(x, "vars") \in Seq(Nodes)
    BY ListNodes
  <2>5. /\ r \in Nat
        /\ r = 0 /\ Has(x, "vars") =>
             /\ Get(x, "vars").t = "list"
             /\ \A i \in DOMAIN ListAt(x, "vars") : IsRef(ListAt(x, "vars")[i])
    <3>1. CASE ~Has(x, "vars")
      BY <3>1
    <3>2. CASE Has(x, "vars") /\ Get(x, "vars").t # "list"
      <4>1. r = 1
        BY <3>2
      <4> QED
        BY <4>1
    <3>3. CASE Has(x, "vars") /\ Get(x, "vars").t = "list"
      <4>1. r = ValidateRefs(ListAt(x, "vars"))
        BY <3>3
      <4> QED
        BY <2>4, <3>3, <4>1, RefsErrors
    <3> QED
      BY <3>1, <3>2, <3>3
  <2>6. ValidateInterface(x) \in Nat /\ (ValidateInterface(x) = 0 => i1 = 0 /\ i2 = 0 /\ r = 0)
    <3> HIDE DEF i1, i2, c, r
    <3> QED
      BY <2>1, <2>2, <2>3, <2>5
  <2> QED
    BY <1>2, <2>3, <2>5, <2>6
<1> QED
  BY <1>1, <1>2

\* No error in an entity: a name, and none in any interface.
LEMMA EntityErrors ==
  ASSUME NEW e \in Nodes
  PROVE  /\ ValidateEntity(e) \in Nat
         /\ ValidateEntity(e) = 0 =>
              /\ e.t = "map" /\ ~Lacks(e, "entity")
              /\ \A i \in DOMAIN ListAt(e, "interfaces") : ValidateInterface(ListAt(e, "interfaces")[i]) = 0
<1> DEFINE xs == ListAt(e, "interfaces")
           s == [i \in DOMAIN xs |-> ValidateInterface(xs[i])]
<1>1. CASE e.t # "map"
  BY <1>1 DEF ValidateEntity
<1>2. CASE e.t = "map"
  <2> DEFINE p1 == Lacks(e, "entity")
             i1 == If(p1)
             i2 == If(xs = <<>>)
             c == CheckAllowedKeys(e, {"entity", "interfaces"})
  <2>1. ValidateEntity(e) = c + i1 + i2 + Sum(s)
    BY <1>2 DEF ValidateEntity
  <2>2. c \in Nat
    BY <1>2, KeysCounted
  <2>3. i1 \in Nat /\ i2 \in Nat /\ (i1 = 0 => ~p1)
    BY DEF If
  <2>4. xs \in Seq(Nodes)
    BY ListNodes
  <2> HIDE DEF xs
  <2>5. DOMAIN xs = 1 .. Len(xs) /\ Len(xs) \in Nat /\ \A i \in DOMAIN xs : xs[i] \in Nodes
    BY <2>4
  <2>6. \A i \in DOMAIN xs : ValidateInterface(xs[i]) \in Nat
    BY <2>5, InterfaceErrors
  <2>7. s \in Seq(Nat) /\ Len(s) = Len(xs)
    BY <2>5, <2>6
  <2>8. Sum(s) \in Nat /\ (Sum(s) = 0 => \A i \in 1 .. Len(s) : s[i] = 0)
    BY <2>7, SumZero
  <2>9. ValidateEntity(e) \in Nat /\ (ValidateEntity(e) = 0 => i1 = 0 /\ Sum(s) = 0)
    <3> HIDE DEF i1, i2, c, s
    <3> QED
      BY <2>1, <2>2, <2>3, <2>8
  <2>10. Sum(s) = 0 => \A i \in DOMAIN xs : ValidateInterface(xs[i]) = 0
    BY <2>5, <2>7, <2>8
  <2> QED
    BY <1>2, <2>3, <2>9, <2>10 DEF xs
<1> QED
  BY <1>1, <1>2

\* No error in a file: a service, and no error in any part of it.
LEMMA ProtocolErrors ==
  ASSUME NEW root \in Nodes
  PROVE  /\ ValidateProtocolFile(root) \in Nat
         /\ ValidateProtocolFile(root) = 0 =>
              /\ root.t = "map" /\ ~Lacks(root, "service")
              /\ \A i \in DOMAIN ListAt(root, "vars") : ValidateVar(ListAt(root, "vars")[i]) = 0
              /\ \A i \in DOMAIN ListAt(root, "entities") :
                   ValidateEntity(ListAt(root, "entities")[i]) = 0
<1> DEFINE vs == ListAt(root, "vars")
           es == ListAt(root, "entities")
           NoList(k) == Has(root, k) /\ Get(root, k).t # "list"
           s == [i \in DOMAIN vs |-> ValidateVar(vs[i])]
           t == [i \in DOMAIN es |-> ValidateEntity(es[i])]
           c == CheckAllowedKeys(root, {"service", "logic", "vars", "entities"})
           i1 == If(ServiceMissing(root))
           i2 == If(Has(root, "logic") /\ Lacks(root, "logic"))
           i3 == If(~Has(root, "vars") /\ ~Has(root, "entities"))
           i4 == If(NoList("vars"))
           i5 == If(NoList("entities"))
<1>1. CASE root.t # "map"
  BY <1>1 DEF ValidateProtocolFile
<1>2. CASE root.t = "map"
  <2>1. ValidateProtocolFile(root) = c + i1 + i2 + i3 + i4 + Sum(s) + i5 + Sum(t)
    BY <1>2 DEF ValidateProtocolFile
  <2>2. c \in Nat
    BY <1>2, KeysCounted
  <2>3. i1 \in Nat /\ i2 \in Nat /\ i3 \in Nat /\ i4 \in Nat /\ i5 \in Nat
    BY DEF If
  <2>4. i1 = 0 => ~Lacks(root, "service")
    BY DEF If, ServiceMissing
  <2>5. vs \in Seq(Nodes) /\ es \in Seq(Nodes)
    BY ListNodes
  <2> HIDE DEF vs, es
  <2>6. Sum(s) \in Nat /\ (Sum(s) = 0 => \A i \in DOMAIN vs : ValidateVar(vs[i]) = 0)
    BY <2>5, VarsErrors
  <2>7. DOMAIN es = 1 .. Len(es) /\ Len(es) \in Nat /\ \A i \in DOMAIN es : es[i] \in Nodes
    BY <2>5
  <2>8. \A i \in DOMAIN es : ValidateEntity(es[i]) \in Nat
    BY <2>7, EntityErrors
  <2>9. t \in Seq(Nat) /\ Len(t) = Len(es)
    BY <2>7, <2>8
  <2>10. Sum(t) \in Nat /\ (Sum(t) = 0 => \A i \in 1 .. Len(t) : t[i] = 0)
    BY <2>9, SumZero
  <2>11. Sum(t) = 0 => \A i \in DOMAIN es : ValidateEntity(es[i]) = 0
    BY <2>7, <2>9, <2>10
  <2>12. /\ ValidateProtocolFile(root) \in Nat
         /\ ValidateProtocolFile(root) = 0 => i1 = 0 /\ Sum(s) = 0 /\ Sum(t) = 0
    <3> HIDE DEF i1, i2, i3, i4, i5, c, s, t
    <3> QED
      BY <2>1, <2>2, <2>3, <2>6, <2>10
  <2> QED
    BY <1>2, <2>4, <2>6, <2>11, <2>12 DEF vs, es
<1> QED
  BY <1>1, <1>2

\* No error in a stack file: a name, layers, and in each layer a service.
LEMMA StackErrors ==
  ASSUME NEW root \in Nodes
  PROVE  /\ ValidateStackFile(root) \in Nat
         /\ ValidateStackFile(root) = 0 =>
              /\ root.t = "map" /\ ~Lacks(root, "stack") /\ ListAt(root, "layers") # <<>>
              /\ \A i \in DOMAIN ListAt(root, "layers") : ~Lacks(ListAt(root, "layers")[i], "service")
<1> DEFINE ys == ListAt(root, "layers")
           s == [i \in DOMAIN ys |-> ValidateLayer(ys[i])]
           c == CheckAllowedKeys(root, {"stack", "layers"})
           i1 == If(Lacks(root, "stack"))
           i2 == If(ys = <<>>)
<1>1. CASE root.t # "map"
  BY <1>1 DEF ValidateStackFile
<1>2. CASE root.t = "map"
  <2>1. ValidateStackFile(root) = c + i1 + i2 + Sum(s)
    BY <1>2 DEF ValidateStackFile
  <2>2. c \in Nat
    BY <1>2, KeysCounted
  <2>3. i1 \in Nat /\ i2 \in Nat /\ (i1 = 0 => ~Lacks(root, "stack")) /\ (i2 = 0 => ys # <<>>)
    BY DEF If
  <2>4. ys \in Seq(Nodes)
    BY ListNodes
  <2> HIDE DEF ys
  <2>5. DOMAIN ys = 1 .. Len(ys) /\ Len(ys) \in Nat /\ \A i \in DOMAIN ys : ys[i] \in Nodes
    BY <2>4
  <2>6. ASSUME NEW i \in DOMAIN ys
        PROVE  ValidateLayer(ys[i]) \in Nat /\ (ValidateLayer(ys[i]) = 0 => ~Lacks(ys[i], "service"))
    <3>1. ys[i] \in Nodes
      BY <2>5
    <3>2. CASE ys[i].t # "map"
      BY <3>2 DEF ValidateLayer
    <3>3. CASE ys[i].t = "map"
      <4> DEFINE d == CheckAllowedKeys(ys[i], {"service", "entity", "interface", "bypass-logic"})
                 j == If(Lacks(ys[i], "service"))
      <4>1. ValidateLayer(ys[i]) = d + j
        BY <3>3 DEF ValidateLayer
      <4>2. d \in Nat
        BY <3>1, <3>3, KeysCounted
      <4>3. j \in Nat /\ (j = 0 => ~Lacks(ys[i], "service"))
        BY DEF If
      <4> HIDE DEF d, j
      <4> QED
        BY <4>1, <4>2, <4>3
    <3> QED
      BY <3>2, <3>3
  <2>7. s \in Seq(Nat) /\ Len(s) = Len(ys)
    BY <2>5, <2>6
  <2>8. Sum(s) \in Nat /\ (Sum(s) = 0 => \A i \in 1 .. Len(s) : s[i] = 0)
    BY <2>7, SumZero
  <2>9. ValidateStackFile(root) \in Nat /\ (ValidateStackFile(root) = 0 => i1 = 0 /\ i2 = 0 /\ Sum(s) = 0)
    <3> HIDE DEF i1, i2, c, s
    <3> QED
      BY <2>1, <2>2, <2>3, <2>8
  <2>10. Sum(s) = 0 => \A i \in DOMAIN ys : ~Lacks(ys[i], "service")
    BY <2>5, <2>6, <2>7, <2>8
  <2> QED
    BY <1>2, <2>3, <2>9, <2>10 DEF ys
<1> QED
  BY <1>1, <1>2
-----------------------------------------------------------------------------
(* The validator's walk: the inductive invariant *)

\* Entry e has been visited: a directory has been entered, a file checked.
Visit(D, e) ==
  /\ tree[e].kind = "dir" => e \in D
  /\ tree[e].kind # "closed"
  /\ findings = 0 /\ Checks(tree[e]) => Conforming(tree[e])

Pending(e) == \E k \in 1 .. Len(left) : e \in left[k]

Faulty(D) == \E d \in D : \E e \in tree[d].entries : Checks(tree[e]) /\ ~Conforming(tree[e])

\* The walk has been in the directories D, and what it is through with there is
\* visited.
Walked(D) ==
  /\ D \subseteq Below /\ Real(Base) \in D
  /\ \A d \in D : \A e \in tree[d].entries : Pending(e) \/ Visit(D, e)
  /\ \A k \in 1 .. Len(left) : \E d \in D : left[k] \subseteq tree[d].entries
  /\ findings # 0 => Faulty(D)

GateTypes ==
  /\ tree \in Trees /\ validating \in {"no", "walk", "done", "never"}
  /\ left \in Seq(SUBSET DOMAIN tree) /\ findings \in Nat /\ errors \in Nat
  /\ stackFile \in StackFiles \cup {NoStackFile}

\* During the walk.
GateWalk ==
  \/ Base \notin DOMAIN tree /\ findings = 1 /\ left = <<>>
  \/ Base \in DOMAIN tree /\ At(Base).kind = "dir" /\ \E D \in SUBSET Dirs : Walked(D)

\* After it: no directory was closed.
GateOpen ==
  Base \in DOMAIN tree =>
    At(Base).kind = "dir" /\ \A d \in Below : \A e \in tree[d].entries : tree[e].kind # "closed"

GateInv ==
  /\ GateTypes
  /\ validating = "no" => findings = 0
  /\ validating = "walk" => GateWalk
  /\ validating = "done" => GateOpen
  /\ GateIsComplete
-----------------------------------------------------------------------------
(* The directories below the base path *)

\* What is below a directory is on the disk.
LEMMA BelowBase ==
  ASSUME tree \in Trees, Base \in DOMAIN tree, At(Base).kind = "dir"
  PROVE  /\ Real(Base) \in Below
         /\ \A d \in Below : \A e \in tree[d].entries : tree[e].kind = "dir" => e \in Below
         /\ \A d \in Dirs : d \in DOMAIN tree /\ tree[d].entries \subseteq DOMAIN tree
         /\ Below \subseteq Dirs
<1>1. \A d \in Dirs : d \in DOMAIN tree /\ tree[d].kind = "dir" /\ tree[d].entries \subseteq DOMAIN tree
  BY TreesAssumption DEF Dirs
<1>2. Real(Base) \in Dirs
  BY RealIn DEF Dirs, At
<1>3. Real(Base) \in Below
  BY <1>2 DEF Below, Covers
<1>4. Below \subseteq Dirs
  BY DEF Below
<1>5. ASSUME NEW d \in Below, NEW e \in tree[d].entries, tree[e].kind = "dir" PROVE e \in Below
  <2>1. e \in Dirs
    BY <1>1, <1>4, <1>5 DEF Dirs
  <2>2. ASSUME NEW D \in SUBSET Dirs, Covers(D) PROVE e \in D
    <3>1. d \in D
      BY <2>2 DEF Below
    <3> QED
      BY <1>5, <2>2, <3>1 DEF Covers
  <2> QED
    BY <2>1, <2>2 DEF Below
<1> QED
  BY <1>1, <1>3, <1>4, <1>5

\* Nothing that is said of the tree changes.
LEMMA GateKept ==
  ASSUME tree' = tree
  PROVE  Below' = Below /\ Dirs' = Dirs /\ Real(Base)' = Real(Base) /\ At(Base)' = At(Base)
<1>1. Real(Base)' = Real(Base) /\ At(Base)' = At(Base)
  BY DEF Real, At
<1>2. \A D : Covers(D)' = Covers(D)
  BY <1>1 DEF Covers
<1>3. Dirs' = Dirs
  BY DEF Dirs
<1>4. Below' = Below
  BY <1>2, <1>3 DEF Below
<1> QED
  BY <1>1, <1>3, <1>4

\* A file that is checked has an error exactly when it does not conform.
LEMMA FileErrors ==
  ASSUME tree \in Trees, NEW e \in DOMAIN tree, Checks(tree[e])
  PROVE  /\ ErrorsIn[tree[e].root] \in Nat
         /\ ErrorsIn[tree[e].root] = 0 <=> Conforming(tree[e])
<1> DEFINE r == tree[e].root
<1>1. r \in Roots
  BY DEF Roots, Checks
<1>2. r \in Nodes /\ ErrorsIn[r] = ValidateProtocolFile(r)
  BY <1>1, NodesAssumption DEF ErrorsIn
<1> HIDE DEF r
<1>3. /\ ValidateProtocolFile(r) \in Nat
      /\ ValidateProtocolFile(r) = 0 <=> r.t = "map" /\ ValidateProtocolFile(r) = 0
  BY <1>2, ProtocolErrors
<1> QED
  BY <1>2, <1>3 DEF Conforming, r
-----------------------------------------------------------------------------
(* The validator's steps *)

\* The walk goes on, with the directories E entered.
LEMMA GateGoesOn ==
  ASSUME NEW D \in SUBSET Dirs, Walked(D), NEW E \in SUBSET Below, tree' = tree,
         \A x : Pending(x) => Pending(x)' \/ Visit(D \cup E, x)',
         \A d \in E : \A x \in tree[d].entries : Pending(x)',
         \A k \in 1 .. Len(left') : \E d \in D \cup E : left'[k] \subseteq tree[d].entries,
         findings' = 0 => findings = 0,
         findings' # 0 => Faulty(D \cup E)
  PROVE  Walked(D \cup E)'
<1>1. Below' = Below /\ Real(Base)' = Real(Base)
  BY GateKept
<1>2. \A x : Visit(D, x) => Visit(D \cup E, x)'
  BY DEF Visit, Conforming
<1>3. Faulty(D \cup E) => Faulty(D \cup E)'
  BY DEF Faulty, Conforming
<1>4. \A d \in D \cup E : \A x \in tree[d].entries : Pending(x)' \/ Visit(D \cup E, x)'
  <2>1. \A d \in D : \A x \in tree[d].entries : Pending(x) \/ Visit(D, x)
    BY DEF Walked
  <2> QED
    BY <1>2, <2>1
<1>5. D \cup E \subseteq Below /\ Real(Base) \in D \cup E
  BY DEF Walked
<1> QED
  BY <1>1, <1>3, <1>4, <1>5 DEF Walked

\* The entries that are left when one of the innermost directory is done.
LEMMA WithoutIs ==
  ASSUME GateTypes, Depth > 0, NEW e
  PROVE  /\ Depth \in Nat /\ Depth = Len(left)
         /\ Without(e) \in Seq(SUBSET DOMAIN tree) /\ Len(Without(e)) = Depth
         /\ \A k \in 1 .. Depth : left[k] \subseteq DOMAIN tree /\ Without(e)[k] \subseteq left[k]
         /\ \A k \in 1 .. Depth : \A x : x \in left[k] /\ x # e => x \in Without(e)[k]
<1> DEFINE X == SUBSET DOMAIN tree
<1>1. left \in Seq(X) /\ Depth = Len(left) /\ Depth \in 1 .. Len(left)
  BY DEF GateTypes, Depth
<1>2. left[Depth] \in X
  BY <1>1
<1>3. left[Depth] \ {e} \in X
  BY <1>2
<1> HIDE DEF X
<1>4. Without(e) = [left EXCEPT ![Depth] = left[Depth] \ {e}]
  BY DEF Without
<1>5. Without(e) \in Seq(X) /\ Len(Without(e)) = Len(left)
  BY <1>1, <1>3, <1>4
<1>6. \A k \in 1 .. Len(left) : Without(e)[k] = IF k = Depth THEN left[Depth] \ {e} ELSE left[k]
  BY <1>1, <1>4
<1>7. \A k \in 1 .. Len(left) : left[k] \in X
  BY <1>1
<1>8. \A k \in 1 .. Depth : left[k] \subseteq DOMAIN tree
  BY <1>1, <1>7 DEF X
<1>9. \A k \in 1 .. Depth : Without(e)[k] \subseteq left[k]
  BY <1>1, <1>6
<1>10. \A k \in 1 .. Depth : \A x : x \in left[k] /\ x # e => x \in Without(e)[k]
  BY <1>1, <1>6
<1> QED
  BY <1>1, <1>5, <1>8, <1>9, <1>10 DEF X

\* The visited entry is one of a directory that the walk has been in.
LEMMA VisitedIn ==
  ASSUME GateTypes, NEW D \in SUBSET Dirs, Walked(D), NEW e, Visited(e)
  PROVE  Depth > 0 /\ \E d \in D : e \in tree[d].entries
<1>1. Depth > 0 /\ e \in left[Depth] /\ Depth \in 1 .. Len(left)
  BY DEF Visited, Depth, GateTypes
<1> QED
  BY <1>1 DEF Walked

\* An entry that is no directory is done.
LEMMA GateVisits ==
  ASSUME GateTypes, NEW D \in SUBSET Dirs, Walked(D), NEW e \in DOMAIN tree, Visited(e), tree' = tree,
         left' = Without(e), tree[e].kind \notin {"dir", "closed"}, findings' \in Nat,
         findings' = 0 => findings = 0,
         findings' = 0 /\ Checks(tree[e]) => Conforming(tree[e]),
         findings' # 0 => findings # 0 \/ (Checks(tree[e]) /\ ~Conforming(tree[e]))
  PROVE  Walked(D)'
<1> DEFINE E == {}
<1>1. D \cup E = D /\ E \in SUBSET Below
  OBVIOUS
<1>2. Depth > 0 /\ \E d \in D : e \in tree[d].entries
  BY VisitedIn
<1>3. /\ Depth = Len(left) /\ Len(left') = Depth
      /\ \A k \in 1 .. Depth : left'[k] \subseteq left[k]
      /\ \A k \in 1 .. Depth : \A x : x \in left[k] /\ x # e => x \in left'[k]
  BY <1>2, WithoutIs
<1>4. Visit(D, e)'
  BY DEF Visit, Conforming
<1>5. ASSUME NEW x, Pending(x) PROVE Pending(x)' \/ Visit(D \cup E, x)'
  <2>1. CASE x = e
    BY <1>1, <1>4, <2>1
  <2>2. CASE x # e
    BY <1>3, <1>5, <2>2 DEF Pending
  <2> QED
    BY <2>1, <2>2
<1>6. \A k \in 1 .. Len(left') : \E d \in D \cup E : left'[k] \subseteq tree[d].entries
  BY <1>3 DEF Walked
<1>7. findings' # 0 => Faulty(D \cup E)
  BY <1>2 DEF Walked, Faulty
<1>8. \A d \in E : \A x \in tree[d].entries : Pending(x)'
  OBVIOUS
<1>9. Walked(D \cup E)'
  <2> HIDE DEF E
  <2> QED
    BY <1>1, <1>5, <1>6, <1>7, <1>8, GateGoesOn
<1> QED
  BY <1>1, <1>9

\* A directory is entered.
LEMMA GateEnters ==
  ASSUME GateTypes, NEW D \in SUBSET Dirs, Walked(D), NEW e \in DOMAIN tree, Visited(e), tree' = tree,
         Base \in DOMAIN tree, At(Base).kind = "dir",
         left' = Append(Without(e), tree[e].entries), tree[e].kind = "dir", findings' = findings
  PROVE  /\ Walked(D \cup {e})' /\ D \cup {e} \in SUBSET Dirs
         /\ left' \in Seq(SUBSET DOMAIN tree)
<1> DEFINE E == {e}
           X == SUBSET DOMAIN tree
           w == Without(e)
           es == tree[e].entries
<1>1. Depth > 0 /\ \E d \in D : e \in tree[d].entries
  BY VisitedIn
<1>2. e \in Below /\ Below \subseteq Dirs /\ es \in X /\ e \in Dirs
  BY <1>1, BelowBase, TreesAssumption DEF Walked, GateTypes
<1>3. /\ Depth = Len(left) /\ Len(w) = Depth /\ w \in Seq(X) /\ Depth \in Nat
      /\ \A k \in 1 .. Depth : w[k] \subseteq left[k]
      /\ \A k \in 1 .. Depth : \A x : x \in left[k] /\ x # e => x \in w[k]
  BY <1>1, WithoutIs
<1>4. left' = Append(w, es)
  OBVIOUS
<1> HIDE DEF w, X, es
<1>5. left' \in Seq(X) /\ Len(left') = Depth + 1 /\ left'[Depth + 1] = es
      /\ \A k \in 1 .. Depth : left'[k] = w[k]
  BY <1>2, <1>3, <1>4
<1>6. Visit(D \cup E, e)'
  BY DEF Visit, Checks
<1>7. ASSUME NEW x, Pending(x) PROVE Pending(x)' \/ Visit(D \cup E, x)'
  <2>1. CASE x = e
    BY <1>6, <2>1
  <2>2. CASE x # e
    <3>1. PICK k \in 1 .. Depth : x \in left[k]
      BY <1>3, <1>7 DEF Pending
    <3>2. x \in left'[k] /\ k \in 1 .. Len(left')
      BY <1>3, <1>5, <2>2, <3>1
    <3> QED
      BY <3>2 DEF Pending
  <2> QED
    BY <2>1, <2>2
<1>8. \A d \in E : \A x \in tree[d].entries : Pending(x)'
  <2>1. Depth + 1 \in 1 .. Len(left')
    BY <1>3, <1>5
  <2> QED
    BY <1>5, <2>1 DEF Pending, es
<1>9. ASSUME NEW k \in 1 .. Len(left') PROVE \E d \in D \cup E : left'[k] \subseteq tree[d].entries
  <2>1. CASE k = Depth + 1
    BY <1>5, <2>1 DEF es
  <2>2. CASE k # Depth + 1
    <3>1. k \in 1 .. Depth
      BY <1>3, <1>5, <2>2
    <3>2. left'[k] \subseteq left[k] /\ k \in 1 .. Len(left)
      BY <1>3, <1>5, <3>1
    <3> QED
      BY <3>2 DEF Walked
  <2> QED
    BY <2>1, <2>2
<1>10. findings' # 0 => Faulty(D \cup E)
  BY DEF Walked, Faulty
<1>11. E \in SUBSET Below
  BY <1>2
<1>12. Walked(D \cup E)'
  <2> HIDE DEF E
  <2> QED
    BY <1>7, <1>8, <1>9, <1>10, <1>11, GateGoesOn
<1> QED
  BY <1>2, <1>5, <1>12 DEF X

\* A directory is left.
LEMMA GateLeaves ==
  ASSUME GateTypes, NEW D \in SUBSET Dirs, Walked(D), Depth > 0, left[Depth] = {}, tree' = tree,
         left' = Leave(left), findings' = findings
  PROVE  Walked(D)' /\ left' \in Seq(SUBSET DOMAIN tree)
<1> DEFINE E == {}
           X == SUBSET DOMAIN tree
           T == Len(left) - 1
<1>1. left \in Seq(X) /\ T \in Nat /\ T + 1 = Len(left) /\ left[T + 1] = {} /\ left' = SubSeq(left, 1, T)
  BY DEF GateTypes, Depth, Leave
<1> HIDE DEF X, T
<1>2. left' \in Seq(X) /\ Len(left') = T /\ \A k \in 1 .. T : left'[k] = left[k]
  BY <1>1
<1>3. D \cup E = D /\ E \in SUBSET Below
  OBVIOUS
<1>4. ASSUME NEW x, Pending(x) PROVE Pending(x)'
  <2>1. PICK k \in 1 .. Len(left) : x \in left[k]
    BY <1>4 DEF Pending
  <2>2. k \in 1 .. T
    BY <1>1, <2>1
  <2> QED
    BY <1>2, <2>1, <2>2 DEF Pending
<1>5. ASSUME NEW k \in 1 .. Len(left') PROVE \E d \in D \cup E : left'[k] \subseteq tree[d].entries
  <2>1. k \in 1 .. Len(left) /\ left'[k] = left[k]
    BY <1>1, <1>2
  <2> QED
    BY <2>1 DEF Walked
<1>6. findings' # 0 => Faulty(D \cup E)
  BY <1>3 DEF Walked
<1>7. \A d \in E : \A x \in tree[d].entries : Pending(x)'
  OBVIOUS
<1>8. Walked(D \cup E)'
  <2> HIDE DEF E
  <2> QED
    BY <1>3, <1>4, <1>5, <1>6, <1>7, GateGoesOn
<1> QED
  BY <1>2, <1>3, <1>8 DEF X

\* The walk begins.
LEMMA ValidateKeeps ==
  ASSUME GateInv, Validate, tree' = tree PROVE GateInv'
<1>1. GateTypes /\ validating = "no" /\ errors' = errors /\ stackFile' \in StackFiles \cup {NoStackFile}
  BY DEF Validate, GateInv
<1>2. Dirs' = Dirs /\ Real(Base)' = Real(Base) /\ At(Base)' = At(Base)
  BY GateKept
<1>3. CASE /\ Base \in DOMAIN tree /\ At(Base).kind = "dir"
           /\ validating' = "walk" /\ left' = <<At(Base).entries>> /\ UNCHANGED findings
  <2> DEFINE b == Real(Base)
             D == {b}
             X == SUBSET DOMAIN tree
             es == tree[b].entries
  <2>1. b \in Below /\ Below \subseteq Dirs /\ es \in X
    BY <1>1, <1>3, BelowBase DEF GateTypes
  <2>2. left' = <<es>>
    BY <1>3 DEF At
  <2> HIDE DEF X, es
  <2>3. left' \in Seq(X) /\ Len(left') = 1 /\ left'[1] = es
    BY <2>1, <2>2
  <2>4. D \in SUBSET Dirs
    BY <2>1
  <2>5. CASE findings = 0
    <3>1. \A x \in es : Pending(x)'
      BY <2>3 DEF Pending
    <3>2. D \subseteq Below' /\ b \in D /\ b = Real(Base)'
      BY <1>2, <2>1, GateKept
    <3>3. \A k \in 1 .. Len(left') : left'[k] \subseteq es
      BY <2>3
    <3>4. Walked(D)'
      BY <1>3, <2>5, <3>1, <3>2, <3>3 DEF Walked, es
    <3>5. (\E S \in SUBSET Dirs : Walked(S))'
      BY <1>2, <2>4, <3>4
    <3>6. GateWalk'
      BY <1>2, <1>3, <3>5 DEF GateWalk
    <3>7. GateTypes'
      BY <1>1, <1>3, <2>3 DEF GateTypes, X
    <3>8. GateIsComplete' /\ validating' # "done"
      BY <1>3 DEF GateIsComplete
    <3> QED
      BY <1>3, <3>6, <3>7, <3>8 DEF GateInv
  <2> QED
    BY <2>5, <1>1 DEF GateInv
<1>4. CASE /\ Base \in DOMAIN tree /\ At(Base).kind # "dir"
           /\ validating' = "never" /\ UNCHANGED <<left, findings>>
  <2>1. GateTypes'
    BY <1>1, <1>4 DEF GateTypes
  <2>2. GateIsComplete'
    BY <1>4 DEF GateIsComplete
  <2> QED
    BY <1>4, <2>1, <2>2 DEF GateInv
<1>5. CASE /\ Base \notin DOMAIN tree
           /\ validating' = "walk" /\ left' = <<>> /\ findings' = 1
  <2>1. GateTypes'
    BY <1>1, <1>5 DEF GateTypes
  <2>2. GateIsComplete'
    BY <1>5 DEF GateIsComplete
  <2>3. GateWalk'
    BY <1>5 DEF GateWalk
  <2> QED
    BY <1>5, <2>1, <2>2, <2>3 DEF GateInv
<1> QED
  BY <1>3, <1>4, <1>5 DEF Validate

\* The process ends.
LEMMA GateEnds ==
  ASSUME GateTypes, tree' = tree, validating' = "never", left' = left, findings' = findings,
         errors' = errors, stackFile' = stackFile
  PROVE  GateInv'
<1>1. GateTypes'
  BY DEF GateTypes
<1> QED
  BY <1>1 DEF GateInv, GateIsComplete

\* The walk has its directories, and goes on with others.
LEMMA GateWalks ==
  ASSUME GateTypes, validating = "walk", validating' = "walk", tree' = tree, findings' \in Nat,
         errors' = errors, stackFile' = stackFile, left' \in Seq(SUBSET DOMAIN tree),
         Base \in DOMAIN tree, At(Base).kind = "dir",
         NEW D \in SUBSET Dirs, Walked(D)'
  PROVE  GateInv'
<1>1. GateTypes'
  BY DEF GateTypes
<1>2. Dirs' = Dirs /\ At(Base)' = At(Base)
  BY GateKept
<1>3. (\E S \in SUBSET Dirs : Walked(S))'
  BY <1>2
<1>4. GateWalk'
  BY <1>2, <1>3 DEF GateWalk
<1> QED
  BY <1>1, <1>4 DEF GateInv, GateIsComplete

\* Where there is something to visit, there is a base path.
LEMMA GateIsIn ==
  ASSUME GateInv, validating = "walk", Depth > 0
  PROVE  /\ GateTypes /\ Base \in DOMAIN tree /\ At(Base).kind = "dir"
         /\ \E D \in SUBSET Dirs : Walked(D)
<1>1. GateTypes /\ GateWalk /\ left # <<>>
  BY DEF GateInv, Depth
<1> QED
  BY <1>1 DEF GateWalk

\* A file is checked.
LEMMA ValidateFileKeeps ==
  ASSUME GateInv, ValidateFile, tree' = tree PROVE GateInv'
<1>1. PICK e \in DOMAIN tree :
        /\ Visited(e) /\ Checks(tree[e])
        /\ \/ FileDies(tree[e].root) /\ validating' = "never" /\ UNCHANGED <<left, findings>>
           \/ /\ ~FileDies(tree[e].root) /\ left' = Without(e)
              /\ findings' = findings + ErrorsIn[tree[e].root]
              /\ UNCHANGED validating
  BY DEF ValidateFile
<1>2. stackFile' = stackFile /\ errors' = errors /\ validating = "walk" /\ Depth > 0
  BY <1>1 DEF ValidateFile, Visited
<1>3. GateTypes /\ Base \in DOMAIN tree /\ At(Base).kind = "dir"
  BY <1>2, GateIsIn
<1>4. PICK D \in SUBSET Dirs : Walked(D)
  BY <1>2, GateIsIn
<1>5. CASE validating' = "never" /\ UNCHANGED <<left, findings>>
  BY <1>2, <1>3, <1>5, GateEnds
<1>6. CASE /\ left' = Without(e) /\ findings' = findings + ErrorsIn[tree[e].root]
           /\ UNCHANGED validating
  <2> DEFINE n == ErrorsIn[tree[e].root]
  <2>1. n \in Nat /\ (n = 0 <=> Conforming(tree[e])) /\ findings \in Nat
    BY <1>1, <1>3, FileErrors DEF GateTypes
  <2>2. findings' = findings + n
    BY <1>6
  <2> HIDE DEF n
  <2>3. /\ findings' \in Nat /\ (findings' = 0 => findings = 0) /\ (findings' = 0 => n = 0)
        /\ findings' # 0 => findings # 0 \/ n # 0
    BY <2>1, <2>2
  <2>4. tree[e].kind \notin {"dir", "closed"}
    BY <1>1 DEF Checks
  <2>5. left' \in Seq(SUBSET DOMAIN tree)
    BY <1>2, <1>3, <1>6, WithoutIs
  <2>6. Walked(D)'
    BY <1>1, <1>3, <1>4, <1>6, <2>1, <2>3, <2>4, GateVisits
  <2> QED
    BY <1>2, <1>3, <1>6, <2>3, <2>5, <2>6, GateWalks
<1> QED
  BY <1>1, <1>5, <1>6

\* Another entry is visited.
LEMMA VisitOtherKeeps ==
  ASSUME GateInv, VisitOther, tree' = tree PROVE GateInv'
<1>1. PICK e \in DOMAIN tree :
        /\ Visited(e) /\ ~Checks(tree[e])
        /\ \/ tree[e].kind \notin {"dir", "closed"} /\ left' = Without(e) /\ UNCHANGED validating
           \/ /\ tree[e].kind = "dir" /\ left' = Append(Without(e), tree[e].entries)
              /\ UNCHANGED validating
           \/ tree[e].kind = "closed" /\ validating' = "never" /\ UNCHANGED left
  BY DEF VisitOther
<1>2. /\ stackFile' = stackFile /\ errors' = errors /\ findings' = findings
      /\ validating = "walk" /\ Depth > 0
  BY <1>1 DEF VisitOther, Visited
<1>3. GateTypes /\ Base \in DOMAIN tree /\ At(Base).kind = "dir"
  BY <1>2, GateIsIn
<1>4. PICK D \in SUBSET Dirs : Walked(D)
  BY <1>2, GateIsIn
<1>5. findings \in Nat
  BY <1>3 DEF GateTypes
<1>6. CASE tree[e].kind \notin {"dir", "closed"} /\ left' = Without(e) /\ UNCHANGED validating
  <2>1. left' \in Seq(SUBSET DOMAIN tree)
    BY <1>2, <1>3, <1>6, WithoutIs
  <2>2. Walked(D)'
    BY <1>1, <1>2, <1>3, <1>4, <1>5, <1>6, GateVisits
  <2> QED
    BY <1>2, <1>3, <1>5, <1>6, <2>1, <2>2, GateWalks
<1>7. CASE /\ tree[e].kind = "dir" /\ left' = Append(Without(e), tree[e].entries)
           /\ UNCHANGED validating
  <2> DEFINE E == D \cup {e}
  <2>1. Walked(E)' /\ E \in SUBSET Dirs /\ left' \in Seq(SUBSET DOMAIN tree)
    BY <1>1, <1>2, <1>3, <1>4, <1>7, GateEnters
  <2> HIDE DEF E
  <2> QED
    BY <1>2, <1>3, <1>5, <1>7, <2>1, GateWalks
<1>8. CASE validating' = "never" /\ UNCHANGED left
  BY <1>2, <1>3, <1>8, GateEnds
<1> QED
  BY <1>1, <1>6, <1>7, <1>8

\* A directory is left.
LEMMA PopKeeps ==
  ASSUME GateInv, Pop, tree' = tree PROVE GateInv'
<1>1. /\ stackFile' = stackFile /\ errors' = errors /\ findings' = findings /\ validating' = "walk"
      /\ validating = "walk" /\ Depth > 0 /\ left[Depth] = {} /\ left' = Leave(left)
  BY DEF Pop
<1>2. GateTypes /\ Base \in DOMAIN tree /\ At(Base).kind = "dir" /\ findings \in Nat
  BY <1>1, GateIsIn DEF GateTypes
<1>3. PICK D \in SUBSET Dirs : Walked(D)
  BY <1>1, GateIsIn
<1>4. Walked(D)' /\ left' \in Seq(SUBSET DOMAIN tree)
  BY <1>1, <1>2, <1>3, GateLeaves
<1> QED
  BY <1>1, <1>2, <1>4, GateWalks

\* The walk is over: it has been in every directory below the base path.
LEMMA WalkedAll ==
  ASSUME GateTypes, GateWalk, Depth = 0
  PROVE  /\ GateOpen
         /\ findings = 0 <=>
              /\ Base \in DOMAIN tree
              /\ \A d \in Below : \A e \in tree[d].entries : Checks(tree[e]) => Conforming(tree[e])
<1>1. CASE Base \notin DOMAIN tree /\ findings = 1
  BY <1>1 DEF GateOpen
<1>2. CASE Base \in DOMAIN tree /\ At(Base).kind = "dir" /\ \E D \in SUBSET Dirs : Walked(D)
  <2>1. PICK D \in SUBSET Dirs : Walked(D)
    BY <1>2
  <2>2. \A e : ~Pending(e)
    BY DEF Depth, Pending
  <2>3. \A d \in D : \A e \in tree[d].entries : Visit(D, e)
    BY <2>1, <2>2 DEF Walked
  <2>4. Covers(D)
    BY <2>1, <2>3 DEF Covers, Walked, Visit
  <2>5. D = Below
    BY <2>1, <2>4 DEF Below, Walked
  <2>6. GateOpen
    BY <1>2, <2>3, <2>5 DEF GateOpen, Visit
  <2>7. findings = 0 => \A d \in Below : \A e \in tree[d].entries : Checks(tree[e]) => Conforming(tree[e])
    BY <2>3, <2>5 DEF Visit
  <2>8. findings # 0 => Faulty(Below)
    BY <2>1, <2>5 DEF Walked
  <2> QED
    BY <1>2, <2>6, <2>7, <2>8 DEF Faulty
<1> QED
  BY <1>1, <1>2 DEF GateWalk

\* The stack file, and the count.
LEMMA ValidateEndKeeps ==
  ASSUME GateInv, ValidateEnd, tree' = tree PROVE GateInv'
<1>1. /\ validating = "walk" /\ Depth = 0 /\ left' = left /\ findings' = findings
      /\ stackFile' = stackFile /\ GateTypes /\ GateWalk
  BY DEF ValidateEnd, GateInv
<1>2. CASE validating' = "never" /\ UNCHANGED errors
  BY <1>1, <1>2, GateEnds
<1>3. CASE /\ validating' = "done"
           /\ errors' = findings + (IF stackFile = NoStackFile THEN 0 ELSE ValidateStackFile(stackFile))
  <2> DEFINE n == IF stackFile = NoStackFile THEN 0 ELSE ValidateStackFile(stackFile)
             Files == /\ Base \in DOMAIN tree
                      /\ \A d \in Below : \A e \in tree[d].entries :
                           tree[e].kind = "file" /\ tree[e].ext \in {".yaml", ".yml"} => Conforming(tree[e])
             Stack == stackFile # NoStackFile => ValidateStackFile(stackFile) = 0
  <2>1. stackFile # NoStackFile => stackFile \in Nodes
    BY <1>1, ValidatorAssumption DEF GateTypes
  <2>2. n \in Nat /\ (n = 0 <=> Stack)
    BY <2>1, StackErrors
  <2>3. errors' = findings + n /\ findings \in Nat
    BY <1>1, <1>3 DEF GateTypes
  <2>4. GateOpen /\ (findings = 0 <=> Files)
    BY <1>1, WalkedAll DEF Checks
  <2>5. Files' = Files /\ Stack' = Stack /\ GateOpen' = GateOpen
    <3>1. Below' = Below /\ At(Base)' = At(Base)
      BY GateKept
    <3> QED
      BY <1>1, <3>1 DEF GateOpen, Conforming
  <2>6. errors' \in Nat /\ (errors' = 0 <=> findings = 0 /\ n = 0)
    <3> HIDE DEF n
    <3> QED
      BY <2>2, <2>3
  <2>7. (errors' = 0 <=> Files' /\ Stack')
    <3> HIDE DEF Files, Stack, n
    <3> QED
      BY <2>2, <2>4, <2>5, <2>6
  <2>8. GateIsComplete'
    BY <2>7 DEF GateIsComplete
  <2>9. GateTypes'
    BY <1>1, <1>3, <2>6 DEF GateTypes
  <2> QED
    BY <1>3, <2>4, <2>5, <2>8, <2>9 DEF GateInv
<1> QED
  BY <1>2, <1>3 DEF ValidateEnd

\* A step of the parser changes nothing.
LEMMA GateStutters ==
  ASSUME GateInv, UNCHANGED validatorVars, tree' = tree PROVE GateInv'
<1>1. /\ validating' = validating /\ left' = left /\ findings' = findings /\ errors' = errors
      /\ stackFile' = stackFile
  BY DEF validatorVars
<1>2. Below' = Below /\ Dirs' = Dirs /\ Real(Base)' = Real(Base) /\ At(Base)' = At(Base)
  BY GateKept
<1>3. GateTypes'
  BY <1>1 DEF GateInv, GateTypes
<1>4. GateOpen' = GateOpen
  BY <1>2 DEF GateOpen
<1>5. GateIsComplete' = GateIsComplete
  BY <1>1, <1>2 DEF GateIsComplete, Conforming
<1>6. \A D : Walked(D)' = Walked(D)
  BY <1>1, <1>2 DEF Walked, Pending, Visit, Faulty, Conforming
<1>7. GateWalk' = GateWalk
  BY <1>1, <1>2, <1>6 DEF GateWalk
<1> QED
  BY <1>1, <1>3, <1>4, <1>5, <1>7 DEF GateInv
-----------------------------------------------------------------------------
(* The items of a file *)

\* What is kept of a list.
LEMMA KeyedNodes ==
  ASSUME NEW items \in Seq(Nodes), NEW k
  PROVE  /\ Keyed(items, k) \in Seq(Nodes)
         /\ (\A i \in 1 .. Len(items) : Has(items[i], k)) => Keyed(items, k) = items
<1> DEFINE T == {items[i] : i \in {j \in DOMAIN items : Has(items[j], k)}}
<1>1. Keyed(items, k) = Filter(items, T)
  BY DEF Keyed
<1>2. ASSUME \A i \in 1 .. Len(items) : Has(items[i], k)
      PROVE  \A i \in 1 .. Len(items) : items[i] \in T
  BY <1>2
<1> HIDE DEF T
<1>3. Filter(items, T) \in Seq(Nodes)
  BY FilterType
<1>4. (\A i \in 1 .. Len(items) : items[i] \in T) => Filter(items, T) = items
  BY FilterAll
<1> QED
  BY <1>1, <1>2, <1>3, <1>4

\* The variables of a file are numbered.
LEMMA VarItemsAre ==
  ASSUME NEW root \in Nodes
  PROVE  LET vs == Keyed(ListAt(root, "vars"), "var")
         IN  /\ vs \in Seq(Nodes) /\ DOMAIN VarItems(root) = 1 .. Len(vs)
             /\ \A i \in 1 .. Len(vs) :
                  /\ VarItems(root)[i].key = ServiceOf(root) \o Text(Get(vs[i], "var"))
                  /\ VarItems(root)[i].val = VarOf(vs[i])
<1> DEFINE vs == Keyed(ListAt(root, "vars"), "var")
<1>1. vs \in Seq(Nodes)
  BY ListNodes, KeyedNodes
<1>2. VarItems(root) = [i \in DOMAIN vs |-> [key |-> ServiceOf(root) \o Text(Get(vs[i], "var")),
                                             val |-> VarOf(vs[i])]]
  BY DEF VarItems
<1> HIDE DEF vs
<1>3. DOMAIN vs = 1 .. Len(vs)
  BY <1>1
<1>4. /\ DOMAIN VarItems(root) = 1 .. Len(vs)
      /\ \A i \in 1 .. Len(vs) :
           /\ VarItems(root)[i].key = ServiceOf(root) \o Text(Get(vs[i], "var"))
           /\ VarItems(root)[i].val = VarOf(vs[i])
  BY <1>2, <1>3
<1> QED
  BY <1>1, <1>4 DEF vs

\* So are the interfaces of an entity.
LEMMA EntityItemsAre ==
  ASSUME NEW root, NEW e \in Nodes
  PROVE  LET xs == Keyed(ListAt(e, "interfaces"), "interface")
         IN  /\ xs \in Seq(Nodes) /\ DOMAIN EntityItems(root, e) = 1 .. Len(xs)
             /\ EntityItems(root, e) = [i \in 1 .. Len(xs) |-> EntityItems(root, e)[i]]
             /\ \A i \in 1 .. Len(xs) :
                  /\ EntityItems(root, e)[i].key
                       = ServiceOf(root) \o Text(Get(e, "entity")) \o Text(Get(xs[i], "interface"))
                  /\ EntityItems(root, e)[i].val = InterfaceOf(root, xs[i])
<1> DEFINE xs == Keyed(ListAt(e, "interfaces"), "interface")
<1>1. xs \in Seq(Nodes)
  BY ListNodes, KeyedNodes
<1>2. EntityItems(root, e)
        = [i \in DOMAIN xs |-> [key |-> ServiceOf(root) \o Text(Get(e, "entity"))
                                          \o Text(Get(xs[i], "interface")),
                                val |-> InterfaceOf(root, xs[i])]]
  BY DEF EntityItems
<1> HIDE DEF xs
<1>3. DOMAIN xs = 1 .. Len(xs)
  BY <1>1
<1>4. /\ DOMAIN EntityItems(root, e) = 1 .. Len(xs)
      /\ EntityItems(root, e) = [i \in 1 .. Len(xs) |-> EntityItems(root, e)[i]]
      /\ \A i \in 1 .. Len(xs) :
           /\ EntityItems(root, e)[i].key
                = ServiceOf(root) \o Text(Get(e, "entity")) \o Text(Get(xs[i], "interface"))
           /\ EntityItems(root, e)[i].val = InterfaceOf(root, xs[i])
  BY <1>2, <1>3
<1> QED
  BY <1>1, <1>4 DEF xs

\* And those of a file: each is one of an entity, and each of an entity is one.
LEMMA InterfaceItemsAre ==
  ASSUME NEW root \in Nodes
  PROVE  LET es == Keyed(ListAt(root, "entities"), "entity")
         IN  /\ es \in Seq(Nodes)
             /\ DOMAIN InterfaceItems(root) = 1 .. Len(InterfaceItems(root))
             /\ Len(InterfaceItems(root)) \in Nat
             /\ \A j \in 1 .. Len(InterfaceItems(root)) :
                  \E i \in 1 .. Len(es) : \E m \in DOMAIN EntityItems(root, es[i]) :
                    InterfaceItems(root)[j] = EntityItems(root, es[i])[m]
             /\ \A i \in 1 .. Len(es) : \A m \in DOMAIN EntityItems(root, es[i]) :
                  \E j \in 1 .. Len(InterfaceItems(root)) :
                    InterfaceItems(root)[j] = EntityItems(root, es[i])[m]
<1> DEFINE es == Keyed(ListAt(root, "entities"), "entity")
           s == [i \in DOMAIN es |-> EntityItems(root, es[i])]
           R == UNION {{EntityItems(root, e)[i] : i \in DOMAIN EntityItems(root, e)} : e \in Nodes}
<1>1. es \in Seq(Nodes)
  BY ListNodes, KeyedNodes
<1>2. InterfaceItems(root) = Flat(s)
  BY DEF InterfaceItems
<1> HIDE DEF es
<1>3. DOMAIN es = 1 .. Len(es) /\ Len(es) \in Nat /\ \A i \in 1 .. Len(es) : es[i] \in Nodes
  BY <1>1
<1>4. ASSUME NEW e \in Nodes
      PROVE  /\ EntityItems(root, e) \in Seq(R)
             /\ DOMAIN EntityItems(root, e) = 1 .. Len(EntityItems(root, e))
  <2> DEFINE f == EntityItems(root, e)
             n == Len(Keyed(ListAt(e, "interfaces"), "interface"))
  <2>1. DOMAIN f = 1 .. n /\ f = [i \in 1 .. n |-> f[i]] /\ n \in Nat
    BY EntityItemsAre
  <2>2. \A i \in 1 .. n : f[i] \in R
    BY <2>1
  <2> HIDE DEF f, n, R
  <2>3. f \in Seq(R)
    BY <2>1, <2>2
  <2> QED
    BY <2>3 DEF f
<1> HIDE DEF R
<1>5. DOMAIN s = 1 .. Len(es) /\ \A i \in 1 .. Len(es) : s[i] = EntityItems(root, es[i])
  BY <1>3
<1>6. s \in Seq(Seq(R)) /\ Len(s) = Len(es)
  BY <1>3, <1>4
<1> HIDE DEF s
<1>7. Flat(s) \in Seq(R)
  BY <1>6, FlatType
<1>8. DOMAIN Flat(s) = 1 .. Len(Flat(s)) /\ Len(Flat(s)) \in Nat
  BY <1>7
<1>9. /\ \A j \in 1 .. Len(Flat(s)) :
           \E i \in 1 .. Len(s) : \E m \in 1 .. Len(s[i]) : Flat(s)[j] = s[i][m]
      /\ \A i \in 1 .. Len(s) : \A m \in 1 .. Len(s[i]) :
           \E j \in 1 .. Len(Flat(s)) : Flat(s)[j] = s[i][m]
  BY <1>6, FlatElements
<1>10. \A i \in 1 .. Len(es) : DOMAIN EntityItems(root, es[i]) = 1 .. Len(s[i])
  BY <1>3, <1>4, <1>5
<1>11. \A j \in 1 .. Len(Flat(s)) :
         \E i \in 1 .. Len(es) : \E m \in DOMAIN EntityItems(root, es[i]) :
           Flat(s)[j] = EntityItems(root, es[i])[m]
  <2> SUFFICES ASSUME NEW j \in 1 .. Len(Flat(s))
               PROVE  \E i \in 1 .. Len(es) : \E m \in DOMAIN EntityItems(root, es[i]) :
                        Flat(s)[j] = EntityItems(root, es[i])[m]
    OBVIOUS
  <2>1. PICK i \in 1 .. Len(s) : \E m \in 1 .. Len(s[i]) : Flat(s)[j] = s[i][m]
    BY <1>9
  <2>2. PICK m \in 1 .. Len(s[i]) : Flat(s)[j] = s[i][m]
    BY <2>1
  <2>3. i \in 1 .. Len(es) /\ s[i] = EntityItems(root, es[i]) /\ m \in DOMAIN EntityItems(root, es[i])
    BY <1>5, <1>6, <1>10
  <2> QED
    BY <2>2, <2>3
<1>12. \A i \in 1 .. Len(es) : \A m \in DOMAIN EntityItems(root, es[i]) :
         \E j \in 1 .. Len(Flat(s)) : Flat(s)[j] = EntityItems(root, es[i])[m]
  <2> SUFFICES ASSUME NEW i \in 1 .. Len(es), NEW m \in DOMAIN EntityItems(root, es[i])
               PROVE  \E j \in 1 .. Len(Flat(s)) : Flat(s)[j] = EntityItems(root, es[i])[m]
    OBVIOUS
  <2>1. i \in 1 .. Len(s) /\ m \in 1 .. Len(s[i]) /\ s[i] = EntityItems(root, es[i])
    BY <1>5, <1>6, <1>10
  <2>2. \E j \in 1 .. Len(Flat(s)) : Flat(s)[j] = s[i][m]
    BY <1>9, <2>1
  <2> QED
    BY <2>1, <2>2
<1> QED
  BY <1>1, <1>2, <1>8, <1>11, <1>12 DEF es

\* Of what is added, a new element is one of the items.
LEMMA AddFrom ==
  ASSUME NEW db, NEW items, DOMAIN items \in SUBSET Nat, NEW k \in DOMAIN Add(db, items)
  PROVE  \/ k \in DOMAIN db /\ Add(db, items)[k] = db[k]
         \/ \E i \in DOMAIN items : items[i].key = k /\ Add(db, items)[k] = items[i].val
<1> DEFINE Named(x) == {i \in DOMAIN items : items[i].key = x}
           keys == {items[i].key : i \in DOMAIN items} \ {NoName}
           c == CHOOSE i \in Named(k) : \A j \in Named(k) : i <= j
<1>1. k \in DOMAIN db \cup keys
  BY DEF Add
<1>2. CASE k \in DOMAIN db
  BY <1>2, AddKeeps DEF Keeps
<1>3. CASE k \notin DOMAIN db
  <2>1. Named(k) # {} /\ Named(k) \in SUBSET Nat
    BY <1>1, <1>3
  <2>2. \E i \in Named(k) : \A j \in Named(k) : i <= j
    <3> DEFINE S == Named(k)
    <3> HIDE DEF S
    <3>1. S \in SUBSET Nat /\ S # {}
      BY <2>1 DEF S
    <3>2. \E i \in S : \A j \in S : i <= j
      BY <3>1, NatMinimum
    <3> QED
      BY <3>2 DEF S
  <2>3. c \in Named(k)
    BY <2>2
  <2>4. Add(db, items)[k] = items[c].val
    BY <1>1, <1>3 DEF Add
  <2> HIDE DEF c
  <2> QED
    BY <2>3, <2>4
<1> QED
  BY <1>2, <1>3
-----------------------------------------------------------------------------
(* What a call leaves behind *)

\* A call has no result before it returns.
CallInv ==
  /\ parses \in 0 .. MaxParses /\ result \in Errors \cup {"none"}
  /\ calling # "no" => result = "none" /\ parses > 0
  /\ result # "none" => parses > 0

Deadly == \E y \in Yamls : MayDie(tree[y])

Barred == \E n \in 0 .. MAX_CURRENT_DEPTH_PATH : \E d \in DirsAt[n] : tree[d].kind = "closed"

\* When the process has ended, something on the disk is the reason.
CrashInv ==
  calling = "never" => Base \in DOMAIN tree /\ (At(Base).kind # "dir" \/ Deadly \/ Barred)

VarFrom(f, k, val) == \E i \in DOMAIN VarItems(f) : VarItems(f)[i].key = k /\ val = VarItems(f)[i].val

InterfaceFrom(f, k, val) ==
  \E i \in DOMAIN InterfaceItems(f) : InterfaceItems(f)[i].key = k /\ val = InterfaceItems(f)[i].val

\* Every element of a database is as a file that has been seen declares it.
OriginInv ==
  /\ \A y \in yamlPaths : y \in DOMAIN tree /\ tree[y].kind = "file"
  /\ \A k \in DOMAIN mDbVars : \E f \in Seen : VarFrom(f, k, mDbVars[k])
  /\ \A k \in DOMAIN mDbIfproto : \E f \in Seen : InterfaceFrom(f, k, mDbIfproto[k])

PastInv == CallInv /\ CrashInv /\ OriginInv

\* Nothing changes but the walk.
LEMMA PastKept ==
  ASSUME PastInv, tree' = tree, yamlPaths' = yamlPaths, dbVars' = dbVars, parses' = parses,
         \/ calling' = calling /\ result' = result
         \/ /\ calling = "parse" /\ calling' = "no"
            /\ result' \in Errors
  PROVE  PastInv'
<1>1. CallInv'
  BY DEF PastInv, CallInv
<1>2. /\ DirsAt' = DirsAt /\ Yamls' = Yamls /\ At(Base)' = At(Base) /\ Seen' = Seen
  BY TreeKept DEF Seen
<1>3. CrashInv'
  BY <1>2 DEF PastInv, CrashInv, Deadly, Barred
<1>4. OriginInv'
  BY <1>2 DEF PastInv, OriginInv, dbVars
<1> QED
  BY <1>1, <1>3, <1>4 DEF PastInv

\* The process ends within a call.
LEMMA PastEnds ==
  ASSUME PastInv, calling = "parse", tree' = tree, yamlPaths \subseteq yamlPaths', dbVars' = dbVars,
         \A y \in yamlPaths' : y \in DOMAIN tree /\ tree[y].kind = "file",
         parses' = parses, calling' = "never", result' = result, Base \in DOMAIN tree, Deadly \/ Barred
  PROVE  PastInv'
<1>1. CallInv'
  BY DEF PastInv, CallInv
<1>2. /\ DirsAt' = DirsAt /\ Yamls' = Yamls /\ Seen \subseteq Seen'
  BY TreeKept DEF Seen
<1>3. CrashInv'
  BY <1>2 DEF CrashInv, Deadly, Barred
<1>4. OriginInv'
  BY <1>2 DEF PastInv, OriginInv, dbVars
<1> QED
  BY <1>1, <1>3, <1>4 DEF PastInv

\* What has been seen are files.
LEMMA SeenRoots ==
  ASSUME tree \in Trees, \A y \in yamlPaths : y \in DOMAIN tree /\ tree[y].kind = "file"
  PROVE  Seen \subseteq Roots /\ Seen \subseteq Nodes
<1>1. Seen \subseteq Roots
  BY DEF Seen, Roots
<1> QED
  BY <1>1, NodesAssumption

\* A file that has been read.
LEMMA OriginLoads ==
  ASSUME tree \in Trees, OriginInv, NEW e \in DOMAIN tree, tree[e].kind = "file",
         tree' = tree, yamlPaths' = yamlPaths \cup {e},
         \/ /\ IsProtocol(tree[e].root)
            /\ mDbVars' = Add(mDbVars, Items[tree[e].root].vars)
            /\ mDbIfproto' = Add(mDbIfproto, Items[tree[e].root].interfaces)
         \/ mDbVars' = mDbVars /\ mDbIfproto' = mDbIfproto
  PROVE  OriginInv'
<1> DEFINE r == tree[e].root
<1>1. \A y \in yamlPaths' : y \in DOMAIN tree' /\ tree'[y].kind = "file"
  BY DEF OriginInv
<1>2. Seen \subseteq Seen' /\ (IsProtocol(r) => r \in Seen')
  BY DEF Seen
<1>3. r \in Roots /\ r \in Nodes
  BY NodesAssumption DEF Roots
<1>4. CASE mDbVars' = mDbVars /\ mDbIfproto' = mDbIfproto
  BY <1>1, <1>2, <1>4 DEF OriginInv
<1>5. CASE /\ IsProtocol(r) /\ mDbVars' = Add(mDbVars, Items[r].vars)
           /\ mDbIfproto' = Add(mDbIfproto, Items[r].interfaces)
  <2>1. Items[r] = [vars |-> VarItems(r), interfaces |-> InterfaceItems(r), services |-> ServiceItems(r)]
    BY <1>3, <1>5 DEF Items
  <2>2. mDbVars' = Add(mDbVars, VarItems(r)) /\ mDbIfproto' = Add(mDbIfproto, InterfaceItems(r))
    BY <1>5, <2>1
  <2> HIDE DEF r
  <2>3. DOMAIN VarItems(r) \in SUBSET Nat
    <3>1. PICK n : DOMAIN VarItems(r) = 1 .. n
      BY <1>3, VarItemsAre
    <3> QED
      BY <3>1
  <2>4. DOMAIN InterfaceItems(r) \in SUBSET Nat
    <3>1. PICK n : DOMAIN InterfaceItems(r) = 1 .. n
      BY <1>3, InterfaceItemsAre
    <3> QED
      BY <3>1
  <2>5. ASSUME NEW k \in DOMAIN mDbVars' PROVE \E f \in Seen' : VarFrom(f, k, mDbVars'[k])
    <3>1. \/ k \in DOMAIN mDbVars /\ mDbVars'[k] = mDbVars[k]
          \/ VarFrom(r, k, mDbVars'[k])
      BY <2>2, <2>3, AddFrom DEF VarFrom
    <3> QED
      BY <1>2, <1>5, <3>1 DEF OriginInv
  <2>6. ASSUME NEW k \in DOMAIN mDbIfproto' PROVE \E f \in Seen' : InterfaceFrom(f, k, mDbIfproto'[k])
    <3>1. \/ k \in DOMAIN mDbIfproto /\ mDbIfproto'[k] = mDbIfproto[k]
          \/ InterfaceFrom(r, k, mDbIfproto'[k])
      BY <2>2, <2>4, AddFrom DEF InterfaceFrom
    <3> QED
      BY <1>2, <1>5, <3>1 DEF OriginInv
  <2> QED
    BY <1>1, <2>5, <2>6 DEF OriginInv, VarFrom, InterfaceFrom
<1> QED
  BY <1>4, <1>5

\* Every step of the parser keeps it.
LEMMA PastSteps ==
  ASSUME IInv, PastInv, Next PROVE PastInv'
<1> USE ParserAssumption
<1>1. WalkInv /\ tree \in Trees
  BY DEF IInv, WalkInv
<1>2. CASE Skip
  BY <1>2, PastKept DEF Skip
<1>3. CASE LeaveDirectory
  BY <1>3, PastKept DEF LeaveDirectory
<1>4. CASE ParseReturn
  <2>1. result' \in Errors
    BY <1>1, <1>4 DEF ParseReturn, Outcome, Errors, WalkInv
  <2> QED
    BY <1>4, <2>1, PastKept DEF ParseReturn
<1>5. CASE Parse
  <2>1. /\ tree' = tree /\ yamlPaths' = yamlPaths /\ dbVars' = dbVars /\ parses' = parses + 1
        /\ parses < MaxParses /\ parses \in Nat
    BY <1>5 DEF Parse, PastInv, CallInv
  <2>2. /\ parses' \in 0 .. MaxParses /\ parses' > 0
    BY <2>1
  <2>3. CallInv'
    BY <1>5, <2>2 DEF Parse, CallInv, Errors
  <2>4. At(Base)' = At(Base) /\ Seen' = Seen
    BY <2>1, TreeKept DEF Seen
  <2>5. CrashInv'
    BY <1>5, <2>1, <2>4 DEF Parse, CrashInv
  <2>6. OriginInv'
    BY <2>1, <2>4 DEF PastInv, OriginInv, dbVars
  <2> QED
    BY <2>3, <2>5, <2>6 DEF PastInv
<1>6. CASE EnterDirectory
  <2>1. PICK e \in DOMAIN tree :
          /\ Listed(e) /\ At(e).kind \in {"dir", "closed"}
          /\ \/ calling' = calling
             \/ /\ ~TooDeep(mCurrentDepthPathListing + 1) /\ At(e).kind = "closed"
                /\ calling' = "never"
    BY <1>6 DEF EnterDirectory
  <2>2. /\ tree' = tree /\ yamlPaths' = yamlPaths /\ dbVars' = dbVars /\ parses' = parses
        /\ result' = result
    BY <1>6 DEF EnterDirectory
  <2>3. CASE calling' = calling
    BY <2>2, <2>3, PastKept
  <2>4. CASE /\ ~TooDeep(mCurrentDepthPathListing + 1) /\ At(e).kind = "closed"
             /\ calling' = "never"
    <3>1. calling = "parse" /\ Base \in DOMAIN tree /\ Real(e) \in DirsAt[Top]
      BY <1>1, <2>1, ListedIn, ListedDir DEF Listed, IsDir
    <3>2. Top \in 0 .. MAX_CURRENT_DEPTH_PATH
      <4>1. /\ mCurrentDepthPathListing >= Top - 1 /\ mCurrentDepthPathListing \in Nat
            /\ Top \in 1 .. MAX_CURRENT_DEPTH_PATH + 1
        BY <1>1, <3>1 DEF WalkInv, Top
      <4>2. ~(mCurrentDepthPathListing + 1 > MAX_CURRENT_DEPTH_PATH)
        BY <2>4 DEF TooDeep
      <4> QED
        BY <4>1, <4>2
    <3>3. Barred
      BY <2>4, <3>1, <3>2 DEF Barred, At
    <3> QED
      BY <2>2, <2>4, <3>1, <3>3, PastEnds DEF PastInv, OriginInv
  <2> QED
    BY <2>1, <2>3, <2>4
<1>7. CASE ParseFile
  <2>1. PICK e \in DOMAIN tree :
          /\ Listed(e) /\ tree[e].kind = "file" /\ tree[e].ext = ".yaml"
          /\ yamlPaths' = yamlPaths \cup {e}
          /\ \/ MayDie(tree[e]) /\ calling' = "never" /\ UNCHANGED dbVars
             \/ /\ \/ /\ IsProtocol(tree[e].root)
                      /\ mDbVars' = Add(mDbVars, Items[tree[e].root].vars)
                      /\ mDbIfproto' = Add(mDbIfproto, Items[tree[e].root].interfaces)
                   \/ mDbVars' = mDbVars /\ mDbIfproto' = mDbIfproto
                /\ UNCHANGED calling
    BY <1>7 DEF ParseFile, dbVars
  <2>2. tree' = tree /\ parses' = parses /\ result' = result
    BY <1>7 DEF ParseFile
  <2>3. calling = "parse" /\ e \in Yamls /\ Base \in DOMAIN tree
    BY <1>1, <2>1, ListedYaml DEF Listed, IsYaml
  <2>4. CASE MayDie(tree[e]) /\ calling' = "never" /\ UNCHANGED dbVars
    <3>1. Deadly
      BY <2>3, <2>4 DEF Deadly
    <3>2. \A y \in yamlPaths' : y \in DOMAIN tree /\ tree[y].kind = "file"
      BY <2>1 DEF PastInv, OriginInv
    <3>3. yamlPaths \subseteq yamlPaths'
      BY <2>1
    <3> QED
      BY <2>2, <2>3, <2>4, <3>1, <3>2, <3>3, PastEnds
  <2>5. CASE /\ \/ /\ IsProtocol(tree[e].root)
                   /\ mDbVars' = Add(mDbVars, Items[tree[e].root].vars)
                   /\ mDbIfproto' = Add(mDbIfproto, Items[tree[e].root].interfaces)
                \/ mDbVars' = mDbVars /\ mDbIfproto' = mDbIfproto
             /\ UNCHANGED calling
    <3>1. OriginInv'
      BY <1>1, <2>1, <2>2, <2>5, OriginLoads DEF PastInv
    <3>2. CallInv' /\ CrashInv'
      BY <2>2, <2>3, <2>5 DEF PastInv, CallInv, CrashInv
    <3> QED
      BY <3>1, <3>2 DEF PastInv
  <2> QED
    BY <2>1, <2>4, <2>5
<1> QED
  BY <1>2, <1>3, <1>4, <1>5, <1>6, <1>7 DEF Next, Step

\* And it holds before the first call.
LEMMA PastInit ==
  ASSUME Init PROVE PastInv
<1>1. CallInv /\ CrashInv
  BY ParserAssumption DEF Init, CallInv, CrashInv, Errors
<1>2. OriginInv
  BY DEF Init, OriginInv, EmptyDb
<1> QED
  BY <1>1, <1>2 DEF PastInv
-----------------------------------------------------------------------------
(* The three programs together *)

\* A stack file that is malformed when it is built, the validator rejects.
BuiltInv ==
  /\ built \in {"none", "SUCCESS", "INVALID_FILE", "MISSING_KEY", "UNKNOWN_SERVICE", "UNKNOWN_LOGIC"}
  /\ built # "none" => parses > 0
  /\ built \in {"INVALID_FILE", "MISSING_KEY"} =>
       stackFile # NoStackFile /\ ValidateStackFile(stackFile) # 0

\* The inductive invariant.
CorpusInv == IInv /\ PastInv /\ GateInv /\ BuiltInv

\* A layer's errors.
LEMMA LayerErrs ==
  ASSUME NEW y
  PROVE  /\ LayerErr(y) \in {"SUCCESS", "MISSING_KEY", "UNKNOWN_SERVICE", "UNKNOWN_LOGIC"}
         /\ LayerErr(y) = "MISSING_KEY" => ~Has(y, "service")
BY DEF LayerErr

\* A stack file's errors: what build() finds malformed, the validator has found.
LEMMA BuildErrs ==
  ASSUME NEW root \in Nodes
  PROVE  /\ BuildErr(root) \in {"SUCCESS", "INVALID_FILE", "MISSING_KEY", "UNKNOWN_SERVICE",
                                "UNKNOWN_LOGIC"}
         /\ BuildErr(root) \in {"INVALID_FILE", "MISSING_KEY"} => ValidateStackFile(root) # 0
<1> DEFINE ys == ListAt(root, "layers")
           bad == {k \in DOMAIN ys : LayerErr(ys[k]) # "SUCCESS"}
           err1 == IF bad = {} THEN "SUCCESS" ELSE LayerErr(ys[First(bad)])
           p == ~Has(root, "stack") \/ Get(root, "stack").t # "val"
           q == ~Has(root, "layers") \/ Get(root, "layers").t # "list"
<1>1. BuildErr(root) = CASE root.t # "map" -> "INVALID_FILE"
                         [] p -> "MISSING_KEY"
                         [] q -> "MISSING_KEY"
                         [] OTHER -> err1
  BY DEF BuildErr
<1>2. ys \in Seq(Nodes)
  BY ListNodes
<1> HIDE DEF ys
<1>3. bad # {} => First(bad) \in bad
  <2>1. bad \in SUBSET Nat
    BY <1>2
  <2> HIDE DEF bad
  <2> QED
    BY <2>1, FirstIn
<1>4. bad # {} => First(bad) \in DOMAIN ys
  BY <1>3
<1>5. /\ err1 \in {"SUCCESS", "MISSING_KEY", "UNKNOWN_SERVICE", "UNKNOWN_LOGIC"}
      /\ err1 = "MISSING_KEY" => \E k \in DOMAIN ys : ~Has(ys[k], "service")
  <2>1. CASE bad = {}
    BY <2>1
  <2>2. CASE bad # {}
    BY <1>4, <2>2, LayerErrs
  <2> QED
    BY <2>1, <2>2
<1> HIDE DEF bad, err1
<1>6. ValidateStackFile(root) = 0 =>
        /\ root.t = "map" /\ ~Lacks(root, "stack") /\ ys # <<>>
        /\ \A i \in DOMAIN ys : ~Lacks(ys[i], "service")
  BY StackErrors DEF ys
<1>7. ValidateStackFile(root) = 0 => root.t = "map" /\ ~p /\ ~q /\ err1 # "MISSING_KEY"
  BY <1>5, <1>6 DEF Lacks, IsNonEmptyScalar, ys, ListAt
<1> HIDE DEF p, q
<1>8. BuildErr(root) \in {"INVALID_FILE", "MISSING_KEY"} =>
        root.t # "map" \/ p \/ q \/ err1 = "MISSING_KEY"
  BY <1>1, <1>5
<1>9. BuildErr(root) \in {"SUCCESS", "INVALID_FILE", "MISSING_KEY", "UNKNOWN_SERVICE", "UNKNOWN_LOGIC"}
  BY <1>1, <1>5
<1> QED
  BY <1>7, <1>8, <1>9

\* Nothing that the invariants of the parser say changes.
LEMMA PastStutters ==
  ASSUME IInv, PastInv, UNCHANGED vars PROVE IInv' /\ PastInv'
<1>1. IInv'
  BY StutterKeeps
<1>2. PastInv'
  BY PastKept DEF vars
<1> QED
  BY <1>1, <1>2

\* Every step keeps the invariant.
LEMMA CorpusSteps ==
  ASSUME CorpusInv, [CorpusNext]_corpusVars PROVE CorpusInv'
<1>1. IInv /\ PastInv /\ GateInv /\ BuiltInv /\ parses \in Nat
  BY DEF CorpusInv, PastInv, CallInv
<1>2. CASE Validate /\ parses = 0 /\ UNCHANGED <<vars, built>>
  <2>1. UNCHANGED vars /\ tree' = tree /\ parses' = parses /\ built' = built
    BY <1>2 DEF vars
  <2>2. BuiltInv'
    BY <1>1, <1>2, <2>1 DEF BuiltInv
  <2> QED
    BY <1>1, <1>2, <2>1, <2>2, PastStutters, ValidateKeeps DEF CorpusInv
<1>3. CASE ValidatorStep /\ UNCHANGED <<vars, built>>
  <2>1. UNCHANGED vars /\ tree' = tree /\ parses' = parses /\ built' = built
    BY <1>3 DEF vars
  <2>2. stackFile' = stackFile
    BY <1>3 DEF ValidatorStep, ValidateFile, VisitOther, Pop, ValidateEnd
  <2>3. BuiltInv'
    BY <1>1, <2>1, <2>2 DEF BuiltInv
  <2>4. GateInv'
    BY <1>1, <1>3, <2>1, ValidateFileKeeps, VisitOtherKeeps, PopKeeps, ValidateEndKeeps DEF ValidatorStep
  <2> QED
    BY <1>1, <2>1, <2>3, <2>4, PastStutters DEF CorpusInv
<1>4. CASE Next /\ UNCHANGED <<validatorVars, built>>
  <2>1. IInv'
    BY <1>1, <1>4, SkipKeeps, ParseFileKeeps, EnterDirectoryKeeps, LeaveDirectoryKeeps,
       ParseReturnKeeps, ParseKeeps DEF Next, Step
  <2>2. PastInv'
    BY <1>1, <1>4, PastSteps
  <2>3. tree' = tree /\ (parses > 0 => parses' > 0)
    BY <1>1, <1>4 DEF Next, Step, Parse, Skip, ParseFile, EnterDirectory, LeaveDirectory, ParseReturn
  <2>4. UNCHANGED validatorVars /\ stackFile' = stackFile /\ built' = built
    BY <1>4 DEF validatorVars
  <2>5. GateInv'
    BY <1>1, <2>3, <2>4, GateStutters
  <2>6. BuiltInv'
    BY <1>1, <2>3, <2>4 DEF BuiltInv
  <2> QED
    BY <2>1, <2>2, <2>5, <2>6 DEF CorpusInv
<1>5. CASE LoadStack
  <2>1. /\ UNCHANGED vars /\ UNCHANGED validatorVars /\ tree' = tree /\ parses' = parses
        /\ stackFile' = stackFile
    BY <1>5 DEF LoadStack, vars, validatorVars
  <2>2. result = "SUCCESS" /\ stackFile # NoStackFile /\ built' = BuildErr(stackFile)
    BY <1>5 DEF LoadStack
  <2>3. parses > 0
    BY <1>1, <2>2 DEF PastInv, CallInv
  <2>4. stackFile \in Nodes
    BY <1>1, <2>2, ValidatorAssumption DEF GateInv, GateTypes
  <2>5. BuiltInv'
    BY <2>1, <2>2, <2>3, <2>4, BuildErrs DEF BuiltInv
  <2> QED
    BY <1>1, <2>1, <2>5, PastStutters, GateStutters DEF CorpusInv
<1>6. CASE UNCHANGED corpusVars
  <2>1. /\ UNCHANGED vars /\ UNCHANGED validatorVars /\ tree' = tree /\ parses' = parses
        /\ stackFile' = stackFile /\ built' = built
    BY <1>6 DEF corpusVars, vars, validatorVars
  <2>2. BuiltInv'
    BY <1>1, <2>1 DEF BuiltInv
  <2> QED
    BY <1>1, <2>1, <2>2, PastStutters, GateStutters DEF CorpusInv
<1> QED
  BY <1>2, <1>3, <1>4, <1>5, <1>6 DEF CorpusNext, Next

\* The invariant holds at the start.
LEMMA CorpusStarts ==
  ASSUME CorpusInit PROVE CorpusInv
<1>1. Init /\ ValidatorInit /\ built = "none"
  BY DEF CorpusInit
<1>2. GateInv
  <2>1. GateTypes
    <3>1. <<>> \in Seq(SUBSET DOMAIN tree)
      OBVIOUS
    <3> QED
      BY <1>1, <3>1 DEF Init, ValidatorInit, GateTypes
  <2> QED
    BY <1>1, <2>1 DEF GateInv, ValidatorInit, GateIsComplete
<1>3. BuiltInv
  BY <1>1 DEF BuiltInv
<1> QED
  BY <1>1, <1>2, <1>3, InitInv, PastInit DEF CorpusInv

\* The invariant of the three programs.
LEMMA CorpusInductive == CorpusSpec => []CorpusInv
<1>1. CorpusInit => CorpusInv
  BY CorpusStarts
<1>2. CorpusInv /\ [CorpusNext]_corpusVars => CorpusInv'
  BY CorpusSteps
<1> QED
  BY <1>1, <1>2, PTL DEF CorpusSpec

\* The gate misses no file: whatever the order in which directories list their
\* entries, however deep a file is and however many before it had errors, the
\* exit code is 0 exactly when all conform (validateDirectory).
THEOREM GateMissesNothing == CorpusSpec => []GateIsComplete
<1>1. CorpusInv => GateIsComplete
  BY DEF CorpusInv, GateInv
<1> QED
  BY <1>1, CorpusInductive, PTL
-----------------------------------------------------------------------------
(* Types *)

\* stoull's result, or 0.
LEMMA NumberNat ==
  ASSUME NEW n \in Nodes PROVE Number(n) \in Nat
<1>1. CASE n.t = "val"
  <2>1. n.ull \in Nat \cup {-1}
    BY <1>1, NodesAssumption
  <2> QED
    BY <1>1, <2>1 DEF Number, Stoull
<1>2. CASE n.t # "val"
  BY <1>2 DEF Number, Stoull
<1> QED
  BY <1>1, <1>2

\* A size is a uint32_t.
LEMMA SizeCut ==
  ASSUME NEW v \in Nodes PROVE VarOf(v).size \in 0 .. SizeModulus - 1
<1>1. VarOf(v).size = SizeOf(v)
  BY DEF VarOf
<1>2. CASE Has(v, "size")
  <2> DEFINE n == Number(Get(v, "size"))
  <2>1. n \in Nat
    BY <1>2, GetNode, NumberNat
  <2>2. SizeOf(v) = n % SizeModulus
    BY <1>2 DEF SizeOf
  <2> HIDE DEF n
  <2>3. SizeModulus \in Nat \ {0}
    BY ParserAssumption
  <2>4. n % SizeModulus \in 0 .. SizeModulus - 1
    BY <2>1, <2>3
  <2> QED
    BY <1>1, <2>2, <2>4
<1>3. CASE ~Has(v, "size")
  BY <1>1, <1>3, ParserAssumption DEF SizeOf
<1> QED
  BY <1>2, <1>3

\* Every variable has its type: the walk never goes deeper than the limit, and
\* the sizes in the database are uint32_t.
LEMMA ParserTypes ==
  ASSUME IInv, PastInv PROVE TypeOK
<1> USE ParserAssumption
<1>1. /\ WalkInv /\ OriginInv /\ tree \in Trees /\ calling \in {"no", "parse", "never"}
      /\ parses \in 0 .. MaxParses /\ result \in Errors \cup {"none"}
  BY DEF IInv, WalkInv, PastInv, CallInv
<1>2. Len(frames) <= MAX_CURRENT_DEPTH_PATH + 1
  <2>1. CASE calling = "parse"
    BY <1>1, <2>1 DEF WalkInv
  <2>2. CASE calling # "parse"
    <3>1. Len(frames) = 0
      BY <1>1, <2>2 DEF WalkInv
    <3> QED
      BY <3>1
  <2> QED
    BY <2>1, <2>2
<1>3. \A k \in DOMAIN frames : frames[k].left \subseteq tree[frames[k].dir].entries
  <2>1. DOMAIN frames = 1 .. Len(frames)
    BY <1>1 DEF WalkInv
  <2> QED
    BY <1>1, <2>1 DEF WalkInv
<1>4. err \in Errors /\ mCurrentDepthPathListing \in Nat
  BY <1>1 DEF WalkInv, Errors
<1>5. ASSUME NEW k \in DOMAIN mDbVars PROVE mDbVars[k].size \in 0 .. SizeModulus - 1
  <2>1. PICK f \in Seen : VarFrom(f, k, mDbVars[k])
    BY <1>1 DEF OriginInv
  <2>2. PICK i \in DOMAIN VarItems(f) : mDbVars[k] = VarItems(f)[i].val
    BY <2>1 DEF VarFrom
  <2>3. f \in Nodes
    BY <1>1, SeenRoots DEF OriginInv
  <2> DEFINE vs == Keyed(ListAt(f, "vars"), "var")
  <2>4. vs \in Seq(Nodes) /\ i \in 1 .. Len(vs) /\ VarItems(f)[i].val = VarOf(vs[i])
    BY <2>3, VarItemsAre
  <2> HIDE DEF vs
  <2>5. vs[i] \in Nodes
    BY <2>4
  <2> QED
    BY <2>2, <2>4, <2>5, SizeCut
<1> QED
  BY <1>1, <1>2, <1>3, <1>4, <1>5 DEF TypeOK

\* Every variable has its type, for every tree and every stack file: no walk
\* goes deeper than MAX_CURRENT_DEPTH_PATH, and no walk of the validator is
\* anywhere but in directories on the disk.
THEOREM CorpusTypes == CorpusSpec => []CorpusTypeOK
<1>1. CorpusInv => CorpusTypeOK
  <2> SUFFICES ASSUME CorpusInv PROVE CorpusTypeOK
    OBVIOUS
  <2>1. TypeOK /\ GateTypes /\ BuiltInv
    BY ParserTypes DEF CorpusInv, GateInv
  <2>2. \A k \in DOMAIN left : left[k] \subseteq DOMAIN tree
    <3> DEFINE X == SUBSET DOMAIN tree
    <3>1. left \in Seq(X)
      BY <2>1 DEF GateTypes
    <3> HIDE DEF X
    <3>2. \A k \in DOMAIN left : left[k] \in X
      BY <3>1
    <3> QED
      BY <3>2 DEF X
  <2> QED
    BY <2>1, <2>2 DEF CorpusTypeOK, GateTypes, BuiltInv
<1> QED
  BY <1>1, CorpusInductive, PTL

\* The parser is unaware of the others: what is proved of it alone holds here.
THEOREM ParserAlone == CorpusSpec => Spec
<1>1. CorpusInit => Init
  BY DEF CorpusInit
<1>2. [CorpusNext]_corpusVars => [Next]_vars
  BY DEF CorpusNext, Next, LoadStack, corpusVars
<1> QED
  BY <1>1, <1>2, PTL DEF CorpusSpec, Spec
-----------------------------------------------------------------------------
(* What the gate lets through *)

\* Without links the parser goes where the validator went.
LEMMA LevelsAreBelow ==
  ASSUME tree \in Trees, ~Linked, Base \in DOMAIN tree, GateOpen, NEW n \in Nat
  PROVE  DirsAt[n] \subseteq Below
<1> DEFINE K == {m \in Nat : DirsAt[m] \subseteq Below}
<1>1. Real(Base) \in DOMAIN tree /\ At(Base).kind = "dir"
  BY RealIn DEF GateOpen
<1>2. 0 \in K
  BY <1>1, BelowBase, DirsAtDef
<1>3. ASSUME NEW m \in Nat, m \in K PROVE m + 1 \in K
  <2>1. DirsAt[m + 1] = SubDirsOf(DirsAt[m])
    BY <1>1, DirsFromDef DEF DirsAt
  <2>2. ASSUME NEW x \in SubDirsOf(DirsAt[m]) PROVE x \in Below
    <3>1. PICK d \in DirsAt[m] : x \in SubDirs(d)
      BY DEF SubDirsOf
    <3>2. d \in Below /\ d \in Dirs
      BY <1>1, <1>3, BelowBase
    <3>3. PICK e \in tree[d].entries : At(e).kind \in {"dir", "closed"} /\ x = Real(e)
      BY <3>1 DEF SubDirs
    <3>4. e \in DOMAIN tree
      BY <1>1, <3>2, BelowBase
    <3>5. Real(e) = e /\ At(e) = tree[e]
      BY <3>4 DEF Linked, Real, At
    <3>6. tree[e].kind = "dir"
      BY <3>2, <3>3, <3>5 DEF GateOpen
    <3> QED
      BY <1>1, <3>2, <3>3, <3>5, <3>6, BelowBase
  <2> QED
    BY <2>1, <2>2
<1>4. n \in K
  <2> HIDE DEF K
  <2> QED
    BY <1>2, <1>3, NatSetInduction
<1> QED
  BY <1>4

\* The base path, the directories and the files that a clean tree has.
LEMMA CleanTree ==
  ASSUME CorpusInv, Clean, ~Linked
  PROVE  /\ tree \in Trees /\ Base \in DOMAIN tree /\ At(Base).kind = "dir"
         /\ \A n \in Nat : \A d \in DirsAt[n] : tree[d].kind = "dir"
         /\ \A y \in Yamls : Conforming(tree[y]) /\ y \in DOMAIN tree /\ tree[y].root \in Nodes
<1>1. tree \in Trees /\ GateOpen /\ GateIsComplete /\ validating = "done" /\ errors = 0
  BY DEF CorpusInv, GateInv, GateTypes, Clean
<1>2. /\ Base \in DOMAIN tree
      /\ \A d \in Below : \A e \in tree[d].entries :
           tree[e].kind = "file" /\ tree[e].ext \in {".yaml", ".yml"} => Conforming(tree[e])
  BY <1>1 DEF GateIsComplete
<1>3. At(Base).kind = "dir"
  BY <1>1, <1>2 DEF GateOpen
<1>4. \A n \in Nat : DirsAt[n] \subseteq Below
  BY <1>1, <1>2, LevelsAreBelow
<1>5. \A n \in Nat : \A d \in DirsAt[n] : tree[d].kind = "dir"
  BY <1>4 DEF Below, Dirs
<1>6. ASSUME NEW y \in Yamls PROVE Conforming(tree[y]) /\ y \in DOMAIN tree /\ tree[y].root \in Nodes
  <2>1. PICK n \in 0 .. MAX_CURRENT_DEPTH_PATH : \E d \in DirsAt[n] : y \in tree[d].entries
    BY DEF Yamls, Reachable
  <2>2. PICK d \in DirsAt[n] : y \in tree[d].entries
    BY <2>1
  <2>3. d \in Below /\ d \in Dirs
    BY <1>1, <1>2, <1>3, <1>4, BelowBase, ParserAssumption
  <2>4. tree[y].kind = "file" /\ tree[y].ext = ".yaml"
    BY DEF Yamls
  <2>5. y \in DOMAIN tree
    BY <1>1, <1>2, <1>3, <2>2, <2>3, BelowBase
  <2>6. tree[y].root \in Nodes
    BY <1>1, <2>4, <2>5, NodesAssumption DEF Roots
  <2> QED
    BY <1>2, <2>2, <2>3, <2>4, <2>5, <2>6
<1> QED
  BY <1>1, <1>2, <1>3, <1>5, <1>6

\* A conforming file is read, and is a protocol unless its service is a number.
LEMMA ConformingIsProtocol ==
  ASSUME NEW f, f.root \in Nodes, Conforming(f)
  PROVE  /\ MayRead(f) /\ (MayDie(f) => f.full)
         /\ ~NumberedService(f.root) => IsProtocol(f.root) /\ FileErr(f.root) # "UNEXPECTED"
         /\ ServiceOf(f.root) # NoName
<1> DEFINE r == f.root
<1>1. r.t = "map" /\ ~Lacks(r, "service") /\ Has(r, "service")
  BY ProtocolErrors DEF Conforming, Lacks
<1>2. Get(r, "service").t = "val" /\ Get(r, "service").text # NoName
  BY <1>1 DEF Lacks, IsNonEmptyScalar
<1>3. MayRead(f) /\ (MayDie(f) => f.full)
  BY <1>1 DEF MayRead, MayDie
<1>4. ServiceOf(r) # NoName
  BY <1>2 DEF ServiceOf, Text
<1>5. ASSUME ~NumberedService(r) PROVE FileErr(r) = "SUCCESS"
  BY <1>1, <1>2, <1>5 DEF FileErr, NumberedService
<1> HIDE DEF r
<1>6. ~NumberedService(r) => IsProtocol(r) /\ FileErr(r) # "UNEXPECTED"
  BY <1>1, <1>5 DEF IsProtocol
<1> QED
  BY <1>3, <1>4, <1>6 DEF r

\* What passed the validator can be used: the parser neither ends nor fails on
\* it, and a stack file is never found malformed, but for the differences that
\* CleanIsUsable names (validateDirectory, listProtocolFiles, StackBuilder).
THEOREM UsableIfClean == CorpusSpec => []CleanIsUsable
<1>1. CorpusInv => CleanIsUsable
  <2> SUFFICES ASSUME CorpusInv, Clean PROVE
                 /\ built \notin {"INVALID_FILE", "MISSING_KEY"}
                 /\ ~Linked =>
                      /\ calling = "never" => \E y \in Yamls : tree[y].full
                      /\ result \in {"UNEXPECTED", "INVALID_INPUT"} =>
                           \/ DirsAt[MAX_CURRENT_DEPTH_PATH + 1] # {}
                           \/ \E y \in Yamls : NumberedService(tree[y].root)
                           \/ Yamls = {}
    BY DEF CleanIsUsable
  <2>1. built \notin {"INVALID_FILE", "MISSING_KEY"}
    BY DEF CorpusInv, BuiltInv, GateInv, GateIsComplete, Clean
  <2>2. ASSUME ~Linked, calling = "never" PROVE \E y \in Yamls : tree[y].full
    <3>1. /\ At(Base).kind = "dir"
          /\ \A n \in Nat : \A d \in DirsAt[n] : tree[d].kind = "dir"
          /\ \A y \in Yamls : Conforming(tree[y]) /\ y \in DOMAIN tree /\ tree[y].root \in Nodes
      BY <2>2, CleanTree
    <3>2. ~Barred
      BY <3>1, ParserAssumption DEF Barred
    <3>3. Deadly
      BY <2>2, <3>1, <3>2 DEF CorpusInv, PastInv, CrashInv
    <3>4. PICK y \in Yamls : MayDie(tree[y])
      BY <3>3 DEF Deadly
    <3> QED
      BY <3>1, <3>4, ConformingIsProtocol
  <2>3. ASSUME ~Linked, result \in {"UNEXPECTED", "INVALID_INPUT"},
               DirsAt[MAX_CURRENT_DEPTH_PATH + 1] = {},
               \A y \in Yamls : ~NumberedService(tree[y].root), Yamls # {}
        PROVE  FALSE
    <3>1. /\ Base \in DOMAIN tree /\ At(Base).kind = "dir"
          /\ \A n \in Nat : \A d \in DirsAt[n] : tree[d].kind = "dir"
          /\ \A y \in Yamls : Conforming(tree[y]) /\ tree[y].root \in Nodes
      BY <2>3, CleanTree
    <3>2. \A y \in Yamls : /\ MayRead(tree[y]) /\ IsProtocol(tree[y].root)
                           /\ FileErr(tree[y].root) # "UNEXPECTED" /\ ServiceOf(tree[y].root) # NoName
      BY <2>3, <3>1, ConformingIsProtocol
    <3>3. PICK y \in Yamls : TRUE
      BY <2>3
    <3>4. tree[y].root \in Protocols
      BY <3>2, <3>3 DEF Protocols
    <3>5. \E root \in Protocols : ServiceOf(root) # NoName
      BY <3>2, <3>3, <3>4
    <3>6. \A n \in 0 .. MAX_CURRENT_DEPTH_PATH : n \in Nat
      BY ParserAssumption
    <3>7. Loadable
      BY <2>3, <3>1, <3>2, <3>5, <3>6 DEF Loadable
    <3> QED
      BY <2>3, <3>7 DEF CorpusInv, IInv, OutcomeByTree
  <2> QED
    BY <2>1, <2>2, <2>3
<1> QED
  BY <1>1, CorpusInductive, PTL
-----------------------------------------------------------------------------
(* What the gate lets through is read as it is written *)

\* A plain number is read as it is.
LEMMA PlainNumber ==
  ASSUME NEW n \in Nodes, IsUintScalar(n)
  PROVE  Number(n) = n.ull
<1>1. n.t = "val" /\ n.ull >= 0
  BY DEF IsUintScalar
<1>2. n.ull \in Nat \cup {-1}
  BY <1>1, NodesAssumption
<1> QED
  BY <1>1, <1>2 DEF Number, Stoull

\* A list of plain numbers.
LEMMA PlainNumbers ==
  ASSUME NEW n \in Nodes, IsUintList(n)
  PROVE  /\ n.items \in Seq(Nodes)
         /\ \A i \in 1 .. Len(n.items) : Number(n.items[i]) = n.items[i].ull
<1>1. n.t = "list" /\ n.items \in Seq(Nodes)
  BY NodesAssumption DEF IsUintList
<1>2. DOMAIN n.items = 1 .. Len(n.items) /\ \A i \in 1 .. Len(n.items) : n.items[i] \in Nodes
  BY <1>1
<1> QED
  BY <1>1, <1>2, PlainNumber DEF IsUintList

\* The numbers of a list, followed by one more or none.
LEMMA NumbersAre ==
  ASSUME NEW s \in Seq(Nodes), NEW t \in Seq(Nodes),
         \A i \in 1 .. Len(s) : Number(s[i]) = s[i].ull,
         \A i \in 1 .. Len(t) : Number(t[i]) = t[i].ull
  PROVE  Numbers(s \o t) = [i \in DOMAIN s |-> s[i].ull] \o [i \in DOMAIN t |-> t[i].ull]
<1> DEFINE R == {x.ull : x \in Nodes} \cup {Number(x) : x \in Nodes}
           u == Numbers(s \o t)
           a == [i \in DOMAIN s |-> s[i].ull]
           b == [i \in DOMAIN t |-> t[i].ull]
<1>1. /\ DOMAIN s = 1 .. Len(s) /\ Len(s) \in Nat /\ \A i \in 1 .. Len(s) : s[i] \in Nodes
      /\ DOMAIN t = 1 .. Len(t) /\ Len(t) \in Nat /\ \A i \in 1 .. Len(t) : t[i] \in Nodes
  OBVIOUS
<1>2. \A i \in 1 .. Len(s) : s[i].ull \in R
  BY <1>1
<1>3. \A i \in 1 .. Len(t) : t[i].ull \in R
  BY <1>1
<1>4. s \o t \in Seq(Nodes) /\ Len(s \o t) = Len(s) + Len(t)
      /\ \A i \in 1 .. Len(s \o t) : (s \o t)[i] = IF i <= Len(s) THEN s[i] ELSE t[i - Len(s)]
  OBVIOUS
<1>5. u = [i \in 1 .. Len(s) + Len(t) |-> Number((s \o t)[i])]
  BY <1>1, <1>4 DEF Numbers
<1>6. \A i \in 1 .. Len(s) + Len(t) : Number((s \o t)[i]) \in R
  BY <1>1, <1>4
<1> HIDE DEF R
<1>7. a \in Seq(R) /\ Len(a) = Len(s) /\ \A i \in 1 .. Len(s) : a[i] = s[i].ull
  BY <1>1, <1>2
<1>8. b \in Seq(R) /\ Len(b) = Len(t) /\ \A i \in 1 .. Len(t) : b[i] = t[i].ull
  BY <1>1, <1>3
<1>9. u \in Seq(R) /\ Len(u) = Len(s) + Len(t)
      /\ \A i \in 1 .. Len(s) + Len(t) : u[i] = Number((s \o t)[i])
  BY <1>1, <1>5, <1>6
<1> HIDE DEF a, b, u
<1>10. \A i \in 1 .. Len(a) : u[i] = a[i]
  <2> SUFFICES ASSUME NEW i \in 1 .. Len(s) PROVE u[i] = a[i]
    BY <1>7
  <2>1. i \in 1 .. Len(s) + Len(t) /\ (s \o t)[i] = s[i]
    BY <1>1, <1>4
  <2> QED
    BY <1>7, <1>9, <2>1
<1>11. \A i \in 1 .. Len(b) : u[Len(a) + i] = b[i]
  <2> SUFFICES ASSUME NEW i \in 1 .. Len(t) PROVE u[Len(s) + i] = b[i]
    BY <1>7, <1>8
  <2>1. Len(s) + i \in 1 .. Len(s) + Len(t) /\ (s \o t)[Len(s) + i] = t[i]
    BY <1>1, <1>4
  <2> QED
    BY <1>8, <1>9, <2>1
<1>12. Len(u) = Len(a) + Len(b)
  BY <1>7, <1>8, <1>9
<1>13. u \in Seq(R) /\ a \in Seq(R) /\ b \in Seq(R)
  BY <1>7, <1>8, <1>9
<1>14. u = a \o b
  BY <1>10, <1>11, <1>12, <1>13, IsConcat
<1> QED
  BY <1>14 DEF a, b, u

\* A variable without an error is read as it is written.
LEMMA ExactVar ==
  ASSUME NEW v \in Nodes, ValidateVar(v) = 0
  PROVE  VarOf(v) = Exactly(v) /\ VarOf(v).size \in 1 .. MaxSize
<1> DEFINE e == ExpectedOf(v)
           value == IF Has(e, "value") THEN <<Get(e, "value")>> ELSE <<>>
           values == ListAt(e, "values")
           range == ListAt(e, "range")
           mask == ListAt(e, "mask")
           As(items) == [i \in DOMAIN items |-> items[i].ull]
           one == IF Has(e, "value") THEN <<Get(e, "value").ull>> ELSE <<>>
           m == IF Has(e, "mask") THEN Get(e, "mask").items[1].ull ELSE 0
<1>1. /\ v.t = "map" /\ SizeOk(v) /\ (Has(v, "expected") => ValidateExpected(Get(v, "expected")) = 0)
  BY VarErrors
<1>2. SizeOf(v) = Get(v, "size").ull /\ Get(v, "size").ull \in 1 .. MaxSize
  <2> DEFINE n == Get(v, "size").ull
  <2>1. Has(v, "size") /\ IsUintScalar(Get(v, "size")) /\ n \in 1 .. MaxSize
    BY <1>1 DEF SizeOk
  <2>2. SizeOf(v) = n % SizeModulus
    BY <2>1, GetNode, PlainNumber DEF SizeOf
  <2> HIDE DEF n
  <2>3. n \in Nat /\ n < SizeModulus /\ SizeModulus \in Nat \ {0}
    BY <2>1, ValidatorAssumption, ParserAssumption, CorpusAssumption
  <2>4. n % SizeModulus = n
    BY <2>3
  <2> QED
    BY <2>1, <2>2, <2>4 DEF n
<1>3. /\ Has(e, "value") => IsUintScalar(Get(e, "value")) /\ Get(e, "value") \in Nodes
      /\ Has(e, "values") => IsUintList(Get(e, "values")) /\ Get(e, "values") \in Nodes
      /\ Has(e, "range") => IsUintList(Get(e, "range")) /\ Get(e, "range") \in Nodes /\ Len(range) = 2
      /\ Has(e, "mask") => IsUintList(Get(e, "mask")) /\ Get(e, "mask") \in Nodes /\ Len(mask) = 1
  <2>1. CASE Has(v, "expected")
    <3>1. e = Get(v, "expected") /\ e \in Nodes /\ ValidateExpected(e) = 0
      BY <1>1, <2>1, GetNode DEF ExpectedOf
    <3> HIDE DEF e
    <3> QED
      BY <3>1, ExpectedErrors, GetNode
  <2>2. CASE ~Has(v, "expected")
    <3>1. e = [t |-> "map", items |-> <<>>]
      BY <2>2 DEF ExpectedOf
    <3>2. e.items = <<>>
      BY <3>1
    <3> HIDE DEF e
    <3>3. \A k : KeyAt(e, k) = {}
      BY <3>2 DEF KeyAt
    <3>4. \A k : ~Has(e, k)
      BY <3>3 DEF Has
    <3> QED
      BY <3>4
  <2> QED
    BY <2>1, <2>2
<1>4. VarOf(v) = [size |-> SizeOf(v), expected |-> Numbers(values \o value),
                  range |-> IF Len(range) = 2 THEN Numbers(range) ELSE <<>>,
                  mask |-> IF mask = <<>> THEN 0 ELSE Number(mask[1])]
  BY DEF VarOf, ExpectedOf
<1>5. Exactly(v) = [size |-> Get(v, "size").ull, expected |-> As(values) \o one,
                    range |-> As(range), mask |-> m]
  BY DEF Exactly, ExpectedOf
<1> HIDE DEF e
<1>6. /\ values \in Seq(Nodes) /\ \A i \in 1 .. Len(values) : Number(values[i]) = values[i].ull
  <2>1. CASE Has(e, "values")
    <3>1. values = Get(e, "values").items
      BY <1>3, <2>1 DEF ListAt, IsUintList
    <3> QED
      BY <1>3, <2>1, <3>1, PlainNumbers
  <2>2. CASE ~Has(e, "values")
    <3>1. values = <<>>
      BY <2>2 DEF ListAt
    <3> HIDE DEF values
    <3> QED
      BY <3>1
  <2> QED
    BY <2>1, <2>2
<1>7. /\ value \in Seq(Nodes) /\ (\A i \in 1 .. Len(value) : Number(value[i]) = value[i].ull)
      /\ As(value) = one
  <2>1. CASE Has(e, "value")
    <3> DEFINE x == Get(e, "value")
    <3>1. value = <<x>> /\ one = <<x.ull>> /\ x \in Nodes /\ Number(x) = x.ull
      BY <1>3, <2>1, PlainNumber
    <3> HIDE DEF x, value, one
    <3>2. Len(value) = 1 /\ value[1] = x /\ DOMAIN value = {1} /\ value \in Seq(Nodes)
      BY <3>1
    <3>3. As(value) = one
      BY <3>1, <3>2
    <3> QED
      BY <3>1, <3>2, <3>3
  <2>2. CASE ~Has(e, "value")
    <3>1. value = <<>> /\ one = <<>>
      BY <2>2
    <3> HIDE DEF value, one
    <3> QED
      BY <3>1
  <2> QED
    BY <2>1, <2>2
<1>8. Numbers(values \o value) = As(values) \o one
  <2> HIDE DEF values, value, one
  <2> QED
    BY <1>6, <1>7, NumbersAre
<1>9. (IF Len(range) = 2 THEN Numbers(range) ELSE <<>>) = As(range)
  <2>1. CASE Has(e, "range")
    <3>1. range = Get(e, "range").items /\ Len(range) = 2
      BY <1>3, <2>1 DEF ListAt, IsUintList
    <3>2. range \in Seq(Nodes) /\ \A i \in 1 .. Len(range) : Number(range[i]) = range[i].ull
      BY <1>3, <2>1, <3>1, PlainNumbers
    <3> HIDE DEF range
    <3>3. Numbers(range) = As(range)
      BY <3>2 DEF Numbers
    <3> QED
      BY <3>1, <3>3
  <2>2. CASE ~Has(e, "range")
    <3>1. range = <<>>
      BY <2>2 DEF ListAt
    <3> HIDE DEF range
    <3>2. Len(range) = 0 /\ As(range) = <<>>
      BY <3>1
    <3> QED
      BY <3>2
  <2> QED
    BY <2>1, <2>2
<1>10. (IF mask = <<>> THEN 0 ELSE Number(mask[1])) = m
  <2>1. CASE Has(e, "mask")
    <3>1. mask = Get(e, "mask").items /\ Len(mask) = 1
      BY <1>3, <2>1 DEF ListAt, IsUintList
    <3>2. mask \in Seq(Nodes) /\ \A i \in 1 .. Len(mask) : Number(mask[i]) = mask[i].ull
      BY <1>3, <2>1, <3>1, PlainNumbers
    <3>3. m = mask[1].ull
      BY <2>1, <3>1
    <3> HIDE DEF mask, m
    <3>4. mask # <<>> /\ 1 \in 1 .. Len(mask)
      BY <3>1
    <3> QED
      BY <3>2, <3>3, <3>4
  <2>2. CASE ~Has(e, "mask")
    BY <2>2 DEF ListAt
  <2> QED
    BY <2>1, <2>2
<1> HIDE DEF values, value, one, range, mask, m, As
<1>11. VarOf(v) = Exactly(v)
  BY <1>2, <1>4, <1>5, <1>8, <1>9, <1>10
<1>12. VarOf(v).size = SizeOf(v)
  BY <1>4
<1> QED
  BY <1>2, <1>11, <1>12

\* The empty text has one component.
LEMMA NoNameIs == Len(NoName) = 1
<1>1. \A x : Len(<<x>>) = 1
  OBVIOUS
<1> QED
  BY <1>1, Zenon DEF NoName

\* A text has a component.
LEMMA TextIs ==
  ASSUME NEW n \in Nodes, ~(n.t # "val")
  PROVE  Text(n) \in Seq(STRING) /\ Len(Text(n)) >= 1
<1>1. n.text \in Seq(STRING) \ {<<>>} /\ Text(n) = n.text
  BY NodesAssumption DEF Text
<1> DEFINE s == n.text
<1> HIDE DEF s
<1>2. s \in Seq(STRING) /\ s # <<>>
  BY <1>1 DEF s
<1>3. Len(s) >= 1
  BY <1>2
<1> QED
  BY <1>1, <1>2, <1>3 DEF s

\* A required text that is there.
LEMMA NotLacking ==
  ASSUME NEW n \in Nodes, NEW k, ~Lacks(n, k)
  PROVE  Has(n, k) /\ Text(Get(n, k)) \in Seq(STRING) /\ Len(Text(Get(n, k))) >= 1
<1>1. Has(n, k) /\ Get(n, k).t = "val" /\ Get(n, k) \in Nodes
  BY GetNode DEF Lacks, IsNonEmptyScalar
<1> QED
  BY <1>1, TextIs

\* A name under a service is not the empty name.
LEMMA Qualified ==
  ASSUME NEW a \in Seq(STRING), NEW b \in Seq(STRING), Len(a) >= 1, Len(b) >= 1
  PROVE  a \o b \in Seq(STRING) /\ Len(a \o b) >= 2 /\ a \o b # NoName
<1>1. a \o b \in Seq(STRING) /\ Len(a \o b) >= 2
  OBVIOUS
<1> QED
  BY <1>1, NoNameIs

\* Of a conforming file nothing is passed over.
LEMMA NothingPassedOver ==
  ASSUME NEW r \in Nodes, ValidateProtocolFile(r) = 0
  PROVE  /\ ServiceOf(r) \in Seq(STRING) /\ Len(ServiceOf(r)) >= 1
         /\ Keyed(ListAt(r, "vars"), "var") = ListAt(r, "vars")
         /\ Keyed(ListAt(r, "entities"), "entity") = ListAt(r, "entities")
         /\ \A i \in 1 .. Len(ListAt(r, "entities")) :
              Keyed(ListAt(ListAt(r, "entities")[i], "interfaces"), "interface")
                = ListAt(ListAt(r, "entities")[i], "interfaces")
<1> DEFINE vs == ListAt(r, "vars")
           es == ListAt(r, "entities")
<1>1. /\ ~Lacks(r, "service") /\ \A i \in DOMAIN vs : ValidateVar(vs[i]) = 0
      /\ \A i \in DOMAIN es : ValidateEntity(es[i]) = 0
  BY ProtocolErrors
<1>2. ServiceOf(r) \in Seq(STRING) /\ Len(ServiceOf(r)) >= 1
  BY <1>1, NotLacking DEF ServiceOf
<1>3. vs \in Seq(Nodes) /\ es \in Seq(Nodes)
  BY ListNodes
<1> HIDE DEF vs, es
<1>4. /\ DOMAIN vs = 1 .. Len(vs) /\ \A i \in 1 .. Len(vs) : vs[i] \in Nodes
      /\ DOMAIN es = 1 .. Len(es) /\ \A i \in 1 .. Len(es) : es[i] \in Nodes
  BY <1>3
<1>5. \A i \in 1 .. Len(vs) : Has(vs[i], "var")
  BY <1>1, <1>4, VarErrors DEF Lacks
<1>6. \A i \in 1 .. Len(es) : Has(es[i], "entity")
  BY <1>1, <1>4, EntityErrors DEF Lacks
<1>7. Keyed(vs, "var") = vs /\ Keyed(es, "entity") = es
  BY <1>3, <1>5, <1>6, KeyedNodes
<1>8. ASSUME NEW i \in 1 .. Len(es)
      PROVE  Keyed(ListAt(es[i], "interfaces"), "interface") = ListAt(es[i], "interfaces")
  <2> DEFINE xs == ListAt(es[i], "interfaces")
  <2>1. es[i] \in Nodes /\ \A j \in DOMAIN xs : ValidateInterface(xs[j]) = 0
    BY <1>1, <1>4, EntityErrors
  <2>2. xs \in Seq(Nodes)
    BY <2>1, ListNodes
  <2> HIDE DEF xs
  <2>3. DOMAIN xs = 1 .. Len(xs) /\ \A j \in 1 .. Len(xs) : xs[j] \in Nodes
    BY <2>2
  <2>4. \A j \in 1 .. Len(xs) : Has(xs[j], "interface")
    BY <2>1, <2>3, InterfaceErrors DEF Lacks
  <2>5. Keyed(xs, "interface") = xs
    BY <2>2, <2>4, KeyedNodes
  <2> QED
    BY <2>5 DEF xs
<1> QED
  BY <1>2, <1>7, <1>8 DEF vs, es

\* An interface without an error is read as it is written.
LEMMA ExactInterface ==
  ASSUME NEW x \in Nodes, ValidateInterface(x) = 0, NEW root
  PROVE  /\ Len(InterfaceOf(root, x).refs) = Len(ListAt(x, "vars"))
         /\ InterfaceOf(root, x).dir = IF Text(Get(x, "dir")) = <<"in">> THEN "IN" ELSE "OUT"
<1> DEFINE rs == ListAt(x, "vars")
           refs == Keyed(rs, "var_ref")
           service == ServiceOf(root)
           InList(r) == IF Len(Text(Get(r, "var_ref"))) > 1 THEN Text(Get(r, "var_ref"))
                        ELSE service \o Text(Get(r, "var_ref"))
<1>1. /\ Has(x, "dir") /\ Text(Get(x, "dir")) \in {<<"in">>, <<"out">>}
      /\ Has(x, "vars") => Get(x, "vars").t = "list" /\ \A i \in DOMAIN rs : IsRef(rs[i])
  BY InterfaceErrors
<1>2. InterfaceOf(root, x).refs = RefsOf(root, x)
      /\ InterfaceOf(root, x).dir = IF Has(x, "dir") /\ Text(Get(x, "dir")) = <<"out">> THEN "OUT" ELSE "IN"
  BY DEF InterfaceOf
<1>3. RefsOf(root, x) = [i \in DOMAIN refs |-> InList(refs[i])]
  BY <1>1 DEF RefsOf
<1>4. rs \in Seq(Nodes)
  BY ListNodes
<1>5. ~Has(x, "vars") => rs = <<>>
  BY DEF ListAt
<1> HIDE DEF rs
<1>6. \A i \in 1 .. Len(rs) : Has(rs[i], "var_ref")
  BY <1>1, <1>4, <1>5 DEF IsRef
<1>7. refs = rs
  BY <1>4, <1>6, KeyedNodes
<1> HIDE DEF refs, InList
<1>8. DOMAIN refs = 1 .. Len(rs) /\ Len(rs) \in Nat
  BY <1>4, <1>7
<1>9. Len(RefsOf(root, x)) = Len(rs)
  BY <1>3, <1>8
<1>10. <<"in">> # <<"out">>
  OBVIOUS
<1>11. InterfaceOf(root, x).dir = IF Text(Get(x, "dir")) = <<"in">> THEN "IN" ELSE "OUT"
  BY <1>1, <1>2, <1>10
<1> QED
  BY <1>2, <1>9, <1>11 DEF rs

\* Every protocol that is loaded is a conforming file, and all is loaded.
LEMMA CleanProtocols ==
  ASSUME CorpusInv, Clean, ~Linked, result = "SUCCESS"
  PROVE  /\ \A f \in Protocols : f \in Nodes /\ ValidateProtocolFile(f) = 0
         /\ Seen \subseteq Protocols /\ OriginInv /\ EverythingLoaded
<1>1. ASSUME NEW f \in Protocols PROVE f \in Nodes /\ ValidateProtocolFile(f) = 0
  <2>1. PICK y \in Yamls : f = tree[y].root
    BY DEF Protocols
  <2> QED
    BY <2>1, CleanTree DEF Conforming
<1>2. calling = "no"
  BY DEF CorpusInv, PastInv, CallInv, IInv, WalkInv
<1>3. yamlPaths \subseteq Yamls /\ \A y \in yamlPaths : MayRead(tree[y])
  BY <1>2 DEF CorpusInv, IInv, LoadInv
<1>4. Seen \subseteq Protocols
  BY <1>3 DEF Seen, Protocols
<1> QED
  BY <1>1, <1>4 DEF CorpusInv, PastInv, IInv

\* The key of a variable is its item's, and is no empty name.
LEMMA VarKeys ==
  ASSUME NEW r \in Nodes, ValidateProtocolFile(r) = 0
  PROVE  /\ DOMAIN VarItems(r) = DOMAIN ListAt(r, "vars")
         /\ \A i \in DOMAIN ListAt(r, "vars") :
              /\ VarItems(r)[i].key = VarKey(r, i) /\ VarKey(r, i) # NoName
              /\ VarItems(r)[i].val = Exactly(ListAt(r, "vars")[i])
              /\ Exactly(ListAt(r, "vars")[i]).size \in 1 .. MaxSize
<1> DEFINE vs == ListAt(r, "vars")
<1>1. Keyed(vs, "var") = vs /\ ServiceOf(r) \in Seq(STRING) /\ Len(ServiceOf(r)) >= 1
  BY NothingPassedOver
<1>2. \A i \in DOMAIN vs : ValidateVar(vs[i]) = 0
  BY ProtocolErrors
<1>3. /\ vs \in Seq(Nodes) /\ DOMAIN VarItems(r) = 1 .. Len(vs)
      /\ \A i \in 1 .. Len(vs) :
           /\ VarItems(r)[i].key = ServiceOf(r) \o Text(Get(vs[i], "var"))
           /\ VarItems(r)[i].val = VarOf(vs[i])
  BY <1>1, VarItemsAre
<1>4. \A i : VarKey(r, i) = ServiceOf(r) \o Text(Get(vs[i], "var"))
  BY DEF VarKey
<1> HIDE DEF vs
<1>5. DOMAIN vs = 1 .. Len(vs) /\ \A i \in 1 .. Len(vs) : vs[i] \in Nodes
  BY <1>3
<1>6. ASSUME NEW i \in DOMAIN vs
      PROVE  /\ VarItems(r)[i].key = VarKey(r, i) /\ VarKey(r, i) # NoName
             /\ VarItems(r)[i].val = Exactly(vs[i])
             /\ Exactly(vs[i]).size \in 1 .. MaxSize
  <2>1. vs[i] \in Nodes /\ ValidateVar(vs[i]) = 0
    BY <1>2, <1>5
  <2>2. Text(Get(vs[i], "var")) \in Seq(STRING) /\ Len(Text(Get(vs[i], "var"))) >= 1
    BY <2>1, VarErrors, NotLacking
  <2>3. ServiceOf(r) \o Text(Get(vs[i], "var")) # NoName
    BY <1>1, <2>2, Qualified
  <2>4. VarOf(vs[i]) = Exactly(vs[i]) /\ VarOf(vs[i]).size \in 1 .. MaxSize
    BY <2>1, ExactVar
  <2> QED
    BY <1>3, <1>4, <1>5, <2>3, <2>4
<1> QED
  BY <1>3, <1>5, <1>6 DEF vs

\* Every variable of a clean tree is in the database as it is written.
LEMMA VarsExact ==
  ASSUME CorpusInv, Clean, ~Linked, result = "SUCCESS", NEW root \in Protocols,
         NEW i \in DOMAIN ListAt(root, "vars")
  PROVE  VarIsRead(root, i)
<1> DEFINE k == VarKey(root, i)
<1>1. /\ \A f \in Protocols : f \in Nodes /\ ValidateProtocolFile(f) = 0
      /\ Seen \subseteq Protocols /\ OriginInv /\ EverythingLoaded
  BY CleanProtocols
<1>2. i \in DOMAIN VarItems(root) /\ VarItems(root)[i].key = k /\ k # NoName
  BY <1>1, VarKeys
<1> HIDE DEF k
<1>3. k \in DOMAIN mDbVars
  <2>1. DOMAIN mDbVars = (UNION {Keys(VarItems(f)) : f \in Protocols}) \ {NoName}
    BY <1>1 DEF EverythingLoaded
  <2>2. k \in Keys(VarItems(root))
    BY <1>2 DEF Keys
  <2> QED
    BY <1>2, <2>1, <2>2
<1>4. PICK f \in Protocols : VarFrom(f, k, mDbVars[k])
  BY <1>1, <1>3 DEF OriginInv
<1>5. PICK j \in DOMAIN VarItems(f) : VarItems(f)[j].key = k /\ mDbVars[k] = VarItems(f)[j].val
  BY <1>4 DEF VarFrom
<1>6. /\ j \in DOMAIN ListAt(f, "vars") /\ VarKey(f, j) = k /\ mDbVars[k] = Exactly(ListAt(f, "vars")[j])
      /\ mDbVars[k].size \in 1 .. MaxSize
  BY <1>1, <1>5, VarKeys
<1> QED
  BY <1>3, <1>6 DEF VarIsRead, k

\* The key of an interface is no empty name.
LEMMA InterfaceKeys ==
  ASSUME NEW r \in Nodes, ValidateProtocolFile(r) = 0, NEW m \in DOMAIN ListAt(r, "entities")
  PROVE  /\ m \in 1 .. Len(Keyed(ListAt(r, "entities"), "entity"))
         /\ DOMAIN EntityItems(r, ListAt(r, "entities")[m]) = DOMAIN Interfaces(r, m)
         /\ \A n \in DOMAIN Interfaces(r, m) :
              /\ EntityItems(r, ListAt(r, "entities")[m])[n].key = InterfaceKey(r, m, n)
              /\ InterfaceKey(r, m, n) # NoName
              /\ EntityItems(r, ListAt(r, "entities")[m])[n].val = InterfaceOf(r, Interfaces(r, m)[n])
              /\ Interfaces(r, m)[n] \in Nodes /\ ValidateInterface(Interfaces(r, m)[n]) = 0
<1> DEFINE es == ListAt(r, "entities")
           e == es[m]
           xs == ListAt(e, "interfaces")
<1>1. /\ Keyed(es, "entity") = es /\ ServiceOf(r) \in Seq(STRING) /\ Len(ServiceOf(r)) >= 1
      /\ \A i \in 1 .. Len(es) : Keyed(ListAt(es[i], "interfaces"), "interface") = ListAt(es[i], "interfaces")
  BY NothingPassedOver
<1>2. es \in Seq(Nodes) /\ m \in DOMAIN es /\ ValidateEntity(e) = 0
  BY ListNodes, ProtocolErrors
<1> HIDE DEF es
<1>3. m \in 1 .. Len(es) /\ e \in Nodes
  BY <1>2
<1>4. Keyed(xs, "interface") = xs
  BY <1>1, <1>3
<1>5. Interfaces(r, m) = xs
  BY DEF Interfaces, es
<1>6. \A n : InterfaceKey(r, m, n)
               = ServiceOf(r) \o Text(Get(e, "entity")) \o Text(Get(xs[n], "interface"))
  BY <1>5 DEF InterfaceKey, es
<1> HIDE DEF e
<1>7. ~Lacks(e, "entity") /\ \A n \in DOMAIN xs : ValidateInterface(xs[n]) = 0
  BY <1>2, <1>3, EntityErrors
<1>8. /\ xs \in Seq(Nodes) /\ DOMAIN EntityItems(r, e) = 1 .. Len(xs)
      /\ \A n \in 1 .. Len(xs) :
           /\ EntityItems(r, e)[n].key
                = ServiceOf(r) \o Text(Get(e, "entity")) \o Text(Get(xs[n], "interface"))
           /\ EntityItems(r, e)[n].val = InterfaceOf(r, xs[n])
  <2> DEFINE ks == Keyed(xs, "interface")
  <2>1. /\ ks \in Seq(Nodes) /\ DOMAIN EntityItems(r, e) = 1 .. Len(ks)
        /\ \A n \in 1 .. Len(ks) :
             /\ EntityItems(r, e)[n].key
                  = ServiceOf(r) \o Text(Get(e, "entity")) \o Text(Get(ks[n], "interface"))
             /\ EntityItems(r, e)[n].val = InterfaceOf(r, ks[n])
    BY <1>3, EntityItemsAre
  <2>2. ks = xs
    BY <1>4
  <2> HIDE DEF ks, xs
  <2> QED
    BY <2>1, <2>2
<1> HIDE DEF xs
<1>9. DOMAIN xs = 1 .. Len(xs) /\ \A n \in 1 .. Len(xs) : xs[n] \in Nodes
  BY <1>8
<1>10. Text(Get(e, "entity")) \in Seq(STRING) /\ Len(Text(Get(e, "entity"))) >= 1
  BY <1>3, <1>7, NotLacking
<1> DEFINE q == ServiceOf(r) \o Text(Get(e, "entity"))
<1>11. q \in Seq(STRING) /\ Len(q) >= 2
  BY <1>1, <1>10, Qualified
<1> HIDE DEF q
<1>12. ASSUME NEW n \in DOMAIN xs PROVE q \o Text(Get(xs[n], "interface")) # NoName
  <2> DEFINE w == Text(Get(xs[n], "interface"))
  <2>1. w \in Seq(STRING) /\ Len(w) >= 1
    BY <1>7, <1>9, InterfaceErrors, NotLacking
  <2>2. Len(q) >= 1
    BY <1>11
  <2> HIDE DEF w
  <2>3. q \o w # NoName
    BY <1>11, <2>1, <2>2, Qualified
  <2> QED
    BY <2>3 DEF w
<1>13. \A n \in DOMAIN xs :
         /\ EntityItems(r, e)[n].key = InterfaceKey(r, m, n)
         /\ InterfaceKey(r, m, n) # NoName
         /\ EntityItems(r, e)[n].val = InterfaceOf(r, xs[n])
         /\ xs[n] \in Nodes /\ ValidateInterface(xs[n]) = 0
  BY <1>6, <1>7, <1>8, <1>9, <1>12 DEF q
<1> QED
  BY <1>1, <1>3, <1>5, <1>8, <1>9, <1>13 DEF es, e

\* Every interface of a clean tree is in the database as it is written.
LEMMA InterfacesExact ==
  ASSUME CorpusInv, Clean, ~Linked, result = "SUCCESS", NEW root \in Protocols,
         NEW i \in DOMAIN ListAt(root, "entities"), NEW j \in DOMAIN Interfaces(root, i)
  PROVE  InterfaceIsRead(root, i, j)
<1> DEFINE k == InterfaceKey(root, i, j)
<1>1. /\ \A f \in Protocols : f \in Nodes /\ ValidateProtocolFile(f) = 0
      /\ Seen \subseteq Protocols /\ OriginInv /\ EverythingLoaded
  BY CleanProtocols
<1>2. k \in Keys(InterfaceItems(root)) /\ k # NoName
  <2> DEFINE es == Keyed(ListAt(root, "entities"), "entity")
  <2>1. es = ListAt(root, "entities") /\ i \in 1 .. Len(es)
    BY <1>1, NothingPassedOver, InterfaceKeys
  <2>2. j \in DOMAIN EntityItems(root, es[i]) /\ EntityItems(root, es[i])[j].key = k /\ k # NoName
    BY <1>1, <2>1, InterfaceKeys
  <2>3. PICK p \in DOMAIN InterfaceItems(root) : InterfaceItems(root)[p] = EntityItems(root, es[i])[j]
    <3>1. /\ DOMAIN InterfaceItems(root) = 1 .. Len(InterfaceItems(root))
          /\ \A x \in 1 .. Len(es) : \A m \in DOMAIN EntityItems(root, es[x]) :
               \E p \in 1 .. Len(InterfaceItems(root)) :
                 InterfaceItems(root)[p] = EntityItems(root, es[x])[m]
      BY <1>1, InterfaceItemsAre
    <3> HIDE DEF es
    <3> QED
      BY <2>1, <2>2, <3>1
  <2> HIDE DEF es, k
  <2> QED
    BY <2>2, <2>3 DEF Keys
<1> HIDE DEF k
<1>3. k \in DOMAIN mDbIfproto
  <2>1. DOMAIN mDbIfproto = (UNION {Keys(InterfaceItems(f)) : f \in Protocols}) \ {NoName}
    BY <1>1 DEF EverythingLoaded
  <2> QED
    BY <1>2, <2>1
<1>4. PICK f \in Protocols : InterfaceFrom(f, k, mDbIfproto[k])
  BY <1>1, <1>3 DEF OriginInv
<1>5. PICK p \in DOMAIN InterfaceItems(f) :
        InterfaceItems(f)[p].key = k /\ mDbIfproto[k] = InterfaceItems(f)[p].val
  BY <1>4 DEF InterfaceFrom
<1> DEFINE es == Keyed(ListAt(f, "entities"), "entity")
<1>6. es = ListAt(f, "entities") /\ es \in Seq(Nodes)
  BY <1>1, NothingPassedOver, InterfaceItemsAre
<1>7. PICK m \in 1 .. Len(es) : \E n \in DOMAIN EntityItems(f, es[m]) :
        InterfaceItems(f)[p] = EntityItems(f, es[m])[n]
  <2>1. /\ DOMAIN InterfaceItems(f) = 1 .. Len(InterfaceItems(f))
        /\ \A x \in 1 .. Len(InterfaceItems(f)) :
             \E m \in 1 .. Len(es) : \E n \in DOMAIN EntityItems(f, es[m]) :
               InterfaceItems(f)[x] = EntityItems(f, es[m])[n]
    BY <1>1, InterfaceItemsAre
  <2> HIDE DEF es
  <2> QED
    BY <1>5, <2>1
<1> HIDE DEF es
<1>8. PICK n \in DOMAIN EntityItems(f, es[m]) : InterfaceItems(f)[p] = EntityItems(f, es[m])[n]
  BY <1>7
<1>9. m \in DOMAIN es
  BY <1>6
<1>10. /\ m \in DOMAIN ListAt(f, "entities") /\ n \in DOMAIN Interfaces(f, m)
       /\ InterfaceKey(f, m, n) = k /\ mDbIfproto[k] = InterfaceOf(f, Interfaces(f, m)[n])
       /\ Interfaces(f, m)[n] \in Nodes /\ ValidateInterface(Interfaces(f, m)[n]) = 0
  BY <1>1, <1>5, <1>6, <1>8, <1>9, InterfaceKeys
<1> DEFINE y == Interfaces(f, m)[n]
<1>11. /\ Len(mDbIfproto[k].refs) = Len(ListAt(y, "vars"))
       /\ mDbIfproto[k].dir = IF Text(Get(y, "dir")) = <<"in">> THEN "IN" ELSE "OUT"
  BY <1>10, ExactInterface
<1> QED
  BY <1>3, <1>10, <1>11 DEF InterfaceIsRead, k

\* What passed the validator, the parser reads as it is written: every variable
\* and every interface, whatever the order of the files (parseVars,
\* parseInterfaces, ProtocolValidator).
THEOREM ReadExactlyIfClean == CorpusSpec => []CleanIsReadExactly
<1>1. CorpusInv => CleanIsReadExactly
  BY VarsExact, InterfacesExact DEF CleanIsReadExactly
<1> QED
  BY <1>1, CorpusInductive, PTL
=============================================================================
