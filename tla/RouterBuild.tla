---------------------------- MODULE RouterBuild ----------------------------
(***************************************************************************)
(* What ready() of crates/router builds from the routes that push() has    *)
(* collected: the path tree (build_tree, over ATree of crates/util), the   *)
(* variable children and the children behind omissions (a traversal of     *)
(* that tree), and the path table (closing).                               *)
(*                                                                         *)
(* A route's path is a sequence of texts ("user", "{id}"); a request's     *)
(* path is a sequence of parts, a part being the texts between its dots:   *)
(* a/b.tar.gz is <<<<"a">>, <<"b", "tar", "gz">>>>.  A suffix is such a    *)
(* part too; the empty suffix is <<"">>.  A branch of the tree is its      *)
(* path, the root is the empty one.                                        *)
(***************************************************************************)
EXTENDS Integers, SequencesExt, FiniteSets

CONSTANTS
  Routers,   \* [proto, apis in order of registration, before, after]
  VarType,   \* text of a variable -> [kind, name]
  Rank,      \* text -> its place in the order of texts
  Lower,     \* text -> the same in lower case, where that differs
  Nil

NoSuffix == <<"">>

(* parse_http_method *)
HttpMethods(declared) == IF declared = {} THEN {"Get", "Head", "Options"} ELSE declared

(* Api::new: a route without a dot in its last part has the empty suffix.   *)
(* methods = {} takes every request, as in the protocols without methods.   *)
NewApi(path, written, methods, omission, redirect) ==
  [path |-> path, suffixes |-> IF written = {} THEN {NoSuffix} ELSE written,
   methods |-> methods, omission |-> omission, redirect |-> redirect,
   id |-> Nil, unresponsive |-> FALSE, serializers |-> <<>>, deserializers |-> <<>>,
   controller |-> {"raw"}]

(* gen_serializers: what serializes a route deserializes it too, unless it  *)
(* is given deserializers of its own.                                       *)
Formatted(a, serializers, own) ==
  [a EXCEPT !.serializers = serializers, !.deserializers = IF own = <<>> THEN serializers ELSE own]

(* The order of texts is strict, and the path of a route has a part, ""    *)
(* where nothing is written (Api::new splits it).                          *)
ASSUME RanksOK ==
  \A t \in DOMAIN Rank : Rank[t] \in Nat /\ \A u \in DOMAIN Rank : Rank[t] = Rank[u] => t = u

ASSUME PathsOK ==
  \A r \in Routers : \A a \in Range(r.apis) : a.path \in Seq(DOMAIN Rank) /\ a.path # <<>>

VARIABLES
  router,   \* the member of Routers that is set up
  at,       \* where ready(), and later locate(), stands
  loose,    \* elements of ATree::build, the paths of the routes without place
  parents,  \* its parents
  tree,     \* branch -> the routes of that path, none for a bare branch
  fills,    \* the branches that the remains handler will set
  nodes,    \* nodes of ATree::traversal
  kids,     \* branch -> var_children
  passed,   \* <<branch, key>> -> omitted_passed_children
  mid,      \* the branches with is_mid_var
  rest,     \* api_buffer
  table     \* apis_mapping

treeVars == <<loose, parents, tree, fills>>
linkVars == <<nodes, kids, passed, mid>>
built == <<router, treeVars, linkVars, rest, table>>

apis == router.apis
proto == router.proto

-----------------------------------------------------------------------------
Omitted == {a.path : a \in {x \in Range(apis) : x.omission}}

(* The parts that are not the end of an omitted path; "" when none is left. *)
OmittedPath(p) ==
  LET kept == SelectSeq([i \in DOMAIN p |-> i], LAMBDA i : SubSeq(p, 1, i) \notin Omitted)
  IN  IF kept = <<>> THEN <<"">> ELSE [k \in DOMAIN kept |-> p[kept[k]]]

(* suffix_path *)
SuffixPath(p, s) ==
  [i \in DOMAIN p |-> IF i = Len(p) /\ s # NoSuffix THEN <<p[i]>> \o s ELSE <<p[i]>>]

(* eq_ignore_ascii_case *)
Folded(p) == [i \in DOMAIN p |-> IF p[i] \in DOMAIN Lower THEN Lower[p[i]] ELSE p[i]]

(* The api_buffer's routes of one path. *)
Group(p) == {a \in Range(apis) : a.path = p}

Kind(b) ==
  IF b # <<>> /\ Last(b) \in DOMAIN VarType THEN VarType[Last(b)].kind ELSE "text"

Name(b) == VarType[Last(b)].name

At(f, x, default) == IF x \in DOMAIN f THEN f[x] ELSE default

(* The order of paths as sequences of texts. *)
Earlier(p, q) ==
  \/ IsStrictPrefix(p, q)
  \/ \E i \in DOMAIN p \cap DOMAIN q :
       SubSeq(p, 1, i - 1) = SubSeq(q, 1, i - 1) /\ Rank[p[i]] < Rank[q[i]]

-----------------------------------------------------------------------------
(* build_tree *)

(* fill_var_type: a variable cannot be omitted. *)
OmittedVar ==
  /\ at = "new" /\ \E p \in loose \cap Omitted : Kind(p) # "text"
  /\ at' = "broken"
  /\ UNCHANGED built

Building == at = "new" /\ \A p \in Omitted : Kind(p) = "text"

(* ATree::build: a parent takes its children from the elements, which come  *)
(* from a HashSet, in any order.                                            *)
Plant ==
  /\ Building
  /\ \E pa \in parents :
       LET own == {p \in loose : Front(p) = pa} IN
       /\ tree' = [b \in own \cup DOMAIN tree |-> IF b \in own THEN Group(b) ELSE tree[b]]
       /\ loose' = loose \ own
       /\ parents' = (parents \ {pa}) \cup own
  /\ UNCHANGED <<router, at, fills, linkVars, rest, table>>

(* Mistake: a bare branch even where a remaining route stands. *)
FillBare ==
  /\ Building /\ parents = {}
  /\ \E p \in loose :
       LET missed == {b \in Prefixes(p) \ {<<>>, p} : b \notin DOMAIN tree} IN
       /\ fills' = [b \in {p} \cup missed \cup DOMAIN fills |->
                      CASE b = p -> Group(p) [] b \in missed -> {} [] OTHER -> fills[b]]
       /\ loose' = loose \ {p}
  /\ UNCHANGED <<router, at, parents, tree, linkVars, rest, table>>

(* The remains handler: a route without a parent, and the branches that are *)
(* missing above it.                                                        *)
Fill ==
  /\ Building /\ parents = {}
  /\ \E p \in loose :
       LET missed == {b \in Prefixes(p) \ {<<>>, p} : b \notin DOMAIN tree \cup DOMAIN fills} IN
       /\ fills' = [b \in {p} \cup missed \cup DOMAIN fills |->
                      CASE b = p -> Group(p) [] b \in missed -> {} [] OTHER -> fills[b]]
       /\ loose' = loose \ {p}
  /\ UNCHANGED <<router, at, parents, tree, linkVars, rest, table>>

(* set_by_path: a new branch, without children, if its parent is there. *)
SetFill ==
  /\ Building /\ parents = {} /\ loose = {} /\ DOMAIN fills # {}
  /\ LET b == CHOOSE b \in DOMAIN fills : \A c \in DOMAIN fills : c = b \/ Earlier(b, c) IN
       /\ tree' = IF Front(b) \notin DOMAIN tree THEN tree
                  ELSE [c \in {c \in DOMAIN tree : ~ IsPrefix(b, c)} \cup {b} |->
                          IF c = b THEN fills[b] ELSE tree[c]]
       /\ fills' = [c \in DOMAIN fills \ {b} |-> fills[c]]
  /\ UNCHANGED <<router, at, loose, parents, linkVars, rest, table>>

Grown == Building /\ parents = {} /\ loose = {} /\ DOMAIN fills = {}

Children(n) == {b \in DOMAIN tree \ {<<>>} : Front(b) = n}

InOrder(children) == SetToSortSeq(children, LAMBDA p, q : Rank[Last(p)] < Rank[Last(q)])

(* The nearest branch from n upwards that is not an omission. *)
Holder(n) ==
  CHOOSE b \in Prefixes(n) \ Omitted : \A c \in Prefixes(n) \ Omitted : Len(c) <= Len(b)

(* A parameter of a kind that must end the path stands in the middle. *)
LinkPanics ==
  /\ Grown /\ nodes # <<>>
  /\ Children(Last(nodes)) # {} /\ Kind(Holder(Last(nodes))) \notin {"text", "required"}
  /\ at' = "broken"
  /\ UNCHANGED built

(* Mistake: an omission keeps its children to itself. *)
LinkOwn ==
  /\ Grown /\ nodes # <<>>
  /\ LET n == Last(nodes)
         children == Children(n)
     IN  /\ nodes' = Front(nodes) \o Reverse(InOrder(children))
         /\ kids' = [x \in {n} |-> SelectSeq(InOrder(children), LAMBDA c : Kind(c) # "text")] @@ kids
         /\ mid' = IF children # {} /\ Kind(n) = "required" THEN mid \cup {n} ELSE mid
  /\ UNCHANGED <<router, at, passed, treeVars, rest, table>>

(* traversal: every child of the branch on top is linked to its holder. *)
Link ==
  /\ Grown /\ nodes # <<>>
  /\ LET n == Last(nodes)
         b == Holder(n)
         children == Children(n)
         texts == {c \in children : Kind(c) = "text"}
         vars == SelectSeq(InOrder(children), LAMBDA c : Kind(c) # "text")
     IN  /\ children # {} => Kind(b) \in {"text", "required"}
         /\ nodes' = Front(nodes) \o Reverse(InOrder(children))
         /\ kids' = [x \in {b} |-> At(kids, b, <<>>) \o vars] @@ kids
         /\ passed' = IF n = b THEN passed
                      ELSE [x \in {<<b, Last(c)>> : c \in texts} |-> Append(n, x[2])] @@ passed
         /\ mid' = IF children # {} /\ Kind(b) = "required" THEN mid \cup {b} ELSE mid
  /\ UNCHANGED <<router, at, treeVars, rest, table>>

-----------------------------------------------------------------------------
(* closing: the routes of one path, in order of registration, under a key   *)
(* for each of their suffixes.                                              *)
Close ==
  /\ Grown /\ nodes = <<>> /\ rest # <<>>
  /\ LET key == OmittedPath(Last(rest).path)
         group == SelectSeq(rest, LAMBDA a : Folded(OmittedPath(a.path)) = Folded(key))
         suffixes == UNION {a.suffixes : a \in Range(group)}
     IN  /\ rest' = SelectSeq(rest, LAMBDA a : a \notin Range(group))
         /\ table' = [k \in {SuffixPath(key, s) : s \in suffixes} |->
                       SelectSeq(group, LAMBDA a : \E s \in a.suffixes : SuffixPath(key, s) = k)]
                     @@ table
  /\ UNCHANGED <<router, at, treeVars, linkVars>>

Ready ==
  /\ Grown /\ nodes = <<>> /\ rest = <<>>
  /\ at' = "idle"
  /\ UNCHANGED built

BuildInit ==
  /\ router \in Routers /\ at = "new"
  /\ loose = {a.path : a \in Range(apis)} /\ parents = {<<>>}
  /\ tree = [b \in {<<>>} |-> {}] /\ fills = [b \in {} |-> {}]
  /\ nodes = <<<<>>>> /\ kids = [b \in {} |-> <<>>] /\ passed = [x \in {} |-> <<>>] /\ mid = {}
  /\ rest = apis /\ table = [k \in {} |-> <<>>]

BuildStep == OmittedVar \/ Plant \/ Fill \/ SetFill \/ LinkPanics \/ Link \/ Close \/ Ready
-----------------------------------------------------------------------------
(* Properties *)

Branches == {<<>>} \cup UNION {Prefixes(a.path) : a \in Range(apis)}

Above(b) == Holder(Front(b))

Below(b) == {t \in Branches \ {<<>>} : Above(t) = b}

(* Parents in the order of their paths, the children of each in theirs. *)
Visited(p, q) ==
  IF Front(p) = Front(q) THEN Rank[Last(p)] < Rank[Last(q)] ELSE Earlier(Front(p), Front(q))

(* The children of b in another branch, behind omissions; the last counts. *)
Behind(b, key) ==
  LET same == {t \in Below(b) : Kind(t) = "text" /\ Last(t) = key /\ Front(t) # b}
  IN  {t \in same : \A u \in same : u = t \/ Visited(u, t)}

Keys(a) == {SuffixPath(OmittedPath(a.path), s) : s \in a.suffixes}

(* The panics of fill_var_type and build_tree. *)
Ambiguous ==
  \/ \E b \in Omitted : Kind(b) # "text"
  \/ \E b \in Branches : Kind(b) \notin {"text", "required"} /\ Below(b) # {}

(***************************************************************************)
(* Whatever order the HashSet gives the routes in, the tree ends with a    *)
(* branch for every prefix, the routes of its path and no others, also     *)
(* where a route was planted before one above it; and only ambiguous       *)
(* routes are refused (build_tree, ATree::build, set_by_path).             *)
(***************************************************************************)
TreeBuilt ==
  /\ at = "broken" => Ambiguous
  /\ at = "idle" => tree = [b \in Branches |-> Group(b)]

(***************************************************************************)
(* In the same way the rest of ready(): it refuses the ambiguous routes,   *)
(* the variables and the branches behind omissions are below the right     *)
(* branch and in order, every route is under the key of each of its        *)
(* suffixes, in order of registration (traversal, closing).  Paths that    *)
(* differ in case only are not meant: closing files them all under one of  *)
(* them.                                                                   *)
(***************************************************************************)
Built ==
  at = "idle" =>
    /\ ~ Ambiguous
    /\ \A b \in Branches :
         /\ At(kids, b, <<>>) = SetToSortSeq({t \in Below(b) : Kind(t) # "text"}, Visited)
         /\ b \in mid <=> Kind(b) = "required" /\ Below(b) # {}
         /\ \A t \in Branches \ {<<>>} :
              {passed[x] : x \in {<<b, Last(t)>>} \cap DOMAIN passed} = Behind(b, Last(t))
    /\ table = [k \in UNION {Keys(a) : a \in Range(apis)} |->
                  SelectSeq(apis, LAMBDA a : k \in Keys(a))]
=============================================================================
