------------------------------- MODULE Router -------------------------------
(***************************************************************************)
(* locate() of crates/router, which finds the route of a request: in the   *)
(* path table, by a walk over the path tree when the path holds variables, *)
(* and again after each redirect; or by the id of the route.               *)
(*                                                                         *)
(* A router is not changed after ready() and a request is located in one   *)
(* synchronous call, so one request at a time shows all there is.          *)
(***************************************************************************)
EXTENDS RouterBuild

Answered == {"found", "404", "panic"}

VARIABLES
  request,  \* [by, path, method, id]: by "path" or "id"; method and id where the protocol has them
  path,     \* the path locate() looks up: the request's, later that of a redirect
  loop,     \* loop_items of match_var_path, the last one first
  taken,    \* path_args of match_var_path
  cut,      \* suffix of match_var_path
  args,     \* path_args of locate
  suffix,   \* suffix of locate, Nil when the table matched directly
  pool,     \* the routes that share the path found
  api       \* the route located

walkVars == <<loop, taken, cut>>
foundVars == <<args, suffix, pool, api>>
vars == <<at, built, request, path, walkVars, foundVars>>

IsMidVar(b) == b \in mid

VarChildren(b) == At(kids, b, <<>>)

(* A child with this key, or one that only omissions part from b. *)
Child(b, key) ==
  IF Append(b, key) \in DOMAIN tree THEN {Append(b, key)}
  ELSE {passed[x] : x \in {<<b, key>>} \cap DOMAIN passed}

Own(b) == tree[b]

Mapping(key) == At(table, key, <<>>)

-----------------------------------------------------------------------------

EndsWith(part, s) == Len(part) > Len(s) /\ IsSuffix(s, part)

(* find_consider_suffix: at most one pair of branch and suffix. *)
Find(b, part, isLast) ==
  LET plain == IF Len(part) = 1 THEN Child(b, part[1]) ELSE {}
      dotted == IF isLast /\ Len(part) > 1 THEN Child(b, part[1]) ELSE {}
  IN  {<<c, NoSuffix>> : c \in plain}
      \cup {<<c, Tail(part)>> : c \in {d \in dotted : \E a \in Own(d) : Tail(part) \in a.suffixes}}

(* The suffixes of branch v that the last part ends with; the one with more *)
(* dots comes first.                                                        *)
TailSuffixes(v, last) == {s \in UNION {a.suffixes : a \in Own(v)} : EndsWith(last, s)}

(* Mistake: a suffix with fewer dots first. *)
FirstSimple(S) == CHOOSE s \in S : \A t \in S : Len(s) <= Len(t)

First(S) == CHOOSE s \in S : \A t \in S : Len(t) <= Len(s)

(* Mistake: the suffix stays in the parameter. *)
ExtractNothing(p, S) == p

(* suffix_extractor: the path without the suffix. *)
Extract(p, S) ==
  IF S = {} THEN p
  ELSE [p EXCEPT ![Len(p)] = SubSeq(@, 1, Len(@) - Len(First(S)))]

-----------------------------------------------------------------------------
(* locate(): a new request. *)
Locate(q) ==
  /\ at = "idle" /\ q.by = "path" /\ at' = "lookup"
  /\ request' = q /\ path' = q.path
  /\ UNCHANGED <<built, walkVars, foundVars>>

(* id_locate(): the path is the id of a route, the last one pushed with it; *)
(* neither its methods nor its redirect count.                              *)
LocateId(q) ==
  LET named == SelectSeq(apis, LAMBDA a : a.id = q.path) IN
  /\ at = "idle" /\ q.by = "id" /\ at' = IF named = <<>> THEN "404" ELSE "found"
  /\ request' = q /\ path' = q.path
  /\ api' = IF named = <<>> THEN Nil ELSE Last(named)
  /\ UNCHANGED <<built, walkVars, args, suffix, pool>>

Lookup ==
  /\ at = "lookup"
  /\ IF Mapping(path) # <<>>
       THEN at' = "select" /\ pool' = Mapping(path) /\ UNCHANGED walkVars
       ELSE /\ at' = "walk"
            /\ loop' = <<[branch |-> <<>>, part |-> 0]>> /\ taken' = <<>> /\ cut' = NoSuffix
            /\ UNCHANGED pool
  /\ UNCHANGED <<built, request, path, args, suffix, api>>

(* match_var_path has found branch b: the routes are those of its path. *)
Target(b, found, s) ==
  LET key == SuffixPath(OmittedPath(b), s) IN
  /\ at' = IF Mapping(key) = <<>> THEN "404" ELSE "select"
  /\ pool' = Mapping(key)
  /\ args' = found /\ suffix' = s
  /\ loop' = <<>> /\ taken' = <<>> /\ cut' = NoSuffix
  /\ UNCHANGED <<built, request, path, api>>

Item == Last(loop)
Here == Item.branch
Overflowed == Item.part >= Len(path)
LastPart == Item.part = Len(path) - 1
Part == path[Item.part + 1]
Literal == IF Overflowed THEN {} ELSE Find(Here, Part, LastPart)

Walking == at = "walk" /\ loop # <<>>

Ends == Overflowed /\ Own(Here) # {}

Finish == Walking /\ Ends /\ Target(Here, taken, cut)

Descend ==
  /\ Walking /\ ~ Ends
  /\ \E m \in Literal :
       /\ loop' = Append(Front(loop), [branch |-> m[1], part |-> Item.part + 1])
       /\ cut' = m[2]
  /\ UNCHANGED <<built, at, request, path, taken, foundVars>>

(* The end variable v takes the rest of the path. *)
Takes(v) ==
  ~ IsMidVar(v) /\
  CASE Kind(v) = "required" -> LastPart
    [] Kind(v) = "optional" -> LastPart \/ Overflowed
    [] Kind(v) = "emptable" -> TRUE
    [] Kind(v) = "vector"   -> ~ Overflowed

Taken(v) ==
  IF Overflowed THEN <<>>
  ELSE SubSeq(Extract(path, TailSuffixes(v, Last(path))), Item.part + 1, Len(path))

Put(f, name, value) == [n \in DOMAIN f \cup {name} |-> IF n = name THEN value ELSE f[n]]

Takers == SelectSeq(VarChildren(Here), Takes)

MidVars == SelectSeq(VarChildren(Here), IsMidVar)

(* The middle variables that the for loop comes to before an end variable  *)
(* takes the rest, all of them when none does; each takes the next part.   *)
PassedBy ==
  {v \in Range(MidVars) : Takers # <<>> => Visited(v, Takers[1])}

PutMids(vs) ==
  [n \in DOMAIN taken \cup {Name(v) : v \in vs} |->
     IF n \in {Name(v) : v \in vs} THEN <<Part>> ELSE taken[n]]

(* path_parts[part_number] of a middle variable, past the end of the path. *)
OutOfBounds ==
  /\ Walking /\ ~ Ends /\ Literal = {}
  /\ Overflowed /\ PassedBy # {}
  /\ at' = "panic"
  /\ UNCHANGED <<built, request, path, walkVars, foundVars>>

TakeRest ==
  /\ Walking /\ ~ Ends /\ Literal = {}
  /\ Takers # <<>> /\ (Overflowed => PassedBy = {})
  /\ LET v == Takers[1]
         S == IF Overflowed THEN {} ELSE TailSuffixes(v, Last(path))
     IN  Target(v, Put(PutMids(PassedBy), Name(v), Taken(v)), IF S = {} THEN cut ELSE First(S))

(* Mistake: only the first middle variable is tried. *)
BranchOutFirst ==
  /\ Walking /\ ~ Ends /\ Literal = {}
  /\ Takers = <<>> /\ (Overflowed => PassedBy = {})
  /\ taken' = IF MidVars = <<>> THEN taken ELSE PutMids({MidVars[1]})
  /\ loop' = Front(loop) \o (IF MidVars = <<>> THEN <<>>
                             ELSE <<[branch |-> MidVars[1], part |-> Item.part + 1]>>)
  /\ UNCHANGED <<built, at, request, path, cut, foundVars>>

(* Mistake: no look at the end of the path. *)
BranchOutPast ==
  /\ Walking /\ ~ Ends /\ Literal = {}
  /\ Takers = <<>>
  /\ taken' = IF Overflowed THEN taken ELSE PutMids(PassedBy)
  /\ loop' = Front(loop) \o
             Reverse([i \in DOMAIN MidVars |-> [branch |-> MidVars[i], part |-> Item.part + 1]])
  /\ UNCHANGED <<built, at, request, path, cut, foundVars>>

BranchOut ==
  /\ Walking /\ ~ Ends /\ Literal = {}
  /\ Takers = <<>> /\ (Overflowed => PassedBy = {})
  /\ taken' = IF Overflowed THEN taken ELSE PutMids(PassedBy)
  /\ loop' = Front(loop) \o
             Reverse([i \in DOMAIN MidVars |-> [branch |-> MidVars[i], part |-> Item.part + 1]])
  /\ UNCHANGED <<built, at, request, path, cut, foundVars>>

(* No branch left to try. *)
NotFound ==
  /\ at = "walk" /\ loop = <<>>
  /\ at' = "404"
  /\ UNCHANGED <<built, request, path, walkVars, foundVars>>

Matching == SelectSeq(pool, LAMBDA a : a.methods = {} \/ request.method \in a.methods)

(* Mistake: the redirect looks up the path of the request again. *)
SelectStays ==
  /\ at = "select"
  /\ IF Matching = <<>> THEN at' = "404" /\ UNCHANGED <<path, api>>
     ELSE LET a == Matching[1] IN
       IF a.redirect = <<>> THEN at' = "found" /\ api' = a /\ UNCHANGED path
       ELSE at' = "lookup" /\ path' = request.path /\ UNCHANGED api
  /\ UNCHANGED <<built, request, walkVars, args, suffix, pool>>

(* api_finder takes the first route of the method; then the redirect. *)
Select ==
  /\ at = "select"
  /\ IF Matching = <<>> THEN at' = "404" /\ UNCHANGED <<path, api>>
     ELSE LET a == Matching[1] IN
       IF a.redirect = <<>> THEN at' = "found" /\ api' = a /\ UNCHANGED path
       ELSE at' = "lookup" /\ path' = a.redirect /\ UNCHANGED api
  /\ UNCHANGED <<built, request, walkVars, args, suffix, pool>>

(* The answer is used, or a panic ended the task of the request. *)
Respond ==
  /\ at \in Answered /\ at' = "idle"
  /\ request' = Nil /\ path' = <<>> /\ loop' = <<>> /\ taken' = <<>> /\ cut' = NoSuffix
  /\ args' = <<>> /\ suffix' = Nil /\ pool' = <<>> /\ api' = Nil
  /\ UNCHANGED built

-----------------------------------------------------------------------------

Init ==
  /\ BuildInit
  /\ request = Nil /\ path = <<>>
  /\ loop = <<>> /\ taken = <<>> /\ cut = NoSuffix
  /\ args = <<>> /\ suffix = Nil /\ pool = <<>> /\ api = Nil

Build == BuildStep /\ UNCHANGED <<request, path, walkVars, foundVars>>

Step ==
  \/ Lookup \/ Finish \/ Descend \/ OutOfBounds \/ TakeRest \/ BranchOut
  \/ NotFound \/ Select

-----------------------------------------------------------------------------
(* Properties *)

TypeOK ==
  /\ router \in Routers
  /\ at \in {"new", "broken", "idle", "lookup", "walk", "select"} \cup Answered
  /\ \A k \in DOMAIN loop : loop[k].branch \in DOMAIN tree /\ loop[k].part \in 0..Len(path)
  /\ Range(pool) \subseteq Range(apis)
  /\ at = "select" => pool # <<>>
  /\ at = "found" <=> api \in Range(apis)

Variables(p) == {i \in DOMAIN p : p[i] \in DOMAIN VarType}

(* The path a route stands for when its variables have the values of args. *)
Rendered(p) ==
  FlattenSeq([i \in DOMAIN p |->
    IF i \in Variables(p) THEN args[VarType[p[i]].name] ELSE <<<<p[i]>>>>])

Joined(q, s) == IF s = NoSuffix THEN q ELSE [q EXCEPT ![Len(q)] = @ \o s]

(***************************************************************************)
(* The parameters a route is found with give back the path that was asked  *)
(* for: none is missing, wrong, or shared between two places, whatever     *)
(* branches the walk tried before (match_var_path).                        *)
(***************************************************************************)
Instantiates ==
  at = "select" => \A a \in Range(pool) :
    \E p \in {a.path, OmittedPath(a.path)}, s \in a.suffixes :
      /\ \A i \in Variables(p) : VarType[p[i]].name \in DOMAIN args
      /\ Joined(Rendered(p), s) = path

(***************************************************************************)
(* The reference: whether path p is one of route a, from the table of path *)
(* patterns alone, without a tree.                                         *)
(***************************************************************************)
Fits(a, q) ==
  LET p == OmittedPath(a.path)
      tail == Kind(p)
      fixed == IF tail \in {"text", "required"} THEN Len(p) ELSE Len(p) - 1
  IN  /\ Len(q) >= fixed
      /\ \A i \in 1..fixed : i \in Variables(p) \/ q[i] = <<p[i]>>
      /\ CASE tail = "optional" -> Len(q) <= fixed + 1
           [] tail = "emptable" -> TRUE
           [] tail = "vector"   -> Len(q) > fixed
           [] OTHER             -> Len(q) = fixed

(* A suffix is on the last part the route is written with. *)
Accepts(a, q, method) ==
  /\ a.methods = {} \/ method \in a.methods
  /\ \E s \in a.suffixes :
       \/ s = NoSuffix /\ Fits(a, q)
       \/ /\ EndsWith(Last(q), s) /\ Len(q) >= Len(OmittedPath(a.path))
          /\ Fits(a, [q EXCEPT ![Len(q)] = SubSeq(@, 1, Len(@) - Len(s))])

(* No branch has both text and variable children: a text that matches is    *)
(* never given up for a variable beside it.                                 *)
Clear == \A b \in Branches : \A t, u \in Below(b) : Kind(t) = "text" => Kind(u) = "text"

(***************************************************************************)
(* In a table without texts beside variables, a path that a route stands   *)
(* for is found: the walk comes back from middle variables that lead       *)
(* nowhere, and no suffix or redirect goes astray.                         *)
(***************************************************************************)
Complete ==
  at = "404" /\ request.by = "path" /\ Clear =>
    ~ \E a \in Range(apis) : Accepts(a, path, request.method)

(***************************************************************************)
(* "put complex suffix front": of the suffixes that fit, the one with the  *)
(* most dots is cut off, and it is one that the route found declares       *)
(* (api.rs, Ord of Suffix).                                                *)
(***************************************************************************)
ComplexFirst ==
  at = "select" /\ suffix # Nil /\ path = request.path => \A a \in Range(pool) :
    /\ suffix \in a.suffixes
    /\ \A s \in a.suffixes : EndsWith(Last(path), s) => Len(s) <= Len(suffix)

(***************************************************************************)
(* The documented row of {targets+}.|html, "support non suffix or the      *)
(* .html suffix but not others": a route that declares suffixes is not     *)
(* found by a path with another one.                                       *)
(***************************************************************************)
OnlyDeclared ==
  at = "found" /\ api.suffixes # {NoSuffix} /\ Len(Last(path)) > 1 =>
    Tail(Last(path)) \in api.suffixes

(***************************************************************************)
(* Every path gets an answer, a route or "could not matched by Router".    *)
(***************************************************************************)
NoPanic == at # "panic"
=============================================================================
