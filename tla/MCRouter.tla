----------------------------- MODULE MCRouter ------------------------------
(***************************************************************************)
(* Instances of Pipeline for TLC: routers and what arrives at them.        *)
(***************************************************************************)
EXTENDS Pipeline

Texts == <<"", "apple", "archive", "banana", "detail", "fruit", "gz", "home", "html",
  "index", "info", "json", "quiet", "tar", "var3", "var4", "{all*}", "{id}", "{kind}",
  "{name?}", "{target?}", "{targets*}", "{targets+}", "{var1}", "{var3?}", "{var4*}">>

MCRank == [t \in Range(Texts) |-> CHOOSE i \in DOMAIN Texts : Texts[i] = t]

MCLower == "Fruit" :> "fruit"

Var(kind, name) == [kind |-> kind, name |-> name]

MCVarType ==
  "{all*}" :> Var("emptable", "all") @@ "{id}" :> Var("required", "id") @@
  "{kind}" :> Var("required", "kind") @@ "{name?}" :> Var("optional", "name") @@
  "{target?}" :> Var("optional", "target") @@ "{targets*}" :> Var("emptable", "targets") @@
  "{targets+}" :> Var("vector", "targets") @@ "{var1}" :> Var("required", "var1") @@
  "{var3?}" :> Var("optional", "var3") @@ "{var4*}" :> Var("emptable", "var4")

Get == HttpMethods({})

Omission(p) == NewApi(p, {}, Get, TRUE, <<>>)

Redirect(p, to) == NewApi(p, {}, Get, FALSE, to)

Dotted(p, suffixes) == NewApi(p, suffixes, Get, FALSE, <<>>)

Plain(p) == Dotted(p, {})

(* The rows of the path table in the documentation of the api macro. *)
Documented ==
  {<<Plain(<<"{id}", "detail">>)>>, <<Plain(<<"fruit", "{target?}">>)>>,
   <<Plain(<<"fruit", "{targets*}">>)>>, <<Plain(<<"fruit", "{targets+}">>)>>,
   <<Dotted(<<"fruit", "{targets+}">>, {NoSuffix, <<"html">>})>>,
   <<Dotted(<<"fruit", "{targets+}">>, {<<"html">>, <<"json">>})>>}

(* The variable routes of src/apis/http.rs. *)
HttpExample ==
  <<Plain(<<"{var1}">>), Plain(<<"{var1}", "detail">>), Plain(<<"{var1}", "var3", "{var3?}">>),
    Plain(<<"var4", "{var4*}">>), Omission(<<"index">>)>>

(* Middle variables beside each other, one of which leads nowhere. *)
Branching ==
  <<Plain(<<"{id}", "detail">>), Plain(<<"{kind}", "fruit">>),
    Dotted(<<"{kind}", "info", "{name?}">>, {<<"html">>, NoSuffix})>>

(* Omitted parts. *)
Omitting ==
  <<Omission(<<"home", "index">>), Plain(<<"home", "index", "info">>),
    Plain(<<"home", "index", "detail", "{all*}">>)>>

Compressed == <<Dotted(<<"fruit", "{id}">>, {<<"gz">>, <<"tar", "gz">>})>>

ByMethod ==
  <<NewApi(<<"fruit">>, {<<"html">>, <<"json">>}, HttpMethods({"Get"}), FALSE, <<>>),
    NewApi(<<"fruit">>, {<<"html">>}, HttpMethods({"Post"}), FALSE, <<>>)>>

Redirecting ==
  <<Redirect(<<"fruit", "{id}">>, <<<<"home">>>>),
    Redirect(<<"home">>, <<<<"info">>, <<"html">>>>), Plain(<<"info", "{name?}">>)>>

(* A variable after an optional one, an omitted variable: ready() panics. *)
Ambiguity ==
  {<<Plain(<<"fruit", "{target?}", "detail">>)>>, <<Omission(<<"fruit", "{id}">>)>>}

(* A middle variable below a text. *)
BelowText == {<<Plain(<<"fruit", "{id}", "detail">>)>>}

Routed(tables) ==
  {[proto |-> "http", apis |-> t, before |-> {"pass"}, after |-> {"pass"}] : t \in tables}

Doing(what, a) == [a EXCEPT !.controller = what]

(* Handlers and controllers that do everything they can. *)
Busy ==
  {[proto |-> "http", before |-> {"pass", "sid", "error"}, after |-> {"pass", "error"},
    apis |-> <<Formatted(Doing({"body", "req", "suffix", "sid", "dto", "none", "error"},
                               Dotted(<<"archive">>, {<<"gz">>, <<"tar", "gz">>})),
                         <<"template", "json">>, <<>>),
               Doing({"suffix", "raw"}, [Plain(<<"fruit", "{id}">>) EXCEPT !.id = <<NoSuffix>>])>>],
   [proto |-> "framed", before |-> {"pass", "sid", "error"}, after |-> {"pass"},
    apis |-> <<Formatted(Doing({"body", "req", "dto", "raw", "error"},
                               NewApi(<<"fruit">>, {}, {}, FALSE, <<>>)), <<"template">>, <<"json">>),
               [NewApi(<<"quiet">>, {}, {}, FALSE, <<>>) EXCEPT !.unresponsive = TRUE]>>],
   [proto |-> "cli", before |-> {"pass"}, after |-> {"pass"},
    apis |-> <<Doing({"body", "sid", "dto", "error"}, NewApi(<<"fruit", "{name?}">>, {}, {}, FALSE, <<>>)),
               [NewApi(<<"quiet">>, {}, {}, FALSE, <<>>) EXCEPT !.unresponsive = TRUE]>>]}

MCRouters ==
  Busy \cup Routed(Documented \cup BelowText \cup Ambiguity \cup
    {HttpExample, Branching, Omitting, Compressed, ByMethod, Redirecting})

Http(paths, methods) ==
  [by : {"path"}, path : paths, method : methods, id : {Nil}]

Parts ==
  {<<"fruit">>, <<"apple">>, <<"detail">>, <<"info">>, <<"home">>, <<"index">>, <<"var4">>,
   <<"var3">>, <<"html">>, <<"fruit", "html">>, <<"apple", "json">>, <<"info", "html">>,
   <<"apple", "tar", "gz">>, <<"archive", "tar", "gz">>, <<"archive", "gz">>}

Messages ==
  [path : {<<NoSuffix>>, <<<<"fruit">>>>, <<<<"quiet">>>>, <<<<"apple">>>>}, id : {Nil, 1},
   body : BOOLEAN, utf8 : BOOLEAN]

Arguments ==
  UNION {[1..n -> [kind : {"path", "name", "pass"}, text : {"fruit", "quiet"}]] : n \in 0..3}

MCRaws ==
  [http |-> Http(UNION {[1..n -> Parts] : n \in 1..2} \cup {<<NoSuffix>>}, {"Get", "Post"})
            \cup Http([1..3 -> {<<"fruit">>, <<"detail">>, <<"info">>, <<"home">>, <<"index">>,
                                <<"var3">>, <<"apple", "json">>, <<"info", "html">>}], {"Get"})
            \cup [by : {"id"}, path : {<<NoSuffix>>, <<<<"apple">>>>}, method : {"Post"}, id : {Nil}],
   framed |-> Messages, cli |-> Arguments]

(* One becomes a status, one wraps to a status, two do neither. *)
MCCodes == {-65135, 0, 401, 700}

DocumentedRouters == Routed(Documented)
BelowTextRouters == Routed(BelowText)

FewRaws ==
  [http |-> Http(UNION {[1..n -> {<<"fruit">>, <<"detail">>, <<"apple", "json">>}] : n \in 1..3},
                 {"Get"})]
=============================================================================
