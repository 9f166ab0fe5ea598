------------------------------ MODULE Pipeline ------------------------------
(***************************************************************************)
(* handle() of crates/router: a raw request becomes a protocol object,     *)
(* is routed, runs through the event handlers and its controller, and      *)
(* leaves as the answer of its protocol, through the adapters for HTTP     *)
(* (hyper), for messages with an id (tokio, tokio-tungstenite) and for the *)
(* command line (cli).                                                     *)
(*                                                                         *)
(* A request has a context of its own, and the servers of messages take    *)
(* the next one only when the last is answered: one request at a time      *)
(* shows all there is.                                                     *)
(***************************************************************************)
EXTENDS Router

CONSTANTS
  Raws,     \* protocol -> what arrives: requests, messages, lists of arguments
  Codes     \* codes of the errors that controllers and handlers raise

VARIABLES
  stage,    \* "off", "controller", "after", "result" or "over"
  held,     \* the request is in Meta, body() has not taken it
  told,     \* resp_heads hold a new session id
  resp,     \* Meta.resp, Nil or what the response holds
  seen,     \* Context.suffix
  result,   \* Nil, Fine or an error
  out       \* what handle() returned, Nil for None

handleVars == <<held, told, resp, seen, result, out>>
pipeVars == <<vars, stage, handleVars>>

Fine == [ok |-> TRUE, open |-> FALSE, code |-> 0]
Openly(code) == [ok |-> FALSE, open |-> TRUE, code |-> code]
Closed == [ok |-> FALSE, open |-> FALSE, code |-> 0]

Errors == {Openly(c) : c \in Codes} \cup {Closed}

(* What goes out: sid and id say whether the session id issued and the id   *)
(* of the message go with it.                                               *)
Answers ==
  [body : {"none", "dto", "raw", "message", "unavailable"}, sid : BOOLEAN, id : BOOLEAN,
   status : 100..999]

ASSUME ProtosKnown == \A x \in Routers : x.proto \in {"http", "framed", "cli"}

ASSUME NilIsApart == Nil \notin {Fine, Openly(404)} \cup Errors \cup Answers

-----------------------------------------------------------------------------
(* From: what arrives becomes a request *)

(* A message [path, id, body, utf8]: the id counts in front of a body only; *)
(* a message that is not text has the empty path.                           *)
FromMessage(m) ==
  [by |-> "path", method |-> Nil, path |-> IF m.utf8 THEN m.path ELSE <<NoSuffix>>,
   id |-> IF m.utf8 /\ m.body THEN m.id ELSE Nil]

(* head_lines.remove(0): a message that begins with the separator. *)
Headless(m) == m.utf8 /\ m.body /\ m.path = <<NoSuffix>> /\ m.id = Nil

(* Arguments [kind, text]: a "path" is a part of the path, unless it is the *)
(* value of the "name" before it or stands behind the "pass" separator.     *)
FromArgs(arguments) ==
  LET own == SelectInSeq(arguments, LAMBDA x : x.kind = "pass")
      end == IF own = 0 THEN Len(arguments) ELSE own - 1
      IsPart(i) == arguments[i].kind = "path" /\ (i > 1 => arguments[i - 1].kind # "name")
      parts == SelectSeq([i \in 1..end |-> i], IsPart)
  IN  [by |-> "path", method |-> Nil, id |-> Nil,
       path |-> IF parts = <<>> THEN <<NoSuffix>>
                ELSE [k \in DOMAIN parts |-> <<arguments[parts[k]].text>>]]

From(raw) ==
  CASE proto = "http" -> raw [] proto = "framed" -> FromMessage(raw) [] proto = "cli" -> FromArgs(raw)

Receive(raw) ==
  /\ proto = "framed" => ~ Headless(raw)
  /\ Locate(From(raw)) \/ LocateId(From(raw))
  /\ held' = TRUE
  /\ UNCHANGED <<stage, told, resp, seen, result, out>>

ReceivePanics(raw) ==
  /\ at = "idle" /\ proto = "framed" /\ Headless(raw)
  /\ at' = "panic"
  /\ UNCHANGED <<built, request, path, walkVars, foundVars, stage, handleVars>>

-----------------------------------------------------------------------------
(* routed_handle and call_controller *)

Fail(error) == stage' = "result" /\ result' = error

NotRouted ==
  /\ at = "404" /\ stage = "off"
  /\ Fail(Openly(404))
  /\ UNCHANGED <<vars, held, told, resp, seen, out>>

(* set_routed_info, then before_controller *)
Before ==
  /\ at = "found" /\ stage = "off"
  /\ seen' = suffix
  /\ \/ "pass" \in router.before /\ stage' = "controller" /\ UNCHANGED result
     \/ "error" \in router.before /\ \E e \in Errors : Fail(e)
  /\ UNCHANGED <<vars, held, told, resp, out>>

Controls(what) == stage = "controller" /\ what \in api.controller

(* body(): takes the request; there is no second one, and on the command    *)
(* line it panics.  What was read may not parse.                            *)
ReadBody ==
  /\ Controls("body") /\ proto # "cli"
  /\ held' = FALSE
  /\ \/ held /\ UNCHANGED <<stage, result>>
     \/ Fail(Closed)
  /\ UNCHANGED <<vars, told, resp, seen, out>>

(* deserialize: the first of the deserializers, without one a closed error. *)
Parsers == IF api.deserializers = <<>> THEN {} ELSE {Head(api.deserializers)}

(* req(), dto(): body(), then deserialize; a template cannot be read.       *)
ReadDto ==
  /\ Controls("req") /\ proto # "cli"
  /\ held' = FALSE
  /\ \/ held /\ "json" \in Parsers /\ UNCHANGED <<stage, result>>
     \/ held /\ "template" \in Parsers /\ stage' = "over" /\ UNCHANGED result
     \/ Fail(Closed)
  /\ UNCHANGED <<vars, told, resp, seen, out>>

ReadBodyPanics ==
  /\ proto = "cli" /\ (Controls("body") \/ Controls("req"))
  /\ stage' = "over"
  /\ UNCHANGED <<vars, handleVars>>

(* path() of an HTTP request is that of the request in Meta. *)
KnownPath == IF held \/ proto # "http" THEN request.path ELSE <<NoSuffix>>

(* Mistake: the first suffix of the route, without a look at the path. *)
LazyAny == First(api.suffixes)

(* Context::suffix, when the table matched directly *)
Lazy ==
  LET ending == {s \in api.suffixes : EndsWith(Last(KnownPath), s)}
  IN  IF ending = {} THEN NoSuffix ELSE First(ending)

ReadSuffix ==
  /\ Controls("suffix")
  /\ seen' = IF seen # Nil THEN seen ELSE Lazy
  /\ UNCHANGED <<vars, stage, held, told, resp, result, out>>

(* set_resp_sid, by before_controller or by the controller *)
SetSid ==
  /\ \/ Controls("sid")
     \/ at = "found" /\ stage = "off" /\ "sid" \in router.before
  /\ told' = TRUE
  /\ UNCHANGED <<vars, stage, held, resp, seen, result, out>>

(* Mistake: no answer is an answer. *)
ReturnNone ==
  /\ \E what \in {"none", "dto", "raw"} : Controls(what) /\ resp' = what
  /\ stage' = "after"
  /\ UNCHANGED <<vars, held, told, seen, result, out>>

(* end(None), pack and raw_resp; status, resp and end with the last of the  *)
(* serializers, a closed error without one or when it fails.                *)
Return ==
  /\ \/ /\ \E what \in {"none", "dto", "raw"} :
             /\ Controls(what) /\ (what = "dto" => api.serializers # <<>>)
             /\ resp' = IF what = "none" THEN Nil ELSE what
        /\ stage' = "after" /\ UNCHANGED result
     \/ Controls("dto") /\ Fail(Closed) /\ UNCHANGED resp
  /\ UNCHANGED <<vars, held, told, seen, out>>

Raise ==
  /\ Controls("error")
  /\ \E e \in Errors : Fail(e)
  /\ UNCHANGED <<vars, held, told, resp, seen, out>>

(* after_controller: its error takes the place of the response. *)
After ==
  /\ stage = "after"
  /\ \/ "pass" \in router.after /\ Fail(Fine)
     \/ "error" \in router.after /\ \E e \in Errors : Fail(e)
  /\ UNCHANGED <<vars, held, told, resp, seen, out>>

-----------------------------------------------------------------------------
(* handle_result *)

(* to_responsible *)
ToResponsible(error) == IF error.open THEN "message" ELSE "unavailable"

(* Whether there is an answer to a message: its route decides it, without a *)
(* route its id does.                                                       *)
RespondsToMessage == IF api = Nil THEN request.id # Nil ELSE ~ api.unresponsive

(* The command line prints errors to the log only. *)
RespondsToCli == result.ok /\ (api = Nil \/ ~ api.unresponsive)

Responds ==
  CASE proto = "http"   -> TRUE
    [] proto = "framed" -> RespondsToMessage
    [] proto = "cli"    -> RespondsToCli

(* Mistake: a header only on the answers of controllers. *)
IntoHttpOk(holds) == [body |-> holds, sid |-> told /\ result.ok, id |-> FALSE, status |-> 200]

IntoHttp(holds) == [body |-> holds, sid |-> told, id |-> FALSE, status |-> 200]

(* A message carries path, id and heads, but for an answer made by hand and *)
(* that of an error, which go out as they are.                              *)
IntoMessage(holds) ==
  LET bare == holds = "raw" \/ ~ result.ok
  IN  [body |-> holds, sid |-> told /\ ~ bare, id |-> request.id # Nil /\ ~ bare, status |-> 200]

(* The new id is a last line of the text. *)
IntoText(holds) == [body |-> holds, sid |-> told, id |-> FALSE, status |-> 200]

Into(holds) ==
  CASE proto = "http"   -> IntoHttp(holds)
    [] proto = "framed" -> IntoMessage(holds)
    [] proto = "cli"    -> IntoText(holds)

(* code as u16 *)
Narrowed(code) == code % 65536

(* from_u16 of the code of an openly error below 600, 503 when it is none. *)
Status(error) ==
  IF error.open /\ error.code < 600
    THEN IF Narrowed(error.code) \in 100..999 THEN Narrowed(error.code) ELSE 503
    ELSE 200

(* err_into, and the status over HTTP *)
HandleResult ==
  /\ stage = "result"
  /\ stage' = "over"
  /\ out' = IF ~ Responds THEN Nil
            ELSE IF result.ok THEN Into(IF resp = Nil THEN "none" ELSE resp)
            ELSE IF proto = "http"
              THEN [Into(ToResponsible(result)) EXCEPT !.status = Status(result)]
              ELSE Into(ToResponsible(result))
  /\ UNCHANGED <<vars, held, told, resp, seen, result>>

(* The answer is sent, or the task of the request is gone. *)
Done ==
  /\ stage = "over" \/ at = "panic"
  /\ Respond
  /\ stage' = "off"
  /\ held' = FALSE /\ told' = FALSE /\ resp' = Nil /\ seen' = Nil /\ result' = Nil /\ out' = Nil

-----------------------------------------------------------------------------

PipeInit ==
  /\ Init
  /\ stage = "off" /\ held = FALSE /\ told = FALSE /\ resp = Nil /\ seen = Nil
  /\ result = Nil /\ out = Nil

Serve ==
  \/ NotRouted \/ Before \/ ReadBody \/ ReadDto \/ ReadBodyPanics \/ ReadSuffix \/ SetSid
  \/ Return \/ Raise \/ After \/ HandleResult

Route == (Build \/ Step) /\ UNCHANGED <<stage, handleVars>>

PipeNext ==
  \/ Route \/ Serve \/ Done
  \/ \E raw \in Raws[proto] : Receive(raw) \/ ReceivePanics(raw)

Spec == PipeInit /\ [][PipeNext]_pipeVars

(* locate() is synchronous, and handlers and controllers return. *)
FairSpec == Spec /\ WF_pipeVars(Route) /\ WF_pipeVars(Serve)
-----------------------------------------------------------------------------
(* Properties *)

PipeTypeOK ==
  /\ stage \in {"off", "controller", "after", "result", "over"}
  /\ stage # "off" => at \in {"found", "404"}
  /\ held \in BOOLEAN /\ told \in BOOLEAN
  /\ resp \in {Nil, "dto", "raw"}
  /\ result \in {Nil, Fine, Openly(404)} \cup Errors
  /\ out \in {Nil} \cup Answers

Phase ==
  IF stage = "over" \/ at = "panic" THEN "over"
  ELSE IF stage = "result" THEN "decided"
  ELSE IF at \in {"new", "broken", "idle"} THEN "none" ELSE "pending"

Outcome ==
  IF result = Nil THEN Nil
  ELSE IF result.ok THEN "ok" ELSE IF result.open THEN "open" ELSE "closed"

Promise ==
  INSTANCE Exchange WITH
    Replies <- {"none", "dto", "raw"}, phase <- Phase, issued <- told, outcome <- Outcome,
    answer <- IF out = Nil THEN Nil ELSE [body |-> out.body, sid |-> out.sid]

(***************************************************************************)
(* handle() keeps the promise of Exchange: over HTTP every request that is *)
(* decided is answered and a new session id goes out with the answer,      *)
(* whatever fails after it was issued; the text of a closed error goes to  *)
(* nobody (handle_result, err_into, Into, to_responsible).                 *)
(***************************************************************************)
ImplementsExchange == Promise!Spec

(***************************************************************************)
(* The suffix a controller reads is the one by which the table found its   *)
(* route, as long as it has not taken the body (Context::suffix).          *)
(***************************************************************************)
SuffixFits ==
  (seen # Nil /\ held /\ path = request.path /\ Mapping(path) # <<>>) =>
    SuffixPath(OmittedPath(api.path), seen) = path

(***************************************************************************)
(* A request comes to an end, also behind a chain of redirects: it is      *)
(* answered, or deliberately left without an answer (locate, handle).      *)
(***************************************************************************)
Served == at = "lookup" ~> stage = "over" \/ at = "panic"
=============================================================================
